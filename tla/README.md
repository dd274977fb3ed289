# A TLA+ verification of OpenBroadcastNetwork

OpenBroadcastNetwork streams live video from a publisher to many viewers over
peers that relay it. This directory holds TLA+ specifications of its core
(`core/src`) and of its node programs (`node/src`), TLC models that check them on
small instances, and TLAPS proofs of their main invariants for every value of the
constants. `PROJECT.json` maps every definition to the lines it models.

## 1. The system and its parts

| Part | State | Operations | Interacts with |
|---|---|---|---|
| Distribution tree, `overlay/tree.rs` | nodes with parent, children, depth and metrics; the source; a cache of disconnected nodes | add, remove, disconnect, reconnect, metrics, rebalance | called by the topology manager under its `trees` lock |
| Topology manager, `overlay/topology/` | trees, peers, connection health, each behind its own lock | joins and leaves, periodic rebalance, health records | owned by the relay node |
| Relay of a stream, `overlay/relay/stream.rs` | chunk buffer, keyframe list, initialization segment, subscribers | add a chunk, catch-up, chunks since | owned by the relay node |
| Relay node, `overlay/relay/node.rs` | two bounded channels, streams map, statistics, four tasks | start, stop, publish, five control messages | fed by the overlay's event handler; hands chunks to a handler |
| libp2p overlay, `overlay/libp2p/` | swarm behind a mutex, peers, streams, queue of events | worker loop, connect, publish, subscribe | everything else |
| Publisher and P2P bridge, `media/publisher.rs`, `media/p2p_bridge.rs` | next segment; subscriptions, running flag | publish a file; subscribe, run, stop | overlay at both ends |
| Stream discovery, `discovery/stream_discovery.rs` | own streams, cache, running flag | announce, remove, process, expire, spawn, stop | called by the web server; gossip between nodes |
| Peer discovery, `discovery/{mod,dht,bootstrap}.rs` | two mechanisms behind mutexes, caches, event channels, a worker | start, stop, announce, look up, refresh, expire | libp2p swarms of its own |
| Bootstrap server, `node/src/bootstrap_server.rs` | tracked peers with expiry, DHT entries, topics | register, expire, join a mesh | nodes that connect |
| Message validation, `pubsub/validation.rs` | rate windows, last sequence numbers | validate | publish-subscribe service |
| Moderation, `moderation/` | block list, whitelist, flags, a file | changes, import, export, automatic persistence | called by web server and overlay; loaded at start-up |
| MP4 and segments, `media/{mp4_parser,fmp4_converter,segment,wire_format}.rs` | boxes, tracks, sample tables, the converter's decode time | parse, fragment, make initialization segments, convert | publisher and web server |
| Web server, `node/src/web_server.rs` | streaming flag, samples, broadcast channel; connections, senders, rooms | start and stop, viewers, browser relays; signalling; moderation | all of the above |
| Browser client, `ui/src/typescript/core/` | connection state, queues, source buffers | connect, reconnect, queue, append | web server |

`PROJECT.json` lists all components, the small ones too, with what is modelled.

**What is hard here.** Locks taken one after the other by tasks that share two or
three maps, and held across awaits; state read under one lock and used under another;
loops over a copy that others change meanwhile; bounded channels whose reader may be
gone; tasks that outlive the call that started them; announcements and segments that
arrive late, twice, damaged or never; starts that fail half way; crashes between a
change and its file; and files whose tables contradict each other. "hazards" in
`PROJECT.json` has them one by one, at their lines, with the properties that would
catch each going wrong, or a note that says why there is none.

## 2. Modules

Throughout, an action is a stretch of code between two awaits that can suspend, and a
lock is part of the state only where it is held across such an await.

### StreamTree

`tree.rs`, and the operations of `topology/manager.rs` that drive it. The manager
holds the write lock on the trees for a whole operation; the loops of an operation
run over hash sets, hence in any order. Each iteration is a step, and `job` says in
which loop the lock holder is. An operation starts only when `job` is `Idle`.

| Code | Model |
|---|---|
| `StreamTree.nodes` | `nodes`; the fields `parent`, `children`, `depth` as functions, the others in `attr` |
| `disconnected_nodes` | `cached`, a function from the peers put away to the depth and `attr` of their node |
| `find_parent_for_peer` | `BestParents`, `FindParent` |
| `adjust_fan_out` | `QualityAdjusted`, `Clamp`, `FanOuts` |
| `remove_peer`, `handle_temporary_disconnect` | `TakeOut`, then `Reparent` for each child |
| `rebalance` | `StartRebalance`, `PickOverloaded`, `MoveChild`, `StartAdoption`, `Reparent` |

Connection quality is kept as the four bands its thresholds tell apart, latency as
whether it exceeds 200 ms, bandwidth as the number of 500 KB/s streams it carries.
Which of several eligible candidates scores best depends on where on Earth the peers
are and is a choice. A peer that was put away may come back in any way: through
`handle_reconnection`, or by joining anew and then reconnecting, which inserts the old
node over the new one. `replaced` remembers the peers this has happened to.

### StreamRelay, StreamHistory and RelayNode

`StreamRelay` has the operations of one stream's buffers as pure operators; `Sifting`,
which it shares with the MP4 modules, has what a loop that keeps some elements of a
sequence has kept after each round.
`StreamHistory` feeds them with every arrival order beside a full history.
`RelayNode` extends it with the channels, the four tasks, `start` and `stop`.
`streamsLock` and `statsLock` name the task that holds a lock across an await. `hand`
is what a task works on: the chunk, the snapshot of subscribers, the list of inactive
streams. `quiet` stands for the inactivity timeout. `stop` aborts
the tasks, sends a stop message and returns without awaiting them: `doomed` are the tasks
that are to go, each of which goes at a moment of its own (at one of its next awaits) and
drops its locks, its work and its receiver with it.

### Libp2pOverlay, P2PFeed and SegmentFeed

`Libp2pOverlay` is one node's overlay: `start`, `run_swarm` and `stop`, the worker that
polls the swarm and handles its events with the mutex held (`SwarmFree`), and the
callers that need the same mutex (`connect_peer_impl`, `subscribe_to_stream`, ...).
`peers`, `topics`, `streams` and `events` are the code's maps and queue; `conns` is how
many connections the swarm really has. The relay node's channels appear as counters,
because nothing in the repository starts the relay node that would take from them.

A second `start` of an overlay that is up spawns a second worker, and `stop` aborts only
the last one spawned, so `worker` is a function and one of them at a time has the swarm.

`P2PFeed` composes it with the publisher of another node, gossip that loses and
reorders, and the bridge whose loops take events from the overlay. Gossip also carries
what other peers send on the stream's topics: segments of their own, segments with a
wrong hash, and bytes that are none. What comes on the data topic is dropped when the
hash is wrong; what comes on the control topic becomes the same event and nobody looks
at its hash (`event_handlers.rs:305-318`). `strays` are the messages of others that a
bridge may take for segments: the good ones, and the corrupt ones on the control topic.
`SegmentFeed` is the abstract specification: viewers get only what was published or is a
stray, nothing twice, and media is published only after the header. `P2PFeed` implements
it under the mapping `delivered <- forwarded` (`FeedImplemented`).

### StreamDiscovery

Every node runs a caller (the web server), the service loop and any number of receivers
of gossip (`Receivers`: the web server has three places that take announcements from the
overlay). The limit of the cache is looked at under one lock and the entry made under
another, with other receivers in between. No lock is held across an await. `net` holds
every announcement ever gossiped: one may reach a node any number of times, late, or
never. `ended` is a history variable: when a stream was last removed.

### PeerDiscovery and BootstrapServer

`PeerDiscovery` has the manager (`ctl` is where its caller is), the DHT's swarm loop
and the bootstrap mechanism's refresh. Each start makes new instances of the
mechanisms and a new worker, numbered by the start, so that tasks of an earlier start
can live on; `aborted` remembers a start that failed half way. A mechanism and the
receiver of its channel live as long as the manager, a worker or the start that makes it
has it (`Kept`); when the last of them lets go, the events in the channel are dropped
(`Drop`), and `lost` counts them. `report` of a task is what it is about to send,
`reported` the peers whose event has been sent.
`BootstrapServer` is the rendezvous server: one loop, so every handler is one step.

### Validation

The composite validator as `GossipSubService` sets it up. `check_rate_limit` has the
code's fixed window over a clock `now`, `check_sequence` the last number of each track.
`passed` and `sent` are histories: when a source's messages were accepted, and when its
rate was looked at.

### Moderation

Requests run concurrently. A change is atomic, the export takes the three read locks
one by one and keeps them, the file is truncated and then written, and a write may
fail. `Crash` ends the process at any moment and starts it again from the file.
`active`, chosen at the start, is the set of requests that are ever made. `durable` and
`spoilt` are histories: the list last written without an error, and whether a write has
failed or died since.

### Signaling

One handler per connection, `pc` its place. A connection counts itself, may be refused,
registers its sender, joins rooms in five steps (`join_insert`, `join_stamp`,
`join_list`, `join_send_list`, `join_notify`), relays messages, leaves and cleans up.
Beside them run the administrator who blocks and kicks (`kick_rooms`, `kick_notify`,
`kick_remove`) and the idle cleanup. `heard` is what a peer has been told of others,
`lost` who missed a message because its channel was full. tokio's fair `RwLock` is
modelled: a waiting writer holds up later readers (`SendersReadFree`).

### WebStreaming

The stream manager with its start requests and playing tasks, listeners that share the
overlay's one event queue, viewers' sockets and the sockets of browser peers. A receiver
of tokio's broadcast channel has an `inbox` and the `lag` it has not been told of yet.
`mode` says whether the node has an overlay. From the overlay anything may come that was
published: initialization and media, metadata that is JSON, metadata that is not
(`bare`), and bytes that are no segment. `skipped` is a history of the metadata a
viewer's loop passed over.

### SampleTable, Mp4Tracks, Fmp4Converter, Segments and Mp4Parser

A file is a sequence of boxes, a box a record of its type, its length in bytes and what
the parser reads of it. A box may be cut short or have a size field that makes no sense.
The walks over boxes differ in what they do then, and the models keep that apart: those
of `Mp4Tracks` stop at a size below 8 (`Whole`), those that put a decode time into a
`moof` stop at 0 only and copy boxes of 1 to 7 bytes (`tiny`, `Passed`), and a `traf` of
that kind is an error. Readers that take a field at a fixed place without asking whether
the box is that long read what lies there: `room` and `span` are the bytes up to the end
of the parent and of the `trak`. So a `hdlr` that is too short is skipped, read from its
successor, or makes `track_has_handler_type` panic (`HandlerPanics`), and a short `tkhd`
or `trex` is passed over. A `tkhd` with 12 to 15 bytes is skipped twice; `skewed` are
the boxes the parser sees from there. That a failed `read_exact` moves the cursor to the
end is the behaviour of the toolchain the repository pins.

`SampleTable` has `resolve_sample_offsets` and the groups of pictures, `Mp4Tracks` the
tracks and the filtering of `moov` and `mvex`, `Fmp4Converter` the fragments with their
sizes, offsets and decode times, `Segments` the stream segments made from MSE segments,
with the track id cut to 8 bits, and `Mp4Parser` the parser as a state machine with its
error paths and panics. The width of a decode time (`U32Max`) is a constant so that it
overflows in a small file. The code's loops that add up, place samples, close groups and
make fragments are recursive functions (`RunningSums` has the sums), which give what the
loop has after each round and can be reasoned about; `RECURSIVE` is not used.

`FilesAssumption` says of the files what Rust's types and the layout of bytes say of
what is read from them: a box has a length, the content of one that holds boxes is a
sequence of them, the room of a whole box is at least its own length (`TypedBox`), and
the fields of a track and of its sample table are numbers. Two things are assumed of the
search for `tfhd`, which runs over all bytes of a `moof`: a box that overruns its `traf`
but not the `moof` hides no further `tfhd` or `traf`, and the first field of `mfhd` reads
as a size of 0, as it does for version 0 without flags. In a version 1 header the upper
half of the modification time is 0.

### MC modules

`MCStreamTree` bounds the number of operations, `MCStreamDiscovery` the calls and who
starts the service loop, `MCModeration` gives the lists to import, `MCSignaling` two
configurations, `MCMp4` the files. `MCRelay` and `MCPeerDiscovery` run components that
share no state in one model; the initial state chooses which one a behaviour is about.
In `MCWebStreaming` a behaviour has viewers or browser peers, not both: they meet only
in the broadcast channel, where each receiver is independent of the others. `MCP2PFeed`
has three nodes, each busy with one thing: a bridge with a publisher, a bridge with the
messages of other peers, and peers and callers without a bridge; a bridge with both
kinds of sender is left to the proof.

## 3. Runs

| Run | Checks | Bounds, and why they suffice |
|---|---|---|
| `tree` | `LinksConsistent`, `SourceIsRoot`, `RebalanceAdopts`, `TypeOK` | 4 peers, 7 operations, 1 metric report; limits 2 and 3 instead of 3 and 7, threshold 3: nodes fill up, shrink below their number of children, and joins trigger rebalances |
| `relay` | node: `ChunksConserved`, `StatsAgree`, `ChannelDrains`, `TypeOK`; buffers: `KeepsLatest`, `CatchupExact`; validator: `RateHonoured`, `RefusedForCause` | 1 stream, 1 subscriber, channels of 1, 2 chunks, 2 messages and 4 inputs in all, starts included: full channels, aborts and restarts at every point; 4 arrivals with 3 sequence numbers and buffers of 2; 6 messages within 5 ticks of a clock with 2 ticks a second and a limit of 1: two windows meet |
| `discovery` | `EndedExpires`, `StopEnds`, `TypeOK` | 2 nodes with 2 receivers each, 2 streams, a cache of 1, 2 calls: the cache is full, entries expire, removals meet rounds |
| `moderation` | `RestartFinds`, `SnapshotConsistent` | 2 requests, 1 crash, 1 peer, 1 stream with up to 2 flags, 1 list to import |
| `mp4` | `SamplesWhereTheyAre`, `SegmentsAreGops`, `TimelineContiguous`, `InitsSplitTheTracks`, `FragmentsRetimed` | every file of five families: up to 4 samples and 3 chunks with contradicting tables, two tracks in every combination with and without `mvex`, fragments with every order of boxes with none or two `tfhd` or `tfdt`, short ones and boxes of 1 to 7 bytes, short headers and handlers, truncated and misplaced boxes |
| `signaling` | `SlotsHonoured`, `RoomsInBounds`, `NobodyMissed`, `TypeOK` | 3 connections, 2 rooms, 3 requests, channels of 1, two configurations: refusals for each reason, two joins and a kick at once; peers and rooms are symmetric |
| `streaming` | `ViewerAccounts`, `StartReturns`, `ViewersEnd` | 2 starts, 1 viewer, 1 browser peer, channels of 1, 1 event of any kind from the overlay: every receiver lags |
| `feed` | `ListedIsConnected`, `FeedImplemented` | 1 remote peer with up to 2 connections, 3 segments, 2 loops, 2 starts, 1 message of another peer on any topic and of any form |
| `peer_discovery` | manager: `LostOnlyWhenReplaced`, `StopIsThorough`, `AnswersWereReported`, `StopReturns`, `TypeOK`; server: `DepartedForgotten` | 2 starts, 2 events, channels of 1; 2 nodes for a server of 1 |
| `relay_locks` | `NeverStuck`, violated | 1 message is enough |
| `swarm_held` | `SwarmReleased`, violated | a relay channel of 1, 2 subscriptions of a peer |
| `signaling_locks` | `EveryoneServed`, violated | 3 connections, 2 requests |

What the passing runs say:

- *`LinksConsistent`*: whatever is joined, removed, cached, restored or moved, a
  node's parent lists it and a node's children name it, also between the iterations
  of a loop; only the children a removed node leaves behind (`Limbo`) wait their turn,
  and a peer whose node a reconnection replaced leaves loose ends, in links to itself only.
- *`RebalanceAdopts`*: a rebalance that reaches its last loop leaves an orphan only
  when nobody else has room, although the orphans were listed before the first was adopted.
- *`ChunksConserved`*: an accepted chunk is in the channel, in the processor's
  hands or counted, as long as its channel is there; an aborted processor takes what it
  had with it.
- *`CatchupExact`*: of the chunks after the latest keyframe a late joiner gets all but the
  evicted ones, so the promise at `stream.rs:125` is kept until one of them is evicted.
- *`ChannelDrains`*: backpressure ends, except in the lock cycle of `relay_locks`.
- *`RateHonoured`*: the fixed window lets through at most twice the limit in any second,
  which is what such a window can promise; *`RefusedForCause`*: who is refused has sent
  the limit within the last second, whatever came in earlier windows.
- *`EndedExpires`*: after its owner has let go of a stream no copy of its
  announcement is younger than that moment; so nobody lists it longer than its time to live.
- *`SnapshotConsistent`*: an export is the state of one moment, since the read locks
  are kept; *`RestartFinds`*: with one request at a time a restart finds the list last
  saved, or nothing, and nothing only while a write is under way or after one has failed.
- *`SamplesWhereTheyAre`*, *`SegmentsAreGops`*, *`TimelineContiguous`*: whatever the
  tables say, samples are found where the chunks have them, the video is cut before every
  key frame and nowhere else, and the fragments form one timeline with correct offsets,
  also beyond 32 bits.
- *`FragmentsRetimed`*: of a file that is fragmented already, every `moof` with an `mdat`
  behind it is sent, in order; each `traf` has its `tfhd` first, relative to the `moof`
  where it is long enough to be made so, the decode time of the fragment's place, and its
  samples. *`InitsSplitTheTracks`*: the parser that lists the tracks and the splitter that
  makes an initialization segment for each kind read a `trak` with different code, and
  agree where it is well formed; the `mvex` follows the tracks, and nothing else of the
  `moov` is lost.
- *`SlotsHonoured`*, *`RoomsInBounds`*: the limits on connections, rooms and peers of a
  room hold and everything taken is given back, however refusals, departures and kicks
  overlap. *`NobodyMissed`*: two peers whose joins are through know of each other
  although entering, listing and announcing are separate steps.
- *`ViewerAccounts`*: what a viewer was sent, what is counted as dropped and the
  metadata passed over add up, in order, with lag reported late. *`StartReturns`*,
  *`ViewersEnd`*: without an overlay, starts return and viewers are let go in the end.
- *`FeedImplemented`*: the composition of publisher, gossip, overlay and bridge, with
  several, aborted and restarted workers, a bridge run twice and the messages of other
  peers, is a `SegmentFeed`.
- *`LostOnlyWhenReplaced`*: an event of a mechanism reaches the manager's channel although
  the worker's `select!` drops a branch, unless the mechanism is replaced first and no
  worker has it; *`StopIsThorough`*, *`StopReturns`*: stop
  returns and leaves nothing running, unless a start failed half way before.
- *`DepartedForgotten`*: the bootstrap server's places come back although a closed
  connection frees none.

What the violated ones show, each against a sentence of the repository (quoted in
`PROJECT.json`, "findings"): the relay's tasks can deadlock; the overlay's worker can
hold the swarm for ever, waiting in `add_subscriber` or `remove_subscriber` for room in a
channel that nobody drains (`event_handlers.rs:371-373`, `389-391`; a received chunk takes
the same way at 298); and signalling can stop for everyone. Each is a temporal
property under the fairness below, so the counterexample is a state from which no
scheduling leads away.

`CHECK_DEADLOCK FALSE` everywhere: the bounds let every behaviour end, and the
system may be idle. Deadlocks of the code are looked for as temporal properties instead.

**Fairness.** `RelayNode`: strong fairness of each task, because the runtime polls
every ready task and tokio's locks are first-come first-served, so a task waiting for
a lock that keeps being released gets it; weak fairness of `start` and `stop` once
begun. `Signaling`: weak fairness of a connection that is in the middle of a message
(`Progress`) and of a kick begun. `WebStreaming`: weak fairness of the manager's tasks,
of viewers that have something to receive and of the listeners. `Libp2pOverlay`: weak
fairness of the worker. `PeerDiscovery`: weak fairness of the workers, whose timers
fire, and of a stop begun. `BootstrapServer`: time passes and the cleanup's timer fires.
`StreamDiscovery`: weak fairness of the service loop. `StreamTree`: weak fairness of the
loops of an operation in progress, which no safety property uses. `Moderation`,
`Validation`, `Mp4Parser`: none. Callers, the network and gossip are never obliged to act.

## 4. Proofs

All proof modules are checked by TLAPS without gaps. They use only the named assumptions
on constants: `NoPeer` is not a peer, limits and capacities are natural numbers (some
positive) and ordered, streams have owners, streams and peers are finitely many,
imported lists are lists, the published stream is a stream with at least one media
segment, configurations are records of limits, files are typed as above.

Sums over sequences and what a loop computes need induction over data. The induction
theorems of the library take an operator and cannot be applied here, so the proofs derive
a form of their own from the well-foundedness of `<` (`NatSets`, `UpTo`: a set of naturals
that contains 0 and with each its successor contains all) and prove from it that the
recursive functions of the model exist and satisfy their equations.

**StreamTreeProofs.** `TypeCorrect`, `LinksAlwaysConsistent`, `SourceAlwaysRoot`,
`FanOutAlwaysBounded`. `LinksConsistent` is not inductive. Its strengthening `IInv` adds
that absent nodes have no links and no node is its own parent (otherwise a node joining
would arrive with links), that there are no links before there is a source, and what
each loop's list holds: the children of a removed node have left all lists of children,
orphans have no parent, and the children to move still belong to the node they are moved
from. A reconnection over a node that is there puts the peer into `replaced`, and every
link it breaks has that peer at one end. The source is nobody's child because a link is
only made for a child or an orphan, and neither list can contain it. `FanOutBounded` (a
consumer has no children and no node more than the absolute limit) is stated there and
needs, on top, finiteness of the sets of children and that a candidate is tested again
(`can_accept_children`) at the moment it receives a child; with the few peers of a run
no node could exceed the limit, so it is proved only. `RebalanceAlwaysAdopts` rests on
`AdoptInv`: nobody could take an orphan that the last loop has passed. Giving a child
only uses capacity up, so this stays true of the orphans already passed; and an orphan
that some node could take has a best candidate (`BestExists`, the finite set of nodes is
never without one) and is hung below it.

**RelayNodeProofs.** `TypesAlwaysHold`, `ChunksAlwaysConserved`, `StatsAlwaysAgree`.
`HandOK` says that the message processor has a message in hand when it works on one.
`LockInv` ties the streams lock to the places of its holders and a receiver to a task
that is there, so that a chunk is never taken by nobody. `AgreeInv` extends `StatsAgree`
to the moments in which a change of the subscribers, which leaves the number of streams
alone, holds the lock, and speaks of a message processor that is not `doomed` (`Live`).

The module has the proofs about the node's other two parts as well. `AlwaysKeepsLatest`
and `CatchupAlwaysExact` (`StreamHistory`): a chunk more shifts the suffix of the
history that the buffer is, and leaves the subsequence of the other kinds alone, by
induction over the history (`Sieve`); what a condition selects from the history is what
it selects from the evicted part followed by what it selects from the buffer
(`SiftedSplit`), which is the catch-up. `RateAlwaysHonoured` (`Validation`): a sender's
entry describes the window its last message fell into (`RateInv`, `Window`: the window
has counted what passed since it began, and at most the limit passed in it and in the
second before it), so that a second sees at most twice the limit.
`AlwaysRefusedForCause`: the count of a window is at most the number of messages sent
since it began (`SentInv`), and a window that refuses began within the last second.

**P2PFeedProofs.** `FeedRefined`: the initial states map to `FeedInit` and every step to
a step of `SegmentFeed` or a stutter. The inductive invariant is `OnePlace`: a number,
the publisher's or another peer's, is in at most one place, on its way, in the hands of
one worker, in the queue, in the hands of one loop, or forwarded. It needs `OneHolder`
(one worker at a time has the swarm, so no two have the same message) and `StrayInv`: what
is past the worker's test is garbage, published or a stray (`Taken`), and what is corrupt
on the data topic is not past it (`Kept`). With `PublisherInv` (segments are numbered
upwards and media follows a published header) a loop that forwards a segment forwards one
that was sent and not forwarded before. `AlwaysListedIsConnected` needs `ConnInv`: a peer
is listed as connected only by the worker that has just seen its connection, and an
event in the worker's hands agrees with the connections there are.

**SignalingProofs.** `TypesAlwaysHold`, `SlotsAlwaysHonoured` (`SlotInv`: the counter is
the number of connections let in and of those being refused), `RoomsAlwaysInBounds`
(`JoinInv` says where joins, leaves and kicks are; `EmptyIsBeingLeft` that a room is empty
only while the peer that left it has the lock) and `NobodyEverMissed` (`KnowInv`: of two
peers in a room each knows the other, or will by its own list, or by the announcement
the other is still to make).

**PeerDiscoveryProofs.** `TypesAlwaysHold`, `StopAlwaysThorough`,
`AnswersAlwaysReported`, `LostAlwaysWithReplaced`. `StopIsThorough` needs to know what
is alive at every stage of a start or a stop: `Living` says that only instances of the
latest start are, that all of the enabled ones are up while the manager runs, and which
are left between the steps of `stop`; it holds until a start fails half way. `Stages`
and `Untouched` (instances still to come have no task) hold for ever and carry the
argument through the next start. `AnswersWereReported` needs `Honest`: what the refresh
task is about to enter has been reported too, and `Quiet`: a task that reports nothing
has nothing in its report, so a new report forgets none. `LostOnlyWhenReplaced` has a
sum over all starts. A step changes what one start holds (`Held`) by one, and then the
sum by one (`TotalStep`); dropping a channel moves events within it. `FlowInv` adds that
a start still to come has no worker, which the next start could otherwise replace with
an event in its hands (`Idle`), and that a mechanism that lost events is behind the
manager for good (`Over`, `Fresh`), so that no later start makes it current again.

**MediaProofs.** About `Mp4Parser`, for all files that `FilesAssumption` admits:
`SamplesAlwaysWhereTheyAre`, `SegmentsAlwaysGops`, `TimelineAlwaysContiguous`,
`InitsAlwaysSplit`, `FragmentsAlwaysRetimed`. The state machine is simple and its loops
are not, so most of the argument is about what they compute.
- Placing samples: `WellPlaced` says of the samples after some chunks that there are as
  many as sizes and chunks account for and that each lies in its chunk; a chunk keeps
  that (`ChunkPlaced`), and `ChunkOf` finds the one chunk a sample is in (`OneChunk`).
- Grouping: `GopInv` says of the groups after some samples that they are disjoint, in order,
  start at key frames and cover everything up to the open group. In the end two samples are
  in one group exactly when no key frame lies between them (`MatesInOneGop`).
- Fragments: `FragInv` says that the segments so far are a `Timeline`, that the converter's
  number and decode time are those of its end, and that there is a segment for exactly the
  groups so far that lie in the payload (`Sampled`).
- The whole file: `ParserInv` says that the segments of a regular file are an
  initialization part, the video's timeline and the audio's (`Parts`); distinct track
  ids keep the two apart, and counting and adding up over all segments comes to the same
  as over the track's block (`BlockCounted`, `BlockTimeline`).
- Selecting boxes: sifting distributes over concatenation (`SiftedConcat`), sifting
  twice keeps the common part (`SiftedTwice`), and rewriting elements without changing
  which are kept commutes with it (`SiftedAlike`). So of a box made of kept, replaced
  and added boxes one knows every selection.
- Separate initialization segments: of a well formed `trak` both readers see the same header
  and handler (`IsPlain`). `IsSplit` says that a new `moov` is the old one's kept
  boxes with its `mvex` filtered, `SplitOff` that this is what `SplitsOff` asks. `InitsInv`
  adds that the boxes no longer change once there are initialization segments, so the last
  `moov` of the file stays the one they were made from.
- Fragments rewritten: `Refit` and `IsSent` say what the two passes over a `traf` leave
  of it, `PairRetimed` what they leave of a `moof`. `PairsPlaced` is the invariant of
  the loop over the boxes: as many segments as pairs so far, in order, each retimed to
  its number. `FragmentsInv` carries that to the end of the parser.

`AlwaysViewerAccounts` is about `WebStreaming`: `StreamingInv` gives each connected
viewer an account (delivered, passed over, dropped, waiting in the receiver and lagged
add up to what was sent, and the numbers in the inbox are the last ones sent), and each
step of sender, receiver and viewer moves a segment from one entry of it to another.
Without an overlay nothing is ever passed over (`LocalInv`).

**StreamDiscoveryProofs.** `TypeCorrect`, `CacheAlwaysBounded`, `EndedAlwaysExpires`.
The invariant adds provenance (a node announces only its own streams, and a receiver
works only on what was gossiped), for each of a node's receivers, that nothing is
stamped in the future, and `LateCaching`: a task about to cache a stream its owner has
removed meanwhile carries a stamp no later than the removal. `CacheBounded`, stated
there, rests on one test under the lock of the insertion, so it is proved for any number
of receivers and not run.

**ModerationProofs.** `TypeCorrect`, `RestartAlwaysFinds`, `SnapshotsAreConsistent`.
The invariant adds `Copies` (while an export is at its second or third lock, what it
copied is still what the manager holds, because it keeps the read locks) and `Alone`
(with one active request, what is being written is the memory, and the file is the list
last written or has been spoilt).

**Only model-checked.** Liveness (`ChannelDrains`, `StopEnds`, `StopReturns`,
`StartReturns`, `ViewersEnd`, `DepartedForgotten`) is out of the prover's reach. Every
invariant and every action property of a passing run is a theorem.

## 5. Known behaviours that no property forbids

The properties are stated so as to be true of the code as it is, which does the following.
The models contain all of it but the limit that nothing reads and the data offsets of a
fragment that is rewritten.

Against a comment of the repository:

- `overlay/tree.rs:450-452` leaves an orphan to "the next rebalance", which returns before
  it adopts anybody when nobody is overloaded or nobody has room to spare (661).
- `overlay/relay/stream.rs:125` promises a late joiner "the most recent keyframe and all
  chunks after it"; once one of these is evicted, there is a gap behind the keyframe.
- `pubsub/validation.rs:226-227` has duplicates ignored; only the last number of a track is
  kept, so 1, 2, 1 is accepted.
- `media/mp4_parser.rs:1980` says that each segment starts at a keyframe; the samples
  before the first key frame make one that does not, and it is marked `is_keyframe`
  (2089-2092, 2139).
- `web_server.rs:94-95` configures `max_signaling_peers`, "Max signaling peers across all
  streams"; nothing reads it.

Losses and wrong results:

- A tree whose re-parenting chose a descendant has a cycle. A peer that joined anew and
  then gets its old node back stays on its parent's list and forgets its children.
- Chunks served from the buffer on request keep the publisher as source.
- A re-announcement round brings back a stream removed meanwhile.
- Of two concurrent changes of the moderation lists the older export may be written last.
  A failed write is only logged, and what it leaves may not parse.
- A connected peer may be listed as connecting; two callers may exceed the bridge's stream
  limit; a second `start` leaves a worker that `stop` does not abort. A segment with a wrong
  hash reaches the viewers by the control topic, and a segment that names another stream
  than its topic is believed.
- A start of peer discovery that failed half way leaves a detached DHT loop; a start drops
  what is in the channels of the mechanisms it replaces, unless an old worker has them.
- Metadata that is not JSON is neither sent to a viewer nor counted as dropped
  (`web_server.rs:2138-2146`).
- The video-only `moov` made for fragmented files with AC-3 sound keeps no track, the
  video's included, because `is_video_track` reads the handler type four bytes too
  early. A short `hdlr` at the end of a `trak` makes the splitter panic
  (`mp4_parser.rs:3348-3353`).
- A `moof` grows by the 20 bytes of a new `tfdt`, or by 4 for a longer one, while its
  runs keep their data offset (2764-2863).
- Segment durations are in units of the timescale where `segment.rs:490-491` takes them for
  milliseconds; a track id is cut to 8 bits, and number 2 is taken for audio whatever it is.

## 6. Not modelled, and what could follow

Without behaviour to model, or unused by any program of the repository: codecs and
FFmpeg, cryptography, logging, display, protocol types, the archived overlay, the mesh
(created and never called), media buffer, quality and pipeline types, the publish-subscribe
service around the validator, the WebRTC and QUIC transports. Left out although they
run: the browser client and the web viewer, which are single-threaded code around the
browser's media and WebRTC events; the HTTP rate limiter, routing and answers; the
topology manager's peers map and connection health, which feed nothing; and the conversions
to and from wire segments, chunks and batches, which copy fields.

Next steps that would add most: the browser's WebSocket client with its timers against
`WebStreaming`; and the topology manager's two locks, which `remove_peer` and
`rebalance_stream` take in opposite orders.
