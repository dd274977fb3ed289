------------------------------- MODULE RelayNode -------------------------------
(***************************************************************************)
(* A relay node (core/src/overlay/relay): two bounded channels, the chunk  *)
(* and message processors that drain them, the statistics reporter and the *)
(* stream cleanup task, all sharing the streams map and the statistics     *)
(* behind two read-write locks.                                            *)
(*                                                                         *)
(* One action per stretch of code between two awaits that can suspend.     *)
(* The lock variables name the task that holds a lock across such an       *)
(* await; a lock taken and released within one stretch is only a guard.    *)
(* Payload, timestamps and byte counts are left out.  Every chunk comes in *)
(* with the publisher as its source; outbox shows the source it leaves     *)
(* with.  Hop removal is enabled (config.enable_hop_removal).              *)
(***************************************************************************)
EXTENDS StreamRelay, FiniteSets

CONSTANTS
    Streams, Peers,
    LocalPeer,        \* local_peer_id of this relay
    Publisher,        \* the publisher of the streams, the source of their chunks
    ChannelCapacity,  \* mpsc::channel(100)
    Kinds,            \* kinds of chunks published
    MaxSequence,      \* bound: chunks a publisher sends
    MaxMessages       \* bound: control messages sent

ASSUME RelayAssumption ==
    /\ LocalPeer # Publisher
    /\ ChannelCapacity \in Nat \ {0}
    /\ {MaxSequence, MaxMessages} \subseteq Nat

VARIABLES
    running,      \* the AtomicBool
    ctl,          \* where the caller of start and stop is
    doomed,       \* the tasks that abort() has been called for
    handler,      \* whether a chunk handler is set
    receivers,    \* who owns each channel's receiving end
    chunkQ, msgQ, \* the channels
    streams,      \* the streams map: a function on the streams present
    quiet,        \* streams without activity for longer than the timeout
    stats,        \* active_streams, connected_peers, chunks_relayed
    streamsLock, statsLock,
    pc,           \* where each task is
    hand,         \* what each processor is working on
    outbox,       \* peer and chunk source in the last call of the chunk handler
    published, messages  \* chunks and messages accepted so far

vars == <<running, ctl, doomed, handler, receivers, chunkQ, msgQ, streams, quiet, stats,
          streamsLock, statsLock, pc, hand, outbox, published, messages>>
control == <<running, ctl, doomed, handler, receivers>>
channels == <<chunkQ, msgQ, published, messages>>
locks == <<streamsLock, statsLock>>

Processors == {"chunks", "messages"}
Tasks == Processors \cup {"reporter", "cleanup"}
Free == "free"
Chunks == [stream : Streams, seq : 1..MaxSequence, kind : Kinds]
StopMessage == [op |-> "stop"]
Messages == [op : {"add_stream", "remove_stream"}, stream : Streams]
       \cup [op : {"add_subscriber", "remove_subscriber"}, stream : Streams, peer : Peers]
       \cup [op : {"request"}, stream : Streams, peer : Peers, since : 0..MaxSequence]
       \cup {StopMessage}

\* A processor's work: the message or chunk, the peers still to serve with
\* the chunk, the chunks still to send to a peer that asked, the streams still
\* to remove
NoHand == [chunk |-> <<>>, to |-> {}, reply |-> <<>>, msg |-> <<>>, expired |-> {}]

-----------------------------------------------------------------------------
(* start and stop; one caller *)

set_chunk_handler ==
    /\ ~running
    /\ ctl = "down"
    /\ ~handler
    /\ handler' = TRUE
    /\ UNCHANGED <<running, ctl, doomed, receivers, channels, streams, quiet, stats, locks, pc, hand, outbox>>

\* The receivers are taken out of their mutexes once; a second start finds none.
start_processors ==
    /\ ctl = "down"
    /\ ctl' = "processors"
    /\ LET here == {q \in Processors : receivers[q] = "node"} IN
       /\ receivers' = [q \in Processors |-> IF q \in here THEN "task" ELSE receivers[q]]
       /\ pc' = [t \in Tasks |-> IF t \in here THEN "recv" ELSE pc[t]]
    /\ UNCHANGED <<running, doomed, handler, channels, streams, quiet, stats, locks, hand, outbox>>

\* The runtime has dropped an aborted task by the time its successor is spawned.
start_stats_reporter ==
    /\ ctl = "processors"
    /\ pc["reporter"] = "gone"
    /\ doomed' = doomed \ {"reporter"}
    /\ ctl' = "reporter"
    /\ pc' = [pc EXCEPT !["reporter"] = "check"]
    /\ UNCHANGED <<running, handler, receivers, channels, streams, quiet, stats, locks, hand, outbox>>

start_stream_cleanup ==
    /\ ctl = "reporter"
    /\ pc["cleanup"] = "gone"
    /\ doomed' = doomed \ {"cleanup"}
    /\ ctl' = "cleanup"
    /\ pc' = [pc EXCEPT !["cleanup"] = "check"]
    /\ UNCHANGED <<running, handler, receivers, channels, streams, quiet, stats, locks, hand, outbox>>

\* The flag is set last: the tasks may have looked at it already.
start_done ==
    /\ ctl = "cleanup"
    /\ ctl' = "up"
    /\ running' = TRUE
    /\ UNCHANGED <<doomed, handler, receivers, channels, streams, quiet, stats, locks, pc, hand, outbox>>

\* The flag, and abort() for every task; nothing awaits their handles.
stop ==
    /\ ctl = "up"
    /\ ctl' = "stopping"
    /\ running' = FALSE
    /\ doomed' = Tasks
    /\ UNCHANGED <<handler, receivers, channels, streams, quiet, stats, locks, pc, hand, outbox>>

\* An aborted task ends at one of its next awaits and drops what it holds: its
\* locks, its work, and its receiver with what is queued there.
abort(t) ==
    /\ t \in doomed
    /\ pc[t] # "gone"
    /\ pc' = [pc EXCEPT ![t] = "gone"]
    /\ hand' = [hand EXCEPT ![t] = NoHand]
    /\ streamsLock' = IF streamsLock = t THEN Free ELSE streamsLock
    /\ statsLock' = IF statsLock = t THEN Free ELSE statsLock
    /\ receivers' = [q \in Processors |-> IF q = t THEN "dropped" ELSE receivers[q]]
    /\ chunkQ' = IF t = "chunks" THEN <<>> ELSE chunkQ
    /\ msgQ' = IF t = "messages" THEN <<>> ELSE msgQ
    /\ UNCHANGED <<running, ctl, doomed, handler, streams, quiet, stats, outbox, published, messages>>

\* The Stop message waits for room in the channel, unless its receiver is gone.
stop_done ==
    /\ ctl = "stopping"
    /\ ctl' = "down"
    /\ \/ receivers["messages"] = "dropped" /\ UNCHANGED msgQ
       \/ /\ receivers["messages"] # "dropped"
          /\ Len(msgQ) < ChannelCapacity
          /\ msgQ' = Append(msgQ, StopMessage)
    /\ UNCHANGED <<running, doomed, handler, receivers, chunkQ, published, messages, streams,
                   quiet, stats, locks, pc, hand, outbox>>

-----------------------------------------------------------------------------
(* Callers: bounded sends.  With the receiver dropped they return an error. *)

\* Mutant: an unbounded send
PublishUnbounded(c) ==
    /\ receivers["chunks"] # "dropped"
    /\ published < MaxSequence
    /\ c.seq = published + 1
    /\ published' = published + 1
    /\ chunkQ' = Append(chunkQ, c)
    /\ UNCHANGED <<control, msgQ, messages, streams, quiet, stats, locks, pc, hand, outbox>>

publish_chunk(c) ==
    /\ receivers["chunks"] # "dropped"
    /\ Len(chunkQ) < ChannelCapacity
    /\ published < MaxSequence
    /\ c.seq = published + 1
    /\ published' = published + 1
    /\ chunkQ' = Append(chunkQ, c)
    /\ UNCHANGED <<control, msgQ, messages, streams, quiet, stats, locks, pc, hand, outbox>>

\* add_stream, remove_stream, add_subscriber, remove_subscriber, request_chunks
send_message(m) ==
    /\ m # StopMessage
    /\ receivers["messages"] # "dropped"
    /\ Len(msgQ) < ChannelCapacity
    /\ messages < MaxMessages
    /\ messages' = messages + 1
    /\ msgQ' = Append(msgQ, m)
    /\ UNCHANGED <<control, chunkQ, published, streams, quiet, stats, locks, pc, hand, outbox>>

\* inactivity_timeout passes without a chunk for s
Elapse(s) ==
    /\ s \in DOMAIN streams \ quiet
    /\ quiet' = quiet \cup {s}
    /\ UNCHANGED <<control, channels, streams, stats, locks, pc, hand, outbox>>

-----------------------------------------------------------------------------
(* The chunk processor: process_chunk_internal *)

Goto(t, l) == pc' = [pc EXCEPT ![t] = l]

\* A processor that receives something while the node is not running leaves its
\* loop for good; the receiver and all that is queued go with it.
GiveUp(t) == Goto(t, "gone") /\ receivers' = [receivers EXCEPT ![t] = "dropped"]

RecvChunk ==
    /\ pc["chunks"] = "recv"
    /\ chunkQ # <<>>
    /\ IF running
       THEN /\ Goto("chunks", "stats")
            /\ hand' = [hand EXCEPT !["chunks"].chunk = <<Head(chunkQ)>>]
            /\ chunkQ' = Tail(chunkQ)
            /\ UNCHANGED receivers
       ELSE GiveUp("chunks") /\ chunkQ' = <<>> /\ UNCHANGED hand
    /\ UNCHANGED <<running, ctl, doomed, handler, msgQ, published, messages, streams, quiet, stats,
                   locks, outbox>>

\* Mutant: only chunks of known streams are counted
RecordKnown ==
    /\ pc["chunks"] = "stats"
    /\ statsLock = Free
    /\ stats' = IF Head(hand["chunks"].chunk).stream \in DOMAIN streams
                THEN [stats EXCEPT !.chunks_relayed = @ + 1] ELSE stats
    /\ Goto("chunks", "buffer")
    /\ UNCHANGED <<control, channels, streams, quiet, locks, hand, outbox>>

\* record_chunk_for_stream counts the chunk before the stream is looked up
RecordChunk ==
    /\ pc["chunks"] = "stats"
    /\ statsLock = Free
    /\ stats' = [stats EXCEPT !.chunks_relayed = @ + 1]
    /\ Goto("chunks", "buffer")
    /\ UNCHANGED <<control, channels, streams, quiet, locks, hand, outbox>>

BufferChunk ==
    /\ pc["chunks"] = "buffer"
    /\ streamsLock = Free
    /\ LET c == Head(hand["chunks"].chunk) IN
       IF c.stream \in DOMAIN streams
       THEN /\ streams' = [streams EXCEPT ![c.stream] = add_chunk(@, c)]
            /\ quiet' = quiet \ {c.stream}
            /\ hand' = [hand EXCEPT !["chunks"].to =
                           IF handler THEN streams[c.stream].subscribers ELSE {}]
            /\ Goto("chunks", "deliver")
       ELSE /\ hand' = [hand EXCEPT !["chunks"] = NoHand]
            /\ Goto("chunks", "recv")
            /\ UNCHANGED <<streams, quiet>>
    /\ UNCHANGED <<control, channels, stats, locks, outbox>>

\* One handler call per subscriber of the snapshot, with hop removal; a handler
\* error is logged and the loop goes on.
DeliverChunk(p) ==
    /\ pc["chunks"] = "deliver"
    /\ p \in hand["chunks"].to
    /\ hand' = [hand EXCEPT !["chunks"].to = @ \ {p}]
    /\ outbox' = [to |-> p, source |-> LocalPeer]
    /\ UNCHANGED <<control, channels, streams, quiet, stats, locks, pc>>

ChunkDone ==
    /\ pc["chunks"] = "deliver"
    /\ hand["chunks"].to = {}
    /\ hand' = [hand EXCEPT !["chunks"] = NoHand]
    /\ Goto("chunks", "recv")
    /\ UNCHANGED <<control, channels, streams, quiet, stats, locks, outbox>>

-----------------------------------------------------------------------------
(* The message processor *)

RecvMessage ==
    /\ pc["messages"] = "recv"
    /\ msgQ # <<>>
    /\ IF running /\ Head(msgQ) # StopMessage
       THEN /\ Goto("messages", "apply")
            /\ hand' = [hand EXCEPT !["messages"].msg = <<Head(msgQ)>>]
            /\ msgQ' = Tail(msgQ)
            /\ UNCHANGED receivers
       ELSE GiveUp("messages") /\ msgQ' = <<>> /\ UNCHANGED hand
    /\ UNCHANGED <<running, ctl, doomed, handler, chunkQ, published, messages, streams, quiet, stats,
                   locks, outbox>>

Without(f, s) == [x \in DOMAIN f \ {s} |-> f[x]]
With(f, s, v) == [x \in DOMAIN f \cup {s} |-> IF x = s THEN v ELSE f[x]]

\* The streams map after message m, and whether the statistics are to follow
\* (the error returns change nothing)
Applied(m) ==
    LET known == m.stream \in DOMAIN streams IN
    CASE m.op = "add_stream" /\ ~known ->
            <<With(streams, m.stream, NewRelay), TRUE>>
      [] m.op = "remove_stream" /\ known ->
            <<Without(streams, m.stream), TRUE>>
      [] m.op = "add_subscriber" /\ known ->
            <<[streams EXCEPT ![m.stream].subscribers = @ \cup {m.peer}], TRUE>>
      [] m.op = "remove_subscriber" /\ known ->
            <<[streams EXCEPT ![m.stream].subscribers = @ \ {m.peer}],
              m.peer \in streams[m.stream].subscribers>>
      [] OTHER -> <<streams, FALSE>>

\* The *_internal functions: change the map under the streams lock and keep the
\* lock while waiting for the statistics.
ApplyMessage ==
    /\ pc["messages"] = "apply"
    /\ streamsLock = Free
    /\ LET m == Head(hand["messages"].msg) IN
       IF m.op = "request"
       THEN /\ hand' = [hand EXCEPT !["messages"].reply =
                 IF handler /\ m.stream \in DOMAIN streams
                 THEN get_chunks_since(streams[m.stream], m.since) ELSE <<>>]
            /\ Goto("messages", "reply")
            /\ UNCHANGED <<streams, quiet, streamsLock>>
       ELSE /\ streams' = Applied(m)[1]
            /\ quiet' = quiet \cap DOMAIN streams'
            /\ IF Applied(m)[2]
               THEN /\ streamsLock' = "messages"
                    /\ Goto("messages", "stats")
                    /\ UNCHANGED hand
               ELSE /\ hand' = [hand EXCEPT !["messages"] = NoHand]
                    /\ Goto("messages", "recv")
                    /\ UNCHANGED streamsLock
    /\ UNCHANGED <<control, channels, stats, statsLock, outbox>>

\* connected_peers counts every AddSubscriber, repeated ones too
CountMessage ==
    /\ pc["messages"] = "stats"
    /\ statsLock = Free
    /\ LET m == Head(hand["messages"].msg) IN
       stats' = CASE m.op = "add_subscriber" -> [stats EXCEPT !.connected_peers = @ + 1]
                  [] m.op = "remove_subscriber" ->
                        [stats EXCEPT !.connected_peers = IF @ > 0 THEN @ - 1 ELSE @]
                  [] OTHER -> [stats EXCEPT !.active_streams = Cardinality(DOMAIN streams)]
    /\ streamsLock' = Free
    /\ hand' = [hand EXCEPT !["messages"] = NoHand]
    /\ Goto("messages", "recv")
    /\ UNCHANGED <<control, channels, streams, quiet, statsLock, outbox>>

\* handle_request_chunks_internal sends the buffered chunks as they are
Reply ==
    /\ pc["messages"] = "reply"
    /\ hand["messages"].reply # <<>>
    /\ outbox' = [to |-> Head(hand["messages"].msg).peer, source |-> Publisher]
    /\ hand' = [hand EXCEPT !["messages"].reply = Tail(@)]
    /\ UNCHANGED <<control, channels, streams, quiet, stats, locks, pc>>

\* All sent, or the handler failed and the rest is given up
ReplyDone ==
    /\ pc["messages"] = "reply"
    /\ hand' = [hand EXCEPT !["messages"] = NoHand]
    /\ Goto("messages", "recv")
    /\ UNCHANGED <<control, channels, streams, quiet, stats, locks, outbox>>

-----------------------------------------------------------------------------
(* The statistics reporter and the stream cleanup *)

\* The head of either loop: running is read, then the ticker awaited
LoopHead(t) ==
    /\ t \in {"reporter", "cleanup"}
    /\ pc[t] = "check"
    /\ Goto(t, IF running THEN "tick" ELSE "gone")
    /\ UNCHANGED <<control, channels, streams, quiet, stats, locks, hand, outbox>>

\* The statistics lock first, and then the streams
ReportLock ==
    /\ pc["reporter"] = "tick"
    /\ statsLock = Free
    /\ statsLock' = "reporter"
    /\ Goto("reporter", "report")
    /\ UNCHANGED <<control, channels, streams, quiet, stats, streamsLock, hand, outbox>>

\* Mutant: the statistics guard outlives the iteration
ReportKeepsGuard ==
    /\ pc["reporter"] = "report"
    /\ streamsLock = Free
    /\ Goto("reporter", "check")
    /\ UNCHANGED <<control, channels, streams, quiet, stats, locks, hand, outbox>>

Report ==
    /\ pc["reporter"] = "report"
    /\ streamsLock = Free
    /\ stats' = [stats EXCEPT
          !.active_streams = Cardinality(DOMAIN streams),
          !.connected_peers = Cardinality(
              UNION {{Publisher} \cup streams[s].subscribers : s \in DOMAIN streams})]
    /\ statsLock' = Free
    /\ Goto("reporter", "check")
    /\ UNCHANGED <<control, channels, streams, quiet, streamsLock, hand, outbox>>

FindInactive ==
    /\ pc["cleanup"] = "tick"
    /\ streamsLock = Free
    /\ hand' = [hand EXCEPT !["cleanup"].expired = quiet]
    /\ Goto("cleanup", "remove")
    /\ UNCHANGED <<control, channels, streams, quiet, stats, locks, outbox>>

\* The list is a snapshot: the stream may be active again, or gone.
RemoveInactive(s) ==
    /\ pc["cleanup"] = "remove"
    /\ streamsLock = Free
    /\ s \in hand["cleanup"].expired
    /\ hand' = [hand EXCEPT !["cleanup"].expired = @ \ {s}]
    /\ IF s \in DOMAIN streams
       THEN /\ streams' = Without(streams, s)
            /\ quiet' = quiet \ {s}
            /\ streamsLock' = "cleanup"
            /\ Goto("cleanup", "stats")
       ELSE UNCHANGED <<streams, quiet, streamsLock, pc>>
    /\ UNCHANGED <<control, channels, stats, statsLock, outbox>>

\* Mutant: the cleanup does not count
RemovedNotCounted ==
    /\ pc["cleanup"] = "stats"
    /\ streamsLock' = Free
    /\ Goto("cleanup", "remove")
    /\ UNCHANGED <<control, channels, streams, quiet, stats, statsLock, hand, outbox>>

CountRemoved ==
    /\ pc["cleanup"] = "stats"
    /\ statsLock = Free
    /\ stats' = [stats EXCEPT !.active_streams = Cardinality(DOMAIN streams)]
    /\ streamsLock' = Free
    /\ Goto("cleanup", "remove")
    /\ UNCHANGED <<control, channels, streams, quiet, statsLock, hand, outbox>>

CleanupDone ==
    /\ pc["cleanup"] = "remove"
    /\ hand["cleanup"].expired = {}
    /\ Goto("cleanup", "check")
    /\ UNCHANGED <<control, channels, streams, quiet, stats, locks, hand, outbox>>

-----------------------------------------------------------------------------
Init ==
    /\ running = FALSE
    /\ ctl = "down"
    /\ doomed = {}
    /\ handler = FALSE
    /\ receivers = [q \in Processors |-> "node"]
    /\ chunkQ = <<>> /\ msgQ = <<>>
    /\ streams = [s \in {} |-> NewRelay]
    /\ quiet = {}
    /\ stats = [active_streams |-> 0, connected_peers |-> 0, chunks_relayed |-> 0]
    /\ streamsLock = Free /\ statsLock = Free
    /\ pc = [t \in Tasks |-> "gone"]
    /\ hand = [t \in Tasks |-> NoHand]
    /\ outbox = [to |-> LocalPeer, source |-> LocalPeer]
    /\ published = 0 /\ messages = 0

ChunkTask == \/ RecvChunk \/ RecordChunk \/ BufferChunk \/ ChunkDone
             \/ \E p \in Peers : DeliverChunk(p)
MessageTask == RecvMessage \/ ApplyMessage \/ CountMessage \/ Reply \/ ReplyDone
ReporterTask == LoopHead("reporter") \/ ReportLock \/ Report
CleanupTask == \/ LoopHead("cleanup") \/ FindInactive \/ CountRemoved \/ CleanupDone
               \/ \E s \in Streams : RemoveInactive(s)

Caller == \/ set_chunk_handler
          \/ start_processors \/ start_stats_reporter \/ start_stream_cleanup \/ start_done
          \/ stop \/ stop_done \/ \E t \in Tasks : abort(t)
          \/ \E c \in Chunks : publish_chunk(c)
          \/ \E m \in Messages : send_message(m)

Next == Caller \/ ChunkTask \/ MessageTask \/ ReporterTask \/ CleanupTask
        \/ \E s \in Streams : Elapse(s)

\* The runtime polls every task that can go on; tokio's locks are fair, so a
\* task that waits for a lock that keeps being released gets it.
Fairness == /\ SF_vars(ChunkTask) /\ SF_vars(MessageTask)
            /\ SF_vars(ReporterTask) /\ SF_vars(CleanupTask)
            /\ WF_vars(start_stats_reporter \/ start_stream_cleanup \/ start_done
                       \/ stop_done \/ \E t \in Tasks : abort(t))

Spec == Init /\ [][Next]_vars /\ Fairness

-----------------------------------------------------------------------------
(* Properties *)

TypeOK ==
    /\ running \in BOOLEAN /\ handler \in BOOLEAN
    /\ ctl \in {"down", "processors", "reporter", "cleanup", "up", "stopping"}
    /\ doomed \subseteq Tasks
    /\ receivers \in [Processors -> {"node", "task", "dropped"}]
    /\ chunkQ \in Seq(Chunks) /\ Len(chunkQ) <= ChannelCapacity
    /\ msgQ \in Seq(Messages) /\ Len(msgQ) <= ChannelCapacity
    /\ DOMAIN streams \subseteq Streams
    /\ quiet \subseteq DOMAIN streams
    /\ streamsLock \in {Free, "messages", "cleanup"}
    /\ statsLock \in {Free, "reporter"}
    /\ pc \in [Tasks -> {"gone", "recv", "stats", "buffer", "deliver", "apply", "reply",
                         "check", "tick", "report", "remove"}]

\* While the node has not been stopped, active_streams is the number of streams
\* whenever no task is between changing the map and counting it, although three
\* tasks update the count.
StatsAgree ==
    streamsLock = Free /\ "messages" \notin doomed /\ receivers["messages"] # "dropped" =>
        stats.active_streams = Cardinality(DOMAIN streams)

\* No accepted chunk is lost or counted twice while the chunk channel is open: it
\* is in the channel, in the hands of the processor, or in chunks_relayed.
InHand == IF pc["chunks"] = "stats" THEN 1 ELSE 0
ChunksConserved ==
    receivers["chunks"] # "dropped" =>
        published = Len(chunkQ) + InHand + stats.chunks_relayed

\* The lock cycle: the reporter holds the statistics and waits for the streams,
\* a task that changed the map holds the streams and waits for the statistics.
LockCycle == /\ statsLock = "reporter" /\ pc["reporter"] = "report"
             /\ streamsLock # Free

\* Backpressure always ends: a full chunk channel is drained again, unless the
\* node is stopped or the two locks are held crosswise.
ChannelDrains ==
    (running /\ pc["chunks"] # "gone" /\ Len(chunkQ) = ChannelCapacity)
        ~> (Len(chunkQ) < ChannelCapacity \/ ~running \/ LockCycle)

\* "All components are designed to be thread-safe, allowing them to be shared
\* across async tasks" (core/src/overlay/README.md:67): the tasks of a relay node
\* never wait for each other for ever.
NeverStuck == [](LockCycle => <>~LockCycle)
=============================================================================
