---------------------------- MODULE RelayNodeProofs ----------------------------
(***************************************************************************)
(* Proofs about what a relay does: RelayNode, for any streams, peers,      *)
(* capacities and bounds; StreamHistory, for any sizes of the buffers and  *)
(* any order of arrival; Validation, for any sources, tracks, sequence     *)
(* numbers and rates.                                                      *)
(***************************************************************************)
EXTENDS RelayNode, StreamHistory, Validation, FiniteSetTheorems, SequenceTheorems,
        NaturalsInduction, WellFoundedInduction, TLAPS

\* What the message processor can have in hand
Requests == Messages \ {StopMessage}

HandOK ==
    /\ hand = [t \in Tasks |-> hand[t]]
    /\ \A t \in Tasks : hand[t] = [chunk |-> hand[t].chunk, to |-> hand[t].to,
                                   reply |-> hand[t].reply, msg |-> hand[t].msg,
                                   expired |-> hand[t].expired]
    /\ hand["messages"].msg \in Seq(Requests)
    /\ pc["messages"] \in {"apply", "stats"} => hand["messages"].msg # <<>>

StatsOK ==
    /\ stats = [active_streams |-> stats.active_streams,
                connected_peers |-> stats.connected_peers,
                chunks_relayed |-> stats.chunks_relayed]
    /\ stats.chunks_relayed \in Nat /\ published \in Nat

\* Who holds the streams lock is between changing the map and counting it; a receiver
\* is with the node until the first start, and then with a task that is there; once
\* aborted, the message processor stays so
LockInv ==
    /\ streamsLock = "messages" <=> pc["messages"] = "stats"
    /\ streamsLock = "cleanup" <=> pc["cleanup"] = "stats"
    /\ \A q \in Processors : /\ receivers[q] = "node" => pc[q] = "gone" /\ ctl = "down"
                             /\ receivers[q] = "task" => pc[q] # "gone"
    /\ doomed = {} \/ "messages" \in doomed

LEMMA TaskNames ==
    /\ Tasks = {"chunks", "messages", "reporter", "cleanup"}
    /\ Processors = {"chunks", "messages"}
  BY DEF Tasks, Processors

LEMMA InitInv == Init => TypeOK /\ HandOK /\ StatsOK /\ LockInv
  <1> SUFFICES ASSUME Init PROVE TypeOK /\ HandOK /\ StatsOK /\ LockInv
    OBVIOUS
  <1>1. TypeOK
    <2>1. Len(<<>>) <= ChannelCapacity /\ <<>> \in Seq(Chunks) /\ <<>> \in Seq(Messages)
      BY RelayAssumption
    <2>2. chunkQ = <<>> /\ msgQ = <<>> /\ DOMAIN streams = {} /\ quiet = {}
      BY DEF Init
    <2>3. /\ receivers \in [Processors -> {"node", "task", "dropped"}]
          /\ pc \in [Tasks -> {"gone", "recv", "stats", "buffer", "deliver", "apply", "reply",
                               "check", "tick", "report", "remove"}]
      BY DEF Init
    <2>4. /\ running \in BOOLEAN /\ handler \in BOOLEAN /\ ctl = "down"
          /\ streamsLock = Free /\ statsLock = Free /\ doomed = {}
      BY DEF Init
    <2> QED
      BY <2>1, <2>2, <2>3, <2>4 DEF TypeOK
  <1>2. HandOK
    <2>1. hand = [t \in Tasks |-> NoHand] /\ pc["messages"] = "gone"
      BY TaskNames DEF Init
    <2>2. "messages" \in Tasks /\ <<>> \in Seq(Requests)
      BY TaskNames
    <2> QED
      BY <2>1, <2>2 DEF HandOK, NoHand
  <1>3. StatsOK
    BY DEF Init, StatsOK
  <1>4. LockInv
    BY TaskNames DEF Init, LockInv, Free
  <1> QED
    BY <1>1, <1>2, <1>3, <1>4

-----------------------------------------------------------------------------
(* What a control message does to the streams map *)

LEMMA AppliedFacts ==
    ASSUME TypeOK, NEW m \in Requests, m.op # "request"
    PROVE  /\ m.stream \in Streams
           /\ DOMAIN Applied(m)[1] \subseteq Streams
           /\ (m.op \in {"add_subscriber", "remove_subscriber"} \/ ~Applied(m)[2]) =>
                 DOMAIN Applied(m)[1] = DOMAIN streams
  <1>1. m.stream \in Streams
    BY DEF Requests, Messages
  <1> DEFINE known == m.stream \in DOMAIN streams
  <1>2. CASE m.op = "add_stream" /\ ~known
    <2>1. Applied(m) = <<With(streams, m.stream, NewRelay), TRUE>>
      BY <1>2 DEF Applied
    <2> QED
      BY <1>1, <1>2, <2>1 DEF With, TypeOK
  <1>3. CASE m.op = "remove_stream" /\ known
    <2>1. Applied(m) = <<Without(streams, m.stream), TRUE>>
      BY <1>3 DEF Applied
    <2> QED
      BY <1>1, <1>3, <2>1 DEF Without, TypeOK
  <1>4. CASE m.op = "add_subscriber" /\ known
    <2>1. Applied(m) = <<[streams EXCEPT ![m.stream].subscribers = @ \cup {m.peer}], TRUE>>
      BY <1>4 DEF Applied
    <2> QED
      BY <1>1, <2>1 DEF TypeOK
  <1>5. CASE m.op = "remove_subscriber" /\ known
    <2>1. Applied(m) = <<[streams EXCEPT ![m.stream].subscribers = @ \ {m.peer}],
                         m.peer \in streams[m.stream].subscribers>>
      BY <1>5 DEF Applied
    <2> QED
      BY <1>1, <2>1 DEF TypeOK
  <1>6. CASE ~(\/ m.op = "add_stream" /\ ~known
               \/ m.op \in {"remove_stream", "add_subscriber", "remove_subscriber"} /\ known)
    <2>1. Applied(m) = <<streams, FALSE>>
      BY <1>6 DEF Applied
    <2> QED
      BY <1>1, <2>1 DEF TypeOK
  <1> QED
    BY <1>2, <1>3, <1>4, <1>5, <1>6

-----------------------------------------------------------------------------
(* Types *)

LEMMA TypeCaller ==
    ASSUME TypeOK, HandOK, Caller
    PROVE  TypeOK' /\ HandOK'
  <1>1. CASE \/ set_chunk_handler \/ start_stats_reporter \/ start_stream_cleanup \/ start_done
             \/ stop
    <2>1. /\ UNCHANGED <<receivers, channels, streams, quiet, stats, locks, hand>>
          /\ running' \in BOOLEAN /\ handler' \in BOOLEAN /\ doomed' \subseteq Tasks
          /\ ctl' \in {"down", "processors", "reporter", "cleanup", "up", "stopping"}
          /\ \/ pc' = pc \/ pc' = [pc EXCEPT !["reporter"] = "check"]
             \/ pc' = [pc EXCEPT !["cleanup"] = "check"]
      BY <1>1 DEF TypeOK, set_chunk_handler, start_stats_reporter, start_stream_cleanup,
         start_done, stop
    <2>2. /\ pc' \in [Tasks -> {"gone", "recv", "stats", "buffer", "deliver", "apply", "reply",
                                "check", "tick", "report", "remove"}]
          /\ pc'["messages"] = pc["messages"]
      BY <2>1, TaskNames DEF TypeOK
    <2> QED
      BY <2>1, <2>2 DEF TypeOK, HandOK, channels, locks
  <1>2. CASE start_processors
    <2>1. /\ UNCHANGED <<running, doomed, handler, channels, streams, quiet, stats, locks, hand>>
          /\ ctl' = "processors"
          /\ receivers' \in [Processors -> {"node", "task", "dropped"}]
          /\ pc' \in [Tasks -> {"gone", "recv", "stats", "buffer", "deliver", "apply", "reply",
                                "check", "tick", "report", "remove"}]
          /\ pc'["messages"] \in {"recv", pc["messages"]}
      BY <1>2, TaskNames DEF TypeOK, start_processors
    <2> QED
      BY <2>1 DEF TypeOK, HandOK, channels, locks
  <1>3. ASSUME NEW t \in Tasks, abort(t) PROVE TypeOK' /\ HandOK'
    <2>1. <<>> \in Seq(Chunks) /\ <<>> \in Seq(Messages) /\ Len(<<>>) <= ChannelCapacity
      BY RelayAssumption
    <2>2. /\ chunkQ' \in {chunkQ, <<>>} /\ msgQ' \in {msgQ, <<>>}
          /\ streamsLock' \in {streamsLock, Free} /\ statsLock' \in {statsLock, Free}
          /\ receivers' \in [Processors -> {"node", "task", "dropped"}]
          /\ pc' = [pc EXCEPT ![t] = "gone"] /\ hand' = [hand EXCEPT ![t] = NoHand]
          /\ UNCHANGED <<running, ctl, doomed, handler, streams, quiet>>
      BY <1>3, TaskNames DEF TypeOK, abort
    <2>3. TypeOK'
      BY <2>1, <2>2 DEF TypeOK
    <2>4. HandOK'
      <3>1. \A u \in Tasks : hand'[u] = IF u = t THEN NoHand ELSE hand[u]
        BY <2>2 DEF HandOK
      <3>2. pc'["messages"] = IF t = "messages" THEN "gone" ELSE pc["messages"]
        BY <2>2, TaskNames DEF TypeOK
      <3>3. hand' = [u \in Tasks |-> hand'[u]]
        BY <2>2 DEF HandOK
      <3>4. /\ NoHand = [chunk |-> NoHand.chunk, to |-> NoHand.to, reply |-> NoHand.reply,
                         msg |-> NoHand.msg, expired |-> NoHand.expired]
            /\ NoHand.msg \in Seq(Requests)
        BY <2>1 DEF NoHand
      <3>5. \A u \in Tasks : hand'[u] = [chunk |-> hand'[u].chunk, to |-> hand'[u].to,
                                         reply |-> hand'[u].reply, msg |-> hand'[u].msg,
                                         expired |-> hand'[u].expired]
        BY <3>1, <3>4 DEF HandOK
      <3>6. /\ hand'["messages"].msg \in Seq(Requests)
            /\ pc'["messages"] \in {"apply", "stats"} => hand'["messages"].msg # <<>>
        BY <3>1, <3>2, <3>4, TaskNames DEF HandOK
      <3> QED
        BY <3>3, <3>5, <3>6 DEF HandOK
    <2> QED
      BY <2>3, <2>4
  <1>4. ASSUME NEW c \in Chunks, publish_chunk(c) PROVE TypeOK' /\ HandOK'
    <2>1. /\ UNCHANGED <<control, msgQ, streams, quiet, locks, pc, hand>>
          /\ chunkQ' = Append(chunkQ, c) /\ Len(chunkQ) < ChannelCapacity
      BY <1>4 DEF publish_chunk
    <2>2. chunkQ' \in Seq(Chunks) /\ Len(chunkQ') <= ChannelCapacity
      BY <2>1, RelayAssumption DEF TypeOK
    <2> QED
      BY <2>1, <2>2 DEF TypeOK, HandOK, control, locks
  <1>5. ASSUME NEW m \in Messages, send_message(m) PROVE TypeOK' /\ HandOK'
    <2>1. /\ UNCHANGED <<control, chunkQ, streams, quiet, locks, pc, hand>>
          /\ msgQ' = Append(msgQ, m) /\ Len(msgQ) < ChannelCapacity
      BY <1>5 DEF send_message
    <2>2. msgQ' \in Seq(Messages) /\ Len(msgQ') <= ChannelCapacity
      BY <2>1, RelayAssumption DEF TypeOK
    <2> QED
      BY <2>1, <2>2 DEF TypeOK, HandOK, control, locks
  <1>6. CASE stop_done
    <2>1. /\ UNCHANGED <<running, doomed, handler, receivers, chunkQ, streams, quiet, locks, pc, hand>>
          /\ ctl' = "down"
          /\ msgQ' = msgQ \/ (msgQ' = Append(msgQ, StopMessage) /\ Len(msgQ) < ChannelCapacity)
      BY <1>6 DEF stop_done
    <2>2. StopMessage \in Messages
      BY DEF Messages
    <2> HIDE DEF StopMessage
    <2>3. CASE msgQ' = msgQ
      BY <2>1, <2>3 DEF TypeOK, HandOK, locks
    <2>4. CASE msgQ' = Append(msgQ, StopMessage) /\ Len(msgQ) < ChannelCapacity
      <3>1. msgQ \in Seq(Messages) /\ Len(msgQ) \in Nat /\ ChannelCapacity \in Nat
        BY RelayAssumption DEF TypeOK
      <3>2. msgQ' \in Seq(Messages) /\ Len(msgQ') = Len(msgQ) + 1
        BY <2>2, <2>4, <3>1, AppendProperties
      <3>3. Len(msgQ') <= ChannelCapacity
        BY <2>4, <3>1, <3>2
      <3> QED
        BY <2>1, <3>2, <3>3 DEF TypeOK, HandOK, locks
    <2> QED
      BY <2>1, <2>3, <2>4
  <1> QED
    BY <1>1, <1>2, <1>3, <1>4, <1>5, <1>6 DEF Caller

\* Another task than the message processor goes on, and the map changes at most by a stream
LEMMA TypeMoved ==
    ASSUME TypeOK, HandOK, NEW t \in Tasks \ {"messages"},
           UNCHANGED <<running, ctl, doomed, handler, receivers, chunkQ, msgQ>>,
           DOMAIN streams' \subseteq Streams, quiet' \subseteq DOMAIN streams',
           streamsLock' \in {Free, "messages", "cleanup"}, statsLock' \in {Free, "reporter"},
           pc' = pc \/ \E l \in {"gone", "recv", "stats", "buffer", "deliver", "check", "tick",
                                 "report", "remove"} : Goto(t, l),
           \/ hand' = hand
           \/ hand' = [hand EXCEPT ![t] = NoHand]
           \/ \E x : hand' = [hand EXCEPT ![t].to = x]
           \/ \E x : hand' = [hand EXCEPT ![t].expired = x]
    PROVE  TypeOK' /\ HandOK'
  <1>1. TypeOK'
    BY DEF TypeOK, Goto
  <1>2. pc'["messages"] = pc["messages"]
    BY TaskNames DEF TypeOK, Goto
  <1>3. /\ \A u \in Tasks : u # t => hand'[u] = hand[u]
        /\ hand' = [u \in Tasks |-> hand'[u]]
        /\ hand'[t] = [chunk |-> hand'[t].chunk, to |-> hand'[t].to, reply |-> hand'[t].reply,
                       msg |-> hand'[t].msg, expired |-> hand'[t].expired]
    BY DEF HandOK, NoHand
  <1>4. HandOK'
    BY <1>2, <1>3, TaskNames DEF HandOK
  <1> QED
    BY <1>1, <1>4

LEMMA TypeChunks ==
    ASSUME TypeOK, HandOK, ChunkTask
    PROVE  TypeOK' /\ HandOK'
  <1>0. "chunks" \in Tasks \ {"messages"}
    BY TaskNames
  <1>1. CASE RecvChunk /\ running
    <2>1. /\ UNCHANGED <<running, ctl, doomed, handler, receivers, msgQ, streams, quiet, locks>>
          /\ Goto("chunks", "stats") /\ chunkQ # <<>> /\ chunkQ' = Tail(chunkQ)
          /\ hand' = [hand EXCEPT !["chunks"].chunk = <<Head(chunkQ)>>]
      BY <1>1 DEF RecvChunk
    <2>2. chunkQ' \in Seq(Chunks) /\ Len(chunkQ') <= ChannelCapacity
      BY <2>1, RelayAssumption DEF TypeOK
    <2>3. TypeOK'
      BY <2>1, <2>2 DEF TypeOK, Goto, locks
    <2>4. pc'["messages"] = pc["messages"]
      BY <2>1, TaskNames DEF TypeOK, Goto
    <2>5. /\ \A u \in Tasks : u # "chunks" => hand'[u] = hand[u]
          /\ hand' = [u \in Tasks |-> hand'[u]]
          /\ hand'["chunks"] = [chunk |-> hand'["chunks"].chunk, to |-> hand'["chunks"].to,
                                reply |-> hand'["chunks"].reply, msg |-> hand'["chunks"].msg,
                                expired |-> hand'["chunks"].expired]
      BY <2>1, <1>0 DEF HandOK
    <2> QED
      BY <2>3, <2>4, <2>5, TaskNames DEF HandOK
  <1>2. CASE RecvChunk /\ ~running
    <2>1. /\ UNCHANGED <<running, ctl, doomed, handler, msgQ, streams, quiet, locks, hand>>
          /\ Goto("chunks", "gone") /\ chunkQ' = <<>>
          /\ receivers' = [receivers EXCEPT !["chunks"] = "dropped"]
      BY <1>2 DEF RecvChunk, GiveUp
    <2>2. chunkQ' \in Seq(Chunks) /\ Len(chunkQ') <= ChannelCapacity
      BY <2>1, RelayAssumption
    <2>3. TypeOK'
      BY <2>1, <2>2, TaskNames DEF TypeOK, Goto, locks
    <2>4. pc'["messages"] = pc["messages"]
      BY <2>1, TaskNames DEF TypeOK, Goto
    <2> QED
      BY <2>1, <2>3, <2>4 DEF HandOK
  <1>3. CASE RecordChunk \/ ChunkDone \/ \E p \in Peers : DeliverChunk(p)
    <2>1. /\ UNCHANGED <<running, ctl, doomed, handler, receivers, chunkQ, msgQ, streams, quiet,
                         streamsLock, statsLock>>
          /\ pc' = pc \/ Goto("chunks", "buffer") \/ Goto("chunks", "recv")
          /\ \/ hand' = hand \/ hand' = [hand EXCEPT !["chunks"] = NoHand]
             \/ \E x : hand' = [hand EXCEPT !["chunks"].to = x]
      BY <1>3 DEF RecordChunk, ChunkDone, DeliverChunk, control, channels, locks
    <2>2. DOMAIN streams' \subseteq Streams /\ quiet' \subseteq DOMAIN streams'
          /\ streamsLock' \in {Free, "messages", "cleanup"} /\ statsLock' \in {Free, "reporter"}
      BY <2>1 DEF TypeOK
    <2> QED
      BY <1>0, <2>1, <2>2, TypeMoved
  <1>4. CASE BufferChunk
    <2>1. /\ UNCHANGED <<running, ctl, doomed, handler, receivers, chunkQ, msgQ, streamsLock, statsLock>>
          /\ Goto("chunks", "deliver") \/ Goto("chunks", "recv")
          /\ \/ hand' = [hand EXCEPT !["chunks"] = NoHand]
             \/ \E x : hand' = [hand EXCEPT !["chunks"].to = x]
          /\ DOMAIN streams' = DOMAIN streams /\ quiet' \subseteq quiet
      BY <1>4 DEF BufferChunk, control, channels, locks
    <2>2. DOMAIN streams' \subseteq Streams /\ quiet' \subseteq DOMAIN streams'
          /\ streamsLock' \in {Free, "messages", "cleanup"} /\ statsLock' \in {Free, "reporter"}
      BY <2>1 DEF TypeOK
    <2> QED
      BY <1>0, <2>1, <2>2, TypeMoved
  <1> QED
    BY <1>1, <1>2, <1>3, <1>4 DEF ChunkTask

LEMMA TypeTimers ==
    ASSUME TypeOK, HandOK, ReporterTask \/ CleanupTask \/ \E s \in Streams : Elapse(s)
    PROVE  TypeOK' /\ HandOK'
  <1>0. "reporter" \in Tasks \ {"messages"} /\ "cleanup" \in Tasks \ {"messages"}
    BY TaskNames
  <1>1. CASE ReporterTask
    <2>1. /\ UNCHANGED <<running, ctl, doomed, handler, receivers, chunkQ, msgQ, streams, quiet,
                         streamsLock, hand>>
          /\ statsLock' \in {statsLock, Free, "reporter"}
          /\ \E l \in {"gone", "tick", "report", "check"} : Goto("reporter", l)
      BY <1>1 DEF ReporterTask, LoopHead, ReportLock, Report, control, channels, locks
    <2>2. DOMAIN streams' \subseteq Streams /\ quiet' \subseteq DOMAIN streams'
          /\ streamsLock' \in {Free, "messages", "cleanup"} /\ statsLock' \in {Free, "reporter"}
      BY <2>1 DEF TypeOK
    <2> QED
      BY <1>0, <2>1, <2>2, TypeMoved
  <1>2. CASE LoopHead("cleanup") \/ FindInactive \/ CountRemoved \/ CleanupDone
    <2>1. /\ UNCHANGED <<running, ctl, doomed, handler, receivers, chunkQ, msgQ, streams, quiet,
                         statsLock>>
          /\ streamsLock' \in {streamsLock, Free}
          /\ \E l \in {"gone", "tick", "remove", "check"} : Goto("cleanup", l)
          /\ hand' = hand \/ \E x : hand' = [hand EXCEPT !["cleanup"].expired = x]
      BY <1>2 DEF LoopHead, FindInactive, CountRemoved, CleanupDone, control, channels, locks
    <2>2. DOMAIN streams' \subseteq Streams /\ quiet' \subseteq DOMAIN streams'
          /\ streamsLock' \in {Free, "messages", "cleanup"} /\ statsLock' \in {Free, "reporter"}
      BY <2>1 DEF TypeOK
    <2> QED
      BY <1>0, <2>1, <2>2, TypeMoved
  <1>3. ASSUME NEW s \in Streams, RemoveInactive(s) PROVE TypeOK' /\ HandOK'
    <2>1. /\ UNCHANGED <<running, ctl, doomed, handler, receivers, chunkQ, msgQ, statsLock>>
          /\ streamsLock' \in {streamsLock, "cleanup"}
          /\ pc' = pc \/ Goto("cleanup", "stats")
          /\ \E x : hand' = [hand EXCEPT !["cleanup"].expired = x]
          /\ \/ UNCHANGED <<streams, quiet>>
             \/ DOMAIN streams' = DOMAIN streams \ {s} /\ quiet' = quiet \ {s}
      BY <1>3 DEF RemoveInactive, Without, control, channels, locks
    <2>2. DOMAIN streams' \subseteq Streams /\ quiet' \subseteq DOMAIN streams'
          /\ streamsLock' \in {Free, "messages", "cleanup"} /\ statsLock' \in {Free, "reporter"}
      BY <2>1 DEF TypeOK
    <2> QED
      BY <1>0, <2>1, <2>2, TypeMoved
  <1>4. ASSUME NEW s \in Streams, Elapse(s) PROVE TypeOK' /\ HandOK'
    <2>1. /\ UNCHANGED <<running, ctl, doomed, handler, receivers, chunkQ, msgQ, streams, streamsLock,
                         statsLock, pc, hand>>
          /\ quiet' = quiet \cup {s} /\ s \in DOMAIN streams
      BY <1>4 DEF Elapse, control, channels, locks
    <2> QED
      BY <2>1 DEF TypeOK, HandOK
  <1> QED
    BY <1>1, <1>2, <1>3, <1>4 DEF CleanupTask

\* The message processor goes on with what it has, or is through with it
LEMMA HandMessages ==
    ASSUME HandOK,
           \/ hand' = hand /\ (pc'["messages"] \in {"apply", "stats"} =>
                                  pc["messages"] \in {"apply", "stats"})
           \/ hand' = [hand EXCEPT !["messages"] = NoHand]
              /\ pc'["messages"] \notin {"apply", "stats"}
           \/ (\E x : hand' = [hand EXCEPT !["messages"].reply = x])
              /\ pc'["messages"] \notin {"apply", "stats"}
           \/ \E m \in Requests : hand' = [hand EXCEPT !["messages"].msg = <<m>>]
    PROVE  HandOK'
  <1>0. "messages" \in Tasks /\ <<>> \in Seq(Requests)
    BY TaskNames
  <1>1. CASE hand' = hand /\ (pc'["messages"] \in {"apply", "stats"} =>
                                 pc["messages"] \in {"apply", "stats"})
    BY <1>1 DEF HandOK
  <1>2. CASE hand' # hand
    <2>1. /\ \A u \in Tasks : u # "messages" => hand'[u] = hand[u]
          /\ hand' = [u \in Tasks |-> hand'[u]]
          /\ hand'["messages"] = [chunk |-> hand'["messages"].chunk, to |-> hand'["messages"].to,
                                  reply |-> hand'["messages"].reply,
                                  msg |-> hand'["messages"].msg,
                                  expired |-> hand'["messages"].expired]
      BY <1>0, <1>2 DEF HandOK, NoHand
    <2>2. \/ hand'["messages"].msg = hand["messages"].msg
             /\ pc'["messages"] \notin {"apply", "stats"}
          \/ hand'["messages"].msg = <<>> /\ pc'["messages"] \notin {"apply", "stats"}
          \/ \E m \in Requests : hand'["messages"].msg = <<m>>
      <3>1. CASE hand' = [hand EXCEPT !["messages"] = NoHand]
                 /\ pc'["messages"] \notin {"apply", "stats"}
        BY <1>0, <3>1 DEF HandOK, NoHand
      <3>2. CASE (\E x : hand' = [hand EXCEPT !["messages"].reply = x])
                 /\ pc'["messages"] \notin {"apply", "stats"}
        BY <1>0, <3>2 DEF HandOK
      <3>3. ASSUME NEW m \in Requests, hand' = [hand EXCEPT !["messages"].msg = <<m>>]
            PROVE  hand'["messages"].msg = <<m>>
        BY <1>0, <3>3 DEF HandOK
      <3> QED
        BY <1>2, <3>1, <3>2, <3>3
    <2>3. \A m \in Requests : <<m>> \in Seq(Requests) /\ <<m>> # <<>>
      OBVIOUS
    <2>4. /\ hand'["messages"].msg \in Seq(Requests)
          /\ pc'["messages"] \in {"apply", "stats"} => hand'["messages"].msg # <<>>
      BY <1>0, <2>2, <2>3 DEF HandOK
    <2> QED
      BY <2>1, <2>4 DEF HandOK
  <1>3. CASE hand' = hand /\ pc'["messages"] \notin {"apply", "stats"}
    BY <1>3 DEF HandOK
  <1>4. CASE \E m \in Requests : hand' = hand /\ hand' = [hand EXCEPT !["messages"].msg = <<m>>]
    BY <1>0, <1>4 DEF HandOK
  <1> QED
    BY <1>1, <1>2, <1>3, <1>4

LEMMA TypeMessages ==
    ASSUME TypeOK, HandOK, MessageTask
    PROVE  TypeOK' /\ HandOK'
  <1>0. "messages" \in Tasks
    BY TaskNames
  <1>1. CASE RecvMessage /\ running /\ Head(msgQ) # StopMessage
    <2>1. /\ UNCHANGED <<running, ctl, doomed, handler, receivers, chunkQ, streams, quiet, locks>>
          /\ Goto("messages", "apply") /\ msgQ # <<>> /\ msgQ' = Tail(msgQ)
          /\ hand' = [hand EXCEPT !["messages"].msg = <<Head(msgQ)>>]
      BY <1>1 DEF RecvMessage
    <2>2. msgQ' \in Seq(Messages) /\ Len(msgQ') <= ChannelCapacity /\ Head(msgQ) \in Messages
      BY <2>1, RelayAssumption DEF TypeOK
    <2>4. Head(msgQ) \in Requests
      BY <1>1, <2>2 DEF Requests
    <2>3. TypeOK'
      BY <2>1, <2>2 DEF TypeOK, Goto, locks
    <2> QED
      BY <2>1, <2>3, <2>4, HandMessages
  <1>2. CASE RecvMessage /\ ~(running /\ Head(msgQ) # StopMessage)
    <2>1. /\ UNCHANGED <<running, ctl, doomed, handler, chunkQ, streams, quiet, locks, hand>>
          /\ Goto("messages", "gone") /\ msgQ' = <<>>
          /\ receivers' = [receivers EXCEPT !["messages"] = "dropped"]
      BY <1>2 DEF RecvMessage, GiveUp
    <2>2. msgQ' \in Seq(Messages) /\ Len(msgQ') <= ChannelCapacity
      BY <2>1, RelayAssumption
    <2>3. TypeOK'
      BY <2>1, <2>2, TaskNames DEF TypeOK, Goto, locks
    <2>4. pc'["messages"] = "gone"
      BY <1>0, <2>1 DEF TypeOK, Goto
    <2> QED
      BY <2>1, <2>3, <2>4, HandMessages
  <1>3. CASE ApplyMessage
    <2> DEFINE m == Head(hand["messages"].msg)
    <2>1. /\ UNCHANGED <<running, ctl, doomed, handler, receivers, chunkQ, msgQ, statsLock>>
          /\ pc["messages"] = "apply"
      BY <1>3 DEF ApplyMessage, control, channels
    <2>2. m \in Requests
      BY <2>1 DEF HandOK
    <2>3. CASE m.op = "request"
      <3>1. /\ UNCHANGED <<streams, quiet, streamsLock>> /\ Goto("messages", "reply")
            /\ \E x : hand' = [hand EXCEPT !["messages"].reply = x]
        BY <1>3, <2>3 DEF ApplyMessage
      <3>2. TypeOK'
        BY <2>1, <3>1 DEF TypeOK, Goto
      <3>3. pc'["messages"] = "reply"
        BY <1>0, <3>1 DEF TypeOK, Goto
      <3> QED
        BY <3>1, <3>2, <3>3, HandMessages
    <2>4. CASE m.op # "request"
      <3>1. /\ streams' = Applied(m)[1] /\ quiet' = quiet \cap DOMAIN streams'
            /\ \/ Goto("messages", "stats") /\ UNCHANGED hand /\ streamsLock' = "messages"
               \/ /\ Goto("messages", "recv") /\ UNCHANGED streamsLock
                  /\ hand' = [hand EXCEPT !["messages"] = NoHand]
        BY <1>3, <2>4 DEF ApplyMessage
      <3>2. DOMAIN streams' \subseteq Streams
        BY <2>2, <2>4, <3>1, AppliedFacts
      <3>3. TypeOK'
        BY <2>1, <3>1, <3>2 DEF TypeOK, Goto
      <3>4. \/ pc'["messages"] = "stats" /\ hand' = hand
            \/ pc'["messages"] = "recv" /\ hand' = [hand EXCEPT !["messages"] = NoHand]
        BY <1>0, <3>1 DEF TypeOK, Goto
      <3> QED
        BY <2>1, <3>3, <3>4, HandMessages
    <2> QED
      BY <2>3, <2>4
  <1>4. CASE CountMessage \/ ReplyDone
    <2>1. /\ UNCHANGED <<running, ctl, doomed, handler, receivers, chunkQ, msgQ, streams, quiet, statsLock>>
          /\ streamsLock' \in {streamsLock, Free} /\ Goto("messages", "recv")
          /\ hand' = [hand EXCEPT !["messages"] = NoHand]
      BY <1>4 DEF CountMessage, ReplyDone, control, channels, locks
    <2>2. TypeOK'
      BY <2>1 DEF TypeOK, Goto
    <2>3. pc'["messages"] = "recv"
      BY <1>0, <2>1 DEF TypeOK, Goto
    <2> QED
      BY <2>1, <2>2, <2>3, HandMessages
  <1>5. CASE Reply
    <2>1. /\ UNCHANGED <<running, ctl, doomed, handler, receivers, chunkQ, msgQ, streams, quiet, statsLock,
                         streamsLock, pc>> /\ pc["messages"] = "reply"
          /\ \E x : hand' = [hand EXCEPT !["messages"].reply = x]
      BY <1>5 DEF Reply, control, channels, locks
    <2>2. TypeOK'
      BY <2>1 DEF TypeOK
    <2> QED
      BY <2>1, <2>2, HandMessages
  <1> QED
    BY <1>1, <1>2, <1>3, <1>4, <1>5 DEF MessageTask

LEMMA TypeStep ==
    ASSUME TypeOK, HandOK, [Next]_vars
    PROVE  TypeOK' /\ HandOK'
  <1>1. CASE UNCHANGED vars
    BY <1>1 DEF TypeOK, HandOK, vars
  <1> QED
    BY <1>1, TypeCaller, TypeChunks, TypeMessages, TypeTimers DEF Next

\* Both channels of a relay node stay within their capacity, the locks go only to tasks that
\* take them, and a stream that has gone quiet is one the node has.
THEOREM TypesAlwaysHold == Spec => []TypeOK
  <1>1. Init => TypeOK /\ HandOK
    BY InitInv
  <1>2. TypeOK /\ HandOK /\ [Next]_vars => (TypeOK /\ HandOK)'
    BY TypeStep
  <1> QED
    BY <1>1, <1>2, PTL DEF Spec

-----------------------------------------------------------------------------
(* Locks and receivers *)

\* A task goes on that neither takes nor gives back the streams lock
LEMMA LockKept ==
    ASSUME TypeOK, LockInv, UNCHANGED <<ctl, doomed, receivers, streamsLock>>, NEW t \in Tasks,
           \/ pc' = pc
           \/ \E l : /\ Goto(t, l) /\ (l # "stats" \/ t \notin {"messages", "cleanup"})
                     /\ l = "gone" => t \in {"reporter", "cleanup"}
                     /\ pc[t] # "gone"
                     /\ pc[t] = "stats" => t \notin {"messages", "cleanup"}
    PROVE  LockInv'
  BY TaskNames DEF TypeOK, LockInv, Goto

LEMMA LockStep ==
    ASSUME TypeOK, LockInv, [Next]_vars
    PROVE  LockInv'
  <1>0. /\ "chunks" \in Tasks /\ "messages" \in Tasks /\ "reporter" \in Tasks /\ "cleanup" \in Tasks
        /\ Free \notin Tasks
    BY TaskNames DEF Free
  <1>1. CASE Caller
    <2>1. CASE \/ set_chunk_handler \/ (\E m \in Messages : send_message(m))
               \/ \E c \in Chunks : publish_chunk(c)
      <3>1. UNCHANGED <<ctl, doomed, receivers, streamsLock, pc>>
        BY <2>1 DEF set_chunk_handler, send_message, publish_chunk, control, locks
      <3> QED
        BY <1>0, <3>1, LockKept
    <2>2. CASE start_processors
      <3>1. /\ ctl = "down" /\ ctl' = "processors" /\ UNCHANGED <<doomed, streamsLock>>
            /\ \A q \in Processors :
                  receivers'[q] = IF receivers[q] = "node" THEN "task" ELSE receivers[q]
            /\ \A t \in Tasks : pc'[t] = IF t \in Processors /\ receivers[t] = "node"
                                         THEN "recv" ELSE pc[t]
        BY <2>2 DEF start_processors, locks
      <3> QED
        BY <3>1, TaskNames DEF TypeOK, LockInv
    <2>3. CASE start_stats_reporter \/ start_stream_cleanup \/ start_done \/ stop
      <3>1. /\ UNCHANGED <<receivers, streamsLock>> /\ ctl # "down" /\ ctl' # "down"
            /\ \/ doomed' = doomed \ {"reporter"} /\ pc' = [pc EXCEPT !["reporter"] = "check"]
               \/ /\ doomed' = doomed \ {"cleanup"} /\ pc["cleanup"] = "gone"
                  /\ pc' = [pc EXCEPT !["cleanup"] = "check"]
               \/ doomed' \in {doomed, Tasks} /\ pc' = pc
        BY <2>3 DEF start_stats_reporter, start_stream_cleanup, start_done, stop, locks
      <3> QED
        BY <3>1, TaskNames DEF TypeOK, LockInv
    <2>4. CASE stop_done
      <3>1. ctl # "down" /\ UNCHANGED <<doomed, receivers, streamsLock, pc>>
        BY <2>4 DEF stop_done, locks
      <3> QED
        BY <3>1, TaskNames DEF LockInv
    <2>5. ASSUME NEW t \in Tasks, abort(t) PROVE LockInv'
      <3>1. /\ UNCHANGED <<ctl, doomed>> /\ pc[t] # "gone"
            /\ streamsLock' = IF streamsLock = t THEN Free ELSE streamsLock
            /\ \A q \in Processors : receivers'[q] = IF q = t THEN "dropped" ELSE receivers[q]
            /\ \A u \in Tasks : pc'[u] = IF u = t THEN "gone" ELSE pc[u]
        BY <2>5 DEF abort, TypeOK
      <3> QED
        BY <1>0, <3>1, TaskNames DEF LockInv
    <2> QED
      BY <1>1, <2>1, <2>2, <2>3, <2>4, <2>5 DEF Caller
  <1>2. CASE (RecvChunk /\ ~running) \/ (RecvMessage /\ ~(running /\ Head(msgQ) # StopMessage))
    <2>1. \E t \in Processors : /\ pc[t] = "recv" /\ Goto(t, "gone")
                                /\ receivers' = [receivers EXCEPT ![t] = "dropped"]
                                /\ UNCHANGED <<ctl, doomed, streamsLock>>
      BY <1>2, TaskNames DEF RecvChunk, RecvMessage, GiveUp, locks
    <2> QED
      BY <2>1, TaskNames DEF TypeOK, LockInv, Goto
  <1>3. CASE \/ (RecvChunk /\ running) \/ RecordChunk \/ BufferChunk \/ ChunkDone
             \/ \E p \in Peers : DeliverChunk(p)
    <2>1. /\ UNCHANGED <<ctl, doomed, receivers, streamsLock>>
          /\ \/ pc' = pc
             \/ pc["chunks"] # "gone"
                /\ \E l \in {"stats", "buffer", "deliver", "recv"} : Goto("chunks", l)
      BY <1>3 DEF RecvChunk, RecordChunk, BufferChunk, ChunkDone, DeliverChunk, control, locks
    <2> QED
      BY <1>0, <2>1, LockKept
  <1>4. CASE (RecvMessage /\ running /\ Head(msgQ) # StopMessage) \/ Reply \/ ReplyDone
    <2>1. /\ UNCHANGED <<ctl, doomed, receivers, streamsLock>>
          /\ \/ pc' = pc
             \/ pc["messages"] \in {"recv", "reply"}
                /\ \E l \in {"apply", "recv"} : Goto("messages", l)
      BY <1>4 DEF RecvMessage, Reply, ReplyDone, control, locks
    <2> QED
      BY <1>0, <2>1, LockKept
  <1>5. CASE ApplyMessage \/ CountMessage
    <2>1. /\ UNCHANGED <<ctl, doomed, receivers>> /\ pc["messages"] \in {"apply", "stats"}
          /\ \/ streamsLock' = "messages" /\ streamsLock = Free /\ Goto("messages", "stats")
             \/ /\ streamsLock' = streamsLock /\ pc["messages"] = "apply"
                /\ \E l \in {"reply", "recv"} : Goto("messages", l)
             \/ streamsLock' = Free /\ pc["messages"] = "stats" /\ Goto("messages", "recv")
      BY <1>5 DEF ApplyMessage, CountMessage, control
    <2> QED
      BY <1>0, <2>1, TaskNames DEF TypeOK, LockInv, Goto
  <1>6. CASE ReporterTask \/ LoopHead("cleanup") \/ FindInactive \/ CleanupDone
    <2>1. /\ UNCHANGED <<ctl, doomed, receivers, streamsLock>>
          /\ \E t \in {"reporter", "cleanup"} :
                /\ pc[t] \in {"check", "tick", "report", "remove"}
                /\ \E l \in {"gone", "tick", "report", "check", "remove"} : Goto(t, l)
      BY <1>6 DEF ReporterTask, LoopHead, ReportLock, Report, FindInactive, CleanupDone,
         control, locks
    <2> QED
      BY <1>0, <2>1, LockKept
  <1>7. CASE CountRemoved \/ \E s \in Streams : RemoveInactive(s)
    <2>1. /\ UNCHANGED <<ctl, doomed, receivers>> /\ pc["cleanup"] \in {"stats", "remove"}
          /\ \/ streamsLock' = "cleanup" /\ streamsLock = Free /\ Goto("cleanup", "stats")
             \/ UNCHANGED <<streamsLock, pc>>
             \/ streamsLock' = Free /\ pc["cleanup"] = "stats" /\ Goto("cleanup", "remove")
      BY <1>7 DEF CountRemoved, RemoveInactive, control
    <2> QED
      BY <1>0, <2>1, TaskNames DEF TypeOK, LockInv, Goto
  <1>8. CASE UNCHANGED vars \/ \E s \in Streams : Elapse(s)
    <2>1. UNCHANGED <<ctl, doomed, receivers, streamsLock, pc>>
      BY <1>8 DEF vars, Elapse, control, locks
    <2> QED
      BY <1>0, <2>1, LockKept
  <1> QED
    BY <1>1, <1>2, <1>3, <1>4, <1>5, <1>6, <1>7, <1>8
       DEF Next, ChunkTask, MessageTask, CleanupTask

-----------------------------------------------------------------------------
(* Chunks *)

\* Nothing ChunksConserved is about changes but the other statistics
LEMMA ChunksUntouched ==
    ASSUME StatsOK, ChunksConserved, UNCHANGED <<receivers, chunkQ, published>>,
           (pc'["chunks"] = "stats") <=> (pc["chunks"] = "stats"),
           \/ stats' = stats
           \/ \E x : stats' = [stats EXCEPT !.active_streams = x]
           \/ \E x : stats' = [stats EXCEPT !.connected_peers = x]
           \/ \E x, y : stats' = [stats EXCEPT !.active_streams = x, !.connected_peers = y]
    PROVE  StatsOK' /\ ChunksConserved'
  BY DEF StatsOK, ChunksConserved, InHand

LEMMA ChunksStep ==
    ASSUME TypeOK, LockInv, StatsOK, ChunksConserved, [Next]_vars
    PROVE  StatsOK' /\ ChunksConserved'
  <1>0. "chunks" \in Tasks /\ "messages" \in Tasks /\ "reporter" \in Tasks /\ "cleanup" \in Tasks
    BY TaskNames
  <1>1. CASE Caller
    <2>1. CASE \/ set_chunk_handler \/ start_stats_reporter \/ start_stream_cleanup \/ start_done
               \/ stop \/ stop_done \/ \E m \in Messages : send_message(m)
      <3>1. /\ UNCHANGED <<receivers, chunkQ, published, stats>>
            /\ \/ pc' = pc \/ pc' = [pc EXCEPT !["reporter"] = "check"]
               \/ pc' = [pc EXCEPT !["cleanup"] = "check"]
        BY <2>1 DEF set_chunk_handler, start_stats_reporter, start_stream_cleanup, start_done,
           stop, stop_done, send_message, control, channels
      <3>2. pc'["chunks"] = pc["chunks"]
        BY <1>0, <3>1 DEF TypeOK
      <3> QED
        BY <3>1, <3>2, ChunksUntouched
    <2>2. CASE start_processors
      <3>1. /\ UNCHANGED <<chunkQ, published, stats>>
            /\ receivers'["chunks"] = IF receivers["chunks"] = "node" THEN "task"
                                      ELSE receivers["chunks"]
            /\ pc'["chunks"] = IF receivers["chunks"] = "node" THEN "recv" ELSE pc["chunks"]
        BY <2>2, TaskNames DEF start_processors, channels, TypeOK
      <3>2. receivers["chunks"] = "node" => pc["chunks"] = "gone"
        BY TaskNames DEF LockInv
      <3> QED
        BY <3>1, <3>2 DEF StatsOK, ChunksConserved, InHand
    <2>3. ASSUME NEW t \in Tasks, abort(t) PROVE StatsOK' /\ ChunksConserved'
      <3>1. /\ UNCHANGED <<published, stats>>
            /\ \/ t = "chunks" /\ receivers'["chunks"] = "dropped"
               \/ /\ t # "chunks" /\ chunkQ' = chunkQ /\ receivers'["chunks"] = receivers["chunks"]
                  /\ pc'["chunks"] = pc["chunks"]
        BY <2>3, TaskNames DEF abort, TypeOK
      <3> QED
        BY <3>1 DEF StatsOK, ChunksConserved, InHand
    <2>4. ASSUME NEW c \in Chunks, publish_chunk(c) PROVE StatsOK' /\ ChunksConserved'
      <3>1. /\ UNCHANGED <<receivers, stats, pc>> /\ published' = published + 1
            /\ chunkQ' = Append(chunkQ, c)
        BY <2>4 DEF publish_chunk, control
      <3>2. Len(chunkQ') = Len(chunkQ) + 1 /\ Len(chunkQ) \in Nat
        BY <3>1 DEF TypeOK
      <3>3. InHand' = InHand /\ InHand \in Nat
        BY <3>1 DEF InHand
      <3>4. StatsOK'
        BY <3>1 DEF StatsOK
      <3>5. ChunksConserved'
        BY <3>1, <3>2, <3>3 DEF StatsOK, ChunksConserved
      <3> QED
        BY <3>4, <3>5
    <2> QED
      BY <1>1, <2>1, <2>2, <2>3, <2>4 DEF Caller
  <1>2. CASE RecvChunk
    <2>1. /\ UNCHANGED <<published, stats>> /\ pc["chunks"] = "recv" /\ chunkQ # <<>>
          /\ \/ /\ chunkQ' = Tail(chunkQ) /\ receivers' = receivers /\ Goto("chunks", "stats")
             \/ receivers' = [receivers EXCEPT !["chunks"] = "dropped"]
      BY <1>2 DEF RecvChunk, GiveUp
    <2>2. \/ Len(chunkQ') = Len(chunkQ) - 1 /\ pc'["chunks"] = "stats" /\ receivers' = receivers
          \/ receivers'["chunks"] = "dropped"
      BY <1>0, <2>1, TaskNames DEF TypeOK, Goto
    <2>3. Len(chunkQ) \in Nat
      BY DEF TypeOK
    <2> QED
      BY <2>1, <2>2, <2>3 DEF StatsOK, ChunksConserved, InHand
  <1>3. CASE RecordChunk
    <2>1. /\ UNCHANGED <<published, receivers, chunkQ>> /\ pc["chunks"] = "stats"
          /\ stats' = [stats EXCEPT !.chunks_relayed = @ + 1] /\ Goto("chunks", "buffer")
      BY <1>3 DEF RecordChunk, control, channels
    <2>2. pc'["chunks"] = "buffer" /\ stats'.chunks_relayed = stats.chunks_relayed + 1
          /\ stats' = [active_streams |-> stats'.active_streams,
                       connected_peers |-> stats'.connected_peers,
                       chunks_relayed |-> stats'.chunks_relayed]
      BY <1>0, <2>1 DEF TypeOK, Goto, StatsOK
    <2>3. Len(chunkQ) \in Nat
      BY DEF TypeOK
    <2> QED
      BY <2>1, <2>2, <2>3 DEF StatsOK, ChunksConserved, InHand
  <1>4. CASE BufferChunk \/ ChunkDone \/ \E p \in Peers : DeliverChunk(p)
    <2>1. /\ UNCHANGED <<receivers, chunkQ, published, stats>>
          /\ pc["chunks"] \in {"buffer", "deliver"}
          /\ pc' = pc \/ Goto("chunks", "deliver") \/ Goto("chunks", "recv")
      BY <1>4 DEF BufferChunk, ChunkDone, DeliverChunk, control, channels
    <2>2. pc'["chunks"] # "stats"
      BY <1>0, <2>1 DEF TypeOK, Goto
    <2> QED
      BY <2>1, <2>2, ChunksUntouched
  <1>5. CASE MessageTask
    <2>1. /\ UNCHANGED <<chunkQ, published>> /\ \E l : pc' = pc \/ Goto("messages", l)
          /\ \/ UNCHANGED receivers
             \/ receivers' = [receivers EXCEPT !["messages"] = "dropped"] /\ stats' = stats
      BY <1>5 DEF MessageTask, RecvMessage, GiveUp, ApplyMessage, CountMessage, Reply, ReplyDone,
         control, channels
    <2>2. /\ pc'["chunks"] = pc["chunks"]
          /\ receivers'["chunks"] = receivers["chunks"]
      BY <1>0, <2>1, TaskNames DEF TypeOK, Goto
    <2>3. \/ stats' = stats
          \/ \E x : stats' = [stats EXCEPT !.active_streams = x]
          \/ \E x : stats' = [stats EXCEPT !.connected_peers = x]
      <3>1. CASE CountMessage
        <4> DEFINE m == Head(hand["messages"].msg)
        <4>1. CASE m.op = "add_subscriber"
          BY <3>1, <4>1 DEF CountMessage
        <4>2. CASE m.op = "remove_subscriber"
          BY <3>1, <4>2 DEF CountMessage
        <4>3. CASE m.op \notin {"add_subscriber", "remove_subscriber"}
          BY <3>1, <4>3 DEF CountMessage
        <4> QED
          BY <4>1, <4>2, <4>3
      <3>2. CASE ~CountMessage
        BY <1>5, <3>2 DEF MessageTask, RecvMessage, ApplyMessage, Reply, ReplyDone
      <3> QED
        BY <3>1, <3>2
    <2> QED
      BY <2>1, <2>2, <2>3 DEF StatsOK, ChunksConserved, InHand
  <1>6. CASE ReporterTask \/ CleanupTask
    <2>1. /\ UNCHANGED <<receivers, chunkQ, published>>
          /\ pc' = pc \/ \E t \in {"reporter", "cleanup"}, l \in {"gone", "tick", "report", "check",
                                                                  "remove", "stats"} : Goto(t, l)
      BY <1>6 DEF ReporterTask, CleanupTask, LoopHead, ReportLock, Report, FindInactive,
         RemoveInactive, CountRemoved, CleanupDone, control, channels
    <2>2. \/ stats' = stats
          \/ \E x : stats' = [stats EXCEPT !.active_streams = x]
          \/ \E x, y : stats' = [stats EXCEPT !.active_streams = x, !.connected_peers = y]
      BY <1>6 DEF ReporterTask, CleanupTask, LoopHead, ReportLock, Report, FindInactive,
         RemoveInactive, CountRemoved, CleanupDone
    <2>3. pc'["chunks"] = pc["chunks"]
      BY <1>0, <2>1 DEF TypeOK, Goto
    <2> QED
      BY <2>1, <2>2, <2>3, ChunksUntouched
  <1>7. CASE UNCHANGED vars \/ \E s \in Streams : Elapse(s)
    <2>1. UNCHANGED <<receivers, chunkQ, published, stats, pc>>
      BY <1>7 DEF vars, Elapse, control, channels
    <2> QED
      BY <2>1, ChunksUntouched
  <1> QED
    BY <1>1, <1>2, <1>3, <1>4, <1>5, <1>6, <1>7 DEF Next, ChunkTask

\* No accepted chunk is lost or counted twice on its way through the channel, for any
\* capacity, any number of chunks and any interleaving of the tasks, starts and stops.
THEOREM ChunksAlwaysConserved == Spec => []ChunksConserved
  <1> DEFINE IInv == TypeOK /\ HandOK /\ LockInv /\ StatsOK /\ ChunksConserved
  <1>1. Init => IInv
    <2>1. Init => ChunksConserved
      BY TaskNames DEF Init, ChunksConserved, InHand
    <2> QED
      BY <2>1, InitInv
  <1>2. IInv /\ [Next]_vars => IInv'
    BY TypeStep, LockStep, ChunksStep
  <1> QED
    BY <1>1, <1>2, PTL DEF Spec

-----------------------------------------------------------------------------
(* The number of streams *)

Live == "messages" \notin doomed /\ receivers["messages"] # "dropped"
Counted == stats.active_streams = Cardinality(DOMAIN streams)
Subscribing == hand["messages"].msg # <<>>
               /\ Head(hand["messages"].msg).op \in {"add_subscriber", "remove_subscriber"}

\* The count is also right while a change of the subscribers has the lock
AgreeInv == Live /\ (streamsLock = Free \/ (streamsLock = "messages" /\ Subscribing)) => Counted

LEMMA AgreeKept ==
    ASSUME AgreeInv, Live' => Live, streamsLock' = streamsLock,
           streamsLock = "messages" => hand'["messages"] = hand["messages"],
           DOMAIN streams' = DOMAIN streams, stats'.active_streams = stats.active_streams
    PROVE  AgreeInv'
  BY DEF AgreeInv, Counted, Subscribing

LEMMA AgreeStep ==
    ASSUME TypeOK, HandOK, LockInv, StatsOK, AgreeInv, [Next]_vars
    PROVE  AgreeInv'
  <1>0. /\ "chunks" \in Tasks /\ "messages" \in Tasks /\ "reporter" \in Tasks /\ "cleanup" \in Tasks
        /\ "messages" \in Processors /\ Free \notin Tasks
    BY TaskNames DEF Free
  <1>1. CASE \/ set_chunk_handler \/ start_stats_reporter \/ start_stream_cleanup \/ start_done
             \/ stop \/ stop_done \/ start_processors
             \/ (\E m \in Messages : send_message(m)) \/ (\E c \in Chunks : publish_chunk(c))
    <2>1. UNCHANGED <<streams, stats, streamsLock, hand>>
      BY <1>1 DEF set_chunk_handler, start_stats_reporter, start_stream_cleanup, start_done,
         stop, stop_done, start_processors, send_message, publish_chunk, locks
    <2>2. Live' => Live
      <3>1. CASE start_processors
        BY <1>0, <3>1 DEF start_processors, Live, TypeOK
      <3>2. CASE ~start_processors
        <4>1. /\ UNCHANGED receivers
              /\ \/ doomed' \in {doomed, Tasks} \/ doomed' = doomed \ {"reporter"}
                 \/ doomed' = doomed \ {"cleanup"}
          BY <1>1, <3>2 DEF set_chunk_handler, start_stats_reporter, start_stream_cleanup,
             start_done, stop, stop_done, send_message, publish_chunk, control
        <4> QED
          BY <1>0, <4>1 DEF Live
      <3> QED
        BY <3>1, <3>2
    <2> QED
      BY <2>1, <2>2, AgreeKept
  <1>2. ASSUME NEW t \in Tasks, abort(t) PROVE AgreeInv'
    <2>1. UNCHANGED doomed /\ doomed # {}
      BY <1>2 DEF abort
    <2> QED
      BY <2>1 DEF LockInv, AgreeInv, Live
  <1>3. CASE ChunkTask
    <2>1. /\ UNCHANGED <<doomed, streamsLock>> /\ DOMAIN streams' = DOMAIN streams
          /\ \/ receivers' = receivers
             \/ receivers' = [receivers EXCEPT !["chunks"] = "dropped"]
          /\ \/ hand' = hand
             \/ \E x : hand' = [hand EXCEPT !["chunks"] = x]
             \/ \E x : hand' = [hand EXCEPT !["chunks"].chunk = x]
             \/ \E x : hand' = [hand EXCEPT !["chunks"].to = x]
          /\ stats' = stats \/ \E x : stats' = [stats EXCEPT !.chunks_relayed = x]
      BY <1>3 DEF ChunkTask, RecvChunk, GiveUp, RecordChunk, BufferChunk, ChunkDone, DeliverChunk,
         control, locks
    <2>2. /\ hand'["messages"] = hand["messages"] /\ receivers'["messages"] = receivers["messages"]
          /\ stats'.active_streams = stats.active_streams
      BY <1>0, <2>1 DEF HandOK, TypeOK, StatsOK
    <2> QED
      BY <2>1, <2>2, AgreeKept DEF Live
  <1>4. CASE RecvMessage \/ Reply \/ ReplyDone
    <2>1. /\ UNCHANGED <<doomed, streamsLock, streams, stats>> /\ pc["messages"] # "stats"
          /\ receivers' = receivers \/ receivers' = [receivers EXCEPT !["messages"] = "dropped"]
      BY <1>4 DEF RecvMessage, GiveUp, Reply, ReplyDone, control, locks
    <2>2. streamsLock # "messages"
      BY <2>1 DEF LockInv
    <2>3. Live' => Live
      BY <1>0, <2>1 DEF Live, TypeOK
    <2> QED
      BY <2>1, <2>2, <2>3, AgreeKept
  <1>5. CASE ApplyMessage
    <2> DEFINE m == Head(hand["messages"].msg)
    <2>1. /\ UNCHANGED <<doomed, receivers, stats>>
          /\ pc["messages"] = "apply" /\ streamsLock = Free
      BY <1>5 DEF ApplyMessage, control
    <2>2. m \in Requests
      BY <2>1 DEF HandOK
    <2>3. Live => Counted
      BY <2>1 DEF AgreeInv
    <2>4. CASE m.op = "request"
      <3>1. UNCHANGED <<streams, streamsLock>>
        BY <1>5, <2>4 DEF ApplyMessage
      <3> QED
        BY <2>1, <2>3, <3>1 DEF AgreeInv, Live, Counted, Free
    <2>5. CASE m.op # "request"
      <3>1. /\ streams' = Applied(m)[1]
            /\ \/ Applied(m)[2] /\ streamsLock' = "messages" /\ UNCHANGED hand
               \/ ~Applied(m)[2] /\ UNCHANGED streamsLock
        BY <1>5, <2>5 DEF ApplyMessage
      <3>2. (m.op \in {"add_subscriber", "remove_subscriber"} \/ ~Applied(m)[2]) =>
                DOMAIN streams' = DOMAIN streams
        BY <2>2, <2>5, <3>1, AppliedFacts
      <3>3. streamsLock' = Free => ~Applied(m)[2]
        BY <3>1 DEF Free
      <3>4. streamsLock' = "messages" => hand' = hand
        BY <2>1, <3>1 DEF Free
      <3> QED
        BY <2>1, <2>3, <3>2, <3>3, <3>4 DEF AgreeInv, Live, Counted, Subscribing
    <2> QED
      BY <2>4, <2>5
  <1>6. CASE CountMessage
    <2> DEFINE m == Head(hand["messages"].msg)
    <2>1. /\ UNCHANGED <<doomed, receivers, streams>> /\ pc["messages"] = "stats"
          /\ streamsLock' = Free
      BY <1>6 DEF CountMessage, control
    <2>2. streamsLock = "messages" /\ hand["messages"].msg # <<>>
      BY <2>1 DEF LockInv, HandOK
    <2>3. CASE m.op \in {"add_subscriber", "remove_subscriber"}
      <3>1. \E x : stats' = [stats EXCEPT !.connected_peers = x]
        <4>1. CASE m.op = "add_subscriber"
          BY <1>6, <4>1 DEF CountMessage
        <4>2. CASE m.op = "remove_subscriber"
          BY <1>6, <4>2 DEF CountMessage
        <4> QED
          BY <2>3, <4>1, <4>2
      <3>2. stats'.active_streams = stats.active_streams
        BY <3>1 DEF StatsOK
      <3>3. Live => Counted
        BY <2>2, <2>3 DEF AgreeInv, Subscribing
      <3> QED
        BY <2>1, <3>2, <3>3 DEF AgreeInv, Live, Counted
    <2>4. CASE m.op \notin {"add_subscriber", "remove_subscriber"}
      <3>1. stats' = [stats EXCEPT !.active_streams = Cardinality(DOMAIN streams)]
        BY <1>6, <2>4 DEF CountMessage
      <3>2. stats'.active_streams = Cardinality(DOMAIN streams)
        BY <3>1 DEF StatsOK
      <3> QED
        BY <2>1, <3>2 DEF AgreeInv, Counted
    <2> QED
      BY <2>3, <2>4
  <1>7. CASE Report
    <2>1. /\ UNCHANGED streams
          /\ \E x : stats' = [stats EXCEPT !.active_streams = Cardinality(DOMAIN streams),
                                           !.connected_peers = x]
      BY <1>7 DEF Report
    <2>2. stats'.active_streams = Cardinality(DOMAIN streams)
      BY <2>1 DEF StatsOK
    <2> QED
      BY <2>1, <2>2 DEF AgreeInv, Counted
  <1>8. CASE CountRemoved
    <2>1. UNCHANGED streams
          /\ stats' = [stats EXCEPT !.active_streams = Cardinality(DOMAIN streams)]
      BY <1>8 DEF CountRemoved
    <2>2. stats'.active_streams = Cardinality(DOMAIN streams)
      BY <2>1 DEF StatsOK
    <2> QED
      BY <2>1, <2>2 DEF AgreeInv, Counted
  <1>9. ASSUME NEW s \in Streams, RemoveInactive(s) PROVE AgreeInv'
    <2>1. /\ UNCHANGED <<doomed, receivers, stats>> /\ streamsLock = Free
          /\ \/ UNCHANGED <<streams, streamsLock>>
             \/ streamsLock' = "cleanup"
      BY <1>9 DEF RemoveInactive, control
    <2> QED
      BY <2>1 DEF AgreeInv, Live, Counted, Free
  <1>10. CASE \/ LoopHead("reporter") \/ ReportLock \/ LoopHead("cleanup") \/ FindInactive
              \/ CleanupDone \/ UNCHANGED vars \/ \E s \in Streams : Elapse(s)
    <2>1. /\ UNCHANGED <<doomed, receivers, streams, stats, streamsLock>>
          /\ hand' = hand \/ \E x : hand' = [hand EXCEPT !["cleanup"].expired = x]
      BY <1>10 DEF LoopHead, ReportLock, FindInactive, CleanupDone, vars, Elapse, control, locks
    <2>2. hand'["messages"] = hand["messages"]
      BY <1>0, <2>1 DEF HandOK
    <2> QED
      BY <2>1, <2>2, AgreeKept DEF Live
  <1> QED
    BY <1>1, <1>2, <1>3, <1>4, <1>5, <1>6, <1>7, <1>8, <1>9, <1>10
       DEF Next, Caller, MessageTask, ReporterTask, CleanupTask

\* active_streams is the number of streams whenever nobody is between changing the map
\* and counting it, although the message processor, the reporter and the cleanup each
\* change or count it, until the node is stopped.
THEOREM StatsAlwaysAgree == Spec => []StatsAgree
  <1> DEFINE IInv == TypeOK /\ HandOK /\ LockInv /\ StatsOK /\ ChunksConserved /\ AgreeInv
  <1>1. Init => IInv
    <2>1. Init => ChunksConserved
      BY TaskNames DEF Init, ChunksConserved, InHand
    <2>2. ASSUME Init PROVE AgreeInv
      <3>1. stats.active_streams = 0 /\ DOMAIN streams = {}
        BY <2>2 DEF Init
      <3> QED
        BY <3>1, FS_EmptySet DEF AgreeInv, Counted
    <2> QED
      BY <2>1, <2>2, InitInv
  <1>2. IInv /\ [Next]_vars => IInv'
    BY TypeStep, LockStep, ChunksStep, AgreeStep
  <1>3. IInv => StatsAgree
    BY DEF AgreeInv, Live, Counted, StatsAgree
  <1> QED
    BY <1>1, <1>2, <1>3, PTL DEF Spec

-----------------------------------------------------------------------------
(* What is kept of a stream: filtering and eviction, by induction *)

\* Induction over the natural numbers, for a set
LEMMA NatSets ==
    ASSUME NEW P \in SUBSET Nat, 0 \in P, \A n \in P : n + 1 \in P
    PROVE  P = Nat
  <1> DEFINE T == Nat \ P
  <1>1. ASSUME T # {} PROVE FALSE
    <2>1. PICK x \in T : \A y \in T : ~(<<y, x>> \in OpToRel(<, Nat))
      BY <1>1, NatLessThanWellFounded, WFMin
    <2>2. \A y \in T : ~(y < x)
      BY <2>1 DEF OpToRel
    <2>3. x - 1 \in P /\ x \notin P
      BY <2>2
    <2> QED
      BY <2>3
  <1> QED
    BY <1>1

\* One step of the sieve
Sift(g, s, T, i) == IF s[i] \in T THEN Append(g[i - 1], s[i]) ELSE g[i - 1]

IsSieve(g, s, T, n) == g = [i \in 0 .. n |-> IF i = 0 THEN <<>> ELSE Sift(g, s, T, i)]

LEMMA SieveExists ==
    ASSUME NEW s, NEW T, NEW n \in Nat
    PROVE  \E g : IsSieve(g, s, T, n)
  <1> DEFINE P == {k \in Nat : \E g : IsSieve(g, s, T, k)}
  <1>1. 0 \in P
    <2> DEFINE g == [i \in 0 .. 0 |-> <<>>]
    <2>1. g = [i \in 0 .. 0 |-> IF i = 0 THEN <<>> ELSE Sift(g, s, T, i)]
      OBVIOUS
    <2> QED
      BY <2>1 DEF IsSieve
  <1>2. ASSUME NEW k \in P PROVE k + 1 \in P
    <2>1. k \in Nat
      OBVIOUS
    <2>2. PICK g : IsSieve(g, s, T, k)
      OBVIOUS
    <2> DEFINE last == Sift(g, s, T, k + 1)
               h == [i \in 0 .. k + 1 |-> IF i = k + 1 THEN last ELSE g[i]]
    <2>3. \A i \in 0 .. k : g[i] = IF i = 0 THEN <<>> ELSE Sift(g, s, T, i)
      BY <2>2 DEF IsSieve
    <2>4. \A i \in 0 .. k : h[i] = g[i]
      BY <2>1
    <2>5. \A i \in 1 .. k + 1 : Sift(h, s, T, i) = Sift(g, s, T, i)
      <3> TAKE i \in 1 .. k + 1
      <3>1. i - 1 \in 0 .. k
        BY <2>1
      <3>2. h[i - 1] = g[i - 1]
        BY <3>1, <2>4
      <3> QED
        BY <3>2 DEF Sift
    <2>6. h[k + 1] = last
      BY <2>1
    <2>7. ASSUME NEW i \in 0 .. k + 1
          PROVE  h[i] = IF i = 0 THEN <<>> ELSE Sift(h, s, T, i)
      <3>1. CASE i = k + 1
        <4>1. i # 0 /\ i \in 1 .. k + 1
          BY <2>1, <3>1
        <4> HIDE DEF h
        <4> QED
          BY <2>5, <2>6, <3>1, <4>1
      <3>2. CASE i # k + 1
        <4>1. i \in 0 .. k /\ (i = 0 \/ i \in 1 .. k + 1)
          BY <2>1, <3>2
        <4> HIDE DEF h
        <4> QED
          BY <2>3, <2>4, <2>5, <4>1
      <3> QED
        BY <3>1, <3>2
    <2>8. h = [i \in 0 .. k + 1 |-> h[i]]
      OBVIOUS
    <2> HIDE DEF h
    <2>9. IsSieve(h, s, T, k + 1)
      BY <2>7, <2>8 DEF IsSieve
    <2> QED
      BY <2>1, <2>9
  <1> HIDE DEF P
  <1>3. P \subseteq Nat
    BY DEF P
  <1>4. P = Nat
    BY <1>1, <1>2, <1>3, NatSets
  <1> QED
    BY <1>4 DEF P

LEMMA SieveRecursion ==
    ASSUME NEW S, NEW s \in Seq(S), NEW T
    PROVE  /\ Sieve(s, T)[0] = <<>>
           /\ \A i \in 1 .. Len(s) : Sieve(s, T)[i] = Sift(Sieve(s, T), s, T, i)
  <1>1. \E g : g = [i \in 0 .. Len(s) |->
                      IF i = 0 THEN <<>>
                      ELSE IF s[i] \in T THEN Append(g[i - 1], s[i]) ELSE g[i - 1]]
    <2>1. \E g : IsSieve(g, s, T, Len(s))
      <3>1. Len(s) \in Nat
        OBVIOUS
      <3> QED
        BY <3>1, SieveExists
    <2> QED
      BY <2>1, Zenon DEF IsSieve, Sift
  <1>2. Sieve(s, T) = [i \in 0 .. Len(s) |->
                      IF i = 0 THEN <<>>
                      ELSE IF s[i] \in T THEN Append(Sieve(s, T)[i - 1], s[i])
                           ELSE Sieve(s, T)[i - 1]]
    BY <1>1, Zenon DEF Sieve
  <1>3. \A i \in 0 .. Len(s) :
           Sieve(s, T)[i] = IF i = 0 THEN <<>> ELSE Sift(Sieve(s, T), s, T, i)
    BY <1>2 DEF Sift
  <1> QED
    BY <1>3

LEMMA SieveSeq ==
    ASSUME NEW S, NEW s \in Seq(S), NEW T, NEW n \in 0 .. Len(s)
    PROVE  Sieve(s, T)[n] \in Seq(S \cap T)
  <1> DEFINE P == {k \in Nat : k <= Len(s) => Sieve(s, T)[k] \in Seq(S \cap T)}
  <1>0. Len(s) \in Nat
    OBVIOUS
  <1>1. 0 \in P
    BY SieveRecursion, EmptySeq
  <1>2. ASSUME NEW k \in P PROVE k + 1 \in P
    <2> SUFFICES ASSUME k + 1 <= Len(s) PROVE Sieve(s, T)[k + 1] \in Seq(S \cap T)
      OBVIOUS
    <2>1. k \in Nat /\ k + 1 \in 1 .. Len(s) /\ (k + 1) - 1 = k
      BY <1>0
    <2>2. Sieve(s, T)[k] \in Seq(S \cap T)
      BY <1>0, <2>1
    <2>3. s[k + 1] \in S
      BY <2>1
    <2>4. Sieve(s, T)[k + 1]
             = IF s[k + 1] \in T THEN Append(Sieve(s, T)[k], s[k + 1]) ELSE Sieve(s, T)[k]
      BY <2>1, SieveRecursion DEF Sift
    <2> QED
      BY <2>2, <2>3, <2>4, AppendProperties
  <1> HIDE DEF P
  <1>3. P \subseteq Nat
    BY DEF P
  <1>4. P = Nat
    BY <1>1, <1>2, <1>3, NatSets
  <1> QED
    BY <1>0, <1>4 DEF P

\* As far as two sequences agree, and what is kept of them, the sieves do
Alike(s, T, t, U, n) == \A i \in 1 .. n : t[i] = s[i] /\ (s[i] \in T <=> s[i] \in U)

LEMMA SieveSame ==
    ASSUME NEW S, NEW s \in Seq(S), NEW t \in Seq(S), NEW T, NEW U, NEW n \in Nat,
           n <= Len(s), n <= Len(t), Alike(s, T, t, U, n)
    PROVE  Sieve(t, U)[n] = Sieve(s, T)[n]
  <1> DEFINE P == {k \in Nat : k <= n => Sieve(t, U)[k] = Sieve(s, T)[k]}
  <1>0. Len(s) \in Nat /\ Len(t) \in Nat
    OBVIOUS
  <1>1. 0 \in P
    BY SieveRecursion
  <1>2. ASSUME NEW k \in P PROVE k + 1 \in P
    <2> SUFFICES ASSUME k + 1 <= n PROVE Sieve(t, U)[k + 1] = Sieve(s, T)[k + 1]
      OBVIOUS
    <2>1. /\ k \in Nat /\ k + 1 \in 1 .. Len(s) /\ (k + 1) - 1 = k
          /\ k + 1 \in 1 .. Len(t) /\ k + 1 \in 1 .. n
      BY <1>0
    <2>2. Sieve(t, U)[k] = Sieve(s, T)[k]
      BY <2>1
    <2>3. t[k + 1] = s[k + 1] /\ (s[k + 1] \in T <=> s[k + 1] \in U)
      BY <2>1 DEF Alike
    <2>4. Sieve(s, T)[k + 1]
             = IF s[k + 1] \in T THEN Append(Sieve(s, T)[k], s[k + 1]) ELSE Sieve(s, T)[k]
      BY <2>1, SieveRecursion DEF Sift
    <2>5. Sieve(t, U)[k + 1]
             = IF t[k + 1] \in U THEN Append(Sieve(t, U)[k], t[k + 1]) ELSE Sieve(t, U)[k]
      BY <2>1, SieveRecursion DEF Sift
    <2> QED
      BY <2>2, <2>3, <2>4, <2>5
  <1> HIDE DEF P
  <1>3. P \subseteq Nat
    BY DEF P
  <1>4. P = Nat
    BY <1>1, <1>2, <1>3, NatSets
  <1> QED
    BY <1>4 DEF P

\* What is sifted from a sequence: elements of it that are in T; one more is kept if it is in T
LEMMA SiftedSeq ==
    ASSUME NEW S, NEW s \in Seq(S), NEW T
    PROVE  Sifted(s, T) \in Seq(S \cap T)
  <1>1. Len(s) \in 0 .. Len(s)
    OBVIOUS
  <1> QED
    BY <1>1, SieveSeq DEF Sifted

LEMMA SiftedAppend ==
    ASSUME NEW S, NEW s \in Seq(S), NEW x \in S, NEW T
    PROVE  Sifted(Append(s, x), T) = IF x \in T THEN Append(Sifted(s, T), x) ELSE Sifted(s, T)
  <1> DEFINE t == Append(s, x)
             n == Len(s)
  <1>1. /\ n \in Nat /\ t \in Seq(S) /\ Len(t) = n + 1 /\ t[n + 1] = x
        /\ \A i \in 1 .. n : t[i] = s[i]
    BY AppendProperties
  <1>2. Sieve(t, T)[n] = Sieve(s, T)[n]
    <2>1. n <= Len(s) /\ n <= Len(t) /\ n \in Nat
      BY <1>1
    <2>2. Alike(s, T, t, T, n)
      BY <1>1 DEF Alike
    <2> HIDE DEF t, n
    <2> QED
      BY <1>1, <2>1, <2>2, SieveSame
  <1> HIDE DEF t
  <1>3. n + 1 \in 1 .. Len(t) /\ (n + 1) - 1 = n
    BY <1>1
  <1>4. Sieve(t, T)[n + 1]
           = IF t[n + 1] \in T THEN Append(Sieve(t, T)[n], t[n + 1]) ELSE Sieve(t, T)[n]
    BY <1>1, <1>3, SieveRecursion DEF Sift
  <1>5. Sifted(t, T) = Sieve(t, T)[n + 1] /\ Sifted(s, T) = Sieve(s, T)[n]
    BY <1>1 DEF Sifted
  <1> QED
    BY <1>1, <1>2, <1>4, <1>5 DEF t

LEMMA SiftedNone == \A T : Sifted(<<>>, T) = <<>>
  <1>1. <<>> \in Seq({}) /\ Len(<<>>) = 0
    BY EmptySeq
  <1> QED
    BY <1>1, SieveRecursion DEF Sifted

\* What is sifted from two parts is sifted from the whole
Joined(q, a, b) ==
    /\ Len(q) = Len(a) + Len(b)
    /\ \A i \in 1 .. Len(a) + Len(b) : q[i] = IF i <= Len(a) THEN a[i] ELSE b[i - Len(a)]

LEMMA SiftedSplit ==
    ASSUME NEW S, NEW a \in Seq(S), NEW b \in Seq(S), NEW q \in Seq(S), NEW T, Joined(q, a, b)
    PROVE  Sifted(q, T) = Sifted(a, T) \o Sifted(b, T)
  <1> DEFINE n == Len(a)
             m == Len(b)
             f == Sieve(q, T)
             g == Sieve(b, T)
             h == Sifted(a, T)
             P == {k \in Nat : k <= m => f[n + k] = h \o g[k]}
  <1>0. /\ n \in Nat /\ m \in Nat /\ q \in Seq(S) /\ Len(q) = n + m
        /\ (\A i \in 1 .. n : q[i] = a[i]) /\ \A i \in 1 .. m : q[n + i] = b[i]
    <2>1. /\ q \in Seq(S) /\ Len(q) = n + m /\ n \in Nat /\ m \in Nat
          /\ \A i \in 1 .. n + m : q[i] = IF i <= n THEN a[i] ELSE b[i - n]
      BY DEF Joined
    <2> HIDE DEF n, m
    <2>2. ASSUME NEW i \in 1 .. m PROVE q[n + i] = b[i]
      <3>1. n + i \in 1 .. n + m /\ ~(n + i <= n) /\ (n + i) - n = i
        BY <2>1
      <3> QED
        BY <2>1, <3>1
    <2> QED
      <3>1. \A i \in 1 .. n : q[i] = a[i]
        BY <2>1
      <3> QED
        BY <2>1, <2>2, <3>1
  <1>1. \A i \in 1 .. Len(q) : f[i] = IF q[i] \in T THEN Append(f[i - 1], q[i]) ELSE f[i - 1]
    <2>1. \A i \in 1 .. Len(q) : Sieve(q, T)[i] = Sift(Sieve(q, T), q, T, i)
      BY SieveRecursion
    <2> QED
      BY <2>1 DEF Sift
  <1>2. g[0] = <<>> /\ \A i \in 1 .. m : g[i] = IF b[i] \in T THEN Append(g[i - 1], b[i]) ELSE g[i - 1]
    BY SieveRecursion DEF Sift
  <1>3. f[n] = h
    <2>1. n <= Len(q) /\ n <= Len(a)
      BY <1>0
    <2>2. Sieve(q, T)[n] = Sieve(a, T)[n]
      <3>1. n \in Nat /\ q \in Seq(S) /\ a \in Seq(S) /\ Alike(a, T, q, T, n)
        BY <1>0 DEF Alike
      <3> HIDE DEF n
      <3> QED
        BY <2>1, <3>1, SieveSame
    <2> QED
      BY <2>2 DEF Sifted
  <1>4. h \in Seq(S) /\ \A k \in 0 .. m : g[k] \in Seq(S)
    <2>1. h \in Seq(S \cap T) /\ \A k \in 0 .. m : g[k] \in Seq(S \cap T)
      BY SiftedSeq, SieveSeq
    <2> HIDE DEF h, g
    <2> QED
      BY <2>1, SeqMonotonic
  <1>5. Sifted(q, T) = f[n + m] /\ Sifted(b, T) = g[m]
    BY <1>0 DEF Sifted
  <1> HIDE DEF f, g, h, n, m
  <1>6. 0 \in P
    <2>1. h \o <<>> = h /\ n + 0 = n
      BY <1>0, <1>4, ConcatEmptySeq
    <2> QED
      BY <1>2, <1>3, <2>1
  <1>7. ASSUME NEW k \in P PROVE k + 1 \in P
    <2> SUFFICES ASSUME k + 1 <= m PROVE f[n + (k + 1)] = h \o g[k + 1]
      OBVIOUS
    <2>1. /\ k \in Nat /\ k + 1 \in 1 .. m /\ (k + 1) - 1 = k /\ k \in 0 .. m /\ k <= m
          /\ n + (k + 1) \in 1 .. Len(q) /\ (n + (k + 1)) - 1 = n + k
      BY <1>0
    <2> DEFINE x == b[k + 1]
               c == g[k]
    <2>2. g[k + 1] = IF x \in T THEN Append(c, x) ELSE c
      BY <1>2, <2>1
    <2>3. q[n + (k + 1)] = x /\ x \in S /\ c \in Seq(S)
      <3>1. x \in S
        BY <2>1, ElementOfSeq DEF m
      <3> QED
        BY <1>0, <1>4, <2>1, <3>1
    <2>4. f[n + (k + 1)] = IF x \in T THEN Append(f[n + k], x) ELSE f[n + k]
      BY <1>1, <2>1, <2>3
    <2>5. f[n + k] = h \o c
      BY <2>1
    <2> HIDE DEF x, c, P
    <2>6. Append(h \o c, x) = h \o Append(c, x)
      <3>1. h \in Seq(S) /\ c \in Seq(S) /\ x \in S
        BY <1>4, <2>3
      <3> DEFINE u == Append(h \o c, x)
                 v == h \o Append(c, x)
      <3>2. u \in Seq(S) /\ v \in Seq(S)
        BY <3>1
      <3>3. Len(u) = Len(v)
        BY <3>1
      <3>5. ASSUME NEW i \in 1 .. Len(u) PROVE u[i] = v[i]
        <4>1. Len(h) \in Nat /\ Len(c) \in Nat /\ i \in 1 .. Len(h) + Len(c) + 1
          BY <3>1
        <4>2. CASE i <= Len(h)
          BY <3>1, <4>1, <4>2
        <4>3. CASE i > Len(h) /\ i <= Len(h) + Len(c)
          BY <3>1, <4>1, <4>3
        <4>4. CASE i = Len(h) + Len(c) + 1
          BY <3>1, <4>1, <4>4
        <4>5. \/ i <= Len(h) \/ (i > Len(h) /\ i <= Len(h) + Len(c))
              \/ i = Len(h) + Len(c) + 1
          <5> DEFINE y == Len(h)
                     z == Len(c)
          <5> HIDE DEF y, z
          <5>1. y \in Nat /\ z \in Nat /\ i \in 1 .. y + z + 1
            BY <4>1 DEF y, z
          <5>2. i <= y \/ (i > y /\ i <= y + z) \/ i = y + z + 1
            BY <5>1
          <5> QED
            BY <5>2 DEF y, z
        <4> HIDE DEF u, v
        <4> QED
          BY <4>2, <4>3, <4>4, <4>5, Zenon
      <3> HIDE DEF u, v
      <3>4. u = v
        BY <3>2, <3>3, <3>5, SeqEqual
      <3> QED
        BY <3>4 DEF u, v
    <2> QED
      BY <2>2, <2>4, <2>5, <2>6
  <1> HIDE DEF P
  <1>8. P \subseteq Nat
    BY DEF P
  <1>9. P = Nat
    BY <1>6, <1>7, <1>8, NatSets
  <1>10. m \in P /\ m <= m
    BY <1>0, <1>9
  <1>11. f[n + m] = h \o g[m]
    BY <1>10 DEF P
  <1> QED
    BY <1>5, <1>11 DEF h

-----------------------------------------------------------------------------
(* The buffer *)

\* How many are left of k, and what they are
Left(k, n) == IF k > n THEN n ELSE k

LEMMA SuffixProperties ==
    ASSUME NEW S, NEW s \in Seq(S), NEW n \in Nat, NEW k, k = Len(s), NEW m, m = Left(k, n)
    PROVE  /\ k \in Nat /\ m \in Nat /\ m <= k
           /\ Suffix(s, n) \in Seq(S) /\ Len(Suffix(s, n)) = m
           /\ \A i \in 1 .. m : Suffix(s, n)[i] = s[k - m + i]
  <1> DEFINE a == k - m + 1
  <1>1. k \in Nat /\ m \in Nat /\ m <= k
    BY DEF Left
  <1>2. a \in Nat /\ 1 <= a /\ a <= k + 1 /\ k - a + 1 = m /\ (a <= k <=> m # 0)
    BY <1>1
  <1>3. a = IF k > n THEN k - n + 1 ELSE 1
    BY <1>1 DEF Left
  <1> HIDE DEF a
  <1>4. Suffix(s, n) = SubSeq(s, a, k)
    BY <1>3 DEF Suffix
  <1>5. \A i \in a .. k : s[i] \in S
    <2> TAKE i \in a .. k
    <2>1. i \in 1 .. Len(s)
      BY <1>1, <1>2
    <2> QED
      BY <2>1, ElementOfSeq
  <1>6. a \in Int /\ k \in Int
    BY <1>1, <1>2
  <1>7. /\ SubSeq(s, a, k) \in Seq(S)
        /\ Len(SubSeq(s, a, k)) = IF a <= k THEN k - a + 1 ELSE 0
        /\ \A i \in 1 .. k - a + 1 : SubSeq(s, a, k)[i] = s[a + i - 1]
    BY <1>5, <1>6, SubSeqProperties
  <1>8. Len(SubSeq(s, a, k)) = m
    BY <1>1, <1>2, <1>7
  <1>9. \A i \in 1 .. m : SubSeq(s, a, k)[i] = s[k - m + i]
    <2> TAKE i \in 1 .. m
    <2>1. a + i - 1 = k - m + i /\ i \in 1 .. k - a + 1
      BY <1>1, <1>2 DEF a
    <2> QED
      BY <1>7, <2>1
  <1> QED
    BY <1>1, <1>4, <1>7, <1>8, <1>9

\* Keeping the latest n of the latest n and one more is keeping the latest n of all
LEMMA PushKeepsLatest ==
    ASSUME NEW S, NEW s \in Seq(S), NEW x \in S, NEW n \in Nat
    PROVE  PushBounded(Suffix(s, n), x, n) = Suffix(Append(s, x), n)
  <1> DEFINE k == Len(s)
             j == Left(k, n)
             u == Suffix(s, n)
             t == Append(s, x)
             v == Append(u, x)
             m == Left(k + 1, n)
             l == Suffix(v, n)
             r == Suffix(t, n)
  <1>1. /\ k \in Nat /\ j \in Nat /\ j <= k /\ u \in Seq(S) /\ Len(u) = j
        /\ \A i \in 1 .. j : u[i] = s[k - j + i]
    <2>1. k = Len(s) /\ j = Left(k, n)
      OBVIOUS
    <2> HIDE DEF k, j, u
    <2>2. /\ k \in Nat /\ j \in Nat /\ j <= k
          /\ Suffix(s, n) \in Seq(S) /\ Len(Suffix(s, n)) = j
          /\ \A i \in 1 .. j : Suffix(s, n)[i] = s[k - j + i]
      BY <2>1, SuffixProperties
    <2> QED
      BY <2>2 DEF u
  <1>2. /\ t \in Seq(S) /\ Len(t) = k + 1 /\ t[k + 1] = x
        /\ \A i \in 1 .. k : t[i] = s[i]
    BY AppendProperties
  <1>3. m = Left(k + 1, n) /\ m = Left(j + 1, n) /\ m \in Nat /\ m <= j + 1
    BY <1>1 DEF Left
  <1> HIDE DEF u, j
  <1>4. /\ v \in Seq(S) /\ Len(v) = j + 1 /\ v[j + 1] = x
        /\ \A i \in 1 .. j : v[i] = u[i]
    <2>1. /\ v \in Seq(S) /\ Len(v) = Len(u) + 1 /\ v[Len(u) + 1] = x
          /\ \A i \in 1 .. Len(u) : v[i] = u[i]
      BY <1>1, AppendProperties
    <2> HIDE DEF v
    <2> QED
      BY <1>1, <2>1
  <1> HIDE DEF t, v, k, m
  <1>5. /\ l \in Seq(S) /\ Len(l) = m
        /\ \A i \in 1 .. m : l[i] = v[(j + 1) - m + i]
    BY <1>3, <1>4, SuffixProperties
  <1>6. /\ r \in Seq(S) /\ Len(r) = m
        /\ \A i \in 1 .. m : r[i] = t[(k + 1) - m + i]
    BY <1>2, <1>3, SuffixProperties
  <1>7. PushBounded(u, x, n) = l
    BY DEF PushBounded, Suffix, v
  <1> HIDE DEF l, r
  <1>8. ASSUME NEW i \in 1 .. m PROVE l[i] = r[i]
    <2> DEFINE p == (j + 1) - m + i
               q == (k + 1) - m + i
    <2>1. /\ p \in 1 .. j + 1 /\ q \in 1 .. k + 1 /\ (p = j + 1 <=> q = k + 1)
          /\ q = k - j + p
      <3>1. k \in Nat /\ j \in Nat /\ j <= k /\ m \in Nat /\ m <= j + 1 /\ i \in 1 .. m
        BY <1>1, <1>3
      <3> QED
        BY ONLY <3>1
    <2>2. l[i] = v[p] /\ r[i] = t[q]
      BY <1>5, <1>6
    <2> HIDE DEF p, q
    <2>3. CASE p = j + 1
      BY <1>2, <1>4, <2>1, <2>2, <2>3
    <2>4. CASE p # j + 1
      <3>1. p \in 1 .. j /\ q \in 1 .. k
        BY <1>1, <2>1, <2>4
      <3>2. v[p] = s[q] /\ t[q] = s[q]
        BY <1>1, <1>2, <1>4, <2>1, <3>1
      <3> QED
        BY <2>2, <3>2
    <2> QED
      BY <2>3, <2>4
  <1>9. l = r
    BY <1>5, <1>6, <1>8, SeqEqual
  <1> QED
    BY <1>7, <1>9 DEF u, r, t

Relays == [subscribers : {{}}, buffer : Seq(ArrivingChunks), last_sequence : Nat,
           init_segment : Seq(ArrivingChunks), keyframes : Seq(ArrivingChunks)]

HistoryInv ==
    /\ history \in Seq(ArrivingChunks)
    /\ relay \in Relays
    /\ KeepsLatest

LEMMA HistoryInit == StreamInit => HistoryInv
  <1> SUFFICES ASSUME StreamInit PROVE HistoryInv
    OBVIOUS
  <1>1. <<>> \in Seq(ArrivingChunks) /\ Len(<<>>) = 0
    BY EmptySeq
  <1>2. \A n \in Nat : Suffix(<<>>, n) = <<>>
    <2> TAKE n \in Nat
    <2>1. Suffix(<<>>, n) = SubSeq(<<>>, 1, 0)
      BY <1>1 DEF Suffix
    <2> QED
      BY <2>1, SubSeqEmpty
  <1>3. \A k : OfKind(k) = <<>>
    BY SiftedNone DEF OfKind, StreamInit
  <1>4. Range(history) = {}
    BY DEF Range, StreamInit
  <1> QED
    BY <1>1, <1>2, <1>3, <1>4, BufferAssumption
    DEF HistoryInv, KeepsLatest, Relays, StreamInit, NewRelay

\* What add_chunk makes of a relay
LEMMA ChunkAdded ==
    ASSUME NEW r \in Relays, NEW c \in ArrivingChunks, NEW w, w = add_chunk(r, c)
    PROVE  /\ w = [subscribers |-> {}, buffer |-> w.buffer, last_sequence |-> w.last_sequence,
                   init_segment |-> w.init_segment, keyframes |-> w.keyframes]
           /\ w.last_sequence = IF c.seq > r.last_sequence THEN c.seq ELSE r.last_sequence
           /\ w.init_segment = IF c.kind = "init" THEN <<c>> ELSE r.init_segment
           /\ w.keyframes = IF c.kind = "key" THEN PushBounded(r.keyframes, c, MaxKeyframes)
                            ELSE r.keyframes
           /\ w.buffer = PushBounded(r.buffer, c, MaxBufferSize)
  BY DEF add_chunk, Relays

LEMMA KindGrows ==
    ASSUME HistoryInv, NEW c \in ArrivingChunks, history' = Append(history, c), NEW k
    PROVE  /\ OfKind(k) \in Seq(ArrivingChunks)
           /\ OfKind(k)' = IF c.kind = k THEN Append(OfKind(k), c) ELSE OfKind(k)
  <1> DEFINE T == [seq : SequenceNumbers, kind : {k}]
  <1>1. history \in Seq(ArrivingChunks)
    BY DEF HistoryInv
  <1>2. c \in T <=> c.kind = k
    BY DEF ArrivingChunks
  <1>3. Sifted(history, T) \in Seq(ArrivingChunks \cap T)
    BY <1>1, SiftedSeq
  <1>4. Sifted(history', T) = IF c \in T THEN Append(Sifted(history, T), c)
                              ELSE Sifted(history, T)
    BY <1>1, SiftedAppend
  <1>5. Sifted(history, T) \in Seq(ArrivingChunks)
    BY <1>3, SeqMonotonic
  <1> QED
    BY <1>2, <1>4, <1>5 DEF OfKind

\* The latest of a sequence that has just grown
LEMMA LatestOne ==
    ASSUME NEW S, NEW s \in Seq(S), NEW x \in S
    PROVE  Suffix(Append(s, x), 1) = <<x>>
  <1> DEFINE t == Append(s, x)
             k == Len(t)
             m == Left(k, 1)
  <1>1. t \in Seq(S) /\ k = Len(s) + 1 /\ t[Len(s) + 1] = x /\ Len(s) \in Nat
    BY AppendProperties
  <1>2. m = 1 /\ k - m + 1 = k
    <2>1. k \in Nat /\ k > 0
      BY <1>1
    <2> HIDE DEF k
    <2>2. m = 1
      BY <2>1 DEF Left
    <2> HIDE DEF m
    <2> QED
      BY <2>1, <2>2
  <1> HIDE DEF t
  <1>3. /\ Suffix(t, 1) \in Seq(S) /\ Len(Suffix(t, 1)) = m
        /\ \A i \in 1 .. m : Suffix(t, 1)[i] = t[k - m + i]
    <2> HIDE DEF m, k
    <2>1. k = Len(t) /\ m = Left(k, 1)
      BY DEF m, k
    <2> QED
      BY <1>1, <2>1, SuffixProperties
  <1>4. Suffix(t, 1)[1] = x
    BY <1>1, <1>2, <1>3
  <1>5. Len(Suffix(t, 1)) = 1
    BY <1>2, <1>3
  <1> QED
    BY <1>3, <1>4, <1>5, SeqEqual DEF t

LEMMA HistoryArrive ==
    ASSUME HistoryInv, NEW c \in ArrivingChunks, Arrive(c)
    PROVE  HistoryInv'
  <1>1. /\ history \in Seq(ArrivingChunks) /\ relay \in Relays
        /\ MaxBufferSize \in Nat /\ MaxKeyframes \in Nat /\ 1 \in Nat
    BY BufferAssumption DEF HistoryInv
  <1>2. history' = Append(history, c) /\ relay' = add_chunk(relay, c)
    BY DEF Arrive
  <1>3. /\ history' \in Seq(ArrivingChunks) /\ Len(history') = Len(history) + 1
        /\ history'[Len(history) + 1] = c
        /\ \A i \in 1 .. Len(history) : history'[i] = history[i]
    BY <1>1, <1>2, AppendProperties
  <1>4. /\ relay' = [subscribers |-> {}, buffer |-> relay'.buffer,
                     last_sequence |-> relay'.last_sequence,
                     init_segment |-> relay'.init_segment, keyframes |-> relay'.keyframes]
        /\ relay'.last_sequence = IF c.seq > relay.last_sequence THEN c.seq
                                  ELSE relay.last_sequence
        /\ relay'.init_segment = IF c.kind = "init" THEN <<c>> ELSE relay.init_segment
        /\ relay'.keyframes = IF c.kind = "key" THEN PushBounded(relay.keyframes, c, MaxKeyframes)
                              ELSE relay.keyframes
        /\ relay'.buffer = PushBounded(relay.buffer, c, MaxBufferSize)
    BY <1>1, <1>2, ChunkAdded
  <1>5. /\ relay.buffer = Suffix(history, MaxBufferSize)
        /\ relay.keyframes = Suffix(OfKind("key"), MaxKeyframes)
        /\ relay.init_segment = Suffix(OfKind("init"), 1)
    BY DEF HistoryInv, KeepsLatest
  <1>6. /\ OfKind("key") \in Seq(ArrivingChunks) /\ OfKind("init") \in Seq(ArrivingChunks)
        /\ OfKind("key")' = IF c.kind = "key" THEN Append(OfKind("key"), c) ELSE OfKind("key")
        /\ OfKind("init")' = IF c.kind = "init" THEN Append(OfKind("init"), c)
                             ELSE OfKind("init")
    BY <1>2, KindGrows
  <1>7. relay'.buffer = Suffix(history', MaxBufferSize)
    BY <1>1, <1>2, <1>4, <1>5, PushKeepsLatest
  <1>8. relay'.keyframes = Suffix(OfKind("key")', MaxKeyframes)
    <2>1. CASE c.kind = "key"
      <3>1. PushBounded(Suffix(OfKind("key"), MaxKeyframes), c, MaxKeyframes)
               = Suffix(Append(OfKind("key"), c), MaxKeyframes)
        BY <1>1, <1>6, PushKeepsLatest
      <3> QED
        BY <1>4, <1>5, <1>6, <2>1, <3>1
    <2>2. CASE c.kind # "key"
      BY <1>4, <1>5, <1>6, <2>2
    <2> QED
      BY <2>1, <2>2
  <1>9. relay'.init_segment = Suffix(OfKind("init")', 1)
    BY <1>4, <1>5, <1>6, LatestOne
  <1>10. /\ OfKind("key")' \in Seq(ArrivingChunks) /\ OfKind("init")' \in Seq(ArrivingChunks)
    BY <1>6, AppendProperties
  <1>11. /\ relay'.buffer \in Seq(ArrivingChunks) /\ relay'.keyframes \in Seq(ArrivingChunks)
         /\ relay'.init_segment \in Seq(ArrivingChunks)
    BY <1>1, <1>3, <1>7, <1>8, <1>9, <1>10, SuffixProperties
  <1>12. c.seq \in Nat /\ relay.last_sequence \in Nat /\ relay'.last_sequence \in Nat
    BY <1>1, <1>4, HistoryAssumption DEF ArrivingChunks, Relays
  <1>13. relay' \in Relays
    <2>1. relay' = [subscribers |-> {}, buffer |-> relay'.buffer,
                    last_sequence |-> relay'.last_sequence,
                    init_segment |-> relay'.init_segment, keyframes |-> relay'.keyframes]
      BY <1>4
    <2>2. relay'.last_sequence \in Nat
      BY <1>12
    <2> QED
      BY <2>1, <2>2, <1>11 DEF Relays
  <1>14. \A d \in Range(history') : d.seq <= relay'.last_sequence
    <2>1. ASSUME NEW i \in DOMAIN history' PROVE history'[i].seq <= relay'.last_sequence
      <3>1. i \in 1 .. Len(history) + 1 /\ Len(history) \in Nat
        BY <1>1, <1>3
      <3>2. CASE i = Len(history) + 1
        BY <1>3, <1>4, <1>12, <3>2
      <3>3. CASE i \in 1 .. Len(history)
        <4>1. history'[i] = history[i] /\ history[i] \in Range(history)
          BY <1>1, <1>3, <3>3 DEF Range
        <4>2. history[i].seq <= relay.last_sequence
          BY <4>1 DEF HistoryInv, KeepsLatest
        <4>3. history[i].seq \in Nat
          <5>1. history[i] \in ArrivingChunks
            BY <1>1, <3>3, ElementOfSeq
          <5> QED
            BY <5>1, HistoryAssumption DEF ArrivingChunks
        <4> QED
          BY <1>4, <1>12, <4>1, <4>2, <4>3
      <3> QED
        BY <3>1, <3>2, <3>3
    <2> QED
      BY <2>1 DEF Range
  <1> QED
    BY <1>3, <1>7, <1>8, <1>9, <1>13, <1>14 DEF HistoryInv, KeepsLatest

\* The last element of a sequence is the last of its latest n, and alone its latest one
LEMMA LatestLast ==
    ASSUME NEW S, NEW s \in Seq(S), s # <<>>, NEW n \in Nat, n > 0
    PROVE  /\ Suffix(s, n) # <<>> /\ Last(Suffix(s, n)) = s[Len(s)]
           /\ Suffix(s, 1) = <<s[Len(s)]>> /\ s[Len(s)] \in S
  <1> DEFINE k == Len(s)
             m == Left(k, n)
             one == Left(k, 1)
  <1>1. k \in Nat /\ k > 0 /\ k = Len(s)
    BY EmptySeq
  <1>2. m = Left(k, n) /\ one = Left(k, 1)
    OBVIOUS
  <1> HIDE DEF k
  <1>3. m \in Nat /\ m > 0 /\ m <= k /\ k - m + m = k
    BY <1>1 DEF Left
  <1>4. one = 1 /\ k - one + 1 = k
    <2>1. one = 1
      BY <1>1 DEF Left
    <2> QED
      BY <1>1, <2>1
  <1> HIDE DEF m, one
  <1>5. /\ Suffix(s, n) \in Seq(S) /\ Len(Suffix(s, n)) = m
        /\ \A i \in 1 .. m : Suffix(s, n)[i] = s[k - m + i]
    BY <1>1, <1>2, SuffixProperties
  <1>6. /\ Suffix(s, 1) \in Seq(S) /\ Len(Suffix(s, 1)) = one
        /\ \A i \in 1 .. one : Suffix(s, 1)[i] = s[k - one + i]
    BY <1>1, <1>2, SuffixProperties
  <1>7. Suffix(s, n)[m] = s[k]
    BY <1>3, <1>5
  <1>8. Suffix(s, n) # <<>>
    BY <1>3, <1>5, EmptySeq
  <1>9. s[k] \in S
    BY <1>1, ElementOfSeq
  <1>10. Suffix(s, 1) = <<s[k]>>
    <2>1. Len(Suffix(s, 1)) = 1 /\ Suffix(s, 1)[1] = s[k]
      BY <1>4, <1>6
    <2> QED
      BY <1>6, <1>9, <2>1, SeqEqual
  <1> QED
    BY <1>1, <1>5, <1>7, <1>8, <1>9, <1>10 DEF Last

\* What follows the first sequence of a concatenation
LEMMA ConcatRest ==
    ASSUME NEW S, NEW a \in Seq(S), NEW b \in Seq(S), NEW c, c = a \o b
    PROVE  SubSeq(c, Len(a) + 1, Len(c)) = b
  <1> DEFINE k == Len(a)
             l == Len(b)
             d == SubSeq(c, k + 1, k + l)
  <1>1. /\ c \in Seq(S) /\ Len(c) = k + l /\ k \in Nat /\ l \in Nat
        /\ \A i \in 1 .. k + l : c[i] = IF i <= k THEN a[i] ELSE b[i - k]
    BY ConcatProperties
  <1>2. l = Len(b)
    OBVIOUS
  <1> HIDE DEF k, l
  <1>3. \A i \in k + 1 .. k + l : c[i] \in S
    <2> TAKE i \in k + 1 .. k + l
    <2>1. i \in 1 .. Len(c)
      BY <1>1
    <2> QED
      BY <1>1, <2>1, ElementOfSeq
  <1>4. d \in Seq(S) /\ Len(d) = l /\ \A i \in 1 .. l : d[i] = c[k + i]
    BY <1>1, <1>3
  <1> HIDE DEF d
  <1>5. Len(d) = l
    BY <1>4
  <1>6. ASSUME NEW i \in 1 .. l PROVE d[i] = b[i]
    <2>1. k + i \in 1 .. k + l /\ ~(k + i <= k) /\ (k + i) - k = i
      BY <1>1
    <2> QED
      BY <1>1, <1>4, <2>1
  <1>7. d = b
    BY <1>2, <1>4, <1>5, <1>6, SeqEqual
  <1> QED
    BY <1>1, <1>7 DEF d, k

\* What was evicted, and then what is left
LEMMA EvictedLeft ==
    ASSUME NEW S, NEW s \in Seq(S), NEW n \in Nat
    PROVE  /\ SubSeq(s, 1, Len(s) - n) \in Seq(S)
           /\ s = SubSeq(s, 1, Len(s) - n) \o Suffix(s, n)
  <1> DEFINE k == Len(s)
             m == Left(k, n)
             u == Suffix(s, n)
             e == SubSeq(s, 1, k - n)
  <1>1. k = Len(s) /\ m = Left(k, n)
    OBVIOUS
  <1>2. /\ k \in Nat /\ m \in Nat /\ m <= k /\ u \in Seq(S) /\ Len(u) = m
        /\ \A i \in 1 .. m : u[i] = s[k - m + i]
    BY <1>1, SuffixProperties
  <1>3. (k - n >= 1 => k - m = k - n) /\ (~(1 <= k - n) => k - m = 0)
    BY <1>2 DEF Left
  <1> HIDE DEF k, m, u
  <1>4. \A i \in 1 .. k - n : s[i] \in S
    <2> TAKE i \in 1 .. k - n
    <2>1. i \in 1 .. k
      BY <1>2
    <2> QED
      BY <1>1, <2>1, ElementOfSeq
  <1>5. /\ e \in Seq(S) /\ Len(e) = k - m
        /\ \A i \in 1 .. k - m : e[i] = s[i]
    <2> DEFINE y == k - n
    <2>1. y \in Int /\ 1 \in Int /\ \A i \in 1 .. y : s[i] \in S
      BY <1>2, <1>4
    <2> HIDE DEF y
    <2>2. /\ SubSeq(s, 1, y) \in Seq(S)
          /\ Len(SubSeq(s, 1, y)) = IF 1 <= y THEN y - 1 + 1 ELSE 0
          /\ \A i \in 1 .. y - 1 + 1 : SubSeq(s, 1, y)[i] = s[1 + i - 1]
      BY <2>1, SubSeqProperties
    <2>3. Len(SubSeq(s, 1, y)) = k - m
      BY <1>2, <1>3, <2>1, <2>2 DEF y
    <2>4. ASSUME NEW i \in 1 .. k - m PROVE SubSeq(s, 1, y)[i] = s[i]
      <3>1. i \in 1 .. y - 1 + 1 /\ 1 + i - 1 = i
        BY <1>2, <1>3, <2>1 DEF y
      <3> QED
        BY <2>2, <3>1
    <2> QED
      BY <2>2, <2>3, <2>4 DEF y
  <1> HIDE DEF e
  <1> DEFINE j == k - m
  <1>6. j \in Nat /\ j + m = k
    BY <1>2
  <1>7. /\ e \o u \in Seq(S) /\ Len(e \o u) = j + m
        /\ \A i \in 1 .. j + m : (e \o u)[i] = IF i <= j THEN e[i] ELSE u[i - j]
    <2>1. Len(e) = j /\ Len(u) = m /\ e \in Seq(S) /\ u \in Seq(S)
      BY <1>2, <1>5
    <2> HIDE DEF j
    <2>2. /\ e \o u \in Seq(S) /\ Len(e \o u) = Len(e) + Len(u)
          /\ \A i \in 1 .. Len(e) + Len(u) :
                (e \o u)[i] = IF i <= Len(e) THEN e[i] ELSE u[i - Len(e)]
      BY <2>1, ConcatProperties
    <2> QED
      BY <2>1, <2>2
  <1>8. ASSUME NEW i \in 1 .. k PROVE (e \o u)[i] = s[i]
    <2>1. CASE i <= j
      BY <1>5, <1>6, <1>7, <2>1
    <2>2. CASE ~(i <= j)
      <3>1. i - j \in 1 .. m /\ k - m + (i - j) = i
        BY <1>2, <1>6, <2>2
      <3> QED
        BY <1>2, <1>6, <1>7, <2>2, <3>1
    <2> QED
      BY <2>1, <2>2
  <1>9. s = e \o u
    BY <1>1, <1>6, <1>7, <1>8, SeqEqual
  <1> QED
    BY <1>5, <1>9 DEF e, u, k

LEMMA CatchupHolds == HistoryInv => CatchupExact
  <1> SUFFICES ASSUME HistoryInv PROVE CatchupExact
    OBVIOUS
  <1> DEFINE cat == get_catchup_chunks(relay)
             ini == Suffix(OfKind("init"), 1)
             keys == OfKind("key")
             key == Suffix(keys, 1)
             C == ArrivingChunks
             given == SubSeq(cat, Len(ini \o key) + 1, Len(cat))
             Later == {c \in ArrivingChunks : c.seq > key[1].seq}
             evicted == SubSeq(history, 1, Len(history) - MaxBufferSize)
  <1>0. CatchupExact <=> IF key = <<>> THEN cat = ini
                         ELSE /\ cat = ini \o key \o given
                              /\ Sifted(history, Later) = Sifted(evicted, Later) \o given
    BY DEF CatchupExact
  <1>1. /\ history \in Seq(C) /\ relay.buffer \in Seq(C) /\ relay.init_segment \in Seq(C)
        /\ relay.init_segment = ini /\ relay.keyframes = Suffix(keys, MaxKeyframes)
        /\ relay.buffer = Suffix(history, MaxBufferSize)
    BY DEF HistoryInv, KeepsLatest, Relays
  <1>2. keys \in Seq(C)
    <2>1. Sifted(history, [seq : SequenceNumbers, kind : {"key"}])
             \in Seq(C \cap [seq : SequenceNumbers, kind : {"key"}])
      BY <1>1, SiftedSeq
    <2> QED
      BY <2>1, SeqMonotonic DEF OfKind
  <1>3. MaxKeyframes \in Nat /\ MaxKeyframes > 0 /\ 1 \in Nat /\ MaxBufferSize \in Nat
    BY BufferAssumption
  <1> HIDE DEF ini, keys, C
  <1>4. CASE keys = <<>>
    <2>1. \A m \in Nat : Suffix(keys, m) = <<>>
      <3> TAKE m \in Nat
      <3>1. Suffix(keys, m) = SubSeq(<<>>, 1, 0)
        BY <1>4, EmptySeq DEF Suffix
      <3> QED
        BY <3>1, SubSeqEmpty
    <2>2. key = <<>> /\ cat = ini
      BY <1>1, <1>3, <2>1 DEF get_catchup_chunks
    <2> HIDE DEF cat, key
    <2> QED
      BY <1>0, <2>2
  <1>5. CASE keys # <<>>
    <2> DEFINE top == keys[Len(keys)]
               T == {c \in Range(relay.buffer) : c.seq > top.seq}
               rest == get_chunks_since(relay, top.seq)
               a == ini \o key
    <2>1. /\ relay.keyframes # <<>> /\ Last(relay.keyframes) = top /\ key = <<top>> /\ top \in C
      BY <1>1, <1>2, <1>3, <1>5, LatestLast
    <2>2. rest = Sifted(relay.buffer, T) /\ rest \in Seq(C)
      <3>1. Sifted(relay.buffer, T) \in Seq(C \cap T)
        BY <1>1, SiftedSeq
      <3>2. rest = Sifted(relay.buffer, T)
        BY DEF get_chunks_since
      <3> HIDE DEF rest, T
      <3> QED
        BY <3>1, <3>2, SeqMonotonic
    <2>3. cat = ini \o <<top>> \o rest
      BY <1>1, <2>1 DEF get_catchup_chunks
    <2>4. a \in Seq(C) /\ cat = a \o rest /\ key # <<>> /\ key[1] = top
      <3> HIDE DEF top, key, cat, rest
      <3>1. <<top>> \in Seq(C) /\ <<top>> # <<>> /\ <<top>>[1] = top
        BY <2>1
      <3>2. ini \o <<top>> \in Seq(C)
        BY <1>1, <3>1, ConcatProperties
      <3> QED
        BY <2>1, <2>3, <3>1, <3>2
    <2>5. given = rest
      <3> HIDE DEF cat, rest, a, key
      <3>1. SubSeq(cat, Len(a) + 1, Len(cat)) = rest
        BY <2>2, <2>4, ConcatRest
      <3> QED
        BY <3>1 DEF a
    <2>6. Sifted(relay.buffer, T) = Sifted(relay.buffer, Later)
      <3> DEFINE b == relay.buffer
                 n == Len(b)
      <3>1. n \in Nat /\ n <= Len(b) /\ b \in Seq(C)
        BY <1>1
      <3>2. ASSUME NEW i \in 1 .. n PROVE b[i] = b[i] /\ (b[i] \in Later <=> b[i] \in T)
        <4>1. b[i] \in C /\ b[i] \in Range(b)
          BY <3>1, <3>2, ElementOfSeq DEF Range
        <4> HIDE DEF b, key, top
        <4> QED
          BY <2>4, <4>1 DEF b, C
      <3> HIDE DEF b, n, Later, T
      <3>3. Alike(b, Later, b, T, n)
        BY <3>2 DEF Alike
      <3>4. Sieve(b, T)[n] = Sieve(b, Later)[n]
        BY <3>1, <3>3, SieveSame
      <3> QED
        BY <3>4 DEF Sifted, b, n
    <2>7. Sifted(history, Later) = Sifted(evicted, Later) \o Sifted(relay.buffer, Later)
      <3>1. evicted \in Seq(C) /\ history = evicted \o relay.buffer
        BY <1>1, <1>3, EvictedLeft
      <3> HIDE DEF evicted, Later
      <3>2. Joined(history, evicted, relay.buffer)
        <4> DEFINE b == relay.buffer
        <4> HIDE DEF b
        <4>1. b \in Seq(C) /\ history = evicted \o b
          BY <1>1, <3>1 DEF b
        <4>2. /\ Len(evicted \o b) = Len(evicted) + Len(b)
              /\ \A i \in 1 .. Len(evicted) + Len(b) :
                    (evicted \o b)[i] = IF i <= Len(evicted) THEN evicted[i]
                                        ELSE b[i - Len(evicted)]
          BY <3>1, <4>1, ConcatProperties
        <4> QED
          BY <4>1, <4>2 DEF b, Joined
      <3>3. history \in Seq(C) /\ relay.buffer \in Seq(C) /\ evicted \in Seq(C)
        BY <1>1, <3>1
      <3> QED
        BY <3>2, <3>3, SiftedSplit
    <2> HIDE DEF cat, given, Later, evicted, rest, T, key, top
    <2> QED
      BY <1>0, <2>2, <2>4, <2>5, <2>6, <2>7 DEF a
  <1> QED
    BY <1>4, <1>5

LEMMA HistoryStep == HistoryInv /\ [StreamNext]_<<relay, history>> => HistoryInv'
  <1> SUFFICES ASSUME HistoryInv, [StreamNext]_<<relay, history>> PROVE HistoryInv'
    OBVIOUS
  <1>1. CASE UNCHANGED <<relay, history>>
    BY <1>1 DEF HistoryInv, KeepsLatest, OfKind
  <1>2. ASSUME NEW c \in ArrivingChunks, Arrive(c) PROVE HistoryInv'
    BY <1>2, HistoryArrive
  <1> QED
    BY <1>1, <1>2 DEF StreamNext

\* Eviction forgets exactly the oldest chunks, for any sizes of the buffer and the keyframe
\* list and any order in which chunks arrive (StreamRelay::add_chunk).
THEOREM AlwaysKeepsLatest == StreamSpec => []KeepsLatest
  <1>1. HistoryInv => KeepsLatest
    BY DEF HistoryInv
  <1> QED
    BY <1>1, HistoryInit, HistoryStep, PTL DEF StreamSpec

\* A late joiner is given the latest initialization segment, the latest keyframe and of the
\* chunks numbered after it all but the evicted ones, in the order of arrival, for any sizes
\* of the buffer and the keyframe list and any arrivals (StreamRelay::get_catchup_chunks).
THEOREM CatchupAlwaysExact == StreamSpec => []CatchupExact
  BY HistoryInit, HistoryStep, CatchupHolds, PTL DEF StreamSpec

-----------------------------------------------------------------------------
(* Validation: the rate of a source *)

LEMMA PlacesFinite ==
    ASSUME NEW s \in Seq(Nat), NEW A
    PROVE  IsFiniteSet(Places(s, A)) /\ Cardinality(Places(s, A)) \in Nat
  <1>1. DOMAIN s = 1 .. Len(s) /\ Len(s) \in Nat
    OBVIOUS
  <1>2. IsFiniteSet(1 .. Len(s))
    BY <1>1, FS_Interval
  <1>3. Places(s, A) \subseteq 1 .. Len(s)
    BY <1>1 DEF Places
  <1> QED
    BY <1>2, <1>3, FS_Subset, FS_CardinalityType

LEMMA PlacesWithin ==
    ASSUME NEW s \in Seq(Nat), NEW A, NEW B, \A i \in DOMAIN s : s[i] \in A => s[i] \in B
    PROVE  Cardinality(Places(s, A)) <= Cardinality(Places(s, B))
  <1>1. Places(s, A) \subseteq Places(s, B)
    BY DEF Places
  <1> QED
    BY <1>1, PlacesFinite, FS_Subset

LEMMA PlacesSplit ==
    ASSUME NEW s \in Seq(Nat), NEW A, NEW B, NEW C,
           \A i \in DOMAIN s : s[i] \in A => s[i] \in B \cup C
    PROVE  Cardinality(Places(s, A)) <= Cardinality(Places(s, B)) + Cardinality(Places(s, C))
  <1> DEFINE b == Places(s, B)
             c == Places(s, C)
  <1>1. Places(s, A) \subseteq b \cup c
    BY DEF Places
  <1>2. IsFiniteSet(b) /\ IsFiniteSet(c) /\ Cardinality(b) \in Nat /\ Cardinality(c) \in Nat
    BY PlacesFinite
  <1>3. b \cap c \subseteq b
    OBVIOUS
  <1> HIDE DEF b, c
  <1>4. /\ IsFiniteSet(b \cup c)
        /\ Cardinality(b \cup c) = Cardinality(b) + Cardinality(c) - Cardinality(b \cap c)
    BY <1>2, FS_Union
  <1>5. Cardinality(b \cap c) \in Nat
    BY <1>2, <1>3, FS_Subset, FS_CardinalityType
  <1>6. Cardinality(b \cup c) \in Nat /\ Cardinality(b \cup c) <= Cardinality(b) + Cardinality(c)
    BY <1>2, <1>4, <1>5, FS_CardinalityType
  <1>7. /\ Cardinality(Places(s, A)) <= Cardinality(b \cup c)
        /\ Cardinality(Places(s, A)) \in Nat
    BY <1>1, <1>4, FS_Subset, PlacesFinite
  <1> QED
    BY <1>2, <1>6, <1>7 DEF b, c

LEMMA PlacesAppend ==
    ASSUME NEW s \in Seq(Nat), NEW x \in Nat, NEW A
    PROVE  /\ Append(s, x) \in Seq(Nat)
           /\ x \in A => Cardinality(Places(Append(s, x), A)) = Cardinality(Places(s, A)) + 1
           /\ x \notin A => Cardinality(Places(Append(s, x), A)) = Cardinality(Places(s, A))
  <1> DEFINE t == Append(s, x)
             k == Len(s)
  <1>1. /\ t \in Seq(Nat) /\ k \in Nat /\ DOMAIN s = 1 .. k /\ DOMAIN t = 1 .. k + 1
        /\ t[k + 1] = x /\ \A i \in 1 .. k : t[i] = s[i]
    BY AppendProperties
  <1> HIDE DEF t, k
  <1>2. k + 1 \notin Places(s, A)
    BY <1>1 DEF Places
  <1>3. x \in A => Places(t, A) = Places(s, A) \cup {k + 1}
    BY <1>1 DEF Places
  <1>4. x \notin A => Places(t, A) = Places(s, A)
    BY <1>1 DEF Places
  <1>5. IsFiniteSet(Places(s, A))
    BY PlacesFinite
  <1>6. Cardinality(Places(s, A) \cup {k + 1}) = Cardinality(Places(s, A)) + 1
    BY <1>2, <1>5, FS_AddElement
  <1> QED
    BY <1>1, <1>3, <1>4, <1>6 DEF t

\* The values from t on, and those of the second before t
From(t) == {n \in Nat : n >= t}
Ahead(t) == {n \in Nat : t - Second < n /\ n < t}

\* What a window that began at start and has counted count messages says of the times p
Window(p, count, start) ==
    /\ \A i \in DOMAIN p : p[i] < start + Second
    /\ Cardinality(Places(p, From(start))) <= count
    /\ Cardinality(Places(p, From(start))) <= MaxPerSecond
    /\ Cardinality(Places(p, Ahead(start))) <= MaxPerSecond

\* What RateHonoured says of the times p of one source
Honoured(p) ==
    \A t \in 0 .. MaxTime : Cardinality(Places(p, t .. t + Second - 1)) <= 2 * MaxPerSecond

LEMMA RateNumbers == Second \in Nat /\ Second > 0 /\ MaxPerSecond \in Nat /\ MaxPerSecond > 0
  BY ValidationAssumption

\* Another second's worth of messages may pass in the window the source is in
LEMMA HonouredGrows ==
    ASSUME NEW p \in Seq(Nat), NEW x \in Nat, NEW start \in Nat, NEW count \in Nat,
           Honoured(p), start <= x, Window(Append(p, x), count, start)
    PROVE  Honoured(Append(p, x))
  <1> DEFINE q == Append(p, x)
  <1>1. q \in Seq(Nat)
    BY PlacesAppend
  <1> SUFFICES ASSUME NEW t \in 0 .. MaxTime
               PROVE  Cardinality(Places(q, t .. t + Second - 1)) <= 2 * MaxPerSecond
    BY DEF Honoured
  <1>2. t \in Nat
    BY ValidationAssumption
  <1> DEFINE A == t .. t + Second - 1
  <1>3. CASE x \notin A
    BY <1>3, PlacesAppend DEF Honoured
  <1>4. CASE x \in A
    <2>1. x < start + Second
      <3>1. Len(p) + 1 \in DOMAIN q /\ q[Len(p) + 1] = x
        BY AppendProperties
      <3> QED
        BY <3>1 DEF Window
    <2>2. \A n \in Nat : n \in A => n \in From(start) \cup Ahead(start)
      BY <1>2, <1>4, <2>1, RateNumbers DEF From, Ahead
    <2>3. \A i \in DOMAIN q : q[i] \in Nat
      BY <1>1
    <2> HIDE DEF q, A
    <2>4. \A i \in DOMAIN q : q[i] \in A => q[i] \in From(start) \cup Ahead(start)
      BY <2>2, <2>3
    <2>5. Cardinality(Places(q, A))
             <= Cardinality(Places(q, From(start))) + Cardinality(Places(q, Ahead(start)))
      BY <1>1, <2>4, PlacesSplit
    <2>6. /\ Cardinality(Places(q, From(start))) \in Nat
          /\ Cardinality(Places(q, Ahead(start))) \in Nat
          /\ Cardinality(Places(q, A)) \in Nat
      BY <1>1, PlacesFinite
    <2>7. /\ Cardinality(Places(q, From(start))) <= MaxPerSecond
          /\ Cardinality(Places(q, Ahead(start))) <= MaxPerSecond
      BY DEF Window, q
    <2>8. Cardinality(Places(q, A)) <= 2 * MaxPerSecond
      BY <2>5, <2>6, <2>7, RateNumbers
    <2> QED
      BY <2>8 DEF A, q
  <1> QED
    BY <1>3, <1>4

\* One more message in the window, and one that passes
LEMMA SameWindow ==
    ASSUME NEW p \in Seq(Nat), NEW start \in Nat, NEW count \in Nat, Window(p, count, start)
    PROVE  /\ Window(p, count + 1, start)
           /\ \A x \in Nat : start <= x /\ x < start + Second /\ count + 1 <= MaxPerSecond
                              => Window(Append(p, x), count + 1, start)
  <1>1. Cardinality(Places(p, From(start))) \in Nat
    BY PlacesFinite
  <1>2. Window(p, count + 1, start)
    BY <1>1 DEF Window
  <1>3. ASSUME NEW x \in Nat, start <= x, x < start + Second, count + 1 <= MaxPerSecond
        PROVE  Window(Append(p, x), count + 1, start)
    <2> DEFINE q == Append(p, x)
    <2>1. x \in From(start) /\ x \notin Ahead(start)
      BY <1>3 DEF From, Ahead
    <2>2. /\ Cardinality(Places(q, From(start))) = Cardinality(Places(p, From(start))) + 1
          /\ Cardinality(Places(q, Ahead(start))) = Cardinality(Places(p, Ahead(start)))
      BY <2>1, PlacesAppend
    <2>3. \A i \in DOMAIN q : q[i] < start + Second
      <3>1. \A i \in DOMAIN p : p[i] < start + Second
        BY DEF Window
      <3>2. DOMAIN p = 1 .. Len(p) /\ DOMAIN q = 1 .. Len(p) + 1 /\ Len(p) \in Nat
        BY AppendProperties
      <3>3. q[Len(p) + 1] = x /\ \A i \in 1 .. Len(p) : q[i] = p[i]
        BY AppendProperties
      <3> HIDE DEF q
      <3> TAKE i \in DOMAIN q
      <3>4. i = Len(p) + 1 \/ i \in 1 .. Len(p)
        BY <3>2
      <3> QED
        BY <1>3, <3>1, <3>2, <3>3, <3>4
    <2>4. /\ Cardinality(Places(p, From(start))) <= count
          /\ Cardinality(Places(p, Ahead(start))) <= MaxPerSecond
      BY DEF Window
    <2> HIDE DEF q
    <2>5. /\ Cardinality(Places(q, From(start))) <= count + 1
          /\ Cardinality(Places(q, From(start))) <= MaxPerSecond
      BY <1>1, <1>3, <2>2, <2>4, RateNumbers
    <2>6. Window(q, count + 1, start)
      BY <2>2, <2>3, <2>4, <2>5 DEF Window
    <2> QED
      BY <2>6 DEF q
  <1> QED
    BY <1>2, <1>3

\* A window that begins when the one before has run out
LEMMA NextWindow ==
    ASSUME NEW p \in Seq(Nat), NEW start \in Nat, NEW count \in Nat, Window(p, count, start),
           NEW x \in Nat, x >= start + Second
    PROVE  Window(p, 0, x)
  <1>1. \A i \in DOMAIN p : p[i] \in Nat /\ p[i] < start + Second
    BY DEF Window
  <1>2. \A i \in DOMAIN p : p[i] < x + Second
    BY <1>1, RateNumbers
  <1>3. \A i \in DOMAIN p : p[i] \notin From(x)
    BY <1>1, RateNumbers DEF From
  <1>4. Cardinality(Places(p, From(x))) = 0
    <2>1. Places(p, From(x)) = {}
      BY <1>3 DEF Places
    <2> QED
      BY <2>1, FS_EmptySet
  <1>5. \A n \in Nat : n \in Ahead(x) => n \in From(start)
    BY RateNumbers DEF Ahead, From
  <1>6. \A i \in DOMAIN p : p[i] \in Ahead(x) => p[i] \in From(start)
    BY <1>1, <1>5
  <1>7. /\ Cardinality(Places(p, Ahead(x))) <= Cardinality(Places(p, From(start)))
        /\ Cardinality(Places(p, Ahead(x))) \in Nat
        /\ Cardinality(Places(p, From(start))) \in Nat
    BY <1>6, PlacesWithin, PlacesFinite
  <1>8. Cardinality(Places(p, From(start))) <= MaxPerSecond
    BY DEF Window
  <1>9. Cardinality(Places(p, Ahead(x))) <= MaxPerSecond
    BY <1>7, <1>8, RateNumbers
  <1> QED
    BY <1>2, <1>4, <1>9, RateNumbers DEF Window

Entries == [count : Nat, start : Nat]

\* The entry of a source describes the window its last message fell into
RateInv ==
    /\ now \in Nat
    /\ passed \in [Senders -> Seq(Nat)]
    /\ rate_tracker \in [Senders -> Seq(Entries)]
    /\ \A s \in Senders :
          /\ Honoured(passed[s])
          /\ rate_tracker[s] = <<>> => passed[s] = <<>>
          /\ rate_tracker[s] # <<>> =>
                /\ rate_tracker[s][1].start <= now
                /\ Window(passed[s], rate_tracker[s][1].count, rate_tracker[s][1].start)

LEMMA NonePassed == Honoured(<<>>) /\ \A x \in Nat : Window(<<>>, 0, x)
  <1>1. \A A : Places(<<>>, A) = {}
    BY DEF Places
  <1>2. Cardinality({}) = 0
    BY FS_EmptySet
  <1>3. \A A : Cardinality(Places(<<>>, A)) = 0
    BY <1>1, <1>2
  <1> QED
    BY <1>3, RateNumbers DEF Honoured, Window

LEMMA FirstEntry ==
    ASSUME RateInv, NEW s \in Senders, rate_tracker[s] # <<>>
    PROVE  rate_tracker[s][1] \in Entries /\ rate_tracker[s][1].start \in Nat
  <1>1. rate_tracker[s] \in Seq(Entries)
    BY DEF RateInv
  <1>2. Len(rate_tracker[s]) \in Nat /\ Len(rate_tracker[s]) # 0
    BY <1>1, EmptySeq
  <1>3. 1 \in DOMAIN rate_tracker[s]
    BY <1>1, <1>2
  <1>4. rate_tracker[s][1] \in Entries
    BY <1>1, <1>3
  <1> QED
    BY <1>4 DEF Entries

LEMMA RateInit == ValidatorInit => RateInv
  <1> SUFFICES ASSUME ValidatorInit PROVE RateInv
    OBVIOUS
  <1>1. <<>> \in Seq(Nat) /\ <<>> \in Seq(Entries)
    OBVIOUS
  <1> QED
    BY <1>1, NonePassed DEF ValidatorInit, RateInv

\* What check_rate_limit makes of the entry
LEMMA LimitChecked ==
    ASSUME RateInv, NEW s \in Senders, NEW r, r = check_rate_limit(s)
    PROVE  /\ r.entry \in Entries /\ r.entry.start <= now
           /\ Window(passed[s], r.entry.count, r.entry.start)
           /\ r.allowed => Window(Append(passed[s], now), r.entry.count, r.entry.start)
  <1> DEFINE fresh == [count |-> 0, start |-> now]
             e == IF rate_tracker[s] = <<>> THEN fresh ELSE rate_tracker[s][1]
             count == e.count
             start == e.start
             p == passed[s]
  <1>1. now \in Nat /\ p \in Seq(Nat) /\ e \in Entries
    <2>1. now \in Nat /\ p \in Seq(Nat)
      BY DEF RateInv
    <2>2. fresh \in Entries
      BY <2>1 DEF Entries
    <2> QED
      BY <2>1, <2>2, FirstEntry
  <1>2. count \in Nat /\ start \in Nat /\ start <= now /\ Window(p, count, start)
    <2>1. CASE rate_tracker[s] = <<>>
      <3>1. p = <<>> /\ e = fresh
        BY <2>1 DEF RateInv
      <3> QED
        BY <1>1, <3>1, NonePassed
    <2>2. CASE rate_tracker[s] # <<>>
      <3>1. e = rate_tracker[s][1]
        BY <2>2
      <3> QED
        BY <1>1, <2>2, <3>1 DEF RateInv, Entries
    <2> QED
      BY <2>1, <2>2
  <1>3. r = IF now - e.start >= Second
            THEN [allowed |-> TRUE, entry |-> [count |-> 1, start |-> now]]
            ELSE [allowed |-> e.count + 1 <= MaxPerSecond, entry |-> [e EXCEPT !.count = @ + 1]]
    BY DEF check_rate_limit
  <1> HIDE DEF e, p
  <1>4. CASE now - start >= Second
    <2>1. r.allowed /\ r.entry = [count |-> 1, start |-> now]
      BY <1>3, <1>4
    <2>2. Window(p, 0, now)
      BY <1>1, <1>2, <1>4, RateNumbers, NextWindow
    <2>3. Window(p, 0 + 1, now) /\ Window(Append(p, now), 0 + 1, now)
      <3>1. now <= now /\ now < now + Second /\ 0 + 1 <= MaxPerSecond
        BY <1>1, RateNumbers
      <3> QED
        BY <1>1, <2>2, <3>1, SameWindow
    <2> QED
      BY <1>1, <2>1, <2>3 DEF Entries, p
  <1>5. CASE ~(now - start >= Second)
    <2>1. /\ r.allowed => count + 1 <= MaxPerSecond
          /\ r.entry = [e EXCEPT !.count = e.count + 1]
      <3> DEFINE fits == count + 1 <= MaxPerSecond
                 more == [e EXCEPT !.count = e.count + 1]
      <3>1. r = [allowed |-> fits, entry |-> more]
        BY <1>3, <1>5
      <3> HIDE DEF fits, more
      <3>2. r.allowed => fits
        <4>1. [allowed |-> fits, entry |-> more].allowed = fits
          BY Zenon
        <4>2. r.allowed = fits
          BY <3>1, <4>1, Zenon
        <4> QED
          BY <4>2, Zenon
      <3>3. r.entry = more
        BY <3>1
      <3> QED
        BY <3>2, <3>3 DEF fits, more
    <2>2. r.entry \in Entries /\ r.entry.count = count + 1 /\ r.entry.start = start
      BY <1>1, <1>2, <2>1 DEF Entries
    <2>3. now < start + Second
      BY <1>1, <1>2, <1>5, RateNumbers
    <2>4. /\ Window(p, count + 1, start)
          /\ r.allowed => Window(Append(p, now), count + 1, start)
      BY <1>1, <1>2, <2>1, <2>3, SameWindow
    <2> QED
      BY <1>2, <2>2, <2>4 DEF p
  <1> QED
    BY <1>4, <1>5

LEMMA RateValidate ==
    ASSUME RateInv, NEW m \in PubSubMessages, NEW s, validate(m, s)
    PROVE  RateInv'
  <1> DEFINE limited == basic_validate(m) = "Accept" /\ IsStreamData(m) /\ s \in Senders
             accepted == IsStreamData(m) /\ Verdict(m, s) = "Accept"
             r == check_rate_limit(s)
  <1>1. /\ rate_tracker' = IF limited THEN [rate_tracker EXCEPT ![s] = <<r.entry>>]
                           ELSE rate_tracker
        /\ passed' = IF accepted /\ s \in Senders
                     THEN [passed EXCEPT ![s] = Append(@, now)] ELSE passed
        /\ now' = now
    BY DEF validate
  <1>2. accepted /\ s \in Senders => limited /\ r.allowed
    BY DEF Verdict
  <1> HIDE DEF accepted, r
  <1>3. CASE ~limited
    <2>1. UNCHANGED <<rate_tracker, passed, now>>
      BY <1>1, <1>2, <1>3
    <2> QED
      BY <2>1 DEF RateInv, Honoured, Window
  <1>4. CASE limited
    <2>1. s \in Senders /\ rate_tracker' = [rate_tracker EXCEPT ![s] = <<r.entry>>]
      BY <1>1, <1>4
    <2>2. /\ r.entry \in Entries /\ r.entry.start <= now
          /\ Window(passed[s], r.entry.count, r.entry.start)
          /\ r.allowed => Window(Append(passed[s], now), r.entry.count, r.entry.start)
      BY <2>1, LimitChecked DEF r
    <2>3. r.entry.start \in Nat /\ r.entry.count \in Nat
      BY <2>2 DEF Entries
    <2>4. /\ rate_tracker' \in [Senders -> Seq(Entries)]
          /\ rate_tracker'[s] = <<r.entry>>
          /\ \A u \in Senders \ {s} : rate_tracker'[u] = rate_tracker[u]
      BY <2>1, <2>2 DEF RateInv
    <2>5. /\ passed' \in [Senders -> Seq(Nat)]
          /\ \A u \in Senders \ {s} : passed'[u] = passed[u]
          /\ \/ passed'[s] = passed[s]
             \/ passed'[s] = Append(passed[s], now) /\ r.allowed
      BY <1>1, <1>2, <2>1 DEF RateInv
    <2>6. passed[s] \in Seq(Nat) /\ Honoured(passed[s]) /\ now \in Nat
      BY <2>1 DEF RateInv
    <2>7. Window(passed'[s], r.entry.count, r.entry.start) /\ Honoured(passed'[s])
      BY <2>2, <2>3, <2>5, <2>6, HonouredGrows
    <2>8. <<r.entry>> # <<>> /\ <<r.entry>>[1] = r.entry
      OBVIOUS
    <2>9. ASSUME NEW u \in Senders
          PROVE  /\ Honoured(passed'[u])
                 /\ rate_tracker'[u] = <<>> => passed'[u] = <<>>
                 /\ rate_tracker'[u] # <<>> =>
                       /\ rate_tracker'[u][1].start <= now
                       /\ Window(passed'[u], rate_tracker'[u][1].count, rate_tracker'[u][1].start)
      <3>1. CASE u = s
        BY <2>2, <2>4, <2>7, <2>8, <3>1
      <3>2. CASE u # s
        BY <2>4, <2>5, <3>2 DEF RateInv
      <3> QED
        BY <3>1, <3>2
    <2> QED
      BY <1>1, <2>4, <2>5, <2>6, <2>9 DEF RateInv, Honoured, Window
  <1> QED
    BY <1>3, <1>4

LEMMA RateStep == RateInv /\ [ValidatorNext]_validatorVars => RateInv'
  <1> SUFFICES ASSUME RateInv, [ValidatorNext]_validatorVars PROVE RateInv'
    OBVIOUS
  <1>1. CASE Tick \/ UNCHANGED validatorVars
    <2>1. UNCHANGED <<rate_tracker, passed>> /\ now' \in Nat /\ now <= now'
      BY <1>1 DEF Tick, validatorVars, RateInv
    <2>2. \A s \in Senders : rate_tracker[s] # <<>> => rate_tracker[s][1].start \in Nat
      BY FirstEntry
    <2> QED
      BY <2>1, <2>2 DEF RateInv, Honoured, Window
  <1>2. ASSUME NEW m \in PubSubMessages,
               publish_message(m) \/ \E s \in Senders : validate(m, s) \/ async_validate(m, s)
        PROVE  RateInv'
    BY <1>2, RateValidate DEF publish_message, async_validate
  <1> QED
    BY <1>1, <1>2 DEF ValidatorNext

\* The fixed window of check_rate_limit lets at most twice the limit of a source's stream
\* messages through in any second, for any limit, length of the window, sources and messages.
THEOREM RateAlwaysHonoured == ValidatorSpec => []RateHonoured
  <1>1. RateInv => RateHonoured
    BY DEF RateInv, RateHonoured, Honoured
  <1> QED
    BY <1>1, RateInit, RateStep, PTL DEF ValidatorSpec

-----------------------------------------------------------------------------
(* Validation: whom the rate turns away *)

\* What a window counts was sent since it began
Seen(p, e) == e.count <= Cardinality(Places(p, From(e.start)))

SentInv ==
    /\ sent \in [Senders -> Seq(Nat)]
    /\ \A s \in Senders : /\ \A i \in DOMAIN sent[s] : sent[s][i] <= now
                          /\ rate_tracker[s] # <<>> => Seen(sent[s], rate_tracker[s][1])

LEMMA SentInit == ValidatorInit => SentInv
  <1> SUFFICES ASSUME ValidatorInit PROVE SentInv
    OBVIOUS
  <1>1. <<>> \in Seq(Nat) /\ DOMAIN <<>> = {}
    OBVIOUS
  <1>2. sent = [s \in Senders |-> <<>>] /\ rate_tracker = [s \in Senders |-> <<>>]
    BY DEF ValidatorInit
  <1> QED
    BY <1>1, <1>2 DEF SentInv

\* One more message, counted in the window that began at start
LEMMA SeenMore ==
    ASSUME NEW p \in Seq(Nat), NEW x \in Nat, NEW start \in Nat, start <= x,
           NEW count \in Nat, count <= Cardinality(Places(p, From(start)))
    PROVE  count + 1 <= Cardinality(Places(Append(p, x), From(start)))
  <1>1. x \in From(start)
    BY DEF From
  <1>2. Cardinality(Places(Append(p, x), From(start))) = Cardinality(Places(p, From(start))) + 1
    BY <1>1, PlacesAppend
  <1>3. Cardinality(Places(p, From(start))) \in Nat
    BY PlacesFinite
  <1> QED
    BY <1>2, <1>3

\* The entry of a source, or the one that check_rate_limit makes for it
Entry(s) == IF rate_tracker[s] = <<>> THEN [count |-> 0, start |-> now] ELSE rate_tracker[s][1]

LEMMA EntrySeen ==
    ASSUME RateInv, SentInv, NEW s \in Senders
    PROVE  Entry(s) \in Entries /\ Entry(s).start <= now /\ Seen(sent[s], Entry(s))
  <1>1. now \in Nat /\ sent[s] \in Seq(Nat)
    BY DEF RateInv, SentInv
  <1>2. CASE rate_tracker[s] = <<>>
    <2>1. Entry(s) = [count |-> 0, start |-> now]
      BY <1>2 DEF Entry
    <2>2. Cardinality(Places(sent[s], From(now))) \in Nat
      BY <1>1, PlacesFinite
    <2> QED
      BY <1>1, <2>1, <2>2 DEF Entries, Seen
  <1>3. CASE rate_tracker[s] # <<>>
    BY <1>3, FirstEntry DEF Entry, RateInv, SentInv
  <1> QED
    BY <1>2, <1>3

LEMMA SentValidate ==
    ASSUME RateInv, SentInv, NEW m \in PubSubMessages, NEW s, validate(m, s)
    PROVE  SentInv'
  <1> DEFINE limited == basic_validate(m) = "Accept" /\ IsStreamData(m) /\ s \in Senders
             r == check_rate_limit(s)
             e == Entry(s)
  <1>1. /\ rate_tracker' = IF limited THEN [rate_tracker EXCEPT ![s] = <<r.entry>>]
                           ELSE rate_tracker
        /\ sent' = IF limited THEN [sent EXCEPT ![s] = Append(@, now)] ELSE sent
        /\ now' = now
    BY DEF validate
  <1>2. CASE ~limited
    <2>1. UNCHANGED <<rate_tracker, sent, now>>
      BY <1>1, <1>2
    <2> QED
      BY <2>1 DEF SentInv, Seen
  <1>3. CASE limited
    <2> DEFINE p == sent[s]
               q == Append(p, now)
    <2>1. s \in Senders /\ now \in Nat /\ p \in Seq(Nat)
      BY <1>3 DEF RateInv, SentInv
    <2>2. r = IF now - e.start >= Second
              THEN [allowed |-> TRUE, entry |-> [count |-> 1, start |-> now]]
              ELSE [allowed |-> e.count + 1 <= MaxPerSecond, entry |-> [e EXCEPT !.count = @ + 1]]
      BY DEF check_rate_limit, Entry
    <2>3. r.entry = [count |-> 1, start |-> now] \/ r.entry = [e EXCEPT !.count = e.count + 1]
      BY <2>2
    <2>4. e \in Entries /\ e.start <= now /\ Seen(p, e)
      BY <2>1, EntrySeen
    <2> HIDE DEF r, e, q
    <2>5. Seen(q, r.entry)
      <3>1. CASE r.entry = [count |-> 1, start |-> now]
        <4>1. 0 <= Cardinality(Places(p, From(now)))
          BY <2>1, PlacesFinite
        <4>2. 0 + 1 <= Cardinality(Places(q, From(now)))
          BY <2>1, <4>1, SeenMore DEF q
        <4> QED
          BY <3>1, <4>2 DEF Seen
      <3>2. CASE r.entry = [e EXCEPT !.count = e.count + 1]
        <4>1. r.entry.count = e.count + 1 /\ r.entry.start = e.start
          BY <2>4, <3>2 DEF Entries
        <4>2. e.count \in Nat /\ e.start \in Nat
          BY <2>4 DEF Entries
        <4>3. e.count <= Cardinality(Places(p, From(e.start)))
          BY <2>4 DEF Seen
        <4>4. e.count + 1 <= Cardinality(Places(q, From(e.start)))
          BY <2>1, <2>4, <4>2, <4>3, SeenMore DEF q
        <4> QED
          BY <4>1, <4>4 DEF Seen
      <3> QED
        BY <2>3, <3>1, <3>2
    <2>6. q \in Seq(Nat) /\ \A i \in DOMAIN q : q[i] <= now
      <3>1. \A i \in DOMAIN p : p[i] <= now
        BY <2>1 DEF SentInv
      <3> HIDE DEF p
      <3> QED
        BY <2>1, <3>1 DEF q
    <2>7. /\ sent' \in [Senders -> Seq(Nat)] /\ sent'[s] = q
          /\ \A u \in Senders \ {s} : sent'[u] = sent[u]
      BY <1>1, <1>3, <2>1, <2>6 DEF SentInv, q
    <2>8. /\ rate_tracker'[s] = <<r.entry>>
          /\ \A u \in Senders \ {s} : rate_tracker'[u] = rate_tracker[u]
      BY <1>1, <1>3, <2>1 DEF RateInv
    <2>9. <<r.entry>>[1] = r.entry
      OBVIOUS
    <2>10. ASSUME NEW u \in Senders
           PROVE  /\ \A i \in DOMAIN sent'[u] : sent'[u][i] <= now
                  /\ rate_tracker'[u] # <<>> => Seen(sent'[u], rate_tracker'[u][1])
      <3>1. CASE u = s
        BY <2>5, <2>6, <2>7, <2>8, <2>9, <3>1
      <3>2. CASE u # s
        BY <2>7, <2>8, <3>2 DEF SentInv
      <3> QED
        BY <3>1, <3>2
    <2> QED
      BY <1>1, <2>7, <2>10 DEF SentInv, Seen
  <1> QED
    BY <1>2, <1>3

LEMMA RefusedCause == RateInv /\ SentInv => RefusedForCause
  <1> SUFFICES ASSUME RateInv, SentInv, NEW s \in Senders, ~check_rate_limit(s).allowed
               PROVE  Cardinality(Places(sent[s], now - Second + 1 .. now)) >= MaxPerSecond
    BY DEF RefusedForCause
  <1> DEFINE e == Entry(s)
             r == check_rate_limit(s)
             p == sent[s]
             fits == e.count + 1 <= MaxPerSecond
             more == [e EXCEPT !.count = @ + 1]
             B == now - Second + 1 .. now
  <1>1. r = IF now - e.start >= Second
            THEN [allowed |-> TRUE, entry |-> [count |-> 1, start |-> now]]
            ELSE [allowed |-> fits, entry |-> more]
    BY DEF check_rate_limit, Entry
  <1>2. now \in Nat /\ p \in Seq(Nat) /\ \A i \in DOMAIN p : p[i] <= now
    BY DEF RateInv, SentInv
  <1>3. e \in Entries /\ e.start <= now /\ Seen(p, e)
    BY EntrySeen
  <1> HIDE DEF e, p, fits, more
  <1>4. ~(now - e.start >= Second)
    BY <1>1
  <1>5. ~fits
    <2>1. r = [allowed |-> fits, entry |-> more]
      BY <1>1, <1>4
    <2> HIDE DEF r
    <2>2. [allowed |-> fits, entry |-> more].allowed = fits
      BY Zenon
    <2>3. r.allowed = fits
      BY <2>1, <2>2, Zenon
    <2>4. ~r.allowed
      BY DEF r
    <2> QED
      BY <2>3, <2>4, Zenon
  <1>6. e.count \in Nat /\ e.start \in Nat /\ e.count >= MaxPerSecond
    BY <1>3, <1>5, RateNumbers DEF Entries, fits
  <1>7. \A n \in Nat : n <= now /\ n \in From(e.start) => n \in B
    BY <1>2, <1>4, <1>6, RateNumbers DEF From
  <1>8. \A i \in DOMAIN p : p[i] \in From(e.start) => p[i] \in B
    BY <1>2, <1>7
  <1> HIDE DEF B
  <1>9. Cardinality(Places(p, From(e.start))) <= Cardinality(Places(p, B))
    BY <1>2, <1>8, PlacesWithin
  <1>10. Cardinality(Places(p, From(e.start))) \in Nat /\ Cardinality(Places(p, B)) \in Nat
    BY <1>2, PlacesFinite
  <1>11. e.count <= Cardinality(Places(p, From(e.start)))
    BY <1>3 DEF Seen
  <1>12. Cardinality(Places(p, B)) >= MaxPerSecond
    BY <1>6, <1>9, <1>10, <1>11, RateNumbers
  <1> QED
    BY <1>12 DEF p, B

\* A source that keeps to the rate is never refused for it, for any limit, length of the
\* window, sources and messages, whatever the source sent in earlier windows
\* (StreamDataValidator::check_rate_limit).
THEOREM AlwaysRefusedForCause == ValidatorSpec => []RefusedForCause
  <1>1. RateInv /\ SentInv /\ [ValidatorNext]_validatorVars => RateInv' /\ SentInv'
    <2> SUFFICES ASSUME RateInv, SentInv, [ValidatorNext]_validatorVars PROVE RateInv' /\ SentInv'
      OBVIOUS
    <2>1. CASE Tick \/ UNCHANGED validatorVars
      <3>1. UNCHANGED <<rate_tracker, sent>> /\ now' \in Nat /\ now \in Nat /\ now <= now'
        BY <2>1 DEF Tick, validatorVars, RateInv
      <3>2. \A s \in Senders : \A i \in DOMAIN sent[s] : sent[s][i] \in Nat /\ sent[s][i] <= now
        BY DEF SentInv
      <3>3. \A s \in Senders : \A i \in DOMAIN sent[s] : sent[s][i] <= now'
        BY <3>1, <3>2
      <3> QED
        BY <2>1, <3>1, <3>3, RateStep DEF SentInv, Seen, ValidatorNext
    <2>2. ASSUME NEW m \in PubSubMessages,
                 publish_message(m) \/ \E s \in Senders : validate(m, s) \/ async_validate(m, s)
          PROVE  RateInv' /\ SentInv'
      BY <2>2, RateValidate, SentValidate DEF publish_message, async_validate
    <2> QED
      BY <2>1, <2>2 DEF ValidatorNext
  <1> QED
    BY <1>1, RateInit, SentInit, RefusedCause, PTL DEF ValidatorSpec
=============================================================================
