----------------------------- MODULE WebStreaming -----------------------------
(***************************************************************************)
(* Streaming through the node's web server (node/src/web_server.rs): the   *)
(* StreamManager with its start and stop requests, the two loops that play *)
(* the loaded file, the listeners that take events from the overlay, and the   *)
(* sockets of viewers (/stream) and of browser peers (/ws/relay).          *)
(*                                                                         *)
(* One action per stretch of code between two awaits.  The playing task    *)
(* keeps the lock of video_samples for as long as it plays.  Every         *)
(* listener takes events from the one queue of the overlay.  The segment   *)
(* channel is tokio's broadcast: a receiver that falls behind loses the    *)
(* oldest segments and is told how many at its next recv.                  *)
(*                                                                         *)
(* A segment is its number, its stream and its kind: metadata is JSON,     *)
(* "bare" metadata is not, and "garbage" is what comes from the overlay    *)
(* and is no WireSegment at all.  Codecs, payload and pacing are left out. *)
(* What goes to the overlay is the Libp2pOverlay module's.                 *)
(***************************************************************************)
EXTENDS Naturals, Sequences, FiniteSets

CONSTANTS
    Clients,    \* viewers
    Relays,     \* sockets of browser peers
    Streams,    \* streams of the network
    Own,        \* the stream_id of this node, one of Streams
    Segments,   \* media segments of the loaded file
    Starts,     \* requests to start, numbers from 1
    BusCapacity,    \* broadcast::channel(1000)
    RelayCapacity,  \* mpsc::channel(256)
    MaxSends,   \* bound: the players do not go on for a receiver of that many
    MaxEvents   \* bound: events from the overlay

ASSUME WebAssumption ==
    /\ Own \in Streams
    /\ {Segments, MaxSends, MaxEvents} \subseteq Nat
    /\ {BusCapacity, RelayCapacity} \subseteq Nat \ {0}

VARIABLES
    mode,          \* no overlay, publishing or watching Own, or browsing
    loaded,        \* whether load_video_file stored video_samples
    is_streaming,
    start,         \* where each start request is
    player,        \* the web viewer program's own loop over the samples is on
    task,          \* where the task each start spawned is, and its next segment
    samples_lock,  \* the task that holds video_samples, 0 for none
    announced,     \* Own is announced through the stream discovery
    init_segment,  \* an initialization segment is stored
    events,        \* the overlay's queue
    arrived,       \* events that came so far
    listeners,     \* receive loops: <<"start", k>> and <<"client", c>>
    client, relay  \* the sockets

control == <<mode, loaded, start, player, task, samples_lock, announced>>
overlay == <<init_segment, events, arrived>>
bus == <<client, relay>>
vars == <<control, is_streaming, overlay, listeners, bus>>

Local == mode = "local"

(* A receiver of the broadcast channel *)
NoReceiver == [open |-> FALSE, inbox |-> <<>>, lag |-> 0, sent |-> 0]
Subscribed == [NoReceiver EXCEPT !.open = TRUE]
Push(r, seg) ==
    LET x == [seg EXCEPT !.n = r.sent + 1]
        q == [r EXCEPT !.sent = @ + 1, !.inbox = Append(@, x)]
    IN IF ~r.open THEN r
       ELSE IF Len(r.inbox) < BusCapacity THEN q
       ELSE [q EXCEPT !.inbox = Tail(@), !.lag = @ + 1]

NewClient == [at |-> "new", want |-> Own, rx |-> NoReceiver,
              delivered |-> 0, last |-> 0, dropped |-> 0, skipped |-> 0]
NewRelay == [at |-> "new", want |-> Own, task |-> "none", rx |-> NoReceiver, queued |-> 0]

Init ==
    /\ mode \in {"local", "publish", "browse"}
    /\ loaded \in BOOLEAN
    /\ is_streaming = FALSE
    /\ start = [k \in Starts |-> "new"]
    /\ task = [k \in Starts |-> [at |-> "none", next |-> 1]]
    /\ player = FALSE
    /\ samples_lock = 0
    /\ announced = FALSE
    /\ init_segment = loaded
    /\ events = <<>> /\ arrived = 0
    /\ listeners = {}
    /\ client = [c \in Clients |-> NewClient]
    /\ relay = [r \in Relays |-> NewRelay]

Receivers == {c \in Clients : client[c].rx.open} \cup {r \in Relays : relay[r].rx.open}

MayGoOn ==   \* the bound
    /\ \A c \in Clients : client[c].rx.sent < MaxSends
    /\ \A r \in Relays : relay[r].rx.sent < MaxSends

\* segment_sender.send, when there is a receiver
Broadcast(stream, kind) ==
    IF Receivers = {} THEN UNCHANGED bus
    ELSE LET seg == [n |-> 0, stream |-> stream, kind |-> kind]
         IN /\ client' = [c \in Clients |-> [client[c] EXCEPT !.rx = Push(@, seg)]]
            /\ relay' = [r \in Relays |-> [relay[r] EXCEPT !.rx = Push(@, seg)]]

-----------------------------------------------------------------------------
(* StreamManager *)

\* start_streaming up to its look at video_samples: the codecs or the
\* subscription may fail, the second of them after the flag was set
start_streaming(k) ==
    /\ start[k] = "new"
    /\ \/ /\ start' = [start EXCEPT ![k] = "failed"]
          /\ UNCHANGED <<is_streaming, listeners, bus>>
       \/ /\ mode = "publish"
          /\ Broadcast(Own, "metadata")
          /\ is_streaming' = TRUE
          /\ start' = [start EXCEPT ![k] = "failed"]
          /\ UNCHANGED listeners
       \/ /\ Broadcast(Own, "metadata")
          /\ is_streaming' = TRUE
          /\ start' = [start EXCEPT ![k] = "announce"]
          /\ listeners' = IF mode = "publish" THEN listeners \cup {<<"start", k>>}
                                              ELSE listeners
    /\ UNCHANGED <<mode, loaded, player, task, samples_lock, announced, overlay>>

\* The rest of it: the announcement, whose failure is only logged, the browse-mode
\* listener, the playing task
start_announce(k) ==
    /\ start[k] = "announce" /\ samples_lock = 0
    /\ announced' \in IF loaded /\ mode = "publish" THEN {announced, TRUE} ELSE {announced}
    /\ listeners' = IF mode = "browse" THEN listeners \cup {<<"start", k>>} ELSE listeners
    /\ task' = [task EXCEPT ![k].at = "wait"]
    /\ start' = [start EXCEPT ![k] = "returned"]
    /\ UNCHANGED <<mode, loaded, player, is_streaming, samples_lock, overlay, bus>>

\* The task waits a second, publishes the initialization segment to the
\* overlay if there is one, and takes the samples
play_begin(k) ==
    /\ task[k].at = "wait" /\ samples_lock = 0
    /\ IF loaded
       THEN /\ samples_lock' = k
            /\ task' = [task EXCEPT ![k].at = "play"]
            /\ UNCHANGED is_streaming
       ELSE /\ task' = [task EXCEPT ![k].at = "done"]
            /\ is_streaming' = (is_streaming /\ ~Local)
            /\ UNCHANGED samples_lock
    /\ UNCHANGED <<mode, loaded, player, start, announced, overlay, listeners, bus>>

\* Mutant: the flag stays up
EndKeepsFlag(k) ==
    /\ task' = [task EXCEPT ![k].at = "done"]
    /\ samples_lock' = 0
    /\ UNCHANGED <<bus, is_streaming>>

\* Finished: the flag goes down and the lock with the guard
PlayEnd(k) ==
    /\ task' = [task EXCEPT ![k].at = "done"]
    /\ samples_lock' = 0
    /\ is_streaming' = FALSE
    /\ UNCHANGED bus

\* One segment, unless nobody is there to see it
play_segment(k) ==
    /\ task[k].at = "play" /\ task[k].next <= Segments
    /\ IF Receivers = {} /\ Local
       THEN PlayEnd(k)
       ELSE /\ Broadcast(Own, "media")
            /\ task' = [task EXCEPT ![k].next = @ + 1]
            /\ UNCHANGED <<samples_lock, is_streaming>>
    /\ UNCHANGED <<mode, loaded, player, start, announced, overlay, listeners>>

\* Mutant: the file is played again and again also without the overlay
LoopForEver(k) ==
    /\ task[k].at = "play" /\ task[k].next > Segments
    /\ MayGoOn
    /\ task' = [task EXCEPT ![k].next = 1]
    /\ UNCHANGED <<mode, loaded, player, start, announced, samples_lock, is_streaming, bus,
                   overlay, listeners>>

\* After the last segment: once without the overlay, again and again with it
play_loop(k) ==
    /\ task[k].at = "play" /\ task[k].next > Segments
    /\ IF Local
       THEN PlayEnd(k)
       ELSE /\ MayGoOn
            /\ task' = [task EXCEPT ![k].next = 1]
            /\ UNCHANGED <<samples_lock, is_streaming, bus>>
    /\ UNCHANGED <<mode, loaded, player, start, announced, overlay, listeners>>

stop_streaming ==
    /\ is_streaming' = FALSE
    /\ announced' = FALSE
    /\ UNCHANGED <<mode, loaded, player, start, task, samples_lock, overlay, listeners, bus>>

\* run_web_viewer, whose request is the first: once it has returned the program
\* copies the samples and plays them as well
player_begin ==
    /\ loaded /\ ~player /\ samples_lock = 0
    /\ \E k \in Starts : start[k] = "returned" /\ \A j \in Starts : k <= j
    /\ player' = TRUE
    /\ UNCHANGED <<mode, loaded, start, task, samples_lock, announced, is_streaming, overlay,
                   listeners, bus>>

\* ... with send_video_segment and send_audio_segment
player_segment ==
    /\ player /\ Receivers # {} /\ MayGoOn
    /\ Broadcast(Own, "media")
    /\ UNCHANGED <<control, is_streaming, overlay, listeners>>

-----------------------------------------------------------------------------
(* The overlay's events and those who take them *)

\* The overlay passes on whatever was published, also by other programs
Kinds == {"metadata", "init", "media", "bare", "garbage"}

Arrive(s, kind) ==
    /\ ~Local /\ arrived < MaxEvents
    /\ arrived' = arrived + 1
    /\ events' = Append(events, [stream |-> s, kind |-> kind])
    /\ UNCHANGED <<control, is_streaming, init_segment, listeners, bus>>

\* run_p2p_receive_loop ends only when it has a flag and finds it down
Stops(l) == l[1] = "start" /\ ~is_streaming
Wanted(l) == IF l[1] = "start" THEN Own ELSE client[l[2]].want
\* The browse-mode listener looks at announcements only
Forwards(l, e) ==
    e.stream = Wanted(l) /\ e.kind # "garbage" /\ ~(l[1] = "start" /\ mode = "browse")

listener_take(l) ==
    /\ l \in listeners /\ ~Stops(l) /\ events # <<>>
    /\ events' = Tail(events)
    /\ IF Forwards(l, Head(events))
       THEN /\ init_segment' = (init_segment \/ Head(events).kind = "init")
            /\ Broadcast(Head(events).stream, Head(events).kind)
       ELSE UNCHANGED <<init_segment, bus>>
    /\ UNCHANGED <<control, is_streaming, arrived, listeners>>

listener_stop(l) ==
    /\ l \in listeners /\ Stops(l)
    /\ listeners' = listeners \ {l}
    /\ UNCHANGED <<control, is_streaming, overlay, bus>>

-----------------------------------------------------------------------------
(* Viewers: handle_websocket *)

SetClient(c, r) == client' = [client EXCEPT ![c] = r]
Closed(c) == [NewClient EXCEPT !.at = "closed", !.want = client[c].want]

\* In browse mode a socket that names a stream gets a listener of its own, with no
\* stop flag
connect(c, s) ==
    /\ client[c].at = "new"
    /\ SetClient(c, [client[c] EXCEPT !.at = "info", !.want = s, !.rx = Subscribed])
    /\ \/ UNCHANGED listeners
       \/ mode = "browse" /\ listeners' = listeners \cup {<<"client", c>>}
    /\ UNCHANGED <<control, is_streaming, overlay, relay>>

\* A send of the handshake fails: the handler returns, past the clean-up at its end
HandshakeFails(c) == SetClient(c, Closed(c))

send_stream_info(c) ==
    /\ client[c].at = "info"
    /\ SetClient(c, [client[c] EXCEPT !.at = "init"]) \/ HandshakeFails(c)
    /\ UNCHANGED <<control, is_streaming, overlay, listeners, relay>>

\* The initialization segments, in pieces of at most 512 KiB, if there are any
send_init(c) ==
    /\ client[c].at = "init"
    /\ \/ SetClient(c, [client[c] EXCEPT !.at = "stream"])
       \/ init_segment /\ HandshakeFails(c)
    /\ UNCHANGED <<control, is_streaming, overlay, listeners, relay>>

\* The writer loop is left: the listener of this socket is aborted
Leave(c, r) ==
    /\ SetClient(c, r)
    /\ listeners' = listeners \ {<<"client", c>>}

\* Metadata that is not JSON is passed over: neither sent nor counted (skipped is a
\* ghost).  What is sent may fail
recv_segment(c) ==
    /\ client[c].at = "stream" /\ client[c].rx.lag = 0 /\ client[c].rx.inbox # <<>>
    /\ LET x == Head(client[c].rx.inbox)
       IN \/ /\ x.kind = "bare"
             /\ SetClient(c, [client[c] EXCEPT !.rx.inbox = Tail(@), !.skipped = @ + 1])
             /\ UNCHANGED listeners
          \/ /\ x.kind # "bare"
             /\ SetClient(c, [client[c] EXCEPT !.rx.inbox = Tail(@),
                                 !.delivered = @ + 1, !.last = x.n])
             /\ UNCHANGED listeners
          \/ x.kind # "bare" /\ Leave(c, Closed(c))
    /\ UNCHANGED <<control, is_streaming, overlay, relay>>

\* Mutant: what was skipped is not counted
LaggedUncounted(c) ==
    /\ client[c].at = "stream" /\ client[c].rx.lag > 0
    /\ SetClient(c, [client[c] EXCEPT !.rx.lag = 0])
    /\ UNCHANGED <<control, is_streaming, overlay, listeners, relay>>

recv_lagged(c) ==
    /\ client[c].at = "stream" /\ client[c].rx.lag > 0
    /\ SetClient(c, [client[c] EXCEPT !.rx.lag = 0, !.dropped = @ + client[c].rx.lag])
    /\ UNCHANGED <<control, is_streaming, overlay, listeners, relay>>

\* Nothing came for two seconds: end_of_stream when nothing is being streamed
end_of_stream(c) ==
    /\ client[c].at = "stream" /\ client[c].rx.lag = 0 /\ client[c].rx.inbox = <<>>
    /\ ~is_streaming
    /\ Leave(c, Closed(c))
    /\ UNCHANGED <<control, is_streaming, overlay, relay>>

\* The reader task saw the end of the socket, or a heartbeat failed
disconnect(c) ==
    /\ client[c].at = "stream"
    /\ Leave(c, Closed(c))
    /\ UNCHANGED <<control, is_streaming, overlay, relay>>

-----------------------------------------------------------------------------
(* Browser peers: handle_relay_websocket *)

SetRelay(r, x) == relay' = [relay EXCEPT ![r] = x]
NoTask(x) == [x EXCEPT !.task = "none", !.rx = NoReceiver]
Queue(x) == [x EXCEPT !.queued = @ + 1]

\* Whatever task there was is aborted and one for s started
relay_subscribe(r, s) ==
    /\ relay[r].at \in {"new", "open"}
    /\ LET x == [relay[r] EXCEPT !.at = "open", !.want = s]
       IN SetRelay(r, IF Local
              THEN [x EXCEPT !.task = "bus", !.rx = Subscribed]
              ELSE [(IF init_segment /\ x.queued < RelayCapacity THEN Queue(x) ELSE x)
                       EXCEPT !.task = "overlay"])
    /\ UNCHANGED <<control, is_streaming, overlay, listeners, client>>

relay_unsubscribe(r) ==
    /\ relay[r].at = "open" /\ relay[r].task # "none"
    /\ SetRelay(r, NoTask(relay[r]))
    /\ UNCHANGED <<control, is_streaming, overlay, listeners, client>>

\* The task takes an event of the overlay; it ends when the channel is full
relay_take(r) ==
    /\ relay[r].task = "overlay" /\ events # <<>>
    /\ events' = Tail(events)
    /\ SetRelay(r, IF Head(events).stream # relay[r].want THEN relay[r]
                   ELSE IF relay[r].queued < RelayCapacity THEN Queue(relay[r])
                   ELSE NoTask(relay[r]))
    /\ UNCHANGED <<control, is_streaming, init_segment, arrived, listeners, client>>

\* The task takes a segment of the channel; it also ends when it lags
relay_recv(r) ==
    LET x == relay[r]
    IN /\ x.task = "bus" /\ (x.rx.inbox # <<>> \/ x.rx.lag > 0)
       /\ SetRelay(r, IF x.rx.lag > 0 \/ x.queued >= RelayCapacity THEN NoTask(x)
                      ELSE Queue([x EXCEPT !.rx.inbox = Tail(@)]))
       /\ UNCHANGED <<control, is_streaming, overlay, listeners, client>>

relay_forward(r) ==
    /\ relay[r].at = "open" /\ relay[r].queued > 0
    /\ SetRelay(r, [relay[r] EXCEPT !.queued = @ - 1])
    /\ UNCHANGED <<control, is_streaming, overlay, listeners, client>>

relay_close(r) ==
    /\ relay[r].at = "open"
    /\ SetRelay(r, [NoTask(relay[r]) EXCEPT !.at = "closed", !.queued = 0])
    /\ UNCHANGED <<control, is_streaming, overlay, listeners, client>>

-----------------------------------------------------------------------------
Manager(k) == start_announce(k) \/ play_begin(k) \/ play_segment(k) \/ play_loop(k)
Viewer(c) == send_stream_info(c) \/ send_init(c) \/ recv_segment(c) \/ recv_lagged(c) \/ end_of_stream(c)
Listen == \E l \in listeners : listener_take(l) \/ listener_stop(l)

Next ==
    \/ \E k \in Starts : start_streaming(k) \/ Manager(k)
    \/ stop_streaming \/ player_begin \/ player_segment
    \/ \E s \in Streams, kind \in Kinds : Arrive(s, kind)
    \/ Listen
    \/ \E c \in Clients : Viewer(c) \/ disconnect(c) \/ \E s \in Streams : connect(c, s)
    \/ \E r \in Relays : \/ relay_unsubscribe(r) \/ relay_take(r) \/ relay_recv(r)
                         \/ relay_forward(r) \/ relay_close(r)
                         \/ \E s \in Streams : relay_subscribe(r, s)

\* tokio runs a task that can go on, a broadcast wakes its receivers and timers fire
Fairness ==
    /\ \A k \in Starts : WF_vars(Manager(k))
    /\ \A c \in Clients : WF_vars(Viewer(c))
    /\ WF_vars(Listen)

Spec == Init /\ [][Next]_vars /\ Fairness

-----------------------------------------------------------------------------
\* Every segment broadcast since a viewer subscribed is accounted for: sent to it
\* in order, counted as dropped, still to come, or metadata that is not JSON, which
\* the loop passes over uncounted and which only the network brings.  Viewers fall
\* behind, lag is reported late, and several tasks and listeners broadcast at once
\* (handle_websocket's writer loop, StreamManager::segment_sender).
ViewerAccounts ==
    \A c \in Clients : LET v == client[c] IN v.rx.open =>
        /\ v.delivered + v.dropped + v.skipped + Len(v.rx.inbox) + v.rx.lag = v.rx.sent
        /\ Local => v.skipped = 0
        /\ \A i \in DOMAIN v.rx.inbox : v.rx.inbox[i].n = v.rx.sent - Len(v.rx.inbox) + i
        /\ v.last <= v.rx.sent - Len(v.rx.inbox) - v.rx.lag

\* Without the overlay every request to start is answered, although it waits for
\* the samples, which the playing task keeps until its last segment.
StartReturns ==
    Local => \A k \in Starts : start[k] = "announce" ~> start[k] = "returned"

\* Without the overlay every viewer is let go in the end, also when starts, stops
\* and live segments overlap: some task always takes the flag down.
ViewersEnd ==
    Local => <>[](\A c \in Clients : client[c].at # "stream")
=============================================================================
