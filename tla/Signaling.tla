------------------------------- MODULE Signaling -------------------------------
(***************************************************************************)
(* WebRTC signalling of the node's web server (node/src/web_server.rs):    *)
(* connections that take a WebSocket slot, register a bounded channel,     *)
(* join rooms, relay offers, answers and candidates, leave and close; the  *)
(* administrator who blocks a peer and kicks it; and the task that removes *)
(* idle rooms.                                                             *)
(*                                                                         *)
(* One action per stretch of a handler between two awaits.  Two RwLocks    *)
(* are held across an await: a connection at "tail" holds peer_senders for *)
(* reading and waits for streams; one at "reject" or "cleaning" holds      *)
(* streams for writing and waits for peer_senders.  tokio's RwLock is      *)
(* fair, so a waiting writer of peer_senders holds up every later reader.  *)
(* stats_handler is left out: it changes nothing, and takes the locks as a *)
(* connection at "tail" does.                                              *)
(*                                                                         *)
(* A peer is one connection (its uuid).  SDP, candidates and what a member *)
(* says of itself are only passed on, so a channel is its length; what a   *)
(* peer has been told of the others is kept in heard.                      *)
(***************************************************************************)
EXTENDS Naturals, FiniteSets

CONSTANTS
    Peers,            \* connections
    Streams,          \* stream ids that pass validate_id
    Configs,          \* what the server may be configured with
    ChannelCapacity,  \* mpsc::channel(64)
    MaxRequests       \* bound: messages and requests to block a peer

ASSUME SignalingAssumption ==
    /\ {ChannelCapacity, MaxRequests} \subseteq Nat
    /\ Configs \subseteq [max_ws_connections : Nat, max_stream_rooms : Nat,
                          max_peers_per_stream : Nat \ {0}]

VARIABLES
    config,               \* one of Configs, for good
    ws_connection_count,  \* the AtomicUsize shared by every WebSocket endpoint
    pc,                   \* where each connection's handler is
    peer_senders,         \* connections with a registered sender
    queued,               \* messages in each connection's channel
    streams,              \* rooms: stream id -> peers in it
    stream_last_active,   \* stream id -> whether its stamp is recent
    current_stream_id,    \* the stream each connection joined last, {} or {s}
    target,               \* the stream of the join being handled, {} or {s}
    list,                 \* the peer list a joining connection will be sent
    closing,              \* whether the socket has closed
    blocked,              \* peers the moderation manager blocks
    admin,                \* where the block handler is
    kicked,               \* the peer it kicks, {} or {p}
    remaining,            \* peers the kick still has to notify
    heard,                \* peers each peer was told of and not told to forget
    lost,                 \* peers some message to whom found the channel full
    requests              \* messages and requests to block so far

rooms == <<streams, stream_last_active>>
channels == <<queued, heard, lost>>
moderator == <<blocked, admin, kicked, remaining>>
vars == <<config, ws_connection_count, pc, peer_senders, rooms, channels, current_stream_id, target,
          list, closing, moderator, requests>>

MaxWs == config.max_ws_connections    \* 0 for unlimited
MaxRooms == config.max_stream_rooms
MaxPeers == config.max_peers_per_stream

Init ==
    /\ config \in Configs
    /\ ws_connection_count = 0
    /\ pc = [p \in Peers |-> "new"]
    /\ peer_senders = {}
    /\ queued = [p \in Peers |-> 0]
    /\ streams = [s \in {} |-> {}]
    /\ stream_last_active = [s \in {} |-> TRUE]
    /\ current_stream_id = [p \in Peers |-> {}]
    /\ target = [p \in Peers |-> {}]
    /\ list = [p \in Peers |-> {}]
    /\ closing = [p \in Peers |-> FALSE]
    /\ blocked = {}
    /\ admin = "idle"
    /\ kicked = {}
    /\ remaining = {}
    /\ heard = [p \in Peers |-> {}]
    /\ lost = {}
    /\ requests = 0

Goto(p, l) == pc' = [pc EXCEPT ![p] = l]
RoomOf(s) == IF s \in DOMAIN streams THEN streams[s] ELSE {}
Drop(f, S) == [x \in DOMAIN f \ S |-> f[x]]
Put(f, x, y) == [z \in DOMAIN f \cup {x} |-> IF z = x THEN y ELSE f[z]]

(* The locks: who may take them next *)
SendersWriteWaits == (\E p \in Peers : pc[p] \in {"register", "unregister"})
                     \/ admin = "remove"
SendersWriteFree == \A p \in Peers : pc[p] # "tail"
SendersReadFree == ~SendersWriteWaits
StreamsFree == \A p \in Peers : pc[p] \notin {"reject", "cleaning"}

(* try_send to each peer of T that has a sender; told of Who, or to forget it *)
TrySend(T, Told(_)) ==
    LET here == T \cap peer_senders
        room == {q \in here : queued[q] < ChannelCapacity}
    IN /\ queued' = [q \in Peers |-> IF q \in room THEN queued[q] + 1 ELSE queued[q]]
       /\ heard' = [q \in Peers |-> IF q \in room THEN Told(q) ELSE heard[q]]
       /\ lost' = lost \cup (here \ room)
Unheard(q) == heard[q]   \* a message that names nobody new

\* The sender goes, and the channel with what was in it
RemoveSender(S) ==
    /\ peer_senders' = peer_senders \ S
    /\ queued' = [q \in Peers |-> IF q \in S THEN 0 ELSE queued[q]]
    /\ heard' = [q \in Peers |-> IF q \in S THEN {} ELSE heard[q]]
    /\ lost' = lost \ S

-----------------------------------------------------------------------------
(* Connections *)

\* Mutant: off by one at the limit
SlotOneMore(p) ==
    /\ pc[p] = "new"
    /\ ws_connection_count' = ws_connection_count + 1
    /\ Goto(p, IF MaxWs # 0 /\ ws_connection_count > MaxWs THEN "refused" ELSE "register")
    /\ UNCHANGED <<config, peer_senders, rooms, channels, current_stream_id, target, list, closing,
                   moderator, requests>>

\* try_acquire_ws_slot: the counter goes up first and is looked at afterwards
try_acquire_ws_slot(p) ==
    /\ pc[p] = "new"
    /\ ws_connection_count' = ws_connection_count + 1
    /\ Goto(p, IF MaxWs # 0 /\ ws_connection_count >= MaxWs THEN "refused" ELSE "register")
    /\ UNCHANGED <<config, peer_senders, rooms, channels, current_stream_id, target, list, closing,
                   moderator, requests>>

\* Mutant: the refused connection's guard is dropped as well
RefuseTwice(p) ==
    /\ pc[p] = "refused"
    /\ ws_connection_count' = ws_connection_count - 2
    /\ Goto(p, "gone")
    /\ UNCHANGED <<config, peer_senders, rooms, channels, current_stream_id, target, list,
                   closing, moderator, requests>>

\* The refusal gives the count back
refuse(p) ==
    /\ pc[p] = "refused"
    /\ ws_connection_count' = ws_connection_count - 1
    /\ Goto(p, "gone")
    /\ UNCHANGED <<config, peer_senders, rooms, channels, current_stream_id, target, list,
                   closing, moderator, requests>>

\* handle_webrtc_signaling: register the sender
register(p) ==
    /\ pc[p] = "register" /\ SendersWriteFree
    /\ peer_senders' = peer_senders \cup {p}
    /\ Goto(p, "loop")
    /\ UNCHANGED <<config, ws_connection_count, rooms, channels, current_stream_id, target, list, closing,
                   moderator, requests>>

\* The sender task writes one message to the socket; it is aborted when the socket closes
forward(p) ==
    /\ p \in peer_senders /\ queued[p] > 0 /\ ~closing[p]
    /\ queued' = [queued EXCEPT ![p] = @ - 1]
    /\ UNCHANGED <<config, ws_connection_count, pc, peer_senders, rooms, heard, lost, current_stream_id,
                   target, list, closing, moderator, requests>>

\* The socket ends: the loop is left and the peer cleaned up
close(p) ==
    /\ pc[p] = "loop"
    /\ closing' = [closing EXCEPT ![p] = TRUE]
    /\ Goto(p, "unregister")
    /\ UNCHANGED <<config, ws_connection_count, peer_senders, rooms, channels, current_stream_id, target,
                   list, moderator, requests>>

\* The next message of p is taken from its socket
Receive(p) ==
    /\ pc[p] = "loop" /\ requests < MaxRequests
    /\ requests' = requests + 1

\* A message that does not parse, or a join whose stream id is not valid: an
\* Error goes back to the sender
invalid_message(p) ==
    /\ Receive(p) /\ SendersReadFree
    /\ TrySend({p}, Unheard)
    /\ UNCHANGED <<config, ws_connection_count, pc, peer_senders, rooms, current_stream_id, target, list,
                   closing, moderator>>

\* PeerList and Error are ignored
ignored_message(p) ==
    /\ Receive(p)
    /\ UNCHANGED <<config, ws_connection_count, pc, peer_senders, rooms, channels, current_stream_id, target,
                   list, closing, moderator>>

\* PeerJoin: the moderation check comes first, and with it an await
peer_join(p, s) ==
    /\ Receive(p)
    /\ IF p \in blocked
       THEN /\ SendersReadFree
            /\ TrySend({p}, Unheard)
            /\ UNCHANGED <<pc, target>>
       ELSE /\ Goto(p, "insert")
            /\ target' = [target EXCEPT ![p] = {s}]
            /\ UNCHANGED channels
    /\ UNCHANGED <<config, ws_connection_count, peer_senders, rooms, current_stream_id, list, closing,
                   moderator>>

\* Mutant: only the number of rooms is looked at
FullOfRooms(p, s) == s \notin DOMAIN streams /\ Cardinality(DOMAIN streams) >= MaxRooms

\* No room for another stream, or for another peer in the stream
Full(p, s) ==
    \/ s \notin DOMAIN streams /\ Cardinality(DOMAIN streams) >= MaxRooms
    \/ s \in DOMAIN streams /\ p \notin streams[s] /\ Cardinality(streams[s]) >= MaxPeers

\* The peer enters the room under streams.write, or is rejected and keeps the
\* lock until it has told so
join_insert(p, s) ==
    /\ pc[p] = "insert" /\ s \in target[p] /\ StreamsFree
    /\ IF Full(p, s)
       THEN Goto(p, "reject") /\ UNCHANGED streams
       ELSE Goto(p, "stamp") /\ streams' = Put(streams, s, RoomOf(s) \cup {p})
    /\ UNCHANGED <<config, ws_connection_count, peer_senders, stream_last_active, channels, target,
                   current_stream_id, list, closing, moderator, requests>>

join_reject(p) ==
    /\ pc[p] = "reject" /\ SendersReadFree
    /\ TrySend({p}, Unheard)
    /\ Goto(p, "loop")
    /\ target' = [target EXCEPT ![p] = {}]
    /\ UNCHANGED <<config, ws_connection_count, peer_senders, rooms, current_stream_id, list, closing,
                   moderator, requests>>

join_stamp(p, s) ==
    /\ pc[p] = "stamp" /\ s \in target[p]
    /\ stream_last_active' = Put(stream_last_active, s, TRUE)
    /\ current_stream_id' = [current_stream_id EXCEPT ![p] = {s}]
    /\ Goto(p, "list")
    /\ UNCHANGED <<config, ws_connection_count, peer_senders, streams, channels, target, list, closing,
                   moderator, requests>>

\* The list of the others is made under streams.read
join_list(p, s) ==
    /\ pc[p] = "list" /\ s \in target[p] /\ StreamsFree
    /\ list' = [list EXCEPT ![p] = RoomOf(s) \ {p}]
    /\ Goto(p, "send_list")
    /\ UNCHANGED <<config, ws_connection_count, peer_senders, rooms, channels, current_stream_id, target,
                   closing, moderator, requests>>

\* ... and sent under peer_senders.read, which is kept
join_send_list(p) ==
    /\ pc[p] = "send_list" /\ SendersReadFree
    /\ TrySend({p}, LAMBDA q : heard[q] \cup list[q])
    /\ list' = [list EXCEPT ![p] = {}]
    /\ Goto(p, "tail")
    /\ UNCHANGED <<config, ws_connection_count, peer_senders, rooms, current_stream_id, target, closing,
                   moderator, requests>>

\* Mutant: the others are told nothing
NotifyNobody(p, s) ==
    /\ pc[p] = "tail" /\ s \in target[p] /\ StreamsFree
    /\ target' = [target EXCEPT ![p] = {}]
    /\ Goto(p, "loop")
    /\ UNCHANGED <<config, ws_connection_count, peer_senders, rooms, channels, current_stream_id, list,
                   closing, moderator, requests>>

\* The others are told of the new peer
join_notify(p, s) ==
    /\ pc[p] = "tail" /\ s \in target[p] /\ StreamsFree
    /\ TrySend(RoomOf(s) \ {p}, LAMBDA q : heard[q] \cup {p})
    /\ target' = [target EXCEPT ![p] = {}]
    /\ Goto(p, "loop")
    /\ UNCHANGED <<config, ws_connection_count, peer_senders, rooms, current_stream_id, list, closing,
                   moderator, requests>>

\* PeerLeave: cleaned up, the socket stays open
peer_leave(p) ==
    /\ Receive(p)
    /\ Goto(p, "unregister")
    /\ UNCHANGED <<config, ws_connection_count, peer_senders, rooms, channels, current_stream_id, target,
                   list, closing, moderator>>

\* Offers are dropped from a blocked peer ...
offer(p, q) ==
    /\ Receive(p)
    /\ IF p \in blocked
       THEN UNCHANGED channels
       ELSE SendersReadFree /\ TrySend({q}, Unheard)
    /\ UNCHANGED <<config, ws_connection_count, pc, peer_senders, rooms, current_stream_id, target, list,
                   closing, moderator>>

\* ... answers and ICE candidates are relayed from anyone to anyone
relay_answer(p, q) ==
    /\ Receive(p) /\ SendersReadFree
    /\ TrySend({q}, Unheard)
    /\ UNCHANGED <<config, ws_connection_count, pc, peer_senders, rooms, current_stream_id, target, list,
                   closing, moderator>>

\* PeerUpdate: the members of the current room are told.  The two locks are taken one after
\* the other and nothing in between matters to either, so this is one step
peer_update(p) ==
    /\ Receive(p) /\ StreamsFree /\ SendersReadFree
    /\ LET others == UNION {RoomOf(s) : s \in current_stream_id[p]} \ {p}
       IN TrySend(others, Unheard)
    /\ UNCHANGED <<config, ws_connection_count, pc, peer_senders, rooms, current_stream_id, target, list,
                   closing, moderator>>

(* cleanup_signaling_peer *)
unregister(p) ==
    /\ pc[p] = "unregister" /\ SendersWriteFree
    /\ RemoveSender({p})
    /\ Goto(p, "leave_room")
    /\ UNCHANGED <<config, ws_connection_count, rooms, current_stream_id, target, list, closing,
                   moderator, requests>>

\* Back to the loop after a PeerLeave, or the guard is dropped with the task
CleanedUp(p) ==
    /\ current_stream_id' = [current_stream_id EXCEPT ![p] = {}]
    /\ Goto(p, IF closing[p] THEN "gone" ELSE "loop")
    /\ ws_connection_count' = IF closing[p] THEN ws_connection_count - 1
                                            ELSE ws_connection_count

\* The peer leaves the room it joined last, if it is still there
leave_room(p) ==
    /\ pc[p] = "leave_room"
    /\ \/ /\ current_stream_id[p] \cap DOMAIN streams = {}
          /\ current_stream_id[p] = {} \/ StreamsFree
          /\ CleanedUp(p)
          /\ UNCHANGED streams
       \/ \E s \in current_stream_id[p] \cap DOMAIN streams :
          /\ StreamsFree
          /\ streams' = [streams EXCEPT ![s] = @ \ {p}]
          /\ Goto(p, "cleaning")
          /\ UNCHANGED <<current_stream_id, ws_connection_count>>
    /\ UNCHANGED <<config, peer_senders, stream_last_active, channels, target, list, closing,
                   moderator, requests>>

\* The rest is told while streams.write is held, and an empty room removed
leave_notify(p) ==
    /\ pc[p] = "cleaning" /\ SendersReadFree
    /\ LET s == CHOOSE s \in current_stream_id[p] : TRUE
       IN /\ TrySend(RoomOf(s), LAMBDA q : heard[q] \ {p})
          /\ streams' = IF RoomOf(s) = {} THEN Drop(streams, {s}) ELSE streams
    /\ CleanedUp(p)
    /\ UNCHANGED <<config, peer_senders, stream_last_active, target, list, closing, moderator, requests>>

-----------------------------------------------------------------------------
(* Moderation and the idle task *)

\* mod_block_peer_handler: block, then kick_peer_from_signaling
mod_block_peer(p) ==
    /\ admin = "idle" /\ requests < MaxRequests
    /\ requests' = requests + 1
    /\ blocked' = blocked \cup {p}
    /\ kicked' = {p}
    /\ admin' = "kick"
    /\ UNCHANGED <<config, ws_connection_count, pc, peer_senders, rooms, channels, current_stream_id, target,
                   list, closing, remaining>>

kick_rooms ==
    /\ admin = "kick" /\ StreamsFree
    /\ remaining' = UNION {streams[s] : s \in {t \in DOMAIN streams : kicked \subseteq streams[t]}}
                    \ kicked
    /\ streams' = Drop([s \in DOMAIN streams |-> streams[s] \ kicked],
                       {s \in DOMAIN streams : streams[s] \subseteq kicked})
    /\ admin' = "notify"
    /\ UNCHANGED <<config, ws_connection_count, pc, peer_senders, stream_last_active, channels,
                   current_stream_id, target, list, closing, blocked, kicked,
                   requests>>

kick_notify ==
    /\ admin = "notify" /\ SendersReadFree
    /\ TrySend(remaining, LAMBDA q : heard[q] \ kicked)
    /\ remaining' = {}
    /\ admin' = "remove"
    /\ UNCHANGED <<config, ws_connection_count, pc, peer_senders, rooms, current_stream_id, target, list,
                   closing, blocked, kicked, requests>>

kick_remove ==
    /\ admin = "remove" /\ SendersWriteFree
    /\ RemoveSender(kicked)
    /\ admin' = "idle"
    /\ kicked' = {}
    /\ UNCHANGED <<config, ws_connection_count, pc, rooms, current_stream_id, target, list,
                   closing, blocked, remaining, requests>>

mod_unblock_peer(p) ==
    /\ p \in blocked
    /\ blocked' = blocked \ {p}
    /\ UNCHANGED <<config, ws_connection_count, pc, peer_senders, rooms, channels, current_stream_id, target,
                   list, closing, admin, kicked, remaining, requests>>

\* More than idle_cleanup_secs pass since the last join of s
Age(s) ==
    /\ s \in DOMAIN stream_last_active /\ stream_last_active[s]
    /\ stream_last_active' = [stream_last_active EXCEPT ![s] = FALSE]
    /\ UNCHANGED <<config, ws_connection_count, pc, peer_senders, streams, channels, current_stream_id,
                   target, list, closing, moderator, requests>>

\* The idle task drops rooms that are empty or whose last join is long ago,
\* whoever is still in them
idle_cleanup ==
    /\ StreamsFree
    /\ LET stale == {s \in DOMAIN streams : \/ streams[s] = {}
                                            \/ /\ s \in DOMAIN stream_last_active
                                               /\ ~stream_last_active[s]}
       IN /\ stale # {}
          /\ streams' = Drop(streams, stale)
          /\ stream_last_active' = Drop(stream_last_active, stale)
    /\ UNCHANGED <<config, ws_connection_count, pc, peer_senders, channels, current_stream_id, target, list,
                   closing, moderator, requests>>

Handle(p) ==
    \/ try_acquire_ws_slot(p) \/ refuse(p) \/ register(p) \/ forward(p) \/ close(p)
    \/ invalid_message(p) \/ ignored_message(p) \/ peer_leave(p) \/ peer_update(p)
    \/ \E s \in Streams : \/ peer_join(p, s) \/ join_insert(p, s) \/ join_stamp(p, s)
                          \/ join_list(p, s) \/ join_notify(p, s)
    \/ \E q \in Peers \ {p} : offer(p, q) \/ relay_answer(p, q)
    \/ join_reject(p) \/ join_send_list(p)
    \/ unregister(p) \/ leave_room(p) \/ leave_notify(p)

Background ==
    \/ \E p \in Peers : mod_block_peer(p) \/ mod_unblock_peer(p)
    \/ kick_rooms \/ kick_notify \/ kick_remove
    \/ \E s \in Streams : Age(s)
    \/ idle_cleanup

\* tokio runs a handler that can go on, in or out of a message
Progress(p) == Handle(p) /\ pc' # pc
Kick == kick_rooms \/ kick_notify \/ kick_remove

Next == (\E p \in Peers : Handle(p)) \/ Background
Spec == Init /\ [][Next]_vars /\ (\A p \in Peers : WF_vars(Progress(p))) /\ WF_vars(Kick)

-----------------------------------------------------------------------------
Locations == {"new", "refused", "register", "loop", "insert", "reject", "stamp", "list",
              "send_list", "tail", "unregister", "leave_room", "cleaning", "gone"}

TypeOK ==
    /\ ws_connection_count \in Nat
    /\ pc \in [Peers -> Locations]
    /\ peer_senders \subseteq Peers
    /\ queued \in [Peers -> 0..ChannelCapacity]
    /\ DOMAIN streams \subseteq Streams
    /\ \A s \in DOMAIN streams : streams[s] \subseteq Peers
    /\ DOMAIN stream_last_active \subseteq Streams
    /\ \A s \in DOMAIN stream_last_active : stream_last_active[s] \in BOOLEAN
    /\ current_stream_id \in [Peers -> SUBSET Streams]
    /\ target \in [Peers -> SUBSET Streams]
    /\ list \in [Peers -> SUBSET Peers]
    /\ heard \in [Peers -> SUBSET Peers]
    /\ closing \in [Peers -> BOOLEAN]
    /\ {blocked, kicked, remaining, lost} \subseteq SUBSET Peers
    /\ admin \in {"idle", "kick", "notify", "remove"}
    /\ requests \in 0..MaxRequests
    /\ config \in Configs

\* Connections that were let in and hold a guard
Admitted == {p \in Peers : pc[p] \notin {"new", "refused", "gone"}}

\* The limit on WebSocket connections holds however attempts, refusals and ends
\* overlap (try_acquire_ws_slot counts first and looks afterwards), and every slot
\* comes back: the counter is the connections let in and those being refused.
SlotsHonoured ==
    /\ MaxWs # 0 => Cardinality(Admitted) <= MaxWs
    /\ ws_connection_count = Cardinality(Admitted) + Cardinality({p \in Peers : pc[p] = "refused"})

\* There are never more rooms than max_stream_rooms nor more peers in one room than
\* max_peers_per_stream, and no empty room takes up a place, except while the peer that
\* left it still holds the lock (handle_signaling_message, cleanup_signaling_peer,
\* kick_peer_from_signaling).  The third limit of the configuration, max_signaling_peers
\* over all rooms (web_server.rs:94), is not among these: no code looks at it.
RoomsInBounds ==
    /\ Cardinality(DOMAIN streams) <= MaxRooms
    /\ \A s \in DOMAIN streams :
          /\ Cardinality(streams[s]) <= MaxPeers
          /\ streams[s] = {} => \E p \in Peers : pc[p] = "cleaning" /\ s \in current_stream_id[p]

\* Two peers in one room know of each other: once both joins are through and both
\* still have their senders, each has been told of the other, unless a channel was
\* full or one of the two is being kicked.  PeerJoin enters the room, lists it and
\* announces the peer in separate steps, between which others join, leave and are kicked.
NobodyMissed ==
    \A s \in DOMAIN streams : \A p, q \in streams[s] :
        (/\ p # q /\ pc[p] = "loop" /\ pc[q] = "loop"
         /\ {p, q} \subseteq peer_senders /\ {p, q} \cap (lost \cup kicked) = {})
        => q \in heard[p]

\* "Receives and relays signaling messages between peers" (web_server.rs:2354): a
\* connection never stays inside one message for good.
EveryoneServed ==
    \A p \in Peers : pc[p] \in {"reject", "tail", "cleaning"} ~> pc[p] \in {"loop", "gone"}
=============================================================================
