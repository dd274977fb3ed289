---------------------------- MODULE SignalingProofs ----------------------------
(***************************************************************************)
(* Proofs about Signaling, for any connections, streams, configuration and *)
(* channel capacity.                                                       *)
(***************************************************************************)
EXTENDS Signaling, FiniteSetTheorems, TLAPS

Outside == {"new", "refused", "gone"}
Refused == {p \in Peers : pc[p] = "refused"}

\* The counter is exact at every moment; connections that end take themselves out.
SlotInv ==
    /\ config \in Configs
    /\ pc \in [Peers -> Locations]
    /\ ws_connection_count \in Nat
    /\ IsFiniteSet(Admitted) /\ IsFiniteSet(Refused)
    /\ SlotsHonoured

-----------------------------------------------------------------------------
\* The configuration never changes, and is within the assumption
LEMMA ConfigFacts ==
    ASSUME config \in Configs
    PROVE  MaxWs \in Nat /\ MaxRooms \in Nat /\ MaxPeers \in Nat \ {0}
  BY SignalingAssumption DEF MaxWs, MaxRooms, MaxPeers

LEMMA SlotInit == Init => SlotInv
  <1> SUFFICES ASSUME Init PROVE SlotInv
    OBVIOUS
  <1>1. Admitted = {} /\ Refused = {} /\ pc \in [Peers -> Locations] /\ config \in Configs
    BY DEF Init, Admitted, Refused, Locations
  <1>2. IsFiniteSet({}) /\ Cardinality({}) = 0
    BY FS_EmptySet
  <1>3. MaxWs \in Nat
    BY <1>1, ConfigFacts
  <1>4. ws_connection_count = 0 /\ Cardinality(Admitted) = 0 /\ Cardinality(Refused) = 0
    BY <1>1, <1>2 DEF Init
  <1>5. SlotsHonoured
    BY <1>3, <1>4 DEF SlotsHonoured, Refused
  <1> QED
    BY <1>1, <1>2, <1>4, <1>5 DEF SlotInv

\* A handler that goes from one place inside to another
LEMMA SlotKept ==
    ASSUME SlotInv, UNCHANGED <<config, ws_connection_count>>,
           \/ pc' = pc
           \/ \E p \in Peers, l \in Locations \ Outside : pc[p] \notin Outside /\ Goto(p, l)
    PROVE  SlotInv'
  <1>1. pc' \in [Peers -> Locations] /\ Admitted' = Admitted /\ Refused' = Refused
    BY DEF SlotInv, Admitted, Refused, Goto, Outside
  <1> QED
    BY <1>1 DEF SlotInv, SlotsHonoured, Refused, MaxWs

\* A connection is let in, or on its way to be refused
LEMMA SlotTaken ==
    ASSUME SlotInv, NEW p \in Peers, try_acquire_ws_slot(p)
    PROVE  SlotInv'
  <1>1. Cardinality(Admitted) \in Nat /\ Cardinality(Refused) \in Nat
    BY FS_CardinalityType DEF SlotInv
  <1>2. /\ MaxWs \in Nat /\ MaxWs' = MaxWs /\ config' = config
        /\ ws_connection_count' = ws_connection_count + 1
        /\ p \notin Admitted /\ p \notin Refused
    BY ConfigFacts DEF SlotInv, try_acquire_ws_slot, Admitted, Refused, MaxWs
  <1>3. CASE MaxWs # 0 /\ ws_connection_count >= MaxWs
    <2>1. pc' \in [Peers -> Locations] /\ Admitted' = Admitted /\ Refused' = Refused \cup {p}
      BY <1>3 DEF SlotInv, try_acquire_ws_slot, Goto, Admitted, Refused, Locations
    <2>2. IsFiniteSet(Refused') /\ Cardinality(Refused') = Cardinality(Refused) + 1
      BY <1>2, <2>1, FS_AddElement DEF SlotInv
    <2> QED
      BY <1>1, <1>2, <2>1, <2>2 DEF SlotInv, SlotsHonoured, Refused
  <1>4. CASE ~(MaxWs # 0 /\ ws_connection_count >= MaxWs)
    <2>1. pc' \in [Peers -> Locations] /\ Admitted' = Admitted \cup {p} /\ Refused' = Refused
      BY <1>4 DEF SlotInv, try_acquire_ws_slot, Goto, Admitted, Refused, Locations
    <2>2. IsFiniteSet(Admitted') /\ Cardinality(Admitted') = Cardinality(Admitted) + 1
      BY <1>2, <2>1, FS_AddElement DEF SlotInv
    <2>3. MaxWs # 0 => Cardinality(Admitted) < MaxWs
      BY <1>1, <1>2, <1>4 DEF SlotInv, SlotsHonoured, Refused
    <2> QED
      BY <1>1, <1>2, <2>1, <2>2, <2>3 DEF SlotInv, SlotsHonoured, Refused
  <1> QED
    BY <1>3, <1>4

\* A refusal gives its count back
LEMMA SlotRefused ==
    ASSUME SlotInv, NEW p \in Peers, refuse(p)
    PROVE  SlotInv'
  <1>1. Cardinality(Admitted) \in Nat /\ Cardinality(Refused) \in Nat
    BY FS_CardinalityType DEF SlotInv
  <1>2. /\ MaxWs' = MaxWs /\ config' = config /\ p \in Refused
        /\ ws_connection_count' = ws_connection_count - 1
        /\ pc' \in [Peers -> Locations] /\ Admitted' = Admitted /\ Refused' = Refused \ {p}
    BY DEF SlotInv, refuse, Goto, Admitted, Refused, Locations, MaxWs
  <1>3. IsFiniteSet(Refused') /\ Cardinality(Refused') = Cardinality(Refused) - 1
    BY <1>2, FS_RemoveElement DEF SlotInv
  <1>4. Cardinality(Refused') \in Nat
    BY <1>3, FS_CardinalityType
  <1> QED
    BY <1>1, <1>2, <1>3, <1>4 DEF SlotInv, SlotsHonoured, Refused

\* A connection that has been cleaned up is gone with its slot, or goes on
LEMMA SlotCleaned ==
    ASSUME SlotInv, NEW p \in Peers, pc[p] \notin Outside, CleanedUp(p), config' = config
    PROVE  SlotInv'
  <1>1. Cardinality(Admitted) \in Nat /\ Cardinality(Refused) \in Nat
    BY FS_CardinalityType DEF SlotInv
  <1>2. CASE ~closing[p]
    <2>1. Goto(p, "loop")
      BY <1>2, Zenon DEF CleanedUp, Goto
    <2>3. ws_connection_count' = ws_connection_count
      BY <1>2 DEF CleanedUp
    <2>2. "loop" \in Locations \ Outside
      BY DEF Locations, Outside
    <2>4. UNCHANGED <<config, ws_connection_count>>
      BY <2>3
    <2>5. \E q \in Peers, l \in Locations \ Outside : pc[q] \notin Outside /\ Goto(q, l)
      BY <2>1, <2>2, Zenon
    <2> QED
      BY <2>4, <2>5, SlotKept
  <1>3. CASE closing[p]
    <2>1. /\ MaxWs' = MaxWs /\ p \in Admitted
          /\ ws_connection_count' = ws_connection_count - 1
          /\ pc' \in [Peers -> Locations] /\ Admitted' = Admitted \ {p} /\ Refused' = Refused
      BY <1>3 DEF SlotInv, CleanedUp, Goto, Admitted, Refused, Locations, MaxWs, Outside
    <2>2. IsFiniteSet(Admitted') /\ Cardinality(Admitted') = Cardinality(Admitted) - 1
      BY <2>1, FS_RemoveElement DEF SlotInv
    <2>3. Cardinality(Admitted') \in Nat /\ MaxWs \in Nat
      BY <2>2, FS_CardinalityType, ConfigFacts DEF SlotInv
    <2>4. /\ ws_connection_count = Cardinality(Admitted) + Cardinality(Refused)
          /\ MaxWs # 0 => Cardinality(Admitted) <= MaxWs
      BY DEF SlotInv, SlotsHonoured, Refused
    <2>5. /\ ws_connection_count' = Cardinality(Admitted') + Cardinality(Refused')
          /\ MaxWs' # 0 => Cardinality(Admitted') <= MaxWs'
          /\ ws_connection_count' \in Nat
      BY <1>1, <2>1, <2>2, <2>3, <2>4
    <2>6. SlotsHonoured'
      BY <2>5 DEF SlotsHonoured, Refused
    <2> QED
      BY <2>1, <2>2, <2>5, <2>6 DEF SlotInv
  <1> QED
    BY <1>2, <1>3

LEMMA SlotStep ==
    ASSUME SlotInv, [Next]_vars
    PROVE  SlotInv'
  <1>1. ASSUME NEW p \in Peers, Handle(p) PROVE SlotInv'
    <2>1. CASE try_acquire_ws_slot(p) \/ refuse(p)
      BY <2>1, SlotTaken, SlotRefused
    <2>2. CASE \/ register(p) \/ forward(p) \/ close(p) \/ invalid_message(p) \/ ignored_message(p)
               \/ peer_leave(p) \/ peer_update(p) \/ join_reject(p) \/ join_send_list(p)
               \/ unregister(p)
               \/ \E q \in Peers \ {p} : offer(p, q) \/ relay_answer(p, q)
      <3>1. /\ UNCHANGED <<config, ws_connection_count>>
            /\ \/ pc' = pc
               \/ \E l \in {"loop", "unregister", "tail", "leave_room"} :
                     pc[p] \notin Outside /\ Goto(p, l)
        BY <2>2 DEF register, forward, close, invalid_message, ignored_message, peer_leave,
           peer_update, join_reject, join_send_list, unregister, offer, relay_answer, Receive,
           Outside
      <3> QED
        BY <3>1, SlotKept DEF Locations, Outside
    <2>3. ASSUME NEW s \in Streams, \/ peer_join(p, s) \/ join_insert(p, s) \/ join_stamp(p, s)
                                    \/ join_list(p, s) \/ join_notify(p, s)
          PROVE  SlotInv'
      <3>1. /\ UNCHANGED <<config, ws_connection_count>>
            /\ \/ pc' = pc
               \/ \E l \in {"insert", "reject", "stamp", "list", "send_list", "loop"} :
                     pc[p] \notin Outside /\ Goto(p, l)
        BY <2>3 DEF peer_join, join_insert, join_stamp, join_list, join_notify, Receive, Outside
      <3> QED
        BY <3>1, SlotKept DEF Locations, Outside
    <2>4. CASE leave_room(p)
      <3>1. pc[p] \notin Outside /\ config' = config
        BY <2>4 DEF leave_room, Outside
      <3>2. CASE CleanedUp(p)
        BY <3>1, <3>2, SlotCleaned
      <3>3. CASE Goto(p, "cleaning") /\ ws_connection_count' = ws_connection_count
        BY <3>1, <3>3, SlotKept DEF Locations, Outside
      <3> QED
        BY <2>4, <3>2, <3>3 DEF leave_room
    <2>5. CASE leave_notify(p)
      BY <2>5, SlotCleaned DEF leave_notify, Outside
    <2> QED
      BY <1>1, <2>1, <2>2, <2>3, <2>4, <2>5 DEF Handle
  <1>2. CASE Background
    <2>1. UNCHANGED <<config, ws_connection_count, pc>>
      BY <1>2 DEF Background, mod_block_peer, mod_unblock_peer, kick_rooms, kick_notify,
                  kick_remove, Age, idle_cleanup
    <2> QED
      BY <2>1, SlotKept
  <1>3. CASE UNCHANGED vars
    BY <1>3, SlotKept DEF vars
  <1> QED
    BY <1>1, <1>2, <1>3 DEF Next

\* The limit on WebSocket connections and the exactness of the counter, for any number
\* of connections that come, are refused and end at once (try_acquire_ws_slot and the
\* guard's drop).
THEOREM SlotsAlwaysHonoured == Spec => []SlotsHonoured
  <1>1. SlotInv => SlotsHonoured
    BY DEF SlotInv
  <1> QED
    BY <1>1, SlotInit, SlotStep, PTL DEF Spec

-----------------------------------------------------------------------------
(* Types *)

LEMMA TypeInit == Init => TypeOK
  <1> SUFFICES ASSUME Init PROVE TypeOK
    OBVIOUS
  <1>1. /\ DOMAIN streams = {} /\ DOMAIN stream_last_active = {}
        /\ 0 \in 0..ChannelCapacity /\ 0 \in 0..MaxRequests
    BY SignalingAssumption DEF Init
  <1>2. pc \in [Peers -> Locations] /\ closing \in [Peers -> BOOLEAN]
    BY DEF Init, Locations
  <1>3. queued \in [Peers -> 0..ChannelCapacity]
    BY <1>1 DEF Init
  <1> QED
    BY <1>1, <1>2, <1>3 DEF Init, TypeOK

\* try_send to each of T, whatever they are told, keeps a channel within its capacity
LEMMA SendTypes ==
    ASSUME TypeOK, NEW room \in SUBSET Peers,
           \A q \in room : queued[q] < ChannelCapacity,
           queued' = [q \in Peers |-> IF q \in room THEN queued[q] + 1 ELSE queued[q]]
    PROVE  queued' \in [Peers -> 0..ChannelCapacity]
  BY SignalingAssumption DEF TypeOK

LEMMA MessageTypes ==
    ASSUME TypeOK, SlotInv', NEW p \in Peers,
           \/ invalid_message(p) \/ ignored_message(p) \/ peer_leave(p) \/ peer_update(p)
           \/ \E s \in Streams : peer_join(p, s)
           \/ \E q \in Peers \ {p} : offer(p, q) \/ relay_answer(p, q)
    PROVE  TypeOK'
  <1>0. /\ Receive(p)
        /\ UNCHANGED <<config, ws_connection_count, peer_senders, rooms, current_stream_id,
                       list, closing, moderator>>
        /\ pc' = pc \/ Goto(p, "insert") \/ Goto(p, "unregister")
        /\ target' = target \/ \E s \in Streams : target' = [target EXCEPT ![p] = {s}]
    BY DEF invalid_message, ignored_message, peer_leave, peer_update, peer_join, offer,
       relay_answer
  <1>1. requests' \in 0..MaxRequests
    BY <1>0, SignalingAssumption DEF TypeOK, Receive
  <1>2. pc' \in [Peers -> Locations] /\ target' \in [Peers -> SUBSET Streams]
    BY <1>0 DEF TypeOK, Goto, Locations
  <1>3. \/ UNCHANGED channels
        \/ \E T \in SUBSET Peers : TrySend(T, Unheard)
        \/ LET others == UNION {RoomOf(s) : s \in current_stream_id[p]} \ {p}
           IN TrySend(others, Unheard)
    BY DEF invalid_message, ignored_message, peer_leave, peer_update, peer_join, offer,
       relay_answer
  <1>4. /\ queued' \in [Peers -> 0..ChannelCapacity]
        /\ heard' \in [Peers -> SUBSET Peers] /\ lost' \subseteq Peers
    <2>1. CASE UNCHANGED channels
      BY <2>1 DEF TypeOK, channels
    <2>2. ASSUME NEW T, TrySend(T, Unheard)
          PROVE  /\ queued' \in [Peers -> 0..ChannelCapacity]
                 /\ heard' \in [Peers -> SUBSET Peers] /\ lost' \subseteq Peers
      <3> DEFINE room == {q \in T \cap peer_senders : queued[q] < ChannelCapacity}
      <3>1. room \in SUBSET Peers /\ \A q \in room : queued[q] < ChannelCapacity
        BY DEF TypeOK
      <3>2. /\ queued' = [q \in Peers |-> IF q \in room THEN queued[q] + 1 ELSE queued[q]]
            /\ heard' = [q \in Peers |-> heard[q]]
            /\ lost' = lost \cup ((T \cap peer_senders) \ room)
        BY <2>2 DEF TrySend, Unheard
      <3> QED
        BY <3>1, <3>2, SendTypes DEF TypeOK
    <2> QED
      BY <1>3, <2>1, <2>2
  <1> QED
    BY <1>0, <1>1, <1>2, <1>4 DEF TypeOK, rooms, moderator

LEMMA ConnectionTypes ==
    ASSUME TypeOK, SlotInv', NEW p \in Peers,
           \/ try_acquire_ws_slot(p) \/ refuse(p) \/ register(p) \/ forward(p) \/ close(p)
           \/ unregister(p) \/ leave_room(p)
    PROVE  TypeOK'
  <1>0. ws_connection_count' \in Nat /\ pc' \in [Peers -> Locations] /\ config' \in Configs
    BY DEF SlotInv
  <1>1. CASE try_acquire_ws_slot(p) \/ refuse(p)
    BY <1>0, <1>1 DEF TypeOK, try_acquire_ws_slot, refuse, rooms, channels, moderator
  <1>2. CASE register(p)
    BY <1>0, <1>2 DEF TypeOK, register, rooms, channels, moderator
  <1>3. CASE forward(p)
    <2>1. queued' \in [Peers -> 0..ChannelCapacity]
      BY <1>3, SignalingAssumption DEF TypeOK, forward
    <2> QED
      BY <1>0, <1>3, <2>1 DEF TypeOK, forward, rooms, moderator
  <1>4. CASE close(p)
    BY <1>0, <1>4 DEF TypeOK, close, rooms, channels, moderator
  <1>5. CASE unregister(p)
    <2>1. queued' \in [Peers -> 0..ChannelCapacity]
      BY <1>5, SignalingAssumption DEF TypeOK, unregister, RemoveSender
    <2> QED
      BY <1>0, <1>5, <2>1 DEF TypeOK, unregister, RemoveSender, rooms, moderator
  <1>6. CASE leave_room(p)
    <2>1. /\ current_stream_id' \in [Peers -> SUBSET Streams]
          /\ DOMAIN streams' \subseteq Streams
          /\ \A s \in DOMAIN streams' : streams'[s] \subseteq Peers
      BY <1>6 DEF TypeOK, leave_room, CleanedUp
    <2> QED
      BY <1>0, <1>6, <2>1 DEF TypeOK, leave_room, channels, moderator
  <1> QED
    BY <1>1, <1>2, <1>3, <1>4, <1>5, <1>6

LEMMA JoinTypes ==
    ASSUME TypeOK, SlotInv', NEW p \in Peers,
           \/ join_reject(p) \/ join_send_list(p)
           \/ \E s \in Streams : join_insert(p, s) \/ join_stamp(p, s) \/ join_list(p, s)
                                 \/ join_notify(p, s)
    PROVE  TypeOK'
  <1>0. ws_connection_count' \in Nat /\ pc' \in [Peers -> Locations] /\ config' \in Configs
    BY DEF SlotInv
  <1>r. \A s \in Streams : RoomOf(s) \subseteq Peers
    BY DEF TypeOK, RoomOf
  <1>1. ASSUME NEW s \in Streams, join_insert(p, s) PROVE TypeOK'
    <2>1. /\ DOMAIN streams' \subseteq Streams
          /\ \A t \in DOMAIN streams' : streams'[t] \subseteq Peers
      <3>1. CASE streams' = streams
        BY <3>1 DEF TypeOK
      <3>2. CASE streams' = Put(streams, s, RoomOf(s) \cup {p})
        <4>1. /\ DOMAIN streams' = DOMAIN streams \cup {s}
              /\ \A t \in DOMAIN streams \cup {s} :
                    streams'[t] = IF t = s THEN RoomOf(s) \cup {p} ELSE streams[t]
          BY <3>2 DEF Put
        <4> QED
          BY <4>1, <1>r DEF TypeOK
      <3> QED
        BY <1>1, <3>1, <3>2 DEF join_insert
    <2> QED
      BY <1>0, <1>1, <2>1 DEF TypeOK, join_insert, channels, moderator
  <1>2. ASSUME NEW s \in Streams, join_stamp(p, s) PROVE TypeOK'
    <2>1. /\ DOMAIN stream_last_active' \subseteq Streams
          /\ \A t \in DOMAIN stream_last_active' : stream_last_active'[t] \in BOOLEAN
          /\ current_stream_id' \in [Peers -> SUBSET Streams]
      <3>1. /\ DOMAIN stream_last_active' = DOMAIN stream_last_active \cup {s}
            /\ \A t \in DOMAIN stream_last_active \cup {s} :
                  stream_last_active'[t] = IF t = s THEN TRUE ELSE stream_last_active[t]
        BY <1>2 DEF join_stamp, Put
      <3> QED
        BY <1>2, <3>1 DEF TypeOK, join_stamp
    <2> QED
      BY <1>0, <1>2, <2>1 DEF TypeOK, join_stamp, channels, moderator
  <1>3. ASSUME NEW s \in Streams, join_list(p, s) PROVE TypeOK'
    <2>1. list' \in [Peers -> SUBSET Peers]
      BY <1>3, <1>r DEF TypeOK, join_list
    <2> QED
      BY <1>0, <1>3, <2>1 DEF TypeOK, join_list, rooms, channels, moderator
  <1>4. ASSUME NEW s \in Streams, join_notify(p, s) PROVE TypeOK'
    <2> DEFINE here == (RoomOf(s) \ {p}) \cap peer_senders
               room == {q \in here : queued[q] < ChannelCapacity}
    <2>1. room \in SUBSET Peers /\ \A q \in room : queued[q] < ChannelCapacity
      BY DEF TypeOK
    <2>2. /\ queued' = [q \in Peers |-> IF q \in room THEN queued[q] + 1 ELSE queued[q]]
          /\ heard' = [q \in Peers |-> IF q \in room THEN heard[q] \cup {p} ELSE heard[q]]
          /\ lost' = lost \cup (here \ room)
      BY <1>4 DEF join_notify, TrySend
    <2>3. /\ queued' \in [Peers -> 0..ChannelCapacity]
          /\ heard' \in [Peers -> SUBSET Peers] /\ lost' \subseteq Peers
      BY <2>1, <2>2, SendTypes DEF TypeOK
    <2>4. target' \in [Peers -> SUBSET Streams]
      BY <1>4 DEF TypeOK, join_notify
    <2>5. UNCHANGED <<peer_senders, rooms, current_stream_id, list, closing, moderator, requests>>
      BY <1>4 DEF join_notify
    <2> QED
      BY <1>0, <2>3, <2>4, <2>5 DEF TypeOK, rooms, moderator
  <1>5. CASE join_reject(p)
    <2> DEFINE here == {p} \cap peer_senders
               room == {q \in here : queued[q] < ChannelCapacity}
    <2>1. room \in SUBSET Peers /\ \A q \in room : queued[q] < ChannelCapacity
      BY DEF TypeOK
    <2>2. /\ queued' = [q \in Peers |-> IF q \in room THEN queued[q] + 1 ELSE queued[q]]
          /\ heard' = [q \in Peers |-> heard[q]]
          /\ lost' = lost \cup (here \ room)
      BY <1>5 DEF join_reject, TrySend, Unheard
    <2>3. /\ queued' \in [Peers -> 0..ChannelCapacity]
          /\ heard' \in [Peers -> SUBSET Peers] /\ lost' \subseteq Peers
      BY <2>1, <2>2, SendTypes DEF TypeOK
    <2> QED
      BY <1>0, <1>5, <2>3 DEF TypeOK, join_reject, rooms, moderator
  <1>6. CASE join_send_list(p)
    <2> DEFINE here == {p} \cap peer_senders
               room == {q \in here : queued[q] < ChannelCapacity}
    <2>1. room \in SUBSET Peers /\ \A q \in room : queued[q] < ChannelCapacity
      BY DEF TypeOK
    <2>2. /\ queued' = [q \in Peers |-> IF q \in room THEN queued[q] + 1 ELSE queued[q]]
          /\ heard' = [q \in Peers |-> IF q \in room THEN heard[q] \cup list[q] ELSE heard[q]]
          /\ lost' = lost \cup (here \ room)
      BY <1>6 DEF join_send_list, TrySend
    <2>3. /\ queued' \in [Peers -> 0..ChannelCapacity]
          /\ heard' \in [Peers -> SUBSET Peers] /\ lost' \subseteq Peers
      BY <2>1, <2>2, SendTypes DEF TypeOK
    <2> QED
      BY <1>0, <1>6, <2>3 DEF TypeOK, join_send_list, rooms, moderator
  <1> QED
    BY <1>1, <1>2, <1>3, <1>4, <1>5, <1>6

LEMMA LeaveTypes ==
    ASSUME TypeOK, SlotInv', NEW p \in Peers, leave_notify(p)
    PROVE  TypeOK'
  <1>0. ws_connection_count' \in Nat /\ pc' \in [Peers -> Locations] /\ config' \in Configs
    BY DEF SlotInv
  <1> DEFINE s == CHOOSE t \in current_stream_id[p] : TRUE
             here == RoomOf(s) \cap peer_senders
             room == {q \in here : queued[q] < ChannelCapacity}
  <1>1. room \in SUBSET Peers /\ \A q \in room : queued[q] < ChannelCapacity
    BY DEF TypeOK
  <1>2. /\ queued' = [q \in Peers |-> IF q \in room THEN queued[q] + 1 ELSE queued[q]]
        /\ heard' = [q \in Peers |-> IF q \in room THEN heard[q] \ {p} ELSE heard[q]]
        /\ lost' = lost \cup (here \ room)
    BY DEF leave_notify, TrySend
  <1>3. /\ queued' \in [Peers -> 0..ChannelCapacity]
        /\ heard' \in [Peers -> SUBSET Peers] /\ lost' \subseteq Peers
    BY <1>1, <1>2, SendTypes DEF TypeOK
  <1>4. streams' = streams \/ streams' = Drop(streams, {s})
    BY DEF leave_notify
  <1> HIDE DEF s
  <1>5. DOMAIN streams' \subseteq Streams /\ \A t \in DOMAIN streams' : streams'[t] \subseteq Peers
    BY <1>4 DEF TypeOK, Drop
  <1>6. current_stream_id' \in [Peers -> SUBSET Streams]
    BY DEF TypeOK, leave_notify, CleanedUp
  <1>7. UNCHANGED <<peer_senders, stream_last_active, target, list, closing, moderator, requests>>
    BY DEF leave_notify
  <1> QED
    BY <1>0, <1>3, <1>5, <1>6, <1>7 DEF TypeOK, moderator

LEMMA BackgroundTypes ==
    ASSUME TypeOK, SlotInv', Background
    PROVE  TypeOK'
  <1>0. ws_connection_count' \in Nat /\ pc' \in [Peers -> Locations] /\ config' \in Configs
    BY DEF SlotInv
  <1>1. ASSUME NEW p \in Peers, mod_block_peer(p) PROVE TypeOK'
    <2>1. requests' \in 0..MaxRequests
      BY <1>1, SignalingAssumption DEF TypeOK, mod_block_peer
    <2> QED
      BY <1>0, <1>1, <2>1 DEF TypeOK, mod_block_peer, rooms, channels
  <1>2. ASSUME NEW p \in Peers, mod_unblock_peer(p) PROVE TypeOK'
    BY <1>0, <1>2 DEF TypeOK, mod_unblock_peer, rooms, channels
  <1>3. CASE kick_rooms
    <2>1. remaining' \subseteq Peers
      BY <1>3 DEF TypeOK, kick_rooms
    <2>2. /\ DOMAIN streams' \subseteq Streams
          /\ \A s \in DOMAIN streams' : streams'[s] \subseteq Peers
      BY <1>3 DEF TypeOK, kick_rooms, Drop
    <2>3. UNCHANGED <<peer_senders, stream_last_active, channels, current_stream_id, target,
                      list, closing, blocked, kicked, requests>> /\ admin' = "notify"
      BY <1>3 DEF kick_rooms
    <2> QED
      BY <1>0, <2>1, <2>2, <2>3 DEF TypeOK, channels
  <1>4. CASE kick_notify
    <2> DEFINE here == remaining \cap peer_senders
               room == {q \in here : queued[q] < ChannelCapacity}
    <2>1. room \in SUBSET Peers /\ \A q \in room : queued[q] < ChannelCapacity
      BY DEF TypeOK
    <2>2. /\ queued' = [q \in Peers |-> IF q \in room THEN queued[q] + 1 ELSE queued[q]]
          /\ heard' = [q \in Peers |-> IF q \in room THEN heard[q] \ kicked ELSE heard[q]]
          /\ lost' = lost \cup (here \ room)
      BY <1>4 DEF kick_notify, TrySend
    <2>3. /\ queued' \in [Peers -> 0..ChannelCapacity]
          /\ heard' \in [Peers -> SUBSET Peers] /\ lost' \subseteq Peers
      BY <2>1, <2>2, SendTypes DEF TypeOK
    <2>4. UNCHANGED <<peer_senders, rooms, current_stream_id, target, list, closing, blocked,
                      kicked, requests>> /\ remaining' = {} /\ admin' = "remove"
      BY <1>4 DEF kick_notify
    <2> QED
      BY <1>0, <2>3, <2>4 DEF TypeOK, rooms
  <1>5. CASE kick_remove
    <2>1. queued' \in [Peers -> 0..ChannelCapacity]
      BY <1>5, SignalingAssumption DEF TypeOK, kick_remove, RemoveSender
    <2> QED
      BY <1>0, <1>5, <2>1 DEF TypeOK, kick_remove, RemoveSender, rooms
  <1>6. ASSUME NEW s \in Streams, Age(s) PROVE TypeOK'
    <2>1. /\ DOMAIN stream_last_active' \subseteq Streams
          /\ \A t \in DOMAIN stream_last_active' : stream_last_active'[t] \in BOOLEAN
      BY <1>6 DEF TypeOK, Age
    <2>2. UNCHANGED <<peer_senders, streams, channels, current_stream_id, target, list, closing,
                      moderator, requests>>
      BY <1>6 DEF Age
    <2> QED
      BY <1>0, <2>1, <2>2 DEF TypeOK, channels, moderator
  <1>7. CASE idle_cleanup
    <2>1. \E S : streams' = Drop(streams, S) /\ stream_last_active' = Drop(stream_last_active, S)
      BY <1>7 DEF idle_cleanup
    <2>2. /\ DOMAIN streams' \subseteq Streams
          /\ \A s \in DOMAIN streams' : streams'[s] \subseteq Peers
          /\ DOMAIN stream_last_active' \subseteq Streams
          /\ \A s \in DOMAIN stream_last_active' : stream_last_active'[s] \in BOOLEAN
      BY <2>1 DEF TypeOK, Drop
    <2>3. UNCHANGED <<peer_senders, channels, current_stream_id, target, list, closing,
                      moderator, requests>>
      BY <1>7 DEF idle_cleanup
    <2> QED
      BY <1>0, <2>2, <2>3 DEF TypeOK, channels, moderator
  <1> QED
    BY <1>1, <1>2, <1>3, <1>4, <1>5, <1>6, <1>7 DEF Background

LEMMA TypeStep ==
    ASSUME TypeOK, SlotInv', [Next]_vars
    PROVE  TypeOK'
  <1>1. ASSUME NEW p \in Peers, Handle(p) PROVE TypeOK'
    BY <1>1, MessageTypes, ConnectionTypes, JoinTypes, LeaveTypes DEF Handle
  <1>2. CASE UNCHANGED vars
    BY <1>2 DEF TypeOK, vars, rooms, channels, moderator
  <1> QED
    BY <1>1, <1>2, BackgroundTypes DEF Next

\* Every variable of the signalling keeps its type: no channel grows past its capacity
\* and the connection counter never goes below zero, although ends, refusals and kicks
\* each take something away.
THEOREM TypesAlwaysHold == Spec => []TypeOK
  <1>1. Init => SlotInv /\ TypeOK
    BY SlotInit, TypeInit
  <1>2. SlotInv /\ TypeOK /\ [Next]_vars => (SlotInv /\ TypeOK)'
    BY SlotStep, TypeStep
  <1> QED
    BY <1>1, <1>2, PTL DEF Spec

-----------------------------------------------------------------------------
(* Where a join, a leave and a kick are *)

JoinInv ==
    /\ \A p \in Peers : \A s, t \in target[p] : s = t
    /\ \A p \in Peers : \A s, t \in current_stream_id[p] : s = t
    /\ \A p \in Peers : pc[p] = "cleaning" => current_stream_id[p] # {}
    /\ \A p, q \in Peers : (pc[p] \in {"reject", "cleaning"} /\ pc[q] \in {"reject", "cleaning"})
                           => p = q
    /\ \A p \in peer_senders :
          pc[p] \notin {"new", "refused", "register", "leave_room", "cleaning", "gone"}
    /\ \A p \in Peers : pc[p] \in {"new", "refused", "register"} =>
                            \A s \in DOMAIN streams : p \notin streams[s]
    /\ admin = "idle" => kicked = {}

LEMMA JoinInit == Init => JoinInv
  BY DEF Init, JoinInv

\* The variables JoinInv is about, but for pc
joining == <<peer_senders, streams, current_stream_id, target, admin, kicked>>

\* A connection goes on from one place to another and changes nothing JoinInv is about
LEMMA JoinMoved ==
    ASSUME TypeOK, JoinInv, UNCHANGED joining,
           \/ pc' = pc
           \/ \E p \in Peers, l \in {"refused", "register", "insert", "list", "send_list", "tail",
                                      "unregister", "gone", "loop"} :
                 /\ Goto(p, l)
                 /\ l = "gone" => pc[p] = "refused"
                 /\ l \in {"refused", "register"} => pc[p] = "new"
    PROVE  JoinInv'
  BY DEF TypeOK, JoinInv, joining, Goto

LEMMA JoinStep ==
    ASSUME TypeOK, JoinInv, [Next]_vars
    PROVE  JoinInv'
  <1>1. ASSUME NEW p \in Peers, Handle(p) PROVE JoinInv'
    <2>1. CASE try_acquire_ws_slot(p) \/ refuse(p) \/ forward(p) \/ close(p) \/ invalid_message(p)
               \/ ignored_message(p) \/ peer_leave(p) \/ peer_update(p) \/ join_send_list(p)
               \/ (\E q \in Peers \ {p} : offer(p, q) \/ relay_answer(p, q))
      <3>1. /\ UNCHANGED joining
            /\ \/ pc' = pc
               \/ \E l \in {"refused", "register", "tail", "unregister", "gone"} :
                     /\ Goto(p, l)
                     /\ l = "gone" => pc[p] = "refused"
                     /\ l \in {"refused", "register"} => pc[p] = "new"
        BY <2>1 DEF try_acquire_ws_slot, refuse, forward, close, invalid_message,
           ignored_message, peer_leave, peer_update, join_send_list, offer, relay_answer,
           joining, rooms, moderator
      <3> QED
        BY <3>1, JoinMoved
    <2>2. CASE register(p)
      BY <2>2 DEF TypeOK, JoinInv, register, Goto, rooms, moderator
    <2>3. ASSUME NEW s \in Streams, peer_join(p, s) PROVE JoinInv'
      BY <2>3 DEF TypeOK, JoinInv, peer_join, Receive, Goto, rooms, moderator
    <2>4. ASSUME NEW s \in Streams, join_insert(p, s) PROVE JoinInv'
      <3>1. CASE Full(p, s)
        BY <2>4, <3>1 DEF TypeOK, JoinInv, join_insert, StreamsFree, Goto, moderator
      <3>2. CASE ~Full(p, s)
        <4>1. /\ DOMAIN streams' = DOMAIN streams \cup {s}
              /\ \A t \in DOMAIN streams' : streams'[t] \subseteq RoomOf(t) \cup {p}
          BY <2>4, <3>2 DEF join_insert, Put, RoomOf
        <4>2. \A t \in DOMAIN streams' : \A q \in streams'[t] :
                  q = p \/ (t \in DOMAIN streams /\ q \in streams[t])
          BY <4>1 DEF RoomOf
        <4>3. /\ pc[p] = "insert" /\ Goto(p, "stamp")
              /\ UNCHANGED <<peer_senders, current_stream_id, target, admin, kicked>>
          BY <2>4, <3>2 DEF join_insert, moderator
        <4> QED
          BY <4>2, <4>3 DEF TypeOK, JoinInv, Goto
      <3> QED
        BY <3>1, <3>2
    <2>5. ASSUME NEW s \in Streams, join_stamp(p, s) PROVE JoinInv'
      BY <2>5 DEF TypeOK, JoinInv, join_stamp, Goto, moderator
    <2>6. ASSUME NEW s \in Streams, join_list(p, s) \/ join_notify(p, s) PROVE JoinInv'
      <3>1. CASE join_list(p, s)
        <4>1. UNCHANGED joining /\ Goto(p, "send_list")
          BY <3>1 DEF join_list, joining, rooms, moderator
        <4> QED
          BY <4>1, JoinMoved
      <3>2. CASE join_notify(p, s)
        <4>1. /\ UNCHANGED <<peer_senders, streams, current_stream_id, admin, kicked>>
              /\ target' = [target EXCEPT ![p] = {}] /\ Goto(p, "loop")
          BY <3>2 DEF join_notify, rooms, moderator
        <4> QED
          BY <4>1 DEF TypeOK, JoinInv, Goto
      <3> QED
        BY <2>6, <3>1, <3>2
    <2>7. CASE join_reject(p)
      BY <2>7 DEF TypeOK, JoinInv, join_reject, Goto, rooms, moderator
    <2>8. CASE unregister(p)
      BY <2>8 DEF TypeOK, JoinInv, unregister, RemoveSender, Goto, rooms, moderator
    <2>9. CASE leave_room(p)
      <3>1. /\ \A t \in DOMAIN streams' : t \in DOMAIN streams /\ streams'[t] \subseteq streams[t]
            /\ pc[p] = "leave_room"
            /\ UNCHANGED <<peer_senders, target, admin, kicked>>
        BY <2>9 DEF leave_room, TypeOK, moderator
      <3>2. CASE CleanedUp(p)
        BY <3>1, <3>2 DEF TypeOK, JoinInv, CleanedUp, Goto
      <3>3. CASE ~CleanedUp(p)
        <4>1. /\ StreamsFree /\ current_stream_id[p] # {} /\ Goto(p, "cleaning")
              /\ current_stream_id' = current_stream_id
          BY <2>9, <3>3 DEF leave_room
        <4> QED
          BY <3>1, <4>1 DEF TypeOK, JoinInv, StreamsFree, Goto
      <3> QED
        BY <3>2, <3>3
    <2>10. CASE leave_notify(p)
      <3>1. /\ \A t \in DOMAIN streams' : t \in DOMAIN streams /\ streams'[t] \subseteq streams[t]
            /\ pc[p] = "cleaning" /\ CleanedUp(p)
            /\ UNCHANGED <<peer_senders, target, admin, kicked>>
        BY <2>10 DEF leave_notify, Drop, moderator
      <3> QED
        BY <3>1 DEF TypeOK, JoinInv, CleanedUp, Goto
    <2> QED
      BY <1>1, <2>1, <2>2, <2>3, <2>4, <2>5, <2>6, <2>7, <2>8, <2>9, <2>10 DEF Handle
  <1>2. CASE Background
    <2>1. ASSUME NEW p \in Peers, mod_block_peer(p) \/ mod_unblock_peer(p) PROVE JoinInv'
      BY <2>1 DEF JoinInv, mod_block_peer, mod_unblock_peer, rooms
    <2>2. CASE kick_rooms \/ idle_cleanup
      <3>1. /\ \A t \in DOMAIN streams' : t \in DOMAIN streams /\ streams'[t] \subseteq streams[t]
            /\ UNCHANGED <<pc, peer_senders, current_stream_id, target, kicked>>
            /\ admin' # "idle" \/ admin' = admin
        BY <2>2 DEF kick_rooms, idle_cleanup, Drop, moderator
      <3> QED
        BY <3>1 DEF TypeOK, JoinInv
    <2>3. CASE kick_notify \/ kick_remove
      BY <2>3 DEF JoinInv, kick_notify, kick_remove, RemoveSender, rooms
    <2>4. ASSUME NEW s \in Streams, Age(s) PROVE JoinInv'
      BY <2>4 DEF JoinInv, Age, moderator
    <2> QED
      BY <1>2, <2>1, <2>2, <2>3, <2>4 DEF Background
  <1>3. CASE UNCHANGED vars
    BY <1>3 DEF JoinInv, vars, rooms, moderator
  <1> QED
    BY <1>1, <1>2, <1>3 DEF Next

-----------------------------------------------------------------------------
(* Rooms *)

Limited ==
    /\ IsFiniteSet(DOMAIN streams) /\ Cardinality(DOMAIN streams) <= MaxRooms
    /\ \A s \in DOMAIN streams : IsFiniteSet(streams[s]) /\ Cardinality(streams[s]) <= MaxPeers
EmptyIsBeingLeft ==
    \A s \in DOMAIN streams :
        streams[s] = {} => \E p \in Peers : pc[p] = "cleaning" /\ s \in current_stream_id[p]
RoomInv == Limited /\ EmptyIsBeingLeft

LEMMA RoomInit == Init => RoomInv
  <1> SUFFICES ASSUME Init PROVE RoomInv
    OBVIOUS
  <1>1. DOMAIN streams = {} /\ config \in Configs
    BY DEF Init
  <1>2. IsFiniteSet({}) /\ Cardinality({}) = 0
    BY FS_EmptySet
  <1>3. MaxRooms \in Nat
    BY <1>1, ConfigFacts
  <1> QED
    BY <1>1, <1>2, <1>3 DEF RoomInv, Limited, EmptyIsBeingLeft

\* Peers and rooms that go leave the rest within the limits
LEMMA FewerLimited ==
    ASSUME config \in Configs, config' = config, Limited,
           \A s \in DOMAIN streams' : s \in DOMAIN streams /\ streams'[s] \subseteq streams[s]
    PROVE  Limited'
  <1>1. MaxRooms \in Nat /\ MaxRooms' = MaxRooms /\ MaxPeers \in Nat /\ MaxPeers' = MaxPeers
    BY ConfigFacts DEF MaxRooms, MaxPeers
  <1>2. IsFiniteSet(DOMAIN streams') /\ Cardinality(DOMAIN streams') <= Cardinality(DOMAIN streams)
    <2>1. DOMAIN streams' \in SUBSET DOMAIN streams /\ IsFiniteSet(DOMAIN streams)
      BY DEF Limited
    <2> QED
      BY <2>1, FS_Subset
  <1>3. Cardinality(DOMAIN streams') \in Nat /\ Cardinality(DOMAIN streams) \in Nat
    BY <1>2, FS_CardinalityType DEF Limited
  <1>4. ASSUME NEW s \in DOMAIN streams'
        PROVE  IsFiniteSet(streams'[s]) /\ Cardinality(streams'[s]) <= MaxPeers
    <2>1. streams'[s] \in SUBSET streams[s] /\ IsFiniteSet(streams[s])
          /\ Cardinality(streams[s]) <= MaxPeers
      BY DEF Limited
    <2>2. IsFiniteSet(streams'[s]) /\ Cardinality(streams'[s]) <= Cardinality(streams[s])
      BY <2>1, FS_Subset
    <2>3. Cardinality(streams'[s]) \in Nat /\ Cardinality(streams[s]) \in Nat
      BY <2>1, <2>2, FS_CardinalityType
    <2> QED
      BY <1>1, <2>1, <2>2, <2>3
  <1>5. Cardinality(DOMAIN streams') <= MaxRooms
    BY <1>1, <1>2, <1>3 DEF Limited
  <1> QED
    BY <1>1, <1>2, <1>4, <1>5 DEF Limited

\* A peer enters a room that is not full, or the first of a new one
LEMMA EnterLimited ==
    ASSUME config \in Configs, config' = config, Limited, NEW p \in Peers, NEW s \in Streams,
           ~Full(p, s), streams' = Put(streams, s, RoomOf(s) \cup {p})
    PROVE  Limited'
  <1>1. /\ MaxRooms \in Nat /\ MaxRooms' = MaxRooms
        /\ MaxPeers \in Nat \ {0} /\ MaxPeers' = MaxPeers
    BY ConfigFacts DEF MaxRooms, MaxPeers
  <1>2. /\ DOMAIN streams' = DOMAIN streams \cup {s}
        /\ streams'[s] = RoomOf(s) \cup {p}
        /\ \A t \in DOMAIN streams : t # s => streams'[t] = streams[t]
    BY DEF Put
  <1>3. IsFiniteSet(DOMAIN streams') /\ Cardinality(DOMAIN streams') <= MaxRooms
    <2>1. /\ IsFiniteSet(DOMAIN streams \cup {s})
          /\ Cardinality(DOMAIN streams \cup {s}) =
                IF s \in DOMAIN streams THEN Cardinality(DOMAIN streams)
                                        ELSE Cardinality(DOMAIN streams) + 1
      BY FS_AddElement DEF Limited
    <2>2. Cardinality(DOMAIN streams) \in Nat /\ Cardinality(DOMAIN streams) <= MaxRooms
      BY FS_CardinalityType DEF Limited
    <2>3. s \notin DOMAIN streams => ~(Cardinality(DOMAIN streams) >= MaxRooms)
      BY DEF Full
    <2> QED
      BY <1>1, <1>2, <2>1, <2>2, <2>3
  <1>4. IsFiniteSet(streams'[s]) /\ Cardinality(streams'[s]) <= MaxPeers
    <2>1. CASE s \in DOMAIN streams
      <3>1. RoomOf(s) = streams[s] /\ IsFiniteSet(streams[s]) /\ Cardinality(streams[s]) <= MaxPeers
        BY <2>1 DEF RoomOf, Limited
      <3>2. /\ IsFiniteSet(streams[s] \cup {p})
            /\ Cardinality(streams[s] \cup {p}) =
                  IF p \in streams[s] THEN Cardinality(streams[s])
                                      ELSE Cardinality(streams[s]) + 1
        BY <3>1, FS_AddElement
      <3>3. Cardinality(streams[s]) \in Nat
        BY <3>1, FS_CardinalityType
      <3>4. p \notin streams[s] => ~(Cardinality(streams[s]) >= MaxPeers)
        BY <2>1 DEF Full
      <3>5. Cardinality(streams[s] \cup {p}) <= MaxPeers
        BY <1>1, <3>1, <3>2, <3>3, <3>4
      <3>6. streams'[s] = streams[s] \cup {p}
        BY <1>2, <3>1
      <3> QED
        BY <3>2, <3>5, <3>6
    <2>2. CASE s \notin DOMAIN streams
      <3>1. streams'[s] = {p}
        <4>1. RoomOf(s) = {}
          BY <2>2 DEF RoomOf
        <4> QED
          BY <1>2, <4>1
      <3>2. IsFiniteSet({p}) /\ Cardinality({p}) = 1
        BY FS_Singleton
      <3> QED
        BY <1>1, <3>1, <3>2
    <2> QED
      BY <2>1, <2>2
  <1> QED
    BY <1>1, <1>2, <1>3, <1>4 DEF Limited

LEMMA RoomsKept ==
    ASSUME config \in Configs, RoomInv, UNCHANGED <<config, streams>>,
           \A q \in Peers : pc[q] = "cleaning" =>
               pc'[q] = "cleaning" /\ current_stream_id'[q] = current_stream_id[q]
    PROVE  RoomInv'
  <1>1. Limited'
    BY FewerLimited DEF RoomInv
  <1> QED
    BY <1>1 DEF RoomInv, EmptyIsBeingLeft

LEMMA RoomStep ==
    ASSUME TypeOK, JoinInv, RoomInv, [Next]_vars
    PROVE  RoomInv'
  <1>0. config \in Configs
    BY DEF TypeOK
  <1>1. ASSUME NEW p \in Peers, Handle(p) PROVE RoomInv'
    <2>1. CASE try_acquire_ws_slot(p) \/ refuse(p) \/ register(p) \/ forward(p) \/ close(p)
               \/ invalid_message(p) \/ ignored_message(p) \/ peer_leave(p) \/ peer_update(p)
               \/ join_reject(p) \/ join_send_list(p) \/ unregister(p)
               \/ (\E q \in Peers \ {p} : offer(p, q) \/ relay_answer(p, q))
      <3>1. /\ UNCHANGED <<config, streams, current_stream_id>>
            /\ pc' = pc \/ (pc[p] # "cleaning" /\ \E l : Goto(p, l))
        BY <2>1 DEF try_acquire_ws_slot, refuse, register, forward, close, invalid_message,
           ignored_message, peer_leave, peer_update, join_reject, join_send_list, unregister,
           offer, relay_answer, Receive, rooms
      <3>2. \A q \in Peers : pc[q] = "cleaning" => pc'[q] = "cleaning"
        BY <3>1 DEF TypeOK, Goto
      <3> QED
        BY <1>0, <3>1, <3>2, RoomsKept
    <2>2. ASSUME NEW s \in Streams, peer_join(p, s) \/ join_stamp(p, s) \/ join_list(p, s)
                                    \/ join_notify(p, s)
          PROVE  RoomInv'
      <3>1. /\ UNCHANGED <<config, streams>> /\ pc[p] # "cleaning"
            /\ pc' = pc \/ (\E l : Goto(p, l))
            /\ current_stream_id' = current_stream_id
               \/ current_stream_id' = [current_stream_id EXCEPT ![p] = {s}]
        BY <2>2 DEF peer_join, join_stamp, join_list, join_notify, Receive, rooms
      <3>2. \A q \in Peers : pc[q] = "cleaning" =>
                pc'[q] = "cleaning" /\ current_stream_id'[q] = current_stream_id[q]
        BY <3>1 DEF TypeOK, Goto
      <3> QED
        BY <1>0, <3>1, <3>2, RoomsKept
    <2>3. ASSUME NEW s \in Streams, join_insert(p, s) PROVE RoomInv'
      <3>1. CASE Full(p, s)
        <4>1. UNCHANGED <<config, streams, current_stream_id>> /\ pc[p] = "insert"
              /\ Goto(p, "reject")
          BY <2>3, <3>1 DEF join_insert
        <4>2. \A q \in Peers : pc[q] = "cleaning" => pc'[q] = "cleaning"
          BY <4>1 DEF TypeOK, Goto
        <4> QED
          BY <1>0, <4>1, <4>2, RoomsKept
      <3>2. CASE ~Full(p, s)
        <4>1. /\ config' = config /\ streams' = Put(streams, s, RoomOf(s) \cup {p})
              /\ StreamsFree
          BY <2>3, <3>2 DEF join_insert
        <4>2. Limited'
          BY <1>0, <3>2, <4>1, EnterLimited DEF RoomInv
        <4>3. \A t \in DOMAIN streams : streams[t] # {}
          BY <4>1 DEF RoomInv, EmptyIsBeingLeft, StreamsFree
        <4>4. \A t \in DOMAIN streams' : p \in streams'[t]
                                         \/ (t \in DOMAIN streams /\ streams'[t] = streams[t])
          BY <4>1 DEF Put
        <4> QED
          BY <4>2, <4>3, <4>4 DEF RoomInv, EmptyIsBeingLeft
      <3> QED
        BY <3>1, <3>2
    <2>4. CASE leave_room(p)
      <3>1. /\ \A t \in DOMAIN streams' : t \in DOMAIN streams /\ streams'[t] \subseteq streams[t]
            /\ pc[p] = "leave_room" /\ config' = config
        BY <2>4 DEF leave_room, TypeOK
      <3>2. Limited'
        BY <1>0, <3>1, FewerLimited DEF RoomInv
      <3>3. CASE CleanedUp(p) /\ UNCHANGED streams
        BY <3>1, <3>2, <3>3 DEF RoomInv, EmptyIsBeingLeft, CleanedUp, Goto, TypeOK
      <3>4. ASSUME NEW s \in current_stream_id[p] \cap DOMAIN streams, StreamsFree,
                   streams' = [streams EXCEPT ![s] = @ \ {p}], Goto(p, "cleaning"),
                   UNCHANGED current_stream_id
            PROVE  RoomInv'
        <4>1. \A t \in DOMAIN streams : streams[t] # {}
          BY <3>4 DEF RoomInv, EmptyIsBeingLeft, StreamsFree
        <4>2. \A t \in DOMAIN streams' : t # s => streams'[t] = streams[t]
          BY <3>1, <3>4
        <4>3. pc'[p] = "cleaning" /\ s \in current_stream_id'[p]
          BY <3>4 DEF TypeOK, Goto
        <4> QED
          BY <3>1, <3>2, <4>1, <4>2, <4>3 DEF RoomInv, EmptyIsBeingLeft
      <3> QED
        BY <2>4, <3>3, <3>4 DEF leave_room
    <2>5. CASE leave_notify(p)
      <3> DEFINE s == CHOOSE t \in current_stream_id[p] : TRUE
      <3>1. /\ streams' = IF RoomOf(s) = {} THEN Drop(streams, {s}) ELSE streams
            /\ pc[p] = "cleaning" /\ config' = config
        BY <2>5 DEF leave_notify
      <3>2. s \in current_stream_id[p] /\ \A t \in current_stream_id[p] : t = s
        BY <3>1 DEF JoinInv
      <3> HIDE DEF s
      <3>3. \A t \in DOMAIN streams' :
               /\ t \in DOMAIN streams /\ streams'[t] = streams[t]
               /\ t = s => streams[t] # {}
        BY <3>1 DEF Drop, RoomOf
      <3>4. Limited'
        BY <1>0, <3>1, <3>3, FewerLimited DEF RoomInv
      <3>5. \A q \in Peers : pc[q] = "cleaning" => q = p
        BY <3>1 DEF JoinInv
      <3>6. \A t \in DOMAIN streams' : streams'[t] # {}
        BY <3>2, <3>3, <3>5 DEF RoomInv, EmptyIsBeingLeft
      <3> QED
        BY <3>4, <3>6 DEF RoomInv, EmptyIsBeingLeft
    <2> QED
      BY <1>1, <2>1, <2>2, <2>3, <2>4, <2>5 DEF Handle
  <1>2. CASE Background
    <2>1. CASE (\E p \in Peers : mod_block_peer(p) \/ mod_unblock_peer(p))
               \/ kick_notify \/ kick_remove \/ (\E s \in Streams : Age(s))
      <3>1. UNCHANGED <<config, streams, pc, current_stream_id>>
        BY <2>1 DEF mod_block_peer, mod_unblock_peer, kick_notify, kick_remove, Age, rooms
      <3> QED
        BY <1>0, <3>1, RoomsKept
    <2>2. CASE kick_rooms \/ idle_cleanup
      <3>1. /\ \A t \in DOMAIN streams' : t \in DOMAIN streams /\ streams'[t] \subseteq streams[t]
            /\ \A t \in DOMAIN streams' : streams'[t] # {}
            /\ config' = config
        <4>1. CASE kick_rooms
          BY <4>1 DEF kick_rooms, Drop
        <4>2. CASE idle_cleanup
          BY <4>2 DEF idle_cleanup, Drop
        <4> QED
          BY <2>2, <4>1, <4>2
      <3>2. Limited'
        BY <1>0, <3>1, FewerLimited DEF RoomInv
      <3> QED
        BY <3>1, <3>2 DEF RoomInv, EmptyIsBeingLeft
    <2> QED
      BY <1>2, <2>1, <2>2 DEF Background
  <1>3. CASE UNCHANGED vars
    <2>1. UNCHANGED <<config, streams, pc, current_stream_id>>
      BY <1>3 DEF vars, rooms
    <2> QED
      BY <1>0, <2>1, RoomsKept
  <1> QED
    BY <1>1, <1>2, <1>3 DEF Next

\* max_stream_rooms and max_peers_per_stream, and that no empty room is left behind,
\* for any number of peers that join, leave, close and are kicked while the idle task
\* removes rooms (the checks under streams.write of handle_signaling_message,
\* cleanup_signaling_peer, kick_peer_from_signaling).
THEOREM RoomsAlwaysInBounds == Spec => []RoomsInBounds
  <1> DEFINE IInv == SlotInv /\ TypeOK /\ JoinInv /\ RoomInv
  <1>1. Init => IInv
    BY SlotInit, TypeInit, JoinInit, RoomInit
  <1>2. IInv /\ [Next]_vars => IInv'
    BY SlotStep, TypeStep, JoinStep, RoomStep
  <1>3. IInv => RoomsInBounds
    BY DEF RoomInv, Limited, EmptyIsBeingLeft, RoomsInBounds
  <1> QED
    BY <1>1, <1>2, <1>3, PTL DEF Spec

-----------------------------------------------------------------------------
(* Who knows of whom *)

\* Two peers of a room that can be told of each other
Together(s, p, q) ==
    /\ s \in DOMAIN streams /\ p \in streams[s] /\ q \in streams[s] /\ p # q
    /\ p \in peer_senders /\ q \in peer_senders
    /\ p \notin lost \cup kicked /\ q \notin lost \cup kicked

Entered == {"stamp", "list", "send_list", "tail"}

\* p knows q, or will by its own list, or by the announcement q is still to make
WillKnow(s, p, q) ==
    \/ q \in heard[p]
    \/ pc[p] \in {"stamp", "list"} /\ s \in target[p]
    \/ pc[p] = "send_list" /\ s \in target[p] /\ q \in list[p]
    \/ pc[q] \in Entered /\ s \in target[q]

KnowInv == \A s \in Streams : \A p, q \in Peers : Together(s, p, q) => WillKnow(s, p, q)

LEMMA KnowInit == Init => KnowInv
  BY DEF Init, KnowInv, Together

\* No new pair, nobody forgotten, and nobody in the middle of a join goes on
LEMMA KnowKept ==
    ASSUME TypeOK, KnowInv, list' = list,
           \/ UNCHANGED <<pc, target>>
           \/ \E a \in Peers :
                 /\ pc[a] \notin Entered
                 /\ pc' = pc \/ \E l : Goto(a, l)
                 /\ target' = target \/ \E x : target' = [target EXCEPT ![a] = x],
           \A s \in Streams : \A p, q \in Peers : Together(s, p, q)' =>
               Together(s, p, q) /\ (q \in heard[p] => q \in heard'[p])
    PROVE  KnowInv'
  <1>1. \A p \in Peers : pc[p] \in Entered => pc'[p] = pc[p] /\ target'[p] = target[p]
    BY DEF TypeOK, Goto
  <1> SUFFICES ASSUME NEW s \in Streams, NEW p \in Peers, NEW q \in Peers, Together(s, p, q)'
               PROVE  WillKnow(s, p, q)'
    BY DEF KnowInv
  <1>2. WillKnow(s, p, q) /\ (q \in heard[p] => q \in heard'[p])
    BY DEF KnowInv
  <1> QED
    BY <1>1, <1>2 DEF WillKnow, Entered

LEMMA KnowMessages ==
    ASSUME TypeOK, KnowInv, NEW a \in Peers,
           \/ invalid_message(a) \/ ignored_message(a) \/ peer_leave(a) \/ peer_update(a)
           \/ join_reject(a) \/ \E s \in Streams : peer_join(a, s)
           \/ \E q \in Peers \ {a} : offer(a, q) \/ relay_answer(a, q)
    PROVE  KnowInv'
  <1>1. /\ UNCHANGED <<peer_senders, streams, list, kicked>>
        /\ pc' = pc \/ \E l : Goto(a, l)
        /\ target' = target \/ \E x : target' = [target EXCEPT ![a] = x]
        /\ pc[a] \in {"loop", "reject"}
    BY DEF invalid_message, ignored_message, peer_leave, peer_update, join_reject, peer_join,
       offer, relay_answer, Receive, rooms, moderator
  <1>2. UNCHANGED channels \/ \E T : TrySend(T, Unheard)
    BY DEF invalid_message, ignored_message, peer_leave, peer_update, join_reject, peer_join,
       offer, relay_answer
  <1>3. lost \subseteq lost' /\ \A p \in Peers : heard'[p] = heard[p]
    BY <1>2 DEF TrySend, Unheard, channels, TypeOK
  <1>4. pc[a] \notin Entered
    BY <1>1 DEF Entered
  <1> QED
    BY <1>1, <1>3, <1>4, KnowKept DEF Together

LEMMA KnowConnections ==
    ASSUME TypeOK, JoinInv, KnowInv, NEW a \in Peers,
           \/ try_acquire_ws_slot(a) \/ refuse(a) \/ register(a) \/ forward(a) \/ close(a)
           \/ unregister(a) \/ leave_room(a) \/ leave_notify(a)
    PROVE  KnowInv'
  <1>1. CASE try_acquire_ws_slot(a) \/ refuse(a) \/ forward(a) \/ close(a)
    <2>1. /\ UNCHANGED <<peer_senders, streams, kicked, lost, heard, list, target>>
          /\ pc' = pc \/ (pc[a] \in {"new", "refused", "loop"} /\ \E l : Goto(a, l))
      BY <1>1 DEF try_acquire_ws_slot, refuse, forward, close, rooms, channels, moderator
    <2> QED
      BY <2>1, KnowKept DEF Together, Entered
  <1>2. CASE register(a)
    <2>1. /\ UNCHANGED <<streams, kicked, lost, heard, list, target>>
          /\ peer_senders' = peer_senders \cup {a} /\ pc[a] = "register" /\ Goto(a, "loop")
      BY <1>2 DEF register, rooms, channels, moderator
    <2>2. \A s \in DOMAIN streams : a \notin streams[s]
      BY <2>1 DEF JoinInv
    <2> QED
      BY <2>1, <2>2, KnowKept DEF Together, Entered
  <1>3. CASE unregister(a)
    <2>1. /\ UNCHANGED <<streams, kicked, list, target>>
          /\ pc[a] = "unregister" /\ Goto(a, "leave_room") /\ RemoveSender({a})
      BY <1>3 DEF unregister, rooms, moderator
    <2> QED
      BY <2>1, KnowKept DEF Together, Entered, RemoveSender
  <1>4. CASE leave_room(a)
    <2>1. /\ \A t \in DOMAIN streams' : t \in DOMAIN streams /\ streams'[t] \subseteq streams[t]
          /\ UNCHANGED <<peer_senders, kicked, lost, heard, list, target>>
          /\ pc[a] = "leave_room" /\ \E l : Goto(a, l)
      BY <1>4 DEF leave_room, CleanedUp, TypeOK, channels, moderator
    <2> QED
      BY <2>1, KnowKept DEF Together, Entered
  <1>5. CASE leave_notify(a)
    <2>1. /\ \A t \in DOMAIN streams' : t \in DOMAIN streams /\ streams'[t] \subseteq streams[t]
          /\ UNCHANGED <<peer_senders, kicked, list, target>>
          /\ pc[a] = "cleaning" /\ \E l : Goto(a, l)
      BY <1>5 DEF leave_notify, CleanedUp, Drop, moderator
    <2>2. \E T : TrySend(T, LAMBDA q : heard[q] \ {a})
      BY <1>5 DEF leave_notify
    <2>3. lost \subseteq lost' /\ \A p, q \in Peers : q # a /\ q \in heard[p] => q \in heard'[p]
      BY <2>2 DEF TrySend
    <2>4. a \notin peer_senders
      BY <2>1 DEF JoinInv
    <2> QED
      BY <2>1, <2>3, <2>4, KnowKept DEF Together, Entered
  <1> QED
    BY <1>1, <1>2, <1>3, <1>4, <1>5

LEMMA KnowBackground ==
    ASSUME TypeOK, JoinInv, KnowInv, Background
    PROVE  KnowInv'
  <1>1. UNCHANGED <<pc, target, list>>
    BY DEF Background, mod_block_peer, mod_unblock_peer, kick_rooms, kick_notify, kick_remove,
       Age, idle_cleanup
  <1>2. ASSUME NEW a \in Peers, mod_block_peer(a) \/ mod_unblock_peer(a) PROVE KnowInv'
    <2>1. UNCHANGED <<peer_senders, streams, lost, heard>> /\ (kicked' = kicked \/ kicked = {})
      BY <1>2 DEF mod_block_peer, mod_unblock_peer, JoinInv, rooms, channels
    <2> QED
      BY <1>1, <2>1, KnowKept DEF Together
  <1>3. CASE kick_rooms \/ idle_cleanup
    <2>1. /\ \A t \in DOMAIN streams' : t \in DOMAIN streams /\ streams'[t] \subseteq streams[t]
          /\ UNCHANGED <<peer_senders, kicked, lost, heard>>
      BY <1>3 DEF kick_rooms, idle_cleanup, Drop, channels, moderator
    <2> QED
      BY <1>1, <2>1, KnowKept DEF Together
  <1>4. CASE kick_notify
    <2>1. /\ UNCHANGED <<peer_senders, streams, kicked>>
          /\ TrySend(remaining, LAMBDA q : heard[q] \ kicked)
      BY <1>4 DEF kick_notify, rooms
    <2>2. /\ lost \subseteq lost'
          /\ \A p, q \in Peers : q \notin kicked /\ q \in heard[p] => q \in heard'[p]
      BY <2>1 DEF TrySend
    <2> QED
      BY <1>1, <2>1, <2>2, KnowKept DEF Together
  <1>5. CASE kick_remove
    <2>1. UNCHANGED streams /\ RemoveSender(kicked) /\ kicked' = {}
      BY <1>5 DEF kick_remove, rooms
    <2> QED
      BY <1>1, <2>1, KnowKept DEF Together, RemoveSender
  <1>6. ASSUME NEW s \in Streams, Age(s) PROVE KnowInv'
    <2>1. UNCHANGED <<peer_senders, streams, kicked, lost, heard>>
      BY <1>6 DEF Age, channels, moderator
    <2> QED
      BY <1>1, <2>1, KnowKept DEF Together
  <1> QED
    BY <1>2, <1>3, <1>4, <1>5, <1>6 DEF Background

\* The steps of a join, each of which hands the duty to tell on to the next
LEMMA KnowJoin ==
    ASSUME TypeOK, JoinInv, KnowInv, NEW a \in Peers, NEW r \in Streams,
           \/ join_insert(a, r) \/ join_stamp(a, r) \/ join_list(a, r) \/ join_notify(a, r)
    PROVE  KnowInv'
  <1> SUFFICES ASSUME NEW s \in Streams, NEW p \in Peers, NEW q \in Peers, Together(s, p, q)'
               PROVE  WillKnow(s, p, q)'
    BY DEF KnowInv
  <1>0. \A t \in target[a] : r \in target[a] => t = r
    BY DEF JoinInv
  <1>1. CASE join_insert(a, r)
    <2>1. /\ UNCHANGED <<peer_senders, kicked, lost, heard, list, target>>
          /\ pc[a] = "insert" /\ r \in target[a]
      BY <1>1 DEF join_insert, channels, moderator
    <2>2. CASE Full(a, r)
      <3>1. Together(s, p, q) /\ Goto(a, "reject")
        BY <1>1, <2>1, <2>2 DEF join_insert, Together
      <3> QED
        BY <2>1, <3>1 DEF KnowInv, WillKnow, Entered, Goto, TypeOK
    <2>3. CASE ~Full(a, r)
      <3>1. Goto(a, "stamp") /\ streams' = Put(streams, r, RoomOf(r) \cup {a})
        BY <1>1, <2>3 DEF join_insert
      <3>2. \A t \in DOMAIN streams' : \A u \in streams'[t] :
                (u = a /\ t = r) \/ (t \in DOMAIN streams /\ u \in streams[t])
        BY <3>1 DEF Put, RoomOf
      <3>3. pc'[a] = "stamp" /\ \A u \in Peers : u # a => pc'[u] = pc[u]
        BY <3>1 DEF Goto, TypeOK
      <3>4. CASE (p = a \/ q = a) /\ s = r
        BY <2>1, <3>3, <3>4 DEF WillKnow, Entered
      <3>5. CASE ~((p = a \/ q = a) /\ s = r)
        <4>1. Together(s, p, q)
          BY <2>1, <3>2, <3>5 DEF Together
        <4>2. WillKnow(s, p, q)
          BY <4>1 DEF KnowInv
        <4> QED
          BY <2>1, <3>3, <4>2 DEF WillKnow, Entered
      <3> QED
        BY <3>4, <3>5
    <2> QED
      BY <2>2, <2>3
  <1>2. CASE join_stamp(a, r)
    <2>1. /\ UNCHANGED <<peer_senders, streams, kicked, lost, heard, list, target>>
          /\ pc[a] = "stamp" /\ Goto(a, "list")
      BY <1>2 DEF join_stamp, channels, moderator
    <2>2. pc'[a] = "list" /\ \A u \in Peers : u # a => pc'[u] = pc[u]
      BY <2>1 DEF Goto, TypeOK
    <2>3. WillKnow(s, p, q)
      BY <2>1 DEF Together, KnowInv
    <2> QED
      BY <2>1, <2>2, <2>3 DEF WillKnow, Entered
  <1>3. CASE join_list(a, r)
    <2>1. /\ UNCHANGED <<peer_senders, streams, kicked, lost, heard, target>>
          /\ pc[a] = "list" /\ r \in target[a] /\ Goto(a, "send_list")
          /\ list' = [list EXCEPT ![a] = RoomOf(r) \ {a}]
      BY <1>3 DEF join_list, rooms, channels, moderator
    <2>2. /\ pc'[a] = "send_list" /\ list'[a] = RoomOf(r) \ {a}
          /\ \A u \in Peers : u # a => pc'[u] = pc[u] /\ list'[u] = list[u]
      BY <2>1 DEF Goto, TypeOK
    <2>3. WillKnow(s, p, q) /\ s \in DOMAIN streams /\ q \in streams[s] /\ p # q
      BY <2>1 DEF Together, KnowInv
    <2>4. CASE p = a /\ s \in target[a]
      <3>1. q \in list'[p] /\ pc'[p] = "send_list" /\ s \in target'[p]
        BY <1>0, <2>1, <2>2, <2>3, <2>4 DEF RoomOf
      <3> QED
        BY <3>1 DEF WillKnow
    <2>5. CASE ~(p = a /\ s \in target[a])
      BY <2>1, <2>2, <2>3, <2>5 DEF WillKnow, Entered
    <2> QED
      BY <2>4, <2>5
  <1>4. CASE join_notify(a, r)
    <2>1. /\ UNCHANGED <<peer_senders, streams, kicked, list>>
          /\ pc[a] = "tail" /\ r \in target[a] /\ Goto(a, "loop")
          /\ target' = [target EXCEPT ![a] = {}]
      BY <1>4 DEF join_notify, rooms, moderator
    <2> DEFINE here == (RoomOf(r) \ {a}) \cap peer_senders
               room == {u \in here : queued[u] < ChannelCapacity}
    <2>2. /\ heard' = [u \in Peers |-> IF u \in room THEN heard[u] \cup {a} ELSE heard[u]]
          /\ lost' = lost \cup (here \ room)
      BY <1>4 DEF join_notify, TrySend
    <2>3. \A u \in Peers : u # a => pc'[u] = pc[u] /\ target'[u] = target[u]
      BY <2>1 DEF Goto, TypeOK
    <2>4. Together(s, p, q)
      BY <2>1, <2>2 DEF Together
    <2>5. WillKnow(s, p, q)
      BY <2>4 DEF KnowInv
    <2>6. CASE q = a /\ s \in target[a]
      <3>1. p \in here /\ p \notin lost'
        BY <1>0, <2>1, <2>4, <2>6 DEF Together, RoomOf
      <3>2. p \in room
        BY <2>2, <3>1
      <3> QED
        BY <2>2, <2>6, <3>2 DEF WillKnow
    <2>7. CASE ~(q = a /\ s \in target[a])
      BY <2>1, <2>2, <2>3, <2>5, <2>7 DEF WillKnow, Entered
    <2> QED
      BY <2>6, <2>7
  <1> QED
    BY <1>1, <1>2, <1>3, <1>4

LEMMA KnowSendList ==
    ASSUME TypeOK, KnowInv, NEW a \in Peers, join_send_list(a)
    PROVE  KnowInv'
  <1> SUFFICES ASSUME NEW s \in Streams, NEW p \in Peers, NEW q \in Peers, Together(s, p, q)'
               PROVE  WillKnow(s, p, q)'
    BY DEF KnowInv
  <1>1. /\ UNCHANGED <<peer_senders, streams, kicked, target>>
        /\ pc[a] = "send_list" /\ Goto(a, "tail") /\ list' = [list EXCEPT ![a] = {}]
    BY DEF join_send_list, rooms, moderator
  <1> DEFINE here == {a} \cap peer_senders
             room == {u \in here : queued[u] < ChannelCapacity}
  <1>2. /\ heard' = [u \in Peers |-> IF u \in room THEN heard[u] \cup list[u] ELSE heard[u]]
        /\ lost' = lost \cup (here \ room)
    BY DEF join_send_list, TrySend
  <1>3. /\ pc'[a] = "tail"
        /\ \A u \in Peers : u # a => pc'[u] = pc[u] /\ list'[u] = list[u]
    BY <1>1 DEF Goto, TypeOK
  <1>4. Together(s, p, q)
    BY <1>1, <1>2 DEF Together
  <1>5. WillKnow(s, p, q)
    BY <1>4 DEF KnowInv
  <1>6. CASE p = a /\ q \in list[a]
    <2>1. p \in here /\ p \notin lost'
      BY <1>1, <1>4, <1>6 DEF Together
    <2>2. p \in room
      BY <1>2, <2>1
    <2> QED
      BY <1>2, <1>6, <2>2 DEF WillKnow
  <1>7. CASE ~(p = a /\ q \in list[a])
    BY <1>1, <1>2, <1>3, <1>5, <1>7 DEF WillKnow, Entered
  <1> QED
    BY <1>6, <1>7

LEMMA KnowStep ==
    ASSUME TypeOK, JoinInv, KnowInv, [Next]_vars
    PROVE  KnowInv'
  <1>1. ASSUME NEW p \in Peers, Handle(p) PROVE KnowInv'
    BY <1>1, KnowMessages, KnowConnections, KnowJoin, KnowSendList DEF Handle
  <1>2. CASE UNCHANGED vars
    <2>1. UNCHANGED <<peer_senders, streams, kicked, lost, heard, list, pc, target>>
      BY <1>2 DEF vars, rooms, channels, moderator
    <2> QED
      BY <2>1, KnowKept DEF Together
  <1> QED
    BY <1>1, <1>2, KnowBackground DEF Next

\* Two peers whose joins are through know of each other, for any number of peers that
\* join, leave and are kicked at once (the list and the announcement of PeerJoin).
THEOREM NobodyEverMissed == Spec => []NobodyMissed
  <1> DEFINE IInv == SlotInv /\ TypeOK /\ JoinInv /\ KnowInv
  <1>1. Init => IInv
    BY SlotInit, TypeInit, JoinInit, KnowInit
  <1>2. IInv /\ [Next]_vars => IInv'
    BY SlotStep, TypeStep, JoinStep, KnowStep
  <1>3. IInv => NobodyMissed
    <2> SUFFICES ASSUME TypeOK, KnowInv, NEW s \in DOMAIN streams,
                        NEW p \in streams[s], NEW q \in streams[s],
                        p # q, pc[p] = "loop", pc[q] = "loop",
                        {p, q} \subseteq peer_senders, {p, q} \cap (lost \cup kicked) = {}
                 PROVE  q \in heard[p]
      BY DEF NobodyMissed
    <2>1. s \in Streams /\ p \in Peers /\ q \in Peers /\ Together(s, p, q)
      BY DEF TypeOK, Together
    <2> QED
      BY <2>1 DEF KnowInv, WillKnow, Entered
  <1> QED
    BY <1>1, <1>2, <1>3, PTL DEF Spec
=============================================================================
