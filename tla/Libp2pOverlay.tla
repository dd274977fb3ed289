----------------------------- MODULE Libp2pOverlay -----------------------------
(***************************************************************************)
(* The overlay of one node (core/src/overlay/libp2p): the worker tasks     *)
(* that poll the swarm and handle its events, the callers that use the     *)
(* same swarm, the map of peers, the active streams and the queue of       *)
(* events that the programs take from.  Every start spawns a worker, stop  *)
(* aborts the one that was spawned last.                                   *)
(*                                                                         *)
(* A worker holds the swarm's mutex from the poll to the end of the        *)
(* handler, across the handler's awaits; one action per stretch between    *)
(* two of them.  Data and subscriptions also go to the relay node, through *)
(* the bounded channels of RelayNode.  Nothing starts that relay node      *)
(* (init_relay is empty and RelayManager::start has no caller), so nothing *)
(* takes from these channels: here they are two counters.                  *)
(*                                                                         *)
(* The network is external: the swarm may connect and disconnect peers at  *)
(* will, and gossip hands over each message on a subscribed topic at most  *)
(* once, in any order, or not at all.  The queue of events is unbounded:   *)
(* every try_send is on a fresh clone of the sender, which always has a    *)
(* slot of its own.  Addresses, protocols, logs and NAT events are left    *)
(* out.                                                                    *)
(***************************************************************************)
EXTENDS Naturals, Sequences, FiniteSets

CONSTANTS
    Peers, Streams,
    RelayCapacity,   \* mpsc::channel(100) of the relay node, chunks and messages
    MaxConnections,  \* bound: connections to one peer at a time
    MaxEstablished,  \* bound: connections over time
    MaxPolled,       \* bound: events of the swarm
    MaxCalls,        \* bound: calls of the overlay's operations
    MaxStarts        \* bound: times the overlay is started

ASSUME OverlayAssumption ==
    /\ RelayCapacity \in Nat \ {0}
    /\ {MaxConnections, MaxEstablished, MaxPolled, MaxCalls, MaxStarts} \subseteq Nat

VARIABLES
    ctl, starts,  \* where the caller of start and stop is
    stopped,      \* history: stop has been called
    swarm,        \* whether the swarm has been created
    running,
    worker_task,  \* the worker spawned last, 0 for none
    worker,       \* where each worker is and the event it handles
    peers,        \* the map: absent, or a status and whether addresses are known
    pending,      \* a caller between the swarm and the map
    conns,        \* the swarm's connections to each peer
    blocked,      \* peers the moderation does not allow
    topics,       \* streams whose data and control topics are subscribed
    streams,      \* the set of active streams
    chunks, msgs, \* what is in the relay node's two channels
    gossip,       \* messages on their way to this node
    events,       \* the event queue
    established, polled, calls

ctlVars == <<ctl, starts, stopped, swarm, running, worker_task>>
peerVars == <<peers, pending, conns, blocked, established>>
relayVars == <<chunks, msgs>>
overlayVars == <<ctlVars, worker, peerVars, topics, streams, relayVars, gossip, events,
                 polled, calls>>

Statuses == {"absent", "Connecting", "Connected", "Disconnected"}
Absent == [status |-> "absent", addresses |-> FALSE]
NoEvent == [kind |-> "none", what |-> <<>>]

Workers == 1..MaxStarts

\* The stretches in which a worker has the swarm
Handling == {"poll", "allow", "connect", "close", "relay", "emit", "subscriber"}
SwarmFree == \A w \in Workers : worker[w].at \notin Handling

\* An operation of another task that needs the swarm
Call == SwarmFree /\ swarm /\ calls < MaxCalls /\ calls' = calls + 1

\* The counts against a bound may start anywhere: a node whose peers, say, are quiet
OverlayInit ==
    /\ ctl = "idle" /\ starts = 0 /\ stopped = FALSE /\ swarm = FALSE /\ running = FALSE
    /\ worker_task = 0
    /\ worker = [w \in Workers |-> [at |-> "gone", ev |-> NoEvent]]
    /\ peers = [p \in Peers |-> Absent]
    /\ pending = [p \in Peers |-> "no"]
    /\ conns = [p \in Peers |-> 0]
    /\ blocked = {}
    /\ topics = {} /\ streams = {}
    /\ chunks = 0 /\ msgs = 0
    /\ gossip = {} /\ events = <<>>
    /\ established \in 0..MaxEstablished /\ polled \in 0..MaxPolled /\ calls \in 0..MaxCalls

-----------------------------------------------------------------------------
(* start and stop; one caller, in any order *)

\* The swarm is created once, and kept by stop
run_swarm ==
    /\ ctl = "idle" /\ starts < MaxStarts /\ SwarmFree
    /\ starts' = starts + 1
    /\ swarm' = TRUE
    /\ ctl' = "swarm"
    /\ UNCHANGED <<stopped, running, worker_task, worker, peerVars, topics, streams, relayVars,
                   gossip, events, polled, calls>>

\* Also when the overlay is up: then the earlier worker goes on, and its handle is lost
start ==
    /\ ctl = "swarm"
    /\ running' = TRUE
    /\ worker' = [worker EXCEPT ![starts] = [at |-> "check", ev |-> NoEvent]]
    /\ worker_task' = starts
    /\ ctl' = "idle"
    /\ UNCHANGED <<starts, stopped, swarm, peerVars, topics, streams, relayVars, gossip, events,
                   polled, calls>>

stop ==
    /\ ctl = "idle"
    /\ running' = FALSE /\ stopped' = TRUE
    /\ ctl' = "stopping"
    /\ UNCHANGED <<starts, swarm, worker_task, worker, peerVars, topics, streams, relayVars,
                   gossip, events, polled, calls>>

\* The worker ends at the await it is in, with the mutex and the event it had
stop_abort ==
    /\ ctl = "stopping"
    /\ worker' = [w \in Workers |-> IF w = worker_task THEN [at |-> "gone", ev |-> NoEvent]
                                    ELSE worker[w]]
    /\ worker_task' = 0
    /\ ctl' = "idle"
    /\ UNCHANGED <<starts, stopped, swarm, running, peerVars, topics, streams, relayVars, gossip,
                   events, polled, calls>>

-----------------------------------------------------------------------------
(* A worker *)

WorkerTo(w, at) == worker' = [worker EXCEPT ![w].at = at]
Done(w) == worker' = [worker EXCEPT ![w] = [at |-> "check", ev |-> NoEvent]]
Emit(kind, what) == events' = Append(events, [kind |-> kind, what |-> what])

worker_check(w) ==
    /\ worker[w].at = "check"
    /\ WorkerTo(w, IF running THEN "lock" ELSE "gone")
    /\ UNCHANGED <<ctlVars, peerVars, topics, streams, relayVars, gossip, events, polled, calls>>

worker_lock(w) ==
    /\ worker[w].at = "lock" /\ SwarmFree
    /\ WorkerTo(w, "poll")
    /\ UNCHANGED <<ctlVars, peerVars, topics, streams, relayVars, gossip, events, polled, calls>>

poll_timeout(w) ==
    /\ worker[w].at = "poll"
    /\ Done(w)
    /\ UNCHANGED <<ctlVars, peerVars, topics, streams, relayVars, gossip, events, polled, calls>>

Poll(w, at, kind, what) ==
    /\ worker[w].at = "poll" /\ polled < MaxPolled
    /\ polled' = polled + 1
    /\ worker' = [worker EXCEPT ![w] = [at |-> at, ev |-> [kind |-> kind, what |-> what]]]
    /\ UNCHANGED <<ctlVars, calls, relayVars, topics, streams>>

ConnectionEstablished(w, p) ==
    /\ conns[p] < MaxConnections /\ established < MaxEstablished
    /\ established' = established + 1
    /\ conns' = [conns EXCEPT ![p] = @ + 1]
    /\ Poll(w, "allow", "established", p)
    /\ UNCHANGED <<peers, pending, blocked, gossip, events>>

\* A blocked peer is not entered, and not disconnected either
is_peer_allowed(w) ==
    /\ worker[w].at = "allow"
    /\ IF worker[w].ev.what \in blocked THEN Done(w) ELSE WorkerTo(w, "connect")
    /\ UNCHANGED <<ctlVars, peerVars, topics, streams, relayVars, gossip, events, polled, calls>>

set_connected(w) ==
    /\ worker[w].at = "connect"
    /\ peers' = [peers EXCEPT ![worker[w].ev.what].status = "Connected"]
    /\ Emit("PeerConnected", worker[w].ev.what)
    /\ Done(w)
    /\ UNCHANGED <<ctlVars, pending, conns, blocked, established, topics, streams, relayVars, gossip,
                   polled, calls>>

ConnectionClosed(w, p) ==
    /\ conns[p] > 0
    /\ conns' = [conns EXCEPT ![p] = @ - 1]
    /\ Poll(w, "close", "closed", p)
    /\ UNCHANGED <<peers, pending, blocked, established, gossip, events>>

Disconnected(x) == IF x.status = "absent" THEN x ELSE [x EXCEPT !.status = "Disconnected"]

\* Mutant: the map is not told
EmitOnly(w) ==
    /\ worker[w].at = "close"
    /\ Emit("PeerDisconnected", worker[w].ev.what)
    /\ Done(w)
    /\ UNCHANGED <<ctlVars, peerVars, topics, streams, relayVars, gossip, polled, calls>>

\* Also when another connection to the peer remains
set_disconnected(w) ==
    /\ worker[w].at = "close"
    /\ peers' = [peers EXCEPT ![worker[w].ev.what] = Disconnected(@)]
    /\ Emit("PeerDisconnected", worker[w].ev.what)
    /\ Done(w)
    /\ UNCHANGED <<ctlVars, pending, conns, blocked, established, topics, streams, relayVars, gossip,
                   polled, calls>>

\* What becomes of a message: data goes to the relay unless its hash is wrong,
\* also when it cannot be decoded at all; control messages go on as they are
Verified(m) == IF m.form = "corrupt" THEN "check" ELSE "relay"
Route(m) == IF m.topic = "data" THEN Verified(m) ELSE "emit"

handle_gossipsub_message(w, m) ==
    /\ m \in gossip
    /\ gossip' = gossip \ {m}
    /\ m.topic \in {"data", "control"} => m.stream \in topics
    /\ Poll(w, IF m.topic = "discovery" THEN "check" ELSE Route(m), "message", m)
    /\ UNCHANGED <<peerVars, events>>

\* relay_node.publish_chunk(chunk).await with the swarm's mutex held
publish_chunk(w) ==
    /\ worker[w].at = "relay" /\ chunks < RelayCapacity
    /\ chunks' = chunks + 1
    /\ WorkerTo(w, "emit")
    /\ UNCHANGED <<ctlVars, peerVars, topics, streams, msgs, gossip, events, polled, calls>>

\* Data makes its stream active; announcements become events of their own
emit(w) ==
    /\ worker[w].at = "emit"
    /\ LET m == worker[w].ev.what
       IN /\ streams' = IF m.topic = "data" THEN streams \cup {m.stream} ELSE streams
          /\ Emit(IF m.topic = "announce" THEN "StreamAnnounced" ELSE "StreamData", m)
    /\ Done(w)
    /\ UNCHANGED <<ctlVars, peerVars, topics, relayVars, gossip, polled, calls>>

\* Subscribed and Unsubscribed of another peer, on a data topic
PeerSubscription(w, p) ==
    /\ conns[p] > 0
    /\ Poll(w, "subscriber", "subscription", p)
    /\ UNCHANGED <<peerVars, gossip, events>>

add_remove_subscriber(w) ==
    /\ worker[w].at = "subscriber" /\ msgs < RelayCapacity
    /\ msgs' = msgs + 1
    /\ Done(w)
    /\ UNCHANGED <<ctlVars, peerVars, topics, streams, chunks, gossip, events, polled, calls>>

\* The peer's addresses become known
handle_identify_event(w, p) ==
    /\ conns[p] > 0 /\ peers[p].status # "absent"
    /\ Poll(w, "check", "identified", p)
    /\ peers' = [peers EXCEPT ![p].addresses = TRUE]
    /\ UNCHANGED <<pending, conns, blocked, established, gossip, events>>

-----------------------------------------------------------------------------
(* Other tasks *)

subscribe_to_stream(s) ==
    /\ SwarmFree /\ swarm
    /\ topics' = topics \cup {s}
    /\ streams' = streams \cup {s}
    /\ UNCHANGED <<ctlVars, worker, peerVars, relayVars, gossip, events, polled, calls>>

unsubscribe_from_stream(s) ==
    /\ Call
    /\ topics' = topics \ {s}
    /\ streams' = streams \ {s}
    /\ UNCHANGED <<ctlVars, worker, peerVars, relayVars, gossip, events, polled>>

\* add_stream goes to the relay first
publish_stream(s) ==
    /\ Call /\ msgs < RelayCapacity
    /\ msgs' = msgs + 1
    /\ topics' = topics \cup {s}
    /\ streams' = streams \cup {s}
    /\ UNCHANGED <<ctlVars, worker, peerVars, chunks, gossip, events, polled>>

\* remove_stream; the topics stay subscribed, so the next data makes it active again
stop_stream(s) ==
    /\ calls < MaxCalls /\ calls' = calls + 1
    /\ msgs < RelayCapacity
    /\ msgs' = msgs + 1
    /\ streams' = streams \ {s}
    /\ UNCHANGED <<ctlVars, worker, peerVars, topics, chunks, gossip, events, polled>>

relay_stream ==
    /\ calls < MaxCalls /\ calls' = calls + 1
    /\ msgs < RelayCapacity
    /\ msgs' = msgs + 1
    /\ UNCHANGED <<ctlVars, worker, peerVars, topics, streams, chunks, gossip, events, polled>>

\* connect_peer of the trait: dial with the swarm, then enter the peer without it
connect_peer_impl(p) ==
    /\ Call /\ pending[p] = "no"
    /\ pending' = [pending EXCEPT ![p] = "insert"]
    /\ UNCHANGED <<ctlVars, worker, peers, conns, blocked, established, topics, streams, relayVars,
                   gossip, events, polled>>

\* disconnect_peer of the trait: ask the swarm, then remove the peer without it
disconnect_peer_impl(p) ==
    /\ SwarmFree /\ calls < MaxCalls /\ calls' = calls + 1
    /\ pending[p] = "no"
    /\ pending' = [pending EXCEPT ![p] = "remove"]
    /\ UNCHANGED <<ctlVars, worker, peers, conns, blocked, established, topics, streams, relayVars,
                   gossip, events, polled>>

\* The entry is overwritten, whatever the worker has put there since
finish_peer_impl(p) ==
    /\ pending[p] # "no"
    /\ peers' = [peers EXCEPT ![p] = IF pending[p] = "insert"
                    THEN [status |-> "Connecting", addresses |-> TRUE] ELSE Absent]
    /\ pending' = [pending EXCEPT ![p] = "no"]
    /\ UNCHANGED <<ctlVars, worker, conns, blocked, established, topics, streams, relayVars, gossip,
                   events, polled, calls>>

\* overlay_utils::connect_peer: the status changes whether or not there is a connection
connect_peer_util(p) ==
    /\ Call
    /\ peers' = [peers EXCEPT ![p].status = "Connecting"]
    /\ UNCHANGED <<ctlVars, worker, pending, conns, blocked, established, topics, streams, relayVars,
                   gossip, events, polled>>

\* Libp2pOverlay::connect_peer: only when no address is known is the peer marked
connect_peer(p) ==
    /\ Call
    /\ peers' = IF peers[p].addresses THEN peers
                ELSE [peers EXCEPT ![p].status = "Connecting"]
    /\ UNCHANGED <<ctlVars, worker, pending, conns, blocked, established, topics, streams, relayVars,
                   gossip, events, polled>>

disconnect_peer(p) ==
    /\ Call
    /\ peers' = [peers EXCEPT ![p] = Disconnected(@)]
    /\ UNCHANGED <<ctlVars, worker, pending, conns, blocked, established, topics, streams, relayVars,
                   gossip, events, polled>>

\* The moderation changes its mind
block(p) ==
    /\ calls < MaxCalls /\ calls' = calls + 1
    /\ blocked' = IF p \in blocked THEN blocked \ {p} ELSE blocked \cup {p}
    /\ UNCHANGED <<ctlVars, worker, peers, pending, conns, established, topics, streams, relayVars,
                   gossip, events, polled>>

\* A task in next_event is given the head
next_event ==
    /\ events # <<>>
    /\ events' = Tail(events)
    /\ UNCHANGED <<ctlVars, worker, peerVars, topics, streams, relayVars, gossip, polled, calls>>

-----------------------------------------------------------------------------
Worker ==
    \E w \in Workers :
        \/ worker_check(w) \/ worker_lock(w) \/ poll_timeout(w) \/ is_peer_allowed(w)
        \/ set_connected(w) \/ set_disconnected(w)
        \/ publish_chunk(w) \/ emit(w) \/ add_remove_subscriber(w)
        \/ \E p \in Peers : \/ ConnectionEstablished(w, p) \/ ConnectionClosed(w, p)
                            \/ PeerSubscription(w, p) \/ handle_identify_event(w, p)
        \/ \E m \in gossip : handle_gossipsub_message(w, m)

Control == run_swarm \/ start \/ stop \/ stop_abort

Callers ==
    \/ relay_stream
    \/ \E s \in Streams : \/ subscribe_to_stream(s) \/ unsubscribe_from_stream(s)
                          \/ publish_stream(s) \/ stop_stream(s)
    \/ \E p \in Peers : \/ connect_peer_impl(p) \/ disconnect_peer_impl(p)
                        \/ finish_peer_impl(p) \/ connect_peer_util(p)
                        \/ connect_peer(p) \/ disconnect_peer(p) \/ block(p)

-----------------------------------------------------------------------------
\* Until the overlay is first stopped, a peer that is listed as connected has a
\* connection, unless a worker is about to take it off the list, whatever callers
\* connect, disconnect and remove in the meantime and however often the overlay is
\* started (process_swarm_events).
ListedIsConnected ==
    ~stopped => \A p \in Peers :
        peers[p].status = "Connected" =>
            conns[p] > 0 \/ \E w \in Workers : worker[w].at = "close" /\ worker[w].ev.what = p

\* "Use timeout to avoid holding the lock indefinitely, allowing other tasks to access
\* the swarm" (event_handlers.rs:45): the worker gives the swarm back.
SwarmReleased == ~SwarmFree ~> SwarmFree
=============================================================================
