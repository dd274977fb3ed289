---------------------------- MODULE BootstrapServer ----------------------------
(***************************************************************************)
(* The bootstrap server (node/src/bootstrap_server.rs): the rendezvous     *)
(* point nodes connect to.  It tracks the nodes that identify themselves,  *)
(* keeps them in its DHT, and joins the mesh of every stream some node     *)
(* joins.  One loop handles the swarm's events and a cleanup every minute, *)
(* so every handler is one step.                                           *)
(*                                                                         *)
(* The network is external.  The circuit relay, Kademlia's own events and  *)
(* failed connections are only logged by the server, and left out.         *)
(***************************************************************************)
EXTENDS Naturals, FiniteSets

CONSTANTS
    Nodes,
    StreamTopics,      \* topics stream/...
    max_peers,         \* BootstrapServerConfig
    MaxConnections     \* bound: connections of one node at a time

ASSUME ServerAssumption == {max_peers, MaxConnections} \subseteq Nat

VARIABLES
    connections,               \* open connections of each node
    routing,                   \* nodes in the DHT
    tracked,                   \* peers, with the age of their last_seen
    meshes,                    \* stream topics each node is in
    subscribed_stream_topics

serverVars == <<connections, routing, tracked, meshes, subscribed_stream_topics>>

ServerInit ==
    /\ connections = [n \in Nodes |-> 0]
    /\ routing = {}
    /\ tracked = [n \in Nodes |-> "absent"]
    /\ meshes = [n \in Nodes |-> {}]
    /\ subscribed_stream_topics = {}

Tracked == {n \in Nodes : tracked[n] # "absent"}

ConnectionEstablished(n) ==
    /\ connections[n] < MaxConnections
    /\ connections' = [connections EXCEPT ![n] = @ + 1]
    /\ routing' = routing \cup {n}
    /\ UNCHANGED <<tracked, meshes, subscribed_stream_topics>>

\* The server only logs it; gossipsub takes the node out of its meshes
ConnectionClosed(n) ==
    /\ connections[n] > 0
    /\ connections' = [connections EXCEPT ![n] = @ - 1]
    /\ meshes' = IF connections[n] = 1 THEN [meshes EXCEPT ![n] = {}] ELSE meshes
    /\ UNCHANGED <<routing, tracked, subscribed_stream_topics>>

\* Identify::Received: a full server still refreshes the nodes it tracks
IdentifyReceived(n) ==
    /\ connections[n] > 0
    /\ routing' = routing \cup {n}
    /\ tracked' = IF Cardinality(Tracked) < max_peers \/ n \in Tracked
                  THEN [tracked EXCEPT ![n] = "fresh"] ELSE tracked
    /\ UNCHANGED <<connections, meshes, subscribed_stream_topics>>

\* Subscribed: the server's own subscription may fail, and the topic is then tried again
\* with the next node that joins it
Subscribed(n, t) ==
    /\ connections[n] > 0 /\ t \notin meshes[n]
    /\ meshes' = [meshes EXCEPT ![n] = @ \cup {t}]
    /\ subscribed_stream_topics' \in {subscribed_stream_topics, subscribed_stream_topics \cup {t}}
    /\ UNCHANGED <<connections, routing, tracked>>

\* Unsubscribed is only logged: the server stays in the mesh
Unsubscribed(n, t) ==
    /\ t \in meshes[n]
    /\ meshes' = [meshes EXCEPT ![n] = @ \ {t}]
    /\ UNCHANGED <<connections, routing, tracked, subscribed_stream_topics>>

\* peer_expiration passes since the node was last seen
Expire(n) ==
    /\ tracked[n] = "fresh"
    /\ tracked' = [tracked EXCEPT ![n] = "stale"]
    /\ UNCHANGED <<connections, routing, meshes, subscribed_stream_topics>>

\* Mutant: the entry of a node that has left is kept
CleanupConnected ==
    /\ tracked' = [n \in Nodes |-> IF tracked[n] = "stale" /\ connections[n] > 0 THEN "absent"
                                   ELSE tracked[n]]
    /\ UNCHANGED <<connections, routing, meshes, subscribed_stream_topics>>

cleanup_expired_peers ==
    /\ tracked' = [n \in Nodes |-> IF tracked[n] = "stale" THEN "absent" ELSE tracked[n]]
    /\ UNCHANGED <<connections, routing, meshes, subscribed_stream_topics>>

ServerNext ==
    \/ \E n \in Nodes :
          \/ ConnectionEstablished(n) \/ ConnectionClosed(n) \/ IdentifyReceived(n) \/ Expire(n)
          \/ \E t \in StreamTopics : Subscribed(n, t) \/ Unsubscribed(n, t)
    \/ cleanup_expired_peers

\* Time passes and the cleanup's timer fires
ServerFairness == WF_serverVars(cleanup_expired_peers) /\ \A n \in Nodes : WF_serverVars(Expire(n))

-----------------------------------------------------------------------------
\* A node that has left for good is forgotten, so its place among the max_peers the server
\* tracks is free again although ConnectionClosed frees nothing; and there are never more.
DepartedForgotten ==
    /\ [](Cardinality(Tracked) <= max_peers)
    /\ \A n \in Nodes : <>[](connections[n] = 0) => <>[](tracked[n] = "absent")
=============================================================================
