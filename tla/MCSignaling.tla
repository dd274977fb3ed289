----------------------------- MODULE MCSignaling -----------------------------
(***************************************************************************)
(* Signaling for few peers.  Small limits on connections and rooms in one  *)
(* configuration, on the peers of a room in the other.                     *)
(***************************************************************************)
EXTENDS Signaling, TLC

Limits(ws, rooms_, peers) ==
    [max_ws_connections |-> ws, max_stream_rooms |-> rooms_, max_peers_per_stream |-> peers]

FewConnections == Limits(2, 1, 2)
FewPeers == Limits(0, 1, 1)
BothConfigs == {FewConnections, FewPeers}
OnlyFewPeers == {FewPeers}

Symmetry == Permutations(Peers) \cup Permutations(Streams)
=============================================================================
