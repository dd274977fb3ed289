---------------------------- MODULE MCPeerDiscovery ----------------------------
(***************************************************************************)
(* The two sides of peer discovery for TLC: the DiscoveryManager of a node *)
(* and the bootstrap server.  They share no state, so a behaviour is about *)
(* one of them, which the initial state chooses; what the other's fairness *)
(* asks for is not enabled then.                                           *)
(***************************************************************************)
EXTENDS PeerDiscovery, BootstrapServer

VARIABLE side

allVars == <<vars, side, serverVars>>

MCInit == side \in {"node", "server"} /\ Init /\ ServerInit
MCNext == \/ side = "node" /\ Next /\ UNCHANGED <<side, serverVars>>
          \/ side = "server" /\ ServerNext /\ UNCHANGED <<side, vars>>
MCSpec == MCInit /\ [][MCNext]_allVars /\ Fairness /\ ServerFairness
=============================================================================
