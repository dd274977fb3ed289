------------------------------ MODULE MCP2PFeed ------------------------------
(***************************************************************************)
(* P2PFeed for TLC: three nodes, each busy with one thing. The first has a *)
(* bridge for a stream that is published, the second a bridge for a stream *)
(* on which only others send, the third has peers and callers instead.     *)
(***************************************************************************)
EXTENDS P2PFeed

MCInit ==
    /\ Init
    /\ established = (IF bridge THEN MaxEstablished ELSE 0)
    /\ calls = (IF bridge THEN MaxCalls ELSE 0)
    /\ \/ bridge /\ publisher.at = "new" /\ polled = 1 /\ foreign = MaxForeign
       \/ bridge /\ publisher.at = "failed" /\ polled = 1 /\ foreign = 0
       \/ ~bridge /\ publisher.at = "failed" /\ polled = 0 /\ foreign = MaxForeign

MCSpec == MCInit /\ [][Next]_vars /\ WF_vars(Worker /\ UNCHANGED <<pubVars, bridgeVars>>)
=============================================================================
