------------------------------ MODULE MCStreamTree ------------------------------
(***************************************************************************)
(* Bounds for model-checking StreamTree: at most MaxOperations operations  *)
(* in a behaviour, at most MaxReports of them metric reports.  The loops   *)
(* an operation starts always run to their end.                            *)
(***************************************************************************)
EXTENDS StreamTree, TLC

CONSTANTS MaxOperations, MaxReports

VARIABLES operations, reports
mcvars == <<vars, operations, reports>>

MCInit == Init /\ operations = 0 /\ reports = 0

Report == \E p \in Peers : update_metrics(p) \/ record_failure(p) \/ record_success(p)

Member == \/ \E p \in Peers : \/ set_source(p)
                              \/ \E r \in Roles : add_peer_to_stream(p, r)
                              \/ remove_peer_from_stream(p)
                              \/ remove_peer(p)
                              \/ handle_temporary_disconnect(p)
                              \/ handle_reconnection(p)
          \/ rebalance

MCNext ==
    \/ /\ operations < MaxOperations
       /\ operations' = operations + 1
       /\ \/ Member /\ UNCHANGED reports
          \/ Report /\ reports < MaxReports /\ reports' = reports + 1
    \/ Loop /\ UNCHANGED <<operations, reports>>

MCSpec == MCInit /\ [][MCNext]_mcvars

PeerSymmetry == Permutations(Peers)
=============================================================================
