--------------------------- MODULE MCStreamDiscovery ---------------------------
(***************************************************************************)
(* Bounds for model-checking StreamDiscovery: the streams all belong to    *)
(* one publisher, the callers make at most MaxCalls calls of               *)
(* announce_stream and remove_stream, and only Services start the service  *)
(* loop.                                                                   *)
(***************************************************************************)
EXTENDS StreamDiscovery

CONSTANTS Publisher, Services, MaxCalls

VARIABLE calls
mcvars == <<vars, calls>>

OwnedByPublisher == [s \in Streams |-> Publisher]

Call == \E n \in Nodes, s \in Streams : announce_stream(n, s) \/ remove_stream(n, s)

Progress == \/ \E n \in Nodes :
                  \/ Announcing(n, "caller")
                  \/ Uncache(n)
                  \/ \E r \in Receivers : \/ \E a \in net : process_announcement(n, r, a)
                                         \/ CleanForInsert(n, r) \/ Insert(n, r)
                  \/ Loop(n)
            \/ \E n \in Services : spawn(n) \/ stop(n)
            \/ Tick

MCInit == Init /\ calls = 0
MCNext == \/ calls < MaxCalls /\ calls' = calls + 1 /\ Call
          \/ Progress /\ UNCHANGED calls

MCSpec == MCInit /\ [][MCNext]_mcvars /\ \A n \in Nodes : WF_mcvars(Loop(n) /\ UNCHANGED calls)
=============================================================================
