------------------------------- MODULE StreamTree -------------------------------
(***************************************************************************)
(* The distribution tree of one stream (core/src/overlay/tree.rs) and the  *)
(* TopologyManager operations that drive it                                *)
(* (core/src/overlay/topology/manager.rs).                                 *)
(*                                                                         *)
(* The manager holds the write lock on its trees for a whole operation.    *)
(* The loops of an operation (re-parenting the children of a removed peer, *)
(* moving children away from overloaded nodes, adopting orphans) run over  *)
(* hash sets, in any order; each iteration is a step here, and job says    *)
(* which loop of the operation that holds the lock is running.  A new      *)
(* operation starts only when job is Idle.                                 *)
(*                                                                         *)
(* Data.  connection_quality is kept as the band its thresholds tell apart *)
(* (0: < 0.5, 1: [0.5, 0.7), 2: [0.7, 0.8], 3: > 0.8), latency as whether  *)
(* it exceeds 200 ms, bandwidth as the number of 500 KB/s streams it       *)
(* carries.  The geo-aware score of a candidate parent is a choice: peers  *)
(* may be anywhere on Earth.  failure_count and the timestamps steer       *)
(* nothing and are left out.                                               *)
(***************************************************************************)
EXTENDS Integers, FiniteSets

CONSTANTS
    Peers,                \* peer identities
    NoPeer,               \* None of Option<PeerId>
    DefaultMaxChildren,   \* DEFAULT_MAX_CHILDREN (3 in the code)
    AbsoluteMaxChildren,  \* ABSOLUTE_MAX_CHILDREN (7)
    Capacities,           \* bandwidths a peer can report, in 500 KB/s streams
    DefaultCapacity,      \* config.default_bandwidth, in the same unit
    RebalanceThreshold    \* config.rebalance_threshold

ASSUME PeersAssumption == NoPeer \notin Peers
ASSUME FanOutAssumption ==
    /\ DefaultMaxChildren \in Nat \ {0}
    /\ AbsoluteMaxChildren \in Nat
    /\ DefaultMaxChildren < AbsoluteMaxChildren
ASSUME CapacityAssumption ==
    /\ Capacities \subseteq Nat
    /\ DefaultCapacity \in Capacities
    /\ RebalanceThreshold \in Nat

VARIABLES
    nodes,     \* the keys of StreamTree.nodes
    source,    \* StreamTree.source
    parent,    \* TreeNode.parent
    children,  \* TreeNode.children
    depth,     \* TreeNode.depth
    attr,      \* the other fields of TreeNode
    cached,    \* StreamTree.disconnected_nodes: of each peer in it the depth and
               \* the attr of the node put away
    replaced,  \* history: the peers whose node in the tree a reconnection has
               \* replaced by the one put away
    job        \* the loop the holder of the trees lock is in

links == <<nodes, parent, children, depth>>
vars == <<nodes, source, parent, children, depth, attr, cached, replaced, job>>

\* No operation tells HybridRelay or Unknown from Relay.
Roles == {"Publisher", "Relay", "Consumer"}
Attrs == [role : Roles, capacity : Capacities \cup {0}, slow : BOOLEAN,
          quality : 0..3, max_children : 1..AbsoluteMaxChildren]
SavedNodes == [depth : Nat, attr : Attrs]

\* TreeNode::new and TreeNode::source
NewAttr(r) == [role |-> r, capacity |-> DefaultCapacity, slow |-> FALSE,
               quality |-> 3, max_children |-> DefaultMaxChildren]
SourceAttr == [role |-> "Publisher", capacity |-> 0, slow |-> FALSE,
               quality |-> 3, max_children |-> DefaultMaxChildren + 1]

Phases == {"idle", "reparent", "rebalance", "move", "adopt"}
Jobs == [phase : Phases, todo : SUBSET Peers, over : SUBSET Peers,
         cand : SUBSET Peers, from : Peers \cup {NoPeer}, then : BOOLEAN]

\* then: whether a rebalance follows the re-parenting loop
Job(ph, todo, then) == [phase |-> ph, todo |-> todo, over |-> {}, cand |-> {},
                        from |-> NoPeer, then |-> then]
Idle == Job("idle", {}, FALSE)
Rebalancing == Job("rebalance", {}, FALSE)

-----------------------------------------------------------------------------
(* Parent selection *)

can_accept_children(p) ==
    /\ attr[p].role # "Consumer"
    /\ Cardinality(children[p]) < attr[p].max_children
    /\ attr[p].quality >= 1

\* Mutant: the peer itself takes part in the comparison and is dropped afterwards
BestIncludingSelf(p) ==
    LET C == {c \in nodes : can_accept_children(c)} IN
    {c \in C : \A d \in C :
        \/ depth[c] < depth[d]
        \/ depth[c] = depth[d] /\ attr[c].capacity >= attr[d].capacity} \ {p}

\* The loop of find_parent_for_peer: least depth, then most bandwidth; between
\* equals the iteration order of the hash map decides.
BestParents(p) ==
    LET C == {c \in nodes \ {p} : can_accept_children(c)} IN
    {c \in C : \A d \in C :
        \/ depth[c] < depth[d]
        \/ depth[c] = depth[d] /\ attr[c].capacity >= attr[d].capacity}

\* p below q. A peer that is not in the tree is listed all the same.
Attach(p, q, own) ==
    /\ parent' = [parent EXCEPT ![p] = IF p \in nodes' THEN q ELSE NoPeer]
    /\ children' = [children EXCEPT ![p] = own, ![q] = @ \cup {p}]
    /\ depth' = [depth EXCEPT ![p] = IF p \in nodes' THEN depth[q] + 1 ELSE 0]

Orphaned(p, own, was) ==
    /\ parent' = [parent EXCEPT ![p] = NoPeer]
    /\ children' = [children EXCEPT ![p] = own]
    /\ depth' = [depth EXCEPT ![p] = was]

\* Mutant: the source looks for a parent too
ParentForSourceToo(p, src, own, was) ==
    IF src = NoPeer \/ BestParents(p) = {} THEN Orphaned(p, own, was)
    ELSE \E q \in BestParents(p) : Attach(p, q, own)

\* find_parent_for_peer(p) for a p without a parent: src is the source at that
\* moment, own are the children of p and was its depth.
FindParent(p, src, own, was) ==
    IF src = NoPeer \/ p = src \/ BestParents(p) = {} THEN Orphaned(p, own, was)
    ELSE \E q \in BestParents(p) : Attach(p, q, own)

-----------------------------------------------------------------------------
(* Metrics of a node *)

\* (bandwidth / 500_000) as f32 * quality, for some quality of band q
QualityAdjusted(cap, q) ==
    LET Low  == <<0, 5, 7, 8>>
        High == <<5, 7, 8, 10>>
    IN ((cap * Low[q + 1]) \div 10) .. ((cap * High[q + 1]) \div 10)

Clamp(n) == IF n < 1 THEN 1
            ELSE IF n > AbsoluteMaxChildren THEN AbsoluteMaxChildren ELSE n

\* Mutant: no lower limit
FanOutsFromZero(r, cap, q) == {IF n > AbsoluteMaxChildren THEN AbsoluteMaxChildren ELSE n :
                               n \in QualityAdjusted(cap, q)}

\* The values adjust_fan_out may give max_children
FanOuts(r, cap, q) ==
    {IF r = "Publisher" /\ Clamp(n) < DefaultMaxChildren
     THEN DefaultMaxChildren ELSE Clamp(n) : n \in QualityAdjusted(cap, q)}

\* Node p has the attributes a, but for a new quality band, capacity and latency
\* and the fan-out that follows from them.
SetMetrics(p, a, cap, slow, q) ==
    \E m \in FanOuts(a.role, cap, q) :
        attr' = [attr EXCEPT ![p] = [role |-> a.role, capacity |-> cap, slow |-> slow,
                                     quality |-> q, max_children |-> m]]

\* 0.8 * quality and quality + 0.1, as bands
AfterFailure(q) == CASE q = 3 -> {1, 2} [] q = 2 -> {1} [] OTHER -> {0, q}
AfterSuccess(q) == IF q = 3 THEN {3} ELSE {q, q + 1}

\* update_metrics: above 200 ms the latency factor is at most 0.5
update_metrics(p) ==
    /\ job = Idle
    /\ p \in nodes
    /\ \E cap \in Capacities, slow \in BOOLEAN, q \in 0..3 :
        /\ slow => q <= 1
        /\ SetMetrics(p, attr[p], cap, slow, q)
    /\ UNCHANGED <<links, source, cached, replaced, job>>

record_failure(p) ==
    /\ job = Idle
    /\ p \in nodes
    /\ \E q \in AfterFailure(attr[p].quality) :
        SetMetrics(p, attr[p], attr[p].capacity, attr[p].slow, q)
    /\ UNCHANGED <<links, source, cached, replaced, job>>

record_success(p) ==
    /\ job = Idle
    /\ p \in nodes
    /\ \E q \in AfterSuccess(attr[p].quality) :
        SetMetrics(p, attr[p], attr[p].capacity, attr[p].slow, q)
    /\ UNCHANGED <<links, source, cached, replaced, job>>

-----------------------------------------------------------------------------
(* Membership *)

\* Neither set_source nor add_peer looks at the nodes put away.
set_source(p) ==
    /\ job = Idle
    /\ source = NoPeer
    /\ source' = p
    /\ nodes' = nodes \cup {p}
    /\ Orphaned(p, {}, 0)
    /\ attr' = [attr EXCEPT ![p] = SourceAttr]
    /\ UNCHANGED <<cached, replaced, job>>

\* add_peer_to_stream, with StreamTree::add_peer
add_peer_to_stream(p, r) ==
    /\ job = Idle
    /\ source' = IF r = "Publisher" /\ source = NoPeer THEN p ELSE source
    /\ nodes' = nodes \cup {p}
    /\ IF p \in nodes
       THEN UNCHANGED <<parent, children, depth, attr>>
       ELSE /\ attr' = [attr EXCEPT ![p] = NewAttr(r)]
            /\ FindParent(p, source', {}, 0)
    /\ job' = IF Cardinality(nodes') > RebalanceThreshold THEN Rebalancing ELSE Idle
    /\ UNCHANGED <<cached, replaced>>

\* Mutant: the node stays in its parent's list of children
TakeOutOneEnd(p, then) ==
    /\ nodes' = nodes \ {p}
    /\ parent' = [parent EXCEPT ![p] = NoPeer]
    /\ children' = [children EXCEPT ![p] = {}]
    /\ job' = Job("reparent", children[p], then)

\* The part remove_peer and handle_temporary_disconnect share: take the node
\* out, then re-parent its children one by one.
TakeOut(p, then) ==
    /\ nodes' = nodes \ {p}
    /\ parent' = [parent EXCEPT ![p] = NoPeer]
    /\ children' = [q \in Peers |-> IF q = p THEN {}
                                    ELSE IF q = parent[p] THEN children[q] \ {p}
                                    ELSE children[q]]
    /\ job' = Job("reparent", children[p], then)

\* StreamTree::remove_peer refuses an unknown peer and the source
Removable(p) == p \in nodes /\ p # source

\* Absent nodes have no depth and no attributes; one canonical value.
Forget(p) ==
    /\ depth' = [depth EXCEPT ![p] = 0]
    /\ attr' = [attr EXCEPT ![p] = NewAttr("Consumer")]

\* remove_peer_from_stream: drop an empty tree, else rebalance even when
\* remove_peer refused
remove_peer_from_stream(p) ==
    /\ job = Idle
    /\ nodes # {}
    /\ IF Removable(p)
       THEN TakeOut(p, nodes # {p}) /\ Forget(p)
       ELSE job' = Rebalancing /\ UNCHANGED <<links, attr>>
    /\ IF nodes = {p} /\ Removable(p) THEN cached' = <<>> /\ replaced' = {}
       ELSE UNCHANGED <<cached, replaced>>
    /\ UNCHANGED source

\* TopologyManager::remove_peer: no rebalance, an empty tree stays
remove_peer(p) ==
    /\ job = Idle
    /\ Removable(p)
    /\ TakeOut(p, FALSE)
    /\ Forget(p)
    /\ UNCHANGED <<source, cached, replaced>>

\* cleanup_disconnected_nodes drops any nodes put away longer than the grace
\* period, which may be 0.
handle_temporary_disconnect(p) ==
    /\ job = Idle
    /\ Removable(p)
    /\ TakeOut(p, FALSE)
    /\ Forget(p)
    /\ \E kept \in SUBSET (DOMAIN cached \cup {p}) :
          cached' = [q \in kept |-> IF q = p THEN [depth |-> depth[p], attr |-> attr[p]]
                                   ELSE cached[q]]
    /\ UNCHANGED <<source, replaced>>

\* The node put away comes back with the depth it had and without links. It takes
\* the place of a node that the peer has got meanwhile.
handle_reconnection(p) ==
    /\ job = Idle
    /\ p \in DOMAIN cached
    /\ nodes' = nodes \cup {p}
    /\ cached' = [q \in DOMAIN cached \ {p} |-> cached[q]]
    /\ replaced' = IF p \in nodes THEN replaced \cup {p} ELSE replaced
    /\ LET old == cached[p] IN
       /\ \E q \in AfterSuccess(old.attr.quality) :
            SetMetrics(p, old.attr, old.attr.capacity, old.attr.slow, q)
       /\ FindParent(p, source, {}, old.depth)
    /\ UNCHANGED <<source, job>>

\* rebalance_stream, and one tree of periodic_rebalance
rebalance ==
    /\ job = Idle
    /\ nodes # {}
    /\ job' = Rebalancing
    /\ UNCHANGED <<links, source, attr, cached, replaced>>

-----------------------------------------------------------------------------
(* The loops *)

\* One child of the removed peer, or one orphan
Reparent(c) ==
    /\ job.phase \in {"reparent", "adopt"}
    /\ c \in job.todo
    /\ UNCHANGED <<nodes, source, attr, cached, replaced>>
    /\ FindParent(c, source, children[c], depth[c])
    /\ job' = [job EXCEPT !.todo = @ \ {c}]

EndReparent ==
    /\ job.phase \in {"reparent", "adopt"}
    /\ job.todo = {}
    /\ job' = IF job.then THEN Rebalancing ELSE Idle
    /\ UNCHANGED <<links, source, attr, cached, replaced>>

Fan(p) == Cardinality(children[p])
\* max_children.saturating_sub(1); max_children is at least 1
NearFull(p) == attr[p].max_children - 1

Overloaded == {p \in nodes : \/ attr[p].slow /\ Fan(p) > 1
                             \/ Fan(p) >= NearFull(p)
                             \/ attr[p].quality < 2}
Candidates == {p \in nodes : /\ can_accept_children(p)
                             /\ Fan(p) < NearFull(p)
                             /\ attr[p].quality = 3}
Orphans == {p \in nodes : parent[p] = NoPeer /\ source # NoPeer /\ p # source}

\* rebalance, steps 1 and 2, with its early return
StartRebalance ==
    /\ job.phase = "rebalance"
    /\ job' = IF Overloaded = {} \/ Candidates = {} THEN Idle
              ELSE [Job("move", {}, FALSE) EXCEPT !.over = Overloaded,
                                                  !.cand = Candidates]
    /\ UNCHANGED <<links, source, attr, cached, replaced>>

ToMove(p) == IF attr[p].quality = 0 THEN Fan(p) \div 2 ELSE Fan(p) \div 3

\* Next overloaded node: the children it will try to move
PickOverloaded(p) ==
    /\ job.phase = "move"
    /\ job.todo = {}
    /\ p \in job.over
    /\ \E batch \in SUBSET children[p] :
        /\ Cardinality(batch) = ToMove(p)
        /\ job' = [job EXCEPT !.over = @ \ {p}, !.from = p, !.todo = batch]
    /\ UNCHANGED <<links, source, attr, cached, replaced>>

\* The candidates that calculate_candidate_score compares; which one wins depends
\* on where the peers are.
Eligible(c) == {k \in job.cand \ {c} : can_accept_children(k)}

\* Move child c of the overloaded node to some candidate, if one accepts
MoveChild(c) ==
    /\ job.phase = "move"
    /\ c \in job.todo
    /\ job' = [job EXCEPT !.todo = @ \ {c}]
    /\ IF c \notin nodes \/ Eligible(c) = {} THEN UNCHANGED <<parent, children, depth>>
       ELSE \E k \in Eligible(c) :
            /\ children' = [q \in Peers |->
                  IF q = k THEN children[q] \cup {c}
                  ELSE IF q = job.from THEN children[q] \ {c} ELSE children[q]]
            /\ parent' = [parent EXCEPT ![c] = k]
            /\ depth' = [depth EXCEPT ![c] = depth[k] + 1]
    /\ UNCHANGED <<nodes, source, attr, cached, replaced>>

\* Step 4: the orphans are collected once, then adopted one by one
StartAdoption ==
    /\ job.phase = "move"
    /\ job.todo = {}
    /\ job.over = {}
    /\ job' = Job("adopt", Orphans, FALSE)
    /\ UNCHANGED <<links, source, attr, cached, replaced>>

-----------------------------------------------------------------------------
Init ==
    /\ nodes = {}
    /\ source = NoPeer
    /\ parent = [p \in Peers |-> NoPeer]
    /\ children = [p \in Peers |-> {}]
    /\ depth = [p \in Peers |-> 0]
    /\ attr = [p \in Peers |-> NewAttr("Consumer")]
    /\ cached = <<>>
    /\ replaced = {}
    /\ job = Idle

Loop == \/ \E p \in Peers : Reparent(p) \/ PickOverloaded(p) \/ MoveChild(p)
        \/ EndReparent
        \/ StartRebalance
        \/ StartAdoption

Next == \/ \E p \in Peers :
              \/ set_source(p)
              \/ \E r \in Roles : add_peer_to_stream(p, r)
              \/ remove_peer_from_stream(p)
              \/ remove_peer(p)
              \/ handle_temporary_disconnect(p)
              \/ handle_reconnection(p)
              \/ update_metrics(p)
              \/ record_failure(p)
              \/ record_success(p)
        \/ rebalance
        \/ Loop

\* An operation that holds the lock runs on; nothing makes callers call.
Spec == Init /\ [][Next]_vars /\ WF_vars(Loop)

-----------------------------------------------------------------------------
(* Properties *)

TypeOK ==
    /\ nodes \subseteq Peers
    /\ source \in Peers \cup {NoPeer}
    /\ parent \in [Peers -> Peers \cup {NoPeer}]
    /\ children \in [Peers -> SUBSET Peers]
    /\ depth \in [Peers -> Nat]
    /\ attr \in [Peers -> Attrs]
    /\ DOMAIN cached \subseteq Peers
    /\ cached \in [DOMAIN cached -> SavedNodes]
    /\ replaced \subseteq Peers
    /\ job \in Jobs

\* Children of a removed node that its loop has not reached yet: they still
\* name the removed node as their parent.
Limbo == IF job.phase = "reparent" THEN job.todo ELSE {}

\* The two ends of every link agree: a node's parent is in the tree and lists
\* it among its children, and a node's children are in the tree and name it as
\* their parent (so nobody has two parents).  remove_peer, the reconnection
\* path and rebalance each edit the two ends in separate statements.  Only a
\* peer that came back with its old node while it had a new one leaves loose
\* ends, and only links to itself: a list it is still on, a child it forgot.
LinksConsistent ==
    /\ \A p \in nodes \ Limbo : parent[p] \notin replaced \cup {NoPeer} =>
           parent[p] \in nodes /\ p \in children[parent[p]]
    /\ \A q \in nodes : \A c \in children[q] \ replaced :
           c \in nodes \ Limbo /\ parent[c] = q

\* The stream's source is in the tree and is nobody's child, whatever
\* rebalancing, removals and late publishers do.
SourceIsRoot ==
    source # NoPeer => /\ source \in nodes
                       /\ parent[source] = NoPeer
                       /\ \A q \in Peers : source \notin children[q]

\* When rebalance ends through its last loop, an orphan is left over only if no
\* other node could take it: capacity given out during the loop never strands one
\* that the loop has already passed.
RebalanceAdopts ==
    [][job.phase = "adopt" /\ job' = Idle =>
          \A o \in Orphans : \A q \in nodes \ {o} : ~ can_accept_children(q)]_vars
=============================================================================
