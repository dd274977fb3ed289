---------------------------- MODULE StreamTreeProofs ----------------------------
(***************************************************************************)
(* Safety of StreamTree for every set of peers and every fan-out limit.    *)
(* LinksConsistent and SourceIsRoot are not inductive: Aux adds what the   *)
(* loops know about the peers still on their lists, that absent peers have *)
(* no links, and that there are no links before there is a source.         *)
(***************************************************************************)
EXTENDS StreamTree, FiniteSetTheorems, TLAPS

NoAbsentLinks == \A p \in Peers \ nodes : parent[p] = NoPeer /\ children[p] = {}
NoSelfLink == \A p \in Peers : parent[p] # p /\ p \notin children[p]
NoLinksBeforeSource == source = NoPeer =>
    \A p \in Peers : parent[p] = NoPeer /\ children[p] = {}
ReparentList == job.phase = "reparent" =>
    job.todo \ replaced \subseteq nodes /\ source \notin job.todo /\ (job.todo # {} => source # NoPeer)
AdoptList == job.phase = "adopt" =>
    \A c \in job.todo : c \in nodes /\ c # source /\ parent[c] = NoPeer
                        /\ source # NoPeer
MoveList == job.phase = "move" =>
    /\ job.cand \subseteq nodes
    /\ job.over \subseteq nodes
    /\ job.todo # {} => job.from \in nodes /\ job.todo \subseteq children[job.from]

Aux == /\ NoAbsentLinks
       /\ NoSelfLink
       /\ NoLinksBeforeSource
       /\ ReparentList
       /\ AdoptList
       /\ MoveList

IInv == TypeOK /\ LinksConsistent /\ SourceIsRoot /\ Aux

-----------------------------------------------------------------------------
(* Types *)

\* A fan-out computed by adjust_fan_out lies between 1 and the absolute maximum.
LEMMA FanOutType ==
    ASSUME NEW r \in Roles, NEW cap \in Nat, NEW q \in 0..3
    PROVE  FanOuts(r, cap, q) \subseteq 1..AbsoluteMaxChildren
<1>1. QualityAdjusted(cap, q) \subseteq Int
  BY DEF QualityAdjusted
<1>2. \A n \in Int : Clamp(n) \in 1..AbsoluteMaxChildren
  BY FanOutAssumption DEF Clamp
<1>3. DefaultMaxChildren \in 1..AbsoluteMaxChildren
  BY FanOutAssumption
<1> QED BY <1>1, <1>2, <1>3 DEF FanOuts

\* Reporting metrics keeps the attributes of every node well typed.
LEMMA SetMetricsType ==
    ASSUME TypeOK, NEW p \in Peers, NEW a \in Attrs, NEW cap \in Capacities \cup {0},
           NEW slow \in BOOLEAN, NEW q \in 0..3, SetMetrics(p, a, cap, slow, q)
    PROVE  attr' \in [Peers -> Attrs]
<1>2. a.role \in Roles
  BY DEF Attrs
<1>3. cap \in Nat
  BY CapacityAssumption
<1>4. PICK m \in FanOuts(a.role, cap, q) :
        attr' = [attr EXCEPT ![p] = [role |-> a.role, capacity |-> cap,
                                     slow |-> slow, quality |-> q,
                                     max_children |-> m]]
  BY DEF SetMetrics
<1>5. m \in 1..AbsoluteMaxChildren
  BY <1>2, <1>3, <1>4, FanOutType
<1>6. [role |-> a.role, capacity |-> cap, slow |-> slow, quality |-> q,
       max_children |-> m] \in Attrs
  BY <1>2, <1>5 DEF Attrs
<1> QED BY <1>4, <1>6 DEF TypeOK

\* Attaching a peer keeps the link variables well typed.
LEMMA FindParentType ==
    ASSUME TypeOK, NEW p \in Peers, NEW src, NEW own \in SUBSET Peers, NEW was \in Nat,
           FindParent(p, src, own, was)
    PROVE  /\ parent' \in [Peers -> Peers \cup {NoPeer}]
           /\ children' \in [Peers -> SUBSET Peers]
           /\ depth' \in [Peers -> Nat]
<1>1. BestParents(p) \subseteq Peers
  BY DEF BestParents, TypeOK
<1>2. CASE Orphaned(p, own, was)
  BY <1>2 DEF Orphaned, TypeOK
<1>3. CASE \E q \in BestParents(p) : Attach(p, q, own)
  <2>1. PICK q \in BestParents(p) : Attach(p, q, own)
    BY <1>3
  <2>2. q \in Peers /\ depth[q] + 1 \in Nat
    BY <1>1, <2>1 DEF TypeOK
  <2>3. parent' \in [Peers -> Peers \cup {NoPeer}] /\ depth' \in [Peers -> Nat]
    BY <2>1, <2>2 DEF Attach, TypeOK
  <2>4. children' \in [Peers -> SUBSET Peers]
    BY <2>1, <2>2 DEF Attach, TypeOK
  <2> QED BY <2>3, <2>4
<1> QED BY <1>2, <1>3 DEF FindParent

\* Taking a node out keeps the link variables and the job well typed.
LEMMA TakeOutType ==
    ASSUME TypeOK, NEW p \in Peers, NEW then \in BOOLEAN, TakeOut(p, then)
    PROVE  /\ nodes' \subseteq Peers
           /\ parent' \in [Peers -> Peers \cup {NoPeer}]
           /\ children' \in [Peers -> SUBSET Peers]
           /\ job' \in Jobs
BY DEF TakeOut, TypeOK, Job, Jobs, Phases

\* A new node has well-typed attributes.
LEMMA NewAttrType == \A r \in Roles : NewAttr(r) \in Attrs
BY FanOutAssumption, CapacityAssumption DEF NewAttr, Attrs

\* Type correctness is inductive on its own.
LEMMA TypeStep == TypeOK /\ [Next]_vars => TypeOK'
<1> SUFFICES ASSUME TypeOK, [Next]_vars PROVE TypeOK'
  OBVIOUS
<1> USE PeersAssumption
<1>c. "Consumer" \in Roles
  BY DEF Roles
<1>j. Idle \in Jobs /\ Rebalancing \in Jobs
  BY DEF Idle, Rebalancing, Job, Jobs, Phases
<1>1. ASSUME NEW p \in Peers, set_source(p) PROVE TypeOK'
  <2>1. SourceAttr \in Attrs
    BY FanOutAssumption DEF SourceAttr, Attrs, Roles
  <2> QED BY <1>1, <2>1 DEF set_source, Orphaned, TypeOK
<1>2. ASSUME NEW p \in Peers, NEW r \in Roles, add_peer_to_stream(p, r) PROVE TypeOK'
  <2>1. job' \in Jobs
    BY <1>2, <1>j DEF add_peer_to_stream
  <2>2. CASE p \in nodes
    BY <1>2, <2>1, <2>2 DEF add_peer_to_stream, TypeOK
  <2>3. CASE p \notin nodes
    <3>1. FindParent(p, source', {}, 0)
      BY <1>2, <2>3 DEF add_peer_to_stream
    <3>2. /\ parent' \in [Peers -> Peers \cup {NoPeer}]
          /\ children' \in [Peers -> SUBSET Peers]
          /\ depth' \in [Peers -> Nat]
      BY <3>1, FindParentType
    <3>3. attr' \in [Peers -> Attrs]
      BY <1>2, <2>3, NewAttrType DEF add_peer_to_stream, TypeOK
    <3>4. nodes' \subseteq Peers /\ source' \in Peers \cup {NoPeer} /\ UNCHANGED <<cached, replaced>>
      BY <1>2 DEF add_peer_to_stream, TypeOK
    <3> QED BY <2>1, <3>2, <3>3, <3>4 DEF TypeOK
  <2> QED BY <2>2, <2>3
<1>3. ASSUME NEW p \in Peers, remove_peer_from_stream(p) PROVE TypeOK'
  <2>1. CASE Removable(p)
    <3>1. TakeOut(p, nodes # {p}) /\ Forget(p)
      BY <1>3, <2>1 DEF remove_peer_from_stream
    <3>2. DOMAIN cached' \subseteq Peers /\ cached' \in [DOMAIN cached' -> SavedNodes] /\ replaced' \subseteq Peers
      <4>1. CASE cached' = <<>> /\ replaced' = {}
        BY <4>1
      <4>2. CASE UNCHANGED <<cached, replaced>>
        BY <4>2 DEF TypeOK
      <4> QED BY <1>3, <4>1, <4>2 DEF remove_peer_from_stream
    <3> QED BY <1>3, <3>1, <3>2, <1>c, TakeOutType, NewAttrType
            DEF remove_peer_from_stream, Forget, TypeOK
  <2>2. CASE ~Removable(p)
    BY <1>3, <2>2, <1>j DEF remove_peer_from_stream, TypeOK, links
  <2> QED BY <2>1, <2>2
<1>4. ASSUME NEW p \in Peers, remove_peer(p) PROVE TypeOK'
  BY <1>4, <1>c, TakeOutType, NewAttrType DEF remove_peer, Forget, TypeOK
<1>5. ASSUME NEW p \in Peers, handle_temporary_disconnect(p) PROVE TypeOK'
  <2>1. PICK kept \in SUBSET (DOMAIN cached \cup {p}) :
          cached' = [q \in kept |-> IF q = p THEN [depth |-> depth[p], attr |-> attr[p]]
                                   ELSE cached[q]]
    BY <1>5 DEF handle_temporary_disconnect
  <2>2. [depth |-> depth[p], attr |-> attr[p]] \in SavedNodes
    BY DEF TypeOK, SavedNodes
  <2>3. DOMAIN cached' \subseteq Peers /\ cached' \in [DOMAIN cached' -> SavedNodes]
    BY <2>1, <2>2 DEF TypeOK
  <2> QED BY <1>5, <1>c, <2>3, TakeOutType, NewAttrType
          DEF handle_temporary_disconnect, Forget, TypeOK
<1>6. ASSUME NEW p \in Peers, handle_reconnection(p) PROVE TypeOK'
  <2> DEFINE old == cached[p]
  <2>1. /\ old.depth \in Nat /\ old.attr \in Attrs
        /\ old.attr.quality \in 0..3
        /\ old.attr.capacity \in Capacities \cup {0}
        /\ old.attr.slow \in BOOLEAN
    BY <1>6 DEF TypeOK, Attrs, SavedNodes, handle_reconnection
  <2>2. AfterSuccess(old.attr.quality) \subseteq 0..3
    BY <2>1 DEF AfterSuccess
  <2>3. PICK q \in 0..3 : SetMetrics(p, old.attr, old.attr.capacity, old.attr.slow, q)
    BY <1>6, <2>2 DEF handle_reconnection
  <2>4. attr' \in [Peers -> Attrs]
    BY <2>1, <2>3, SetMetricsType
  <2>5. FindParent(p, source, {}, old.depth)
    BY <1>6 DEF handle_reconnection
  <2>6. /\ parent' \in [Peers -> Peers \cup {NoPeer}]
        /\ children' \in [Peers -> SUBSET Peers]
        /\ depth' \in [Peers -> Nat]
    BY <2>1, <2>5, FindParentType
  <2>7. DOMAIN cached' \subseteq Peers /\ cached' \in [DOMAIN cached' -> SavedNodes]
    BY <1>6 DEF handle_reconnection, TypeOK
  <2> QED BY <1>6, <2>4, <2>6, <2>7 DEF handle_reconnection, TypeOK
<1>7. ASSUME NEW p \in Peers, update_metrics(p) \/ record_failure(p) \/ record_success(p)
      PROVE  TypeOK'
  <2>1. /\ attr[p].quality \in 0..3
        /\ attr[p].capacity \in Capacities \cup {0}
        /\ attr[p].slow \in BOOLEAN
    BY DEF TypeOK, Attrs
  <2>2. /\ AfterSuccess(attr[p].quality) \subseteq 0..3
        /\ AfterFailure(attr[p].quality) \subseteq 0..3
    BY <2>1 DEF AfterSuccess, AfterFailure
  <2>3. PICK cap \in Capacities \cup {0}, slow \in BOOLEAN, q \in 0..3 :
          SetMetrics(p, attr[p], cap, slow, q)
    <3>1. CASE update_metrics(p)
      BY <3>1 DEF update_metrics
    <3>2. CASE record_failure(p)
      BY <3>2, <2>1, <2>2 DEF record_failure
    <3>3. CASE record_success(p)
      BY <3>3, <2>1, <2>2 DEF record_success
    <3> QED BY <1>7, <3>1, <3>2, <3>3
  <2>4. attr' \in [Peers -> Attrs]
    BY <2>3, SetMetricsType DEF TypeOK
  <2>5. UNCHANGED <<nodes, parent, children, depth, source, cached, replaced, job>>
    BY <1>7 DEF update_metrics, record_failure, record_success, links
  <2> QED BY <2>4, <2>5 DEF TypeOK
<1>8. CASE rebalance
  BY <1>8, <1>j DEF rebalance, TypeOK, links
<1>9. ASSUME NEW c \in Peers, Reparent(c) PROVE TypeOK'
  <2>1. job' \in Jobs
    BY <1>9 DEF Reparent, TypeOK, Jobs
  <2>2. FindParent(c, source, children[c], depth[c])
    BY <1>9 DEF Reparent
  <2>3. /\ parent' \in [Peers -> Peers \cup {NoPeer}]
        /\ children' \in [Peers -> SUBSET Peers]
        /\ depth' \in [Peers -> Nat]
    BY <2>2, FindParentType DEF TypeOK
  <2> QED BY <1>9, <2>1, <2>3 DEF Reparent, TypeOK
<1>10. CASE EndReparent
  BY <1>10, <1>j DEF EndReparent, TypeOK, links
<1>11. CASE StartRebalance
  <2>1. Overloaded \subseteq Peers /\ Candidates \subseteq Peers
    BY DEF Overloaded, Candidates, TypeOK
  <2>2. job' \in Jobs
    BY <1>11, <1>j, <2>1 DEF StartRebalance, Job, Jobs, Phases
  <2> QED BY <1>11, <2>2 DEF StartRebalance, TypeOK, links
<1>12. ASSUME NEW p \in Peers, PickOverloaded(p) PROVE TypeOK'
  <2>1. PICK batch \in SUBSET children[p] :
          job' = [job EXCEPT !.over = @ \ {p}, !.from = p, !.todo = batch]
    BY <1>12 DEF PickOverloaded
  <2>2. job' \in Jobs
    BY <2>1 DEF TypeOK, Jobs
  <2> QED BY <1>12, <2>2 DEF PickOverloaded, TypeOK, links
<1>13. ASSUME NEW c \in Peers, MoveChild(c) PROVE TypeOK'
  <2>1. job' \in Jobs
    BY <1>13 DEF MoveChild, Eligible, TypeOK, Jobs
  <2>2. job.cand \subseteq Peers
    BY DEF TypeOK, Jobs
  <2>3. /\ parent' \in [Peers -> Peers \cup {NoPeer}]
        /\ children' \in [Peers -> SUBSET Peers]
        /\ depth' \in [Peers -> Nat]
    BY <1>13, <2>2 DEF MoveChild, Eligible, TypeOK
  <2> QED BY <1>13, <2>1, <2>3 DEF MoveChild, Eligible, TypeOK
<1>14. CASE StartAdoption
  <2>1. job' \in Jobs
    BY <1>14 DEF StartAdoption, Orphans, Job, Jobs, Phases, TypeOK
  <2> QED BY <1>14, <2>1 DEF StartAdoption, TypeOK, links
<1>15. CASE UNCHANGED vars
  BY <1>15 DEF vars, TypeOK
<1> QED BY <1>1, <1>2, <1>3, <1>4, <1>5, <1>6, <1>7, <1>8, <1>9, <1>10, <1>11,
           <1>12, <1>13, <1>14, <1>15 DEF Next, Loop

-----------------------------------------------------------------------------
(* Links *)

\* What a search for a parent of p does to the links: p is put below k, or below
\* nobody when k is none, and has the children `own`. A p outside the tree is listed only.
Placed(p, src, own, k) ==
    /\ k \in (nodes \ {p}) \cup {NoPeer}
    /\ k # NoPeer => src # NoPeer /\ p # src
    /\ parent'[p] = IF p \in nodes' THEN k ELSE NoPeer
    /\ \A x \in Peers \ {p} : parent'[x] = parent[x]
    /\ children'[p] = own
    /\ \A q \in Peers \ {p} :
          children'[q] = IF q = k THEN children[q] \cup {p} ELSE children[q]

LEMMA FindParentLinks ==
    ASSUME TypeOK, NEW p \in Peers, NEW src, NEW own, NEW was, FindParent(p, src, own, was)
    PROVE  \E k : Placed(p, src, own, k)
<1> USE PeersAssumption
<1>1. CASE Orphaned(p, own, was)
  <2>1. Placed(p, src, own, NoPeer)
    BY <1>1 DEF Orphaned, Placed, TypeOK
  <2> QED BY <2>1
<1>2. CASE src # NoPeer /\ p # src /\ \E q \in BestParents(p) : Attach(p, q, own)
  <2>1. PICK q \in BestParents(p) : Attach(p, q, own)
    BY <1>2
  <2>2. q \in nodes \ {p} /\ q \in Peers
    BY <2>1 DEF BestParents, TypeOK
  <2>3. /\ parent'[p] = IF p \in nodes' THEN q ELSE NoPeer
        /\ \A x \in Peers \ {p} : parent'[x] = parent[x]
    BY <2>1 DEF Attach, TypeOK
  <2>4. /\ children'[p] = own
        /\ \A x \in Peers \ {p} : children'[x] = IF x = q THEN children[x] \cup {p} ELSE children[x]
    BY <2>1, <2>2 DEF Attach, TypeOK
  <2>5. Placed(p, src, own, q)
    BY <1>2, <2>2, <2>3, <2>4 DEF Placed
  <2> QED BY <2>5
<1> QED BY <1>1, <1>2 DEF FindParent

\* In a consistent tree a peer that was never replaced is listed by its parent or by nobody.
LEMMA NotListed ==
    ASSUME IInv, NEW p \in Peers \ replaced,
           p \notin nodes \/ p \in Limbo \/ parent[p] = NoPeer
    PROVE  \A q \in Peers : p \notin children[q]
<1> SUFFICES ASSUME NEW q \in Peers, p \in children[q] PROVE FALSE
  OBVIOUS
<1>1. q \in nodes
  BY DEF IInv, Aux, NoAbsentLinks
<1> QED BY <1>1, PeersAssumption DEF IInv, LinksConsistent, TypeOK

\* Taking a node out removes both ends of its own link and leaves its children in
\* limbo, on the list of the loop that follows.
LEMMA TakeOutLinks ==
    ASSUME IInv, job = Idle, NEW p \in nodes, p # source, NEW then \in BOOLEAN,
           TakeOut(p, then), source' = source, TypeOK',
           replaced' = replaced \/ (replaced' = {} /\ nodes = {p})
    PROVE  IInv'
<1> USE PeersAssumption
<1>1. p \in Peers /\ TypeOK /\ Limbo = {}
  BY DEF IInv, TypeOK, Limbo, Idle, Job
<1>2. Limbo' = children[p] /\ job'.phase = "reparent" /\ job'.todo = children[p]
  BY DEF TakeOut, Limbo, Job
<1>3. p \notin children[p]
  BY <1>1 DEF IInv, Aux, NoSelfLink
<1>4. \A q \in Peers \ {p} : children'[q] = IF q = parent[p] THEN children[q] \ {p} ELSE children[q]
  BY DEF TakeOut
<1>5. children'[p] = {}
  BY <1>1 DEF TakeOut
<1>6. /\ parent'[p] = NoPeer
      /\ \A x \in Peers \ {p} : parent'[x] = parent[x]
      /\ nodes' = nodes \ {p}
  BY <1>1 DEF TakeOut, TypeOK
<1>7. LinksConsistent'
  <2>0. CASE nodes' = {}
    BY <2>0 DEF LinksConsistent
  <2>1. ASSUME NEW x \in nodes' \ Limbo', parent'[x] \notin replaced' \cup {NoPeer}, replaced' = replaced
        PROVE  parent'[x] \in nodes' /\ x \in children'[parent'[x]]
    <3>1. x \in nodes /\ x # p /\ x \in Peers /\ parent'[x] = parent[x] /\ x \notin children[p]
      BY <1>1, <1>2, <1>6 DEF TypeOK
    <3>2. parent[x] \in nodes /\ x \in children[parent[x]]
      BY <1>1, <2>1, <3>1 DEF IInv, LinksConsistent
    <3>3. parent[x] # p /\ parent[x] \in Peers
      BY <1>1, <3>1, <3>2 DEF TypeOK
    <3> QED BY <1>4, <1>6, <3>1, <3>2, <3>3
  <2>2. ASSUME NEW q \in nodes', NEW c \in children'[q] \ replaced', replaced' = replaced
        PROVE  c \in nodes' \ Limbo' /\ parent'[c] = q
    <3>1. q \in nodes /\ q # p /\ q \in Peers /\ c \in children[q] \ replaced
      BY <1>1, <1>4, <1>6, <2>2 DEF TypeOK
    <3>2. c \in nodes /\ parent[c] = q /\ c \in Peers
      BY <1>1, <3>1 DEF IInv, LinksConsistent, TypeOK
    <3>3. c # p
      BY <1>4, <2>2, <3>1, <3>2
    <3>4. c \notin children[p]
      BY <1>1, <2>2, <3>1, <3>2 DEF IInv, LinksConsistent
    <3> QED BY <1>2, <1>6, <3>2, <3>3, <3>4
  <2> QED BY <1>6, <2>0, <2>1, <2>2 DEF LinksConsistent
<1>8. SourceIsRoot'
  BY <1>1, <1>4, <1>5, <1>6 DEF IInv, SourceIsRoot, TypeOK
<1>9. (NoAbsentLinks /\ NoSelfLink /\ NoLinksBeforeSource)'
  BY <1>1, <1>4, <1>5, <1>6 DEF IInv, Aux, NoAbsentLinks, NoSelfLink,
     NoLinksBeforeSource, TypeOK
<1>10. (ReparentList /\ AdoptList /\ MoveList)'
  <2>1. source \notin children[p] /\ (children[p] # {} => source # NoPeer)
    BY <1>1 DEF IInv, SourceIsRoot, Aux, NoLinksBeforeSource, TypeOK
  <2>2. CASE replaced' = replaced
    <3>1. children[p] \ replaced \subseteq nodes \ {p}
      BY <1>1, <1>3 DEF IInv, LinksConsistent
    <3> QED BY <1>2, <1>6, <2>1, <2>2, <3>1 DEF ReparentList, AdoptList, MoveList
  <2>3. CASE nodes = {p}
    <3>1. children[p] = {}
      BY <1>1, <2>3 DEF IInv, SourceIsRoot, Aux, NoLinksBeforeSource, TypeOK
    <3> QED BY <1>2, <2>1, <3>1 DEF ReparentList, AdoptList, MoveList
  <2> QED BY <2>2, <2>3
<1> QED BY <1>7, <1>8, <1>9, <1>10 DEF IInv, Aux

\* A peer that comes into the tree has only the link the search gives it.
LEMMA NewcomerLinks ==
    ASSUME IInv, TypeOK', NEW p \in Peers, p \notin nodes, NEW k, Placed(p, source', {}, k),
           nodes' = nodes \cup {p}, replaced' = replaced,
           source' = source \/ (source = NoPeer /\ source' = p),
           Limbo = {}, Limbo' = {}, job'.phase \in {"idle", "rebalance"}
    PROVE  IInv'
<1> USE PeersAssumption
<1>t. TypeOK /\ p # source
  BY DEF IInv, SourceIsRoot, TypeOK
<1>1. LinksConsistent'
  <2>1. ASSUME NEW x \in nodes', parent'[x] \notin replaced' \cup {NoPeer}
        PROVE  parent'[x] \in nodes' /\ x \in children'[parent'[x]]
    <3>1. CASE x = p
      BY <1>t, <2>1, <3>1 DEF Placed, TypeOK
    <3>2. CASE x # p
      BY <1>t, <2>1, <3>2 DEF Placed, IInv, LinksConsistent, TypeOK
    <3> QED BY <3>1, <3>2
  <2>2. ASSUME NEW q \in nodes', NEW c \in children'[q] \ replaced'
        PROVE  c \in nodes' /\ parent'[c] = q
    <3>1. p \notin replaced => \A x \in Peers : p \notin children[x]
      BY NotListed
    <3> QED BY <1>t, <2>2, <3>1 DEF Placed, IInv, LinksConsistent, TypeOK
  <2> QED BY <2>1, <2>2 DEF LinksConsistent
<1>2. SourceIsRoot'
  <2>1. CASE source' = source
    BY <1>t, <2>1 DEF Placed, IInv, SourceIsRoot, TypeOK
  <2>2. CASE source = NoPeer /\ source' = p
    BY <1>t, <2>2 DEF Placed, IInv, SourceIsRoot, TypeOK, Aux, NoLinksBeforeSource
  <2> QED BY <2>1, <2>2
<1>3. Aux'
  BY <1>t DEF Placed, IInv, Aux, NoAbsentLinks, TypeOK,
     NoLinksBeforeSource, NoSelfLink, ReparentList, AdoptList, MoveList
<1> QED BY <1>1, <1>2, <1>3 DEF IInv

\* Every step of the tree keeps the links consistent and the source at the root.
LEMMA LinkStep == IInv /\ [Next]_vars => IInv'
<1> SUFFICES ASSUME IInv, [Next]_vars PROVE IInv'
  OBVIOUS
<1> USE PeersAssumption
<1>t. TypeOK /\ TypeOK'
  BY TypeStep DEF IInv
<1>i. Idle.phase = "idle" /\ Rebalancing.phase = "rebalance"
  BY DEF Idle, Rebalancing, Job
<1>1. ASSUME NEW p \in Peers, set_source(p) PROVE IInv'
  <2>0. /\ \A q \in Peers : parent'[q] = NoPeer /\ children'[q] = {}
        /\ source' = p /\ p \in nodes' /\ job' = Idle /\ nodes' \subseteq Peers
    BY <1>1, <1>t DEF set_source, Orphaned, IInv, Aux, NoLinksBeforeSource, TypeOK
  <2>2. LinksConsistent'
    BY <2>0 DEF LinksConsistent
  <2>3. SourceIsRoot'
    BY <2>0 DEF SourceIsRoot
  <2>4. Aux'
    BY <2>0, <1>t, <1>i DEF Aux, NoAbsentLinks, NoLinksBeforeSource,
       NoSelfLink, ReparentList, AdoptList, MoveList, TypeOK
  <2> QED BY <1>t, <2>2, <2>3, <2>4 DEF IInv
<1>2. ASSUME NEW p \in Peers, NEW r \in Roles, add_peer_to_stream(p, r) PROVE IInv'
  <2>1. Limbo = {} /\ Limbo' = {}
    BY <1>2, <1>i DEF add_peer_to_stream, Limbo
  <2>2. job'.phase \in {"idle", "rebalance"}
    BY <1>2, <1>i DEF add_peer_to_stream
  <2>3. CASE p \in nodes
    <3>1. nodes' = nodes /\ UNCHANGED <<parent, children>>
      BY <1>2, <2>3 DEF add_peer_to_stream
    <3>2. LinksConsistent'
      BY <1>2, <2>1, <3>1 DEF IInv, LinksConsistent, add_peer_to_stream
    <3>3. SourceIsRoot'
      <4>1. CASE source' = source
        BY <3>1, <4>1 DEF IInv, SourceIsRoot
      <4>2. CASE source' # source
        <5>1. source = NoPeer /\ source' = p
          BY <1>2, <4>2 DEF add_peer_to_stream
        <5>2. \A q \in Peers : parent[q] = NoPeer /\ children[q] = {}
          BY <5>1 DEF IInv, Aux, NoLinksBeforeSource
        <5> QED BY <5>1, <5>2, <3>1, <2>3 DEF SourceIsRoot
      <4> QED BY <4>1, <4>2
    <3>4. Aux'
      BY <1>2, <2>2, <2>3, <3>1 DEF add_peer_to_stream, IInv, Aux, NoAbsentLinks,
         NoLinksBeforeSource, NoSelfLink, ReparentList, AdoptList, MoveList
    <3> QED BY <1>t, <3>2, <3>3, <3>4 DEF IInv
  <2>4. CASE p \notin nodes
    <3>1. /\ FindParent(p, source', {}, 0)
          /\ nodes' = nodes \cup {p}
          /\ replaced' = replaced
          /\ source' = source \/ (source = NoPeer /\ source' = p)
      BY <1>2, <2>4 DEF add_peer_to_stream
    <3>2. PICK k : Placed(p, source', {}, k)
      BY <1>t, <3>1, FindParentLinks
    <3> QED BY <1>t, <2>1, <2>2, <2>4, <3>1, <3>2, NewcomerLinks
  <2> QED BY <2>3, <2>4
<1>3. ASSUME NEW p \in Peers, remove_peer_from_stream(p) PROVE IInv'
  <2>1. CASE Removable(p)
    <3>1. /\ TakeOut(p, nodes # {p})
          /\ replaced' = replaced \/ (replaced' = {} /\ nodes = {p})
      BY <1>3, <2>1 DEF remove_peer_from_stream
    <3> QED BY <1>3, <1>t, <2>1, <3>1, TakeOutLinks
            DEF remove_peer_from_stream, Removable
  <2>2. CASE ~Removable(p)
    BY <1>3, <1>t, <1>i, <2>2 DEF remove_peer_from_stream, links, IInv, LinksConsistent,
       SourceIsRoot, Limbo, Aux, NoAbsentLinks, NoSelfLink, NoLinksBeforeSource,
       ReparentList, AdoptList, MoveList
  <2> QED BY <2>1, <2>2
<1>4. ASSUME NEW p \in Peers, remove_peer(p) PROVE IInv'
  BY <1>4, <1>t, TakeOutLinks DEF remove_peer, Removable
<1>5. ASSUME NEW p \in Peers, handle_temporary_disconnect(p) PROVE IInv'
  BY <1>5, <1>t, TakeOutLinks DEF handle_temporary_disconnect, Removable
<1>6. ASSUME NEW p \in Peers, handle_reconnection(p) PROVE IInv'
  <2>1. /\ FindParent(p, source, {}, cached[p].depth)
        /\ nodes' = nodes \cup {p}
        /\ UNCHANGED <<source, job>>
        /\ replaced' = IF p \in nodes THEN replaced \cup {p} ELSE replaced
        /\ Limbo = {} /\ Limbo' = {} /\ job.phase = "idle"
    BY <1>6, <1>i DEF handle_reconnection, Limbo
  <2>2. PICK k : Placed(p, source, {}, k)
    BY <1>t, <2>1, FindParentLinks
  <2>3. CASE p \notin nodes
    BY <1>t, <2>1, <2>2, <2>3, NewcomerLinks
  <2>4. CASE p \in nodes
    <3>1. nodes' = nodes /\ replaced' = replaced \cup {p}
      BY <2>1, <2>4
    <3>2. LinksConsistent'
      <4>1. ASSUME NEW x \in nodes', parent'[x] \notin replaced' \cup {NoPeer}
            PROVE  parent'[x] \in nodes' /\ x \in children'[parent'[x]]
        BY <1>t, <2>1, <2>2, <3>1, <4>1 DEF Placed, IInv, LinksConsistent, TypeOK
      <4>2. ASSUME NEW q \in nodes', NEW c \in children'[q] \ replaced'
            PROVE  c \in nodes' /\ parent'[c] = q
        BY <1>t, <2>1, <2>2, <3>1, <4>2 DEF Placed, IInv, LinksConsistent, TypeOK
      <4> QED BY <2>1, <4>1, <4>2 DEF LinksConsistent
    <3>3. SourceIsRoot'
      BY <1>t, <2>1, <2>2, <3>1 DEF Placed, IInv, SourceIsRoot, TypeOK
    <3>4. Aux'
      BY <1>t, <2>1, <2>2, <2>4, <3>1 DEF Placed, IInv, Aux, NoAbsentLinks, NoSelfLink,
         TypeOK, NoLinksBeforeSource, ReparentList, AdoptList, MoveList
    <3> QED BY <1>t, <3>2, <3>3, <3>4 DEF IInv
  <2> QED BY <2>3, <2>4
<1>7. ASSUME UNCHANGED <<nodes, source, parent, children, replaced>>,
             job' = job \/ (job'.phase \in {"idle", "rebalance"} /\ Limbo = {})
      PROVE  IInv'
  <2>1. Limbo' = Limbo
    BY <1>7 DEF Limbo
  <2>2. LinksConsistent' /\ SourceIsRoot'
    BY <1>7, <2>1 DEF IInv, LinksConsistent, SourceIsRoot
  <2>3. Aux'
    BY <1>7 DEF IInv, Aux, NoAbsentLinks, NoSelfLink, NoLinksBeforeSource,
       ReparentList, AdoptList, MoveList
  <2> QED BY <1>t, <2>2, <2>3 DEF IInv
<1>8. ASSUME NEW p \in Peers, update_metrics(p) \/ record_failure(p) \/ record_success(p)
      PROVE  IInv'
  <2>1. UNCHANGED <<nodes, source, parent, children, replaced, job>>
    BY <1>8 DEF update_metrics, record_failure, record_success, links
  <2> QED BY <1>7, <2>1
<1>9. CASE rebalance \/ UNCHANGED vars
  <2>1. CASE rebalance
    <3>1. UNCHANGED <<nodes, source, parent, children, replaced>>
      BY <2>1 DEF rebalance, links
    <3>2. job'.phase \in {"idle", "rebalance"} /\ Limbo = {}
      BY <2>1, <1>i DEF rebalance, Limbo
    <3> QED BY <1>7, <3>1, <3>2
  <2>2. CASE UNCHANGED vars
    <3>1. UNCHANGED <<nodes, source, parent, children, replaced, job>>
      BY <2>2 DEF vars
    <3> QED BY <1>7, <3>1
  <2> QED BY <1>9, <2>1, <2>2
<1>10. CASE EndReparent
  BY <1>7, <1>10, <1>i DEF EndReparent, links, Limbo
<1>11. ASSUME NEW c \in Peers, Reparent(c) PROVE IInv'
  <2>1. /\ FindParent(c, source, children[c], depth[c])
        /\ c \in job.todo
        /\ job'.todo = job.todo \ {c} /\ job'.phase = job.phase
        /\ UNCHANGED <<nodes, source, replaced>>
        /\ job.phase \in {"reparent", "adopt"}
    BY <1>11, <1>t DEF Reparent, TypeOK, Jobs
  <2>2. Limbo' = Limbo \ {c}
    BY <2>1 DEF Limbo
  <2>3. /\ c # source /\ source # NoPeer /\ (c \in nodes \/ c \in replaced)
        /\ c \in Limbo \/ parent[c] = NoPeer
    BY <2>1 DEF IInv, Aux, ReparentList, AdoptList, Limbo
  <2>4. c \notin replaced => \A q \in Peers : c \notin children[q]
    BY <2>3, NotListed
  <2>5. PICK k : Placed(c, source, children[c], k)
    BY <1>t, <2>1, FindParentLinks
  <2>6. LinksConsistent'
    <3>1. ASSUME NEW x \in nodes' \ Limbo', parent'[x] \notin replaced' \cup {NoPeer}
          PROVE  parent'[x] \in nodes' /\ x \in children'[parent'[x]]
      <4>1. CASE x = c
        BY <1>t, <2>1, <2>5, <3>1, <4>1 DEF Placed, TypeOK
      <4>2. CASE x # c
        BY <1>t, <2>1, <2>2, <2>5, <3>1, <4>2 DEF Placed, IInv, LinksConsistent, TypeOK
      <4> QED BY <4>1, <4>2
    <3>2. ASSUME NEW q \in nodes', NEW x \in children'[q] \ replaced'
          PROVE  x \in nodes' \ Limbo' /\ parent'[x] = q
      <4>1. CASE x = c
        BY <1>t, <2>1, <2>2, <2>3, <2>4, <2>5, <3>2, <4>1 DEF Placed, TypeOK
      <4>2. CASE x # c
        BY <1>t, <2>1, <2>2, <2>5, <3>2, <4>2 DEF Placed, IInv, LinksConsistent, TypeOK
      <4> QED BY <4>1, <4>2
    <3> QED BY <3>1, <3>2 DEF LinksConsistent
  <2>7. SourceIsRoot'
    BY <1>t, <2>1, <2>3, <2>5 DEF Placed, IInv, SourceIsRoot, TypeOK
  <2>8. Aux'
    BY <1>t, <2>1, <2>3, <2>5 DEF Placed, IInv, Aux, NoAbsentLinks, NoSelfLink, TypeOK,
       NoLinksBeforeSource, ReparentList, AdoptList, MoveList
  <2> QED BY <1>t, <2>6, <2>7, <2>8 DEF IInv
<1>12. CASE StartRebalance
  <2>1. CASE job' = Idle
    BY <1>7, <1>12, <1>i, <2>1 DEF StartRebalance, links, Limbo
  <2>2. CASE job' # Idle
    <3>1. /\ job'.phase = "move" /\ job'.todo = {}
          /\ job'.cand = Candidates /\ job'.over = Overloaded
          /\ UNCHANGED <<nodes, source, parent, children, replaced>>
          /\ Limbo = {} /\ Limbo' = {}
      BY <1>12, <2>2 DEF StartRebalance, Job, links, Limbo
    <3>2. Candidates \subseteq nodes /\ Overloaded \subseteq nodes
      BY DEF Candidates, Overloaded
    <3> QED BY <1>t, <3>1, <3>2 DEF IInv, LinksConsistent, SourceIsRoot, Aux,
         NoAbsentLinks, NoSelfLink, NoLinksBeforeSource,
         ReparentList, AdoptList, MoveList
  <2> QED BY <2>1, <2>2
<1>13. ASSUME NEW p \in Peers, PickOverloaded(p) PROVE IInv'
  <2>1. PICK batch \in SUBSET children[p] :
          job' = [job EXCEPT !.over = @ \ {p}, !.from = p, !.todo = batch]
    BY <1>13 DEF PickOverloaded
  <2>2. /\ job'.phase = "move" /\ job'.todo = batch /\ job'.from = p
        /\ job'.cand = job.cand /\ job'.over = job.over \ {p}
        /\ job.phase = "move" /\ p \in job.over
        /\ UNCHANGED <<nodes, source, parent, children, replaced>>
        /\ Limbo = {} /\ Limbo' = {}
    BY <1>13, <1>t, <2>1 DEF PickOverloaded, links, Limbo, TypeOK, Jobs
  <2>3. p \in nodes
    BY <2>2 DEF IInv, Aux, MoveList
  <2> QED BY <1>t, <2>1, <2>2, <2>3 DEF IInv, LinksConsistent, SourceIsRoot, Aux,
       NoAbsentLinks, NoSelfLink, NoLinksBeforeSource,
       ReparentList, AdoptList, MoveList
<1>14. ASSUME NEW c \in Peers, MoveChild(c) PROVE IInv'
  <2>1. /\ job.phase = "move" /\ c \in job.todo /\ job'.phase = "move"
        /\ job'.todo = job.todo \ {c} /\ job'.from = job.from
        /\ job'.cand = job.cand /\ job'.over = job.over
        /\ UNCHANGED <<nodes, source, replaced>>
        /\ Limbo = {} /\ Limbo' = {}
    BY <1>14, <1>t DEF MoveChild, Eligible, Limbo, TypeOK, Jobs
  <2>2. /\ job.from \in nodes /\ job.todo \subseteq children[job.from]
        /\ job.cand \subseteq nodes /\ job.over \subseteq nodes
    BY <2>1 DEF IInv, Aux, MoveList
  <2>3. c # source /\ source # NoPeer
    BY <2>1, <2>2, <1>t DEF IInv, Aux, NoLinksBeforeSource, SourceIsRoot, TypeOK
  <2>4. CASE UNCHANGED <<parent, children>>
    BY <1>t, <2>1, <2>2, <2>4 DEF IInv, LinksConsistent, SourceIsRoot, Aux,
       NoAbsentLinks, NoSelfLink, NoLinksBeforeSource, ReparentList, AdoptList, MoveList
  <2>5. CASE c \in nodes /\ \E k \in job.cand \ {c} :
            /\ children' = [q \in Peers |->
                  IF q = k THEN children[q] \cup {c}
                  ELSE IF q = job.from THEN children[q] \ {c} ELSE children[q]]
            /\ parent' = [parent EXCEPT ![c] = k]
    <3>1. PICK k \in job.cand \ {c} :
            /\ children' = [q \in Peers |->
                  IF q = k THEN children[q] \cup {c}
                  ELSE IF q = job.from THEN children[q] \ {c} ELSE children[q]]
            /\ parent' = [parent EXCEPT ![c] = k]
      BY <2>5
    <3>2. /\ k \in nodes /\ k # c
          /\ parent'[c] = k
          /\ \A x \in Peers \ {c} : parent'[x] = parent[x]
          /\ \A q \in Peers : children'[q] =
                IF q = k THEN children[q] \cup {c}
                ELSE IF q = job.from THEN children[q] \ {c} ELSE children[q]
      BY <1>t, <2>2, <3>1 DEF TypeOK
    <3>3. LinksConsistent'
      <4>1. ASSUME NEW x \in nodes, parent'[x] \notin replaced \cup {NoPeer}
            PROVE  parent'[x] \in nodes /\ x \in children'[parent'[x]]
        <5>1. CASE x = c
          BY <1>t, <3>2, <5>1 DEF TypeOK
        <5>2. CASE x # c
          <6>1. parent'[x] = parent[x] /\ x \in Peers
            BY <1>t, <3>2, <5>2 DEF TypeOK
          <6>2. parent[x] \in nodes /\ x \in children[parent[x]]
            BY <2>1, <4>1, <6>1 DEF IInv, LinksConsistent
          <6>3. x \in children'[parent[x]]
            BY <1>t, <3>2, <5>2, <6>2 DEF TypeOK
          <6> QED BY <6>1, <6>2, <6>3
        <5> QED BY <5>1, <5>2
      <4>2. ASSUME NEW q \in nodes, NEW x \in children'[q] \ replaced
            PROVE  x \in nodes /\ parent'[x] = q
        <5>0. q \in Peers
          BY <1>t DEF TypeOK
        <5>1. CASE x = c
          <6>1. c \in children[job.from] /\ parent[c] = job.from
            BY <2>1, <2>2, <4>2, <5>1 DEF IInv, LinksConsistent
          <6>2. c \in children[q] => q = job.from
            BY <4>2, <5>1, <6>1 DEF IInv, LinksConsistent
          <6>3. q = k
            BY <3>2, <4>2, <5>0, <5>1, <6>2
          <6> QED BY <2>5, <3>2, <5>1, <6>3
        <5>2. CASE x # c
          <6>1. x \in children[q] \ replaced
            BY <3>2, <4>2, <5>0, <5>2
          <6>2. x \in nodes /\ parent[x] = q /\ x \in Peers
            BY <1>t, <6>1 DEF IInv, LinksConsistent, TypeOK
          <6> QED BY <3>2, <5>2, <6>2
        <5> QED BY <5>1, <5>2
      <4> QED BY <2>1, <4>1, <4>2 DEF LinksConsistent
    <3>4. SourceIsRoot'
      BY <1>t, <2>1, <2>3, <3>2 DEF IInv, SourceIsRoot, TypeOK
    <3>5. (NoAbsentLinks /\ NoSelfLink /\ NoLinksBeforeSource)'
      BY <1>t, <2>1, <2>2, <2>3, <2>5, <3>2 DEF IInv, Aux, NoAbsentLinks, NoSelfLink,
         NoLinksBeforeSource, TypeOK
    <3>6. (ReparentList /\ AdoptList /\ MoveList)'
      BY <1>t, <2>1, <2>2, <3>2 DEF ReparentList, AdoptList, MoveList, TypeOK
    <3> QED BY <1>t, <3>3, <3>4, <3>5, <3>6 DEF IInv, Aux
  <2> QED BY <1>14, <2>4, <2>5 DEF MoveChild, Eligible
<1>15. CASE StartAdoption
  <2>1. /\ job'.phase = "adopt" /\ job'.todo = Orphans
        /\ UNCHANGED <<nodes, source, parent, children, replaced>>
        /\ Limbo = {} /\ Limbo' = {}
    BY <1>15 DEF StartAdoption, Job, links, Limbo
  <2> QED BY <1>t, <2>1 DEF Orphans, IInv, LinksConsistent, SourceIsRoot, Aux,
       NoAbsentLinks, NoSelfLink, NoLinksBeforeSource,
       ReparentList, AdoptList, MoveList
<1> QED BY <1>1, <1>2, <1>3, <1>4, <1>5, <1>6, <1>8, <1>9, <1>10, <1>11, <1>12,
           <1>13, <1>14, <1>15 DEF Next, Loop

\* The tree with only its source satisfies the link invariant.
LEMMA LinkInit == Init => IInv
<1> SUFFICES ASSUME Init PROVE IInv
  OBVIOUS
<1>1. Idle.phase = "idle" /\ Idle \in Jobs
  BY DEF Idle, Job, Jobs, Phases
<1>2. TypeOK
  BY <1>1, NewAttrType DEF Init, TypeOK, Roles
<1>3. LinksConsistent /\ SourceIsRoot
  BY DEF Init, LinksConsistent, SourceIsRoot
<1>4. Aux
  BY <1>1, PeersAssumption DEF Init, Aux, NoAbsentLinks, NoSelfLink,
     NoLinksBeforeSource, ReparentList, AdoptList, MoveList
<1> QED BY <1>2, <1>3, <1>4 DEF IInv

\* The state of the tree stays well typed under every operation and loop step.
THEOREM TypeCorrect == Spec => []TypeOK
<1>1. Init => TypeOK
  BY LinkInit DEF IInv
<1> QED BY <1>1, TypeStep, PTL DEF Spec

\* For every set of peers: both ends of every parent/child link agree in every
\* reachable state of tree.rs, whatever removals, reconnections and rebalancing do,
\* but for links to a peer whose node a reconnection replaced.
THEOREM LinksAlwaysConsistent == Spec => []LinksConsistent
<1>1. IInv => LinksConsistent
  BY DEF IInv
<1> QED BY <1>1, LinkInit, LinkStep, PTL DEF Spec

\* For every set of peers: the source stays in the tree and is nobody's child.
THEOREM SourceAlwaysRoot == Spec => []SourceIsRoot
<1>1. IInv => SourceIsRoot
  BY DEF IInv
<1> QED BY <1>1, LinkInit, LinkStep, PTL DEF Spec

-----------------------------------------------------------------------------
(* Fan-out *)

FanInv == \A p \in Peers :
    /\ IsFiniteSet(children[p])
    /\ Fan(p) <= AbsoluteMaxChildren
    /\ attr[p].role = "Consumer" => children[p] = {}

\* What every step does to one node: it loses children, or gains one that
\* can_accept_children allowed, or is replaced by a node without children.
GrowsByPermission(q) ==
    \/ children'[q] \subseteq children[q] /\ attr'[q].role = attr[q].role
    \/ children'[q] = {}
    \/ /\ can_accept_children(q)
       /\ attr'[q].role = attr[q].role
       /\ \E c \in Peers : children'[q] = children[q] \cup {c}

\* A node's fan-out bound survives a step that gives it no child it may not take.
LEMMA FanStepOfNode ==
    ASSUME TypeOK, FanInv, \A q \in Peers : GrowsByPermission(q)
    PROVE  FanInv'
<1> SUFFICES ASSUME NEW q \in Peers
             PROVE  /\ IsFiniteSet(children'[q])
                    /\ Cardinality(children'[q]) <= AbsoluteMaxChildren
                    /\ attr'[q].role = "Consumer" => children'[q] = {}
  BY DEF FanInv, Fan
<1>0. /\ IsFiniteSet(children[q])
      /\ Cardinality(children[q]) \in Nat
      /\ Cardinality(children[q]) <= AbsoluteMaxChildren
      /\ attr[q].role = "Consumer" => children[q] = {}
      /\ AbsoluteMaxChildren \in Nat
      /\ attr[q].max_children \in 1..AbsoluteMaxChildren
  BY FS_CardinalityType, FanOutAssumption DEF FanInv, Fan, TypeOK, Attrs
<1>1. CASE children'[q] \subseteq children[q] /\ attr'[q].role = attr[q].role
  <2>1. /\ IsFiniteSet(children'[q])
        /\ Cardinality(children'[q]) <= Cardinality(children[q])
    BY <1>0, <1>1, FS_Subset
  <2>2. Cardinality(children'[q]) \in Nat
    BY <2>1, FS_CardinalityType
  <2> QED BY <1>0, <1>1, <2>1, <2>2
<1>2. CASE children'[q] = {}
  BY <1>0, <1>2, FS_EmptySet
<1>3. CASE /\ can_accept_children(q)
           /\ attr'[q].role = attr[q].role
           /\ \E c \in Peers : children'[q] = children[q] \cup {c}
  <2>1. PICK c \in Peers : children'[q] = children[q] \cup {c}
    BY <1>3
  <2>a. /\ IsFiniteSet(children[q] \cup {c})
        /\ Cardinality(children[q] \cup {c}) =
             IF c \in children[q] THEN Cardinality(children[q])
                                 ELSE Cardinality(children[q]) + 1
    BY <1>0, FS_AddElement, Zenon
  <2>2. /\ IsFiniteSet(children'[q])
        /\ \/ Cardinality(children'[q]) = Cardinality(children[q])
           \/ Cardinality(children'[q]) = Cardinality(children[q]) + 1
    BY <2>1, <2>a
  <2>3. /\ Cardinality(children[q]) < attr[q].max_children
        /\ attr[q].role # "Consumer"
    BY <1>3 DEF can_accept_children
  <2> QED BY <1>0, <1>3, <2>2, <2>3
<1> QED BY <1>1, <1>2, <1>3 DEF GrowsByPermission

\* find_parent_for_peer adds a child only to a node that accepts one.
LEMMA FindParentGrows ==
    ASSUME TypeOK, NEW p \in Peers, NEW src, NEW own, NEW was, FindParent(p, src, own, was),
           own = {} \/ own = children[p],
           NEW q \in Peers, q = p \/ attr'[q].role = attr[q].role,
           own # {} => attr'[p].role = attr[p].role
    PROVE  GrowsByPermission(q)
<1>1. CASE Orphaned(p, own, was)
  BY <1>1 DEF Orphaned, GrowsByPermission, TypeOK
<1>2. CASE \E k \in BestParents(p) : Attach(p, k, own)
  <2>1. PICK k \in BestParents(p) : Attach(p, k, own)
    BY <1>2
  <2>2. k \in Peers /\ k # p /\ can_accept_children(k)
    BY <2>1 DEF BestParents, TypeOK
  <2>3. children'[q] = IF q = p THEN own ELSE IF q = k THEN children[q] \cup {p} ELSE children[q]
    BY <2>1, <2>2 DEF Attach, TypeOK
  <2> QED BY <2>2, <2>3 DEF GrowsByPermission
<1> QED BY <1>1, <1>2 DEF FindParent

\* Reporting metrics changes no node's role.
LEMMA SetMetricsRole ==
    ASSUME TypeOK, NEW p \in Peers, NEW a, NEW cap, NEW slow, NEW q, SetMetrics(p, a, cap, slow, q)
    PROVE  /\ \A x \in Peers \ {p} : attr'[x].role = attr[x].role
           /\ attr'[p].role = a.role
BY DEF SetMetrics, TypeOK

\* Every step keeps the children of every node within the fan-out bound.
LEMMA FanStep == IInv /\ FanInv /\ [Next]_vars => FanInv'
<1> SUFFICES ASSUME IInv, FanInv, [Next]_vars PROVE FanInv'
  OBVIOUS
<1>t. TypeOK
  BY DEF IInv
<1> SUFFICES ASSUME NEW q \in Peers PROVE GrowsByPermission(q)
  BY <1>t, FanStepOfNode
<1>1. ASSUME NEW p \in Peers, set_source(p) PROVE GrowsByPermission(q)
  BY <1>1, <1>t DEF set_source, Orphaned, GrowsByPermission, TypeOK
<1>2. ASSUME NEW p \in Peers, NEW r \in Roles, add_peer_to_stream(p, r)
      PROVE  GrowsByPermission(q)
  <2>1. CASE p \in nodes
    BY <1>2, <2>1 DEF add_peer_to_stream, GrowsByPermission
  <2>2. CASE p \notin nodes
    <3>1. FindParent(p, source', {}, 0) /\ attr' = [attr EXCEPT ![p] = NewAttr(r)]
      BY <1>2, <2>2 DEF add_peer_to_stream
    <3>2. q = p \/ attr'[q].role = attr[q].role
      BY <1>t, <3>1 DEF TypeOK
    <3> QED BY <1>t, <3>1, <3>2, FindParentGrows
  <2> QED BY <2>1, <2>2
<1>3. ASSUME NEW p \in Peers, NEW then \in BOOLEAN, TakeOut(p, then),
             \A x \in Peers \ {p} : attr'[x] = attr[x]
      PROVE  GrowsByPermission(q)
  BY <1>3, <1>t DEF TakeOut, GrowsByPermission, TypeOK
<1>4. ASSUME NEW p \in Peers, remove_peer_from_stream(p) PROVE GrowsByPermission(q)
  <2>1. CASE Removable(p)
    <3>1. TakeOut(p, nodes # {p}) /\ \A x \in Peers \ {p} : attr'[x] = attr[x]
      BY <1>4, <1>t, <2>1 DEF remove_peer_from_stream, Forget, TypeOK
    <3> QED BY <1>3, <3>1
  <2>2. CASE ~Removable(p)
    BY <1>4, <2>2 DEF remove_peer_from_stream, links, GrowsByPermission
  <2> QED BY <2>1, <2>2
<1>5. ASSUME NEW p \in Peers, remove_peer(p) PROVE GrowsByPermission(q)
  <2>1. TakeOut(p, FALSE) /\ \A x \in Peers \ {p} : attr'[x] = attr[x]
    BY <1>5, <1>t DEF remove_peer, Forget, TypeOK
  <2> QED BY <1>3, <2>1
<1>6. ASSUME NEW p \in Peers, handle_temporary_disconnect(p) PROVE GrowsByPermission(q)
  <2>1. TakeOut(p, FALSE) /\ \A x \in Peers \ {p} : attr'[x] = attr[x]
    BY <1>6, <1>t DEF handle_temporary_disconnect, Forget, TypeOK
  <2> QED BY <1>3, <2>1
<1>7. ASSUME NEW p \in Peers, handle_reconnection(p) PROVE GrowsByPermission(q)
  <2>1. PICK a, cap, slow, b : SetMetrics(p, a, cap, slow, b)
    BY <1>7 DEF handle_reconnection
  <2>2. q = p \/ attr'[q].role = attr[q].role
    BY <1>t, <2>1, SetMetricsRole
  <2>3. FindParent(p, source, {}, cached[p].depth)
    BY <1>7 DEF handle_reconnection
  <2> QED BY <1>t, <2>2, <2>3, FindParentGrows
<1>8. ASSUME NEW p \in Peers, update_metrics(p) \/ record_failure(p) \/ record_success(p)
      PROVE  GrowsByPermission(q)
  <2>1. PICK cap, slow, b : SetMetrics(p, attr[p], cap, slow, b)
    BY <1>8 DEF update_metrics, record_failure, record_success
  <2>2. attr'[q].role = attr[q].role
    BY <1>t, <2>1, SetMetricsRole
  <2>3. children' = children
    BY <1>8 DEF update_metrics, record_failure, record_success, links
  <2> QED BY <2>2, <2>3 DEF GrowsByPermission
<1>9. ASSUME UNCHANGED <<children, attr>> PROVE GrowsByPermission(q)
  BY <1>9 DEF GrowsByPermission
<1>10. CASE rebalance \/ EndReparent \/ StartRebalance \/ StartAdoption
            \/ (\E p \in Peers : PickOverloaded(p)) \/ UNCHANGED vars
  <2>1. UNCHANGED <<children, attr>>
    BY <1>10 DEF rebalance, EndReparent, StartRebalance, StartAdoption,
       PickOverloaded, vars, links
  <2> QED BY <1>9, <2>1
<1>11. ASSUME NEW c \in Peers, Reparent(c) PROVE GrowsByPermission(q)
  <2>1. FindParent(c, source, children[c], depth[c]) /\ attr' = attr
    BY <1>11 DEF Reparent
  <2> QED BY <1>t, <2>1, FindParentGrows
<1>12. ASSUME NEW c \in Peers, MoveChild(c) PROVE GrowsByPermission(q)
  BY <1>12, <1>t DEF MoveChild, Eligible, GrowsByPermission, TypeOK
<1> QED BY <1>1, <1>2, <1>4, <1>5, <1>6, <1>7, <1>8, <1>10, <1>11, <1>12
        DEF Next, Loop

\* No node of the tree has more children than the absolute limit, and a consumer has none.
FanOutBounded == \A p \in nodes :
    Fan(p) <= AbsoluteMaxChildren /\ (attr[p].role = "Consumer" => children[p] = {})

\* For every limit: a consumer never gets a child and nobody more than
\* ABSOLUTE_MAX_CHILDREN, although metrics may lower max_children at any time and a
\* reconnection may put an old node in the place of a new one.
THEOREM FanOutAlwaysBounded == Spec => []FanOutBounded
<1>1. Init => FanInv
  BY FS_EmptySet, FanOutAssumption DEF Init, FanInv, Fan
<1>2. IInv /\ FanInv => FanOutBounded
  BY DEF IInv, TypeOK, FanInv, FanOutBounded
<1> QED BY <1>1, <1>2, LinkInit, LinkStep, FanStep, PTL DEF Spec

-----------------------------------------------------------------------------
(* Adoption *)

\* A nonempty set of numbers has a least one.
LEMMA LeastOf ==
    ASSUME NEW S \in SUBSET Nat, S # {}
    PROVE  \E m \in S : \A x \in S : m <= x
<1>1. PICK m \in S : \A x \in S : ~(<<x, m>> \in OpToRel(<, Nat))
  BY NatLessThanWellFounded, WFMin
<1>2. \A x \in S : ~(x < m)
  BY <1>1 DEF OpToRel
<1> QED BY <1>2

\* A function to the numbers is greatest somewhere on a finite set.
LEMMA GreatestOf ==
    ASSUME NEW S, S # {}, IsFiniteSet(S), NEW f, \A x \in S : f[x] \in Nat
    PROVE  \E m \in S : \A x \in S : f[x] <= f[m]
<1> DEFINE Greatest(A) == \E m \in A : \A x \in A : f[x] <= f[m]
           Sized(A, n) == A \subseteq S /\ A # {} /\ IsFiniteSet(A) /\ Cardinality(A) = n
           Bad == {n \in Nat : \E A : Sized(A, n) /\ ~Greatest(A)}
<1>1. ASSUME Bad # {} PROVE FALSE
  <2>1. PICK n \in Bad : \A k \in Bad : n <= k
    <3>1. Bad \in SUBSET Nat
      OBVIOUS
    <3> HIDE DEF Bad
    <3> QED BY <1>1, <3>1, LeastOf
  <2>2. PICK A : Sized(A, n) /\ ~Greatest(A)
    BY <2>1
  <2>3. PICK a \in A : TRUE
    BY <2>2
  <2>4. A \ {a} # {}
    BY <2>2, <2>3
  <2>5. IsFiniteSet(A \ {a}) /\ Cardinality(A \ {a}) = n - 1
    BY <2>2, FS_RemoveElement
  <2>6. n - 1 \in Nat
    BY <2>5, FS_CardinalityType
  <2>7. Sized(A \ {a}, n - 1)
    BY <2>2, <2>4, <2>5
  <2>8. n - 1 \notin Bad
    <3>1. n \in Nat
      OBVIOUS
    <3> HIDE DEF Bad
    <3> QED BY <2>1, <2>6, <3>1
  <2>9. Greatest(A \ {a})
    BY <2>6, <2>7, <2>8
  <2>10. PICK m \in A \ {a} : \A x \in A \ {a} : f[x] <= f[m]
    BY <2>9
  <2>11. a \in A /\ \A x \in A : f[x] \in Nat
    BY <2>2, <2>3
  <2>12. CASE f[a] <= f[m]
    <3>1. \A x \in A : f[x] <= f[m]
      BY <2>10, <2>12
    <3> QED BY <2>2, <2>10, <3>1
  <2>13. CASE f[m] <= f[a]
    <3>1. \A x \in A : f[x] <= f[a]
      BY <2>10, <2>11, <2>13
    <3> QED BY <2>2, <2>3, <3>1
  <2> QED BY <2>10, <2>11, <2>12, <2>13
<1>2. Cardinality(S) \in Nat /\ Sized(S, Cardinality(S))
  BY FS_CardinalityType
<1> QED BY <1>1, <1>2

\* find_parent_for_peer finds somebody whenever somebody accepts.
LEMMA BestExists ==
    ASSUME TypeOK, IsFiniteSet(nodes), NEW p,
           NEW k \in nodes \ {p}, can_accept_children(k)
    PROVE  BestParents(p) # {}
<1> DEFINE C == {c \in nodes \ {p} : can_accept_children(c)}
           D == {depth[c] : c \in C}
           cap == [c \in Peers |-> attr[c].capacity]
<1>1. C # {} /\ C \subseteq Peers /\ C \subseteq nodes
  BY DEF TypeOK
<1>2. \A c \in C : depth[c] \in Nat /\ cap[c] \in Nat /\ cap[c] = attr[c].capacity
  <2> HIDE DEF C
  <2> TAKE c \in C
  <2>1. c \in Peers /\ attr[c] \in Attrs /\ depth[c] \in Nat
    BY <1>1 DEF TypeOK
  <2>2. attr[c].capacity \in Nat
    <3>1. attr[c].capacity \in Capacities \cup {0}
      BY <2>1 DEF Attrs
    <3>2. Capacities \cup {0} \subseteq Nat
      BY CapacityAssumption
    <3> QED BY <3>1, <3>2, Zenon
  <2> QED BY <2>1, <2>2
<1>3. BestParents(p) = {c \in C : \A e \in C :
                          \/ depth[c] < depth[e]
                          \/ depth[c] = depth[e] /\ attr[c].capacity >= attr[e].capacity}
  BY DEF BestParents
<1> HIDE DEF C, cap
<1>4. PICK d \in D : \A x \in D : d <= x
  <2>1. D \in SUBSET Nat /\ D # {}
    BY <1>1, <1>2
  <2> HIDE DEF D
  <2> QED BY <2>1, LeastOf
<1> DEFINE E == {c \in C : depth[c] = d}
<1>5. E # {} /\ E \subseteq C
  BY <1>4
<1>6. IsFiniteSet(E)
  BY <1>1, <1>5, FS_Subset
<1>7. PICK m \in E : \A x \in E : cap[x] <= cap[m]
  <2>1. \A x \in E : cap[x] \in Nat
    BY <1>2
  <2> HIDE DEF E
  <2> QED BY <1>5, <1>6, <2>1, GreatestOf
<1>8. m \in BestParents(p)
  <2>1. m \in C /\ depth[m] = d
    BY <1>7
  <2>2. ASSUME NEW e \in C
        PROVE  \/ depth[m] < depth[e]
               \/ depth[m] = depth[e] /\ attr[m].capacity >= attr[e].capacity
    <3>1. d <= depth[e] /\ depth[e] \in Nat /\ d \in Nat
      BY <1>2, <1>4, <2>1
    <3>2. CASE depth[e] = d
      <4>1. cap[e] <= cap[m]
        BY <1>7, <3>2
      <4> QED BY <1>2, <2>1, <3>2, <4>1
    <3>3. CASE depth[e] # d
      BY <2>1, <3>1, <3>3
    <3> QED BY <3>2, <3>3
  <2> QED BY <1>3, <2>1, <2>2
<1> QED BY <1>8

\* The tree has finitely many nodes, and nobody could take an orphan that the last loop
\* of rebalance has passed.
Passed == IF job.phase = "adopt" THEN Orphans \ job.todo ELSE {}
AdoptInv ==
    /\ IsFiniteSet(nodes)
    /\ \A o \in Passed : \A q \in nodes \ {o} : ~can_accept_children(q)

\* A step adds at most one node.
LEMMA NodesStayFinite ==
    ASSUME IsFiniteSet(nodes), [Next]_vars
    PROVE  IsFiniteSet(nodes')
<1>1. nodes' \subseteq nodes \/ \E p \in Peers : nodes' = nodes \cup {p}
  BY DEF Next, Loop, vars, links, set_source, add_peer_to_stream, remove_peer_from_stream,
     remove_peer, handle_temporary_disconnect, handle_reconnection, update_metrics,
     record_failure, record_success, rebalance, Reparent, EndReparent, StartRebalance,
     PickOverloaded, MoveChild, StartAdoption, TakeOut
<1> QED BY <1>1, FS_Subset, FS_AddElement

\* One orphan of the last loop: it finds a parent, or nobody accepts it.
LEMMA AdoptOne ==
    ASSUME IInv, FanInv, AdoptInv, NEW c \in Peers, Reparent(c), job.phase = "adopt"
    PROVE  AdoptInv'
<1> USE PeersAssumption
<1>1. /\ FindParent(c, source, children[c], depth[c]) /\ UNCHANGED <<nodes, source, attr>> /\ c \in job.todo
      /\ job' = [job EXCEPT !.todo = @ \ {c}]
  BY DEF Reparent
<1>2. job'.phase = "adopt" /\ job'.todo = job.todo \ {c}
  BY <1>1 DEF IInv, TypeOK, Jobs
<1>3. TypeOK /\ c \in nodes /\ c # source /\ parent[c] = NoPeer /\ source # NoPeer
  BY <1>1 DEF IInv, Aux, AdoptList
<1>4. PICK to : Placed(c, source, children[c], to)
  BY <1>1, <1>3, FindParentLinks
<1>5. /\ \A x \in Peers \ {c} : parent'[x] = parent[x]
      /\ \A q \in Peers : children'[q] = children[q] \/ children'[q] = children[q] \cup {c}
  BY <1>4 DEF Placed
<1>6. ASSUME NEW q \in nodes, can_accept_children(q)' PROVE can_accept_children(q)
  <2>1. q \in Peers /\ attr'[q] = attr[q] /\ children[q] \subseteq children'[q]
    BY <1>1, <1>3, <1>5 DEF TypeOK
  <2>2. IsFiniteSet(children[q]) /\ Cardinality(children[q]) \in Nat
    BY <2>1, FS_CardinalityType DEF FanInv
  <2>3. IsFiniteSet(children'[q])
    <3>1. IsFiniteSet(children[q] \cup {c})
      BY <2>2, FS_AddElement
    <3>2. children'[q] = children[q] \/ children'[q] = children[q] \cup {c}
      BY <1>5, <2>1
    <3> QED BY <2>2, <3>1, <3>2
  <2>4. /\ Cardinality(children[q]) <= Cardinality(children'[q])
        /\ Cardinality(children'[q]) \in Nat
    BY <2>1, <2>3, FS_Subset, FS_CardinalityType
  <2>5. attr[q].max_children \in Nat
    BY <1>3, <2>1, FanOutAssumption DEF TypeOK, Attrs
  <2>6. /\ attr[q].role # "Consumer" /\ attr[q].quality >= 1
        /\ Cardinality(children'[q]) < attr[q].max_children
    BY <1>6, <2>1 DEF can_accept_children
  <2>7. Cardinality(children[q]) < attr[q].max_children
    BY <2>2, <2>4, <2>5, <2>6
  <2> QED BY <2>6, <2>7 DEF can_accept_children
<1>7. ASSUME NEW o \in Passed', NEW q \in nodes \ {o}, can_accept_children(q)' PROVE FALSE
  <2>1. o \in nodes /\ parent'[o] = NoPeer /\ o # source /\ (o \notin job.todo \/ o = c)
    BY <1>1, <1>2 DEF Passed, Orphans
  <2>2. can_accept_children(q)
    BY <1>6, <1>7
  <2>3. CASE o # c
    <3>1. o \in Passed
      BY <1>3, <1>5, <2>1, <2>3 DEF Passed, Orphans, TypeOK
    <3> QED BY <1>7, <2>2, <3>1 DEF AdoptInv
  <2>4. CASE o = c
    <3>1. BestParents(c) # {}
      BY <1>3, <1>7, <2>2, <2>4, BestExists DEF AdoptInv
    <3>2. PICK k \in BestParents(c) : parent' = [parent EXCEPT ![c] = k]
      BY <1>1, <1>3, <3>1 DEF FindParent, Attach
    <3>3. k \in Peers /\ parent'[c] = k
      BY <1>3, <3>2 DEF BestParents, TypeOK
    <3> QED BY <2>1, <2>4, <3>3
  <2> QED BY <2>3, <2>4
<1> QED BY <1>1, <1>7 DEF AdoptInv

LEMMA AdoptStep == IInv /\ FanInv /\ AdoptInv /\ [Next]_vars => AdoptInv'
<1> SUFFICES ASSUME IInv, FanInv, AdoptInv, [Next]_vars PROVE AdoptInv'
  OBVIOUS
<1>1. IsFiniteSet(nodes')
  BY NodesStayFinite DEF AdoptInv
<1>2. CASE job'.phase # "adopt"
  BY <1>1, <1>2 DEF AdoptInv, Passed
<1>3. CASE UNCHANGED vars
  BY <1>1, <1>3 DEF AdoptInv, Passed, Orphans, can_accept_children, vars
<1>4. CASE StartAdoption
  BY <1>1, <1>4 DEF AdoptInv, Passed, Orphans, StartAdoption, Job, links
<1>5. ASSUME NEW c \in Peers, Reparent(c), job'.phase = "adopt" PROVE AdoptInv'
  <2>1. job.phase = "adopt"
    BY <1>5 DEF Reparent, IInv, TypeOK, Jobs
  <2> QED BY <1>5, <2>1, AdoptOne
<1>6. ASSUME Next, job'.phase = "adopt" PROVE StartAdoption \/ \E c \in Peers : Reparent(c)
  <2>1. job' # Idle /\ job' # Rebalancing /\ job # Idle
    <3>1. Idle.phase = "idle" /\ Rebalancing.phase = "rebalance"
      BY DEF Idle, Rebalancing, Job
    <3>2. job' # Idle /\ job' # Rebalancing
      BY <1>6, <3>1
    <3>3. ASSUME job = Idle PROVE FALSE
      <4>1. ~Loop
        BY <3>1, <3>3 DEF Loop, Reparent, EndReparent, StartRebalance, PickOverloaded,
           MoveChild, StartAdoption
      <4>2. \A p, then : TakeOut(p, then) => job'.phase = "reparent"
        BY DEF TakeOut, Job
      <4>3. job' = job \/ job' = Idle \/ job' = Rebalancing \/ job'.phase = "reparent"
        BY <1>6, <4>1, <4>2 DEF Next, set_source, add_peer_to_stream,
           remove_peer_from_stream, remove_peer, handle_temporary_disconnect,
           handle_reconnection, update_metrics, record_failure, record_success, rebalance
      <4> QED BY <1>6, <3>1, <3>3, <4>3
    <3> QED BY <3>2, <3>3
  <2>2. Loop
    BY <1>6, <2>1 DEF Next, set_source, add_peer_to_stream, remove_peer_from_stream,
          remove_peer, handle_temporary_disconnect, handle_reconnection, update_metrics,
          record_failure, record_success, rebalance
  <2>3. ~EndReparent
    BY <2>1 DEF EndReparent
  <2>4. ~StartRebalance
    BY <1>6, <2>1 DEF StartRebalance, Job
  <2>5. ASSUME NEW p \in Peers, PickOverloaded(p) \/ MoveChild(p) PROVE FALSE
    <3>1. job.phase = "move" /\ job'.phase = job.phase
      BY <2>5 DEF PickOverloaded, MoveChild, IInv, TypeOK, Jobs
    <3> QED BY <1>6, <3>1
  <2> QED BY <2>2, <2>3, <2>4, <2>5 DEF Loop
<1> QED BY <1>2, <1>3, <1>4, <1>5, <1>6

\* For every set of peers and every capacity: when the last loop of rebalance ends, nobody
\* could take an orphan that is left, whatever order the orphans came in.
THEOREM RebalanceAlwaysAdopts == Spec => RebalanceAdopts
<1> DEFINE I == IInv /\ FanInv /\ AdoptInv
           A == job.phase = "adopt" /\ job' = Idle =>
                   \A o \in Orphans : \A q \in nodes \ {o} : ~can_accept_children(q)
<1>1. Init => I
  <2>1. Init => FanInv
    BY FS_EmptySet, FanOutAssumption DEF Init, FanInv, Fan
  <2>2. Init => AdoptInv
    BY FS_EmptySet DEF Init, AdoptInv, Passed, Idle, Job
  <2> QED BY <2>1, <2>2, LinkInit
<1>2. I /\ [Next]_vars => I'
  BY LinkStep, FanStep, AdoptStep
<1>3. I /\ [Next]_vars => [A]_vars
  <2> SUFFICES ASSUME I, Next, job.phase = "adopt", job' = Idle
               PROVE  \A o \in Orphans : \A q \in nodes \ {o} : ~can_accept_children(q)
    OBVIOUS
  <2>1. job' # job /\ job'.phase = "idle"
    BY DEF Idle, Job
  <2>2. job # Idle
    BY DEF Idle, Job
  <2>3. Loop
    BY <2>2 DEF Next, set_source, add_peer_to_stream, remove_peer_from_stream,
          remove_peer, handle_temporary_disconnect, handle_reconnection, update_metrics,
          record_failure, record_success, rebalance
  <2>4. ASSUME NEW p \in Peers, Reparent(p) \/ PickOverloaded(p) \/ MoveChild(p) PROVE FALSE
    <3>1. job'.phase = job.phase
      BY <2>4 DEF Reparent, PickOverloaded, MoveChild, IInv, TypeOK, Jobs
    <3> QED BY <2>1, <3>1
  <2>5. EndReparent
    BY <2>3, <2>4 DEF Loop, StartRebalance, StartAdoption
  <2>6. Passed = Orphans
    BY <2>5 DEF EndReparent, Passed
  <2> QED BY <2>6 DEF AdoptInv
<1> QED BY <1>1, <1>2, <1>3, PTL DEF Spec, RebalanceAdopts
=============================================================================
