----------------------------- MODULE P2PFeedProofs -----------------------------
(***************************************************************************)
(* P2PFeed implements SegmentFeed, for any peers, streams, number of       *)
(* segments and of messages of others, workers, loops and bounds.          *)
(*                                                                         *)
(* Every message has a number of its own.  What has a number is in at most *)
(* one place at a time: on its way, in the hands of one worker, in the     *)
(* queue of events, in the hands of one loop of the bridge, or forwarded.  *)
(* Beyond the network it is a segment of the publisher, a stray, or does   *)
(* not decode.  So a loop that forwards forwards what was sent and not     *)
(* forwarded before.                                                       *)
(***************************************************************************)
EXTENDS P2PFeed, TLAPS

Numbers == 1 .. Last + MaxForeign
Messages == [topic : {"data", "control", "announce", "discovery"}, stream : Streams, n : Numbers,
             form : {"good", "corrupt", "garbage"}]
Events == [kind : {"PeerConnected", "PeerDisconnected"}, what : Peers]
          \cup [kind : {"StreamAnnounced", "StreamData"}, what : Messages]
Swarmed == [kind : {"none", "established", "closed", "message", "subscription", "identified"},
            what : Peers \cup Messages \cup {<<>>}]

\* What the proof needs to know of the values
FeedTypes ==
    /\ worker \in [Workers -> [at : Handling \cup {"check", "lock", "gone"}, ev : Swarmed]]
    /\ \A w \in Workers : worker[w].at \in {"allow", "connect", "close"} => worker[w].ev.what \in Peers
    /\ \A w \in Workers : worker[w].at \in {"relay", "emit"} => worker[w].ev.what \in Messages
    /\ gossip \subseteq Messages
    /\ events \in Seq(Events)
    /\ loops \in [Runs -> [at : {"none", "refused", "next", "handle", "ended"},
                           ev : Events \cup {NoEvent}]]
    /\ \A k \in Runs : loops[k].at = "handle" => loops[k].ev \in Events
    /\ forwarded \in Seq(Numbers)

\* The swarm's mutex: one worker at most
OneHolder ==
    \A v, w \in Workers : worker[v].at \in Handling /\ worker[w].at \in Handling => v = w

\* The publisher numbers its segments upwards, and comes to the media with the
\* whole header published
PublisherInv ==
    /\ publisher \in [at : {"new", "header", "media", "done", "failed"}, next : 1..Last + 1]
    /\ published \subseteq 1..Last
    /\ \A n \in published : n < publisher.next
    /\ publisher.at = "new" => publisher.next = 1
    /\ publisher.at = "header" =>
          publisher.next \in Header /\ \A n \in 1 .. publisher.next - 1 : n \in published
    /\ publisher.at = "media" => publisher.next > 2 /\ Header \subseteq published

\* What a bridge may be given: no segment at all, or one that was sent. Data with a
\* wrong hash stays in the network.
Taken(m) == m.form = "garbage" \/ m.n \in published \/ m.n \in strays
Kept(m) == m.form = "corrupt" /\ m.topic = "data"

StrayInv ==
    /\ foreign \in 0..MaxForeign
    /\ strays \subseteq Last + 1 .. Last + foreign
    /\ \A m \in gossip : Taken(m) \/ Kept(m)
    /\ \A w \in Workers : worker[w].at \in {"relay", "emit"} => Taken(worker[w].ev.what)
    /\ \A i \in 1..Len(events) : events[i].kind = "StreamData" => Taken(events[i].what)
    /\ \A k \in Runs : loops[k].at = "handle" /\ loops[k].ev.kind = "StreamData"
                       => Taken(loops[k].ev.what)

\* The places the message of a number may be in
Out(n) == n \in published \/ n \in Last + 1 .. Last + foreign
Carries(e, n) == e.kind = "StreamData" /\ e.what.n = n
OnItsWay(n) == \E m \in gossip : m.n = n
AtWorker(n) == \E w \in Workers : worker[w].at \in {"relay", "emit"} /\ worker[w].ev.what.n = n
Queued(n) == \E i \in 1..Len(events) : Carries(events[i], n)
AtLoop(k, n) == loops[k].at = "handle" /\ Carries(loops[k].ev, n)
Handled(n) == \E k \in Runs : AtLoop(k, n)
Forwarded(n) == \E i \in DOMAIN forwarded : forwarded[i] = n

OnePlace ==
    \A n \in Numbers :
        /\ OnItsWay(n) \/ AtWorker(n) \/ Queued(n) \/ Handled(n) => Out(n)
        /\ Forwarded(n) => Out(n)
        /\ OnItsWay(n) => ~AtWorker(n) /\ ~Queued(n) /\ ~Handled(n) /\ ~Forwarded(n)
        /\ AtWorker(n) => ~Queued(n) /\ ~Handled(n) /\ ~Forwarded(n)
        /\ Queued(n) => ~Handled(n) /\ ~Forwarded(n)
        /\ Handled(n) => ~Forwarded(n)
        /\ \A l, m \in gossip : l.n = n /\ m.n = n => l = m
        /\ \A i, j \in 1..Len(events) : Carries(events[i], n) /\ Carries(events[j], n) => i = j
        /\ \A k, l \in Runs : AtLoop(k, n) /\ AtLoop(l, n) => k = l

IInv == FeedTypes /\ OneHolder /\ PublisherInv /\ StrayInv /\ OnePlace

-----------------------------------------------------------------------------
\* What is known of the numbers
LEMMA NumberFacts ==
    /\ Last \in Nat /\ Last > 2 /\ MaxForeign \in Nat
    /\ 1..Last \subseteq Numbers
    /\ Header \subseteq Numbers /\ Media \subseteq Numbers
    /\ Header \cup Media = 1..Last
    /\ Header \cup Media \cup (Last + 1 .. Last + MaxForeign) = Numbers
  BY FeedAssumption DEF Header, Media, Numbers

LEMMA SegmentMessage ==
    ASSUME NEW n \in Numbers
    PROVE  Segment(n) \in Messages /\ Segment(n).form = "good" /\ Segment(n).n = n
  BY FeedAssumption DEF Segment, Messages

LEMMA InitInv == Init => IInv
  <1> SUFFICES ASSUME Init PROVE IInv
    OBVIOUS
  <1>1. FeedTypes
    BY DEF Init, OverlayInit, FeedTypes, NoEvent, Swarmed, Events, Handling
  <1>2. PublisherInv
    BY NumberFacts DEF Init, PublisherInv
  <1>3. OnePlace
    BY DEF Init, OverlayInit, OnePlace, OnItsWay, AtWorker, Queued, AtLoop, Handled, Forwarded
  <1>4. OneHolder /\ StrayInv
    BY NumberFacts DEF Init, OverlayInit, OneHolder, StrayInv, Handling
  <1> QED
    BY <1>1, <1>2, <1>3, <1>4 DEF IInv

-----------------------------------------------------------------------------
\* A step that moves no message
LEMMA NothingMoves ==
    ASSUME OnePlace, UNCHANGED <<gossip, published, foreign, events, loops, forwarded>>,
           \A w \in Workers : worker'[w].at \in {"relay", "emit"} =>
               worker[w].at \in {"relay", "emit"} /\ worker'[w].ev = worker[w].ev
    PROVE  OnePlace'
  <1>1. \A n \in Numbers : AtWorker(n)' => AtWorker(n)
    BY DEF AtWorker
  <1>2. \A n \in Numbers : /\ Queued(n)' <=> Queued(n)
                           /\ OnItsWay(n)' <=> OnItsWay(n)
                           /\ Handled(n)' <=> Handled(n)
                           /\ Forwarded(n)' <=> Forwarded(n)
                           /\ Out(n)' <=> Out(n)
    BY DEF Queued, OnItsWay, Handled, AtLoop, Forwarded, Carries, Out
  <1> QED
    BY <1>1, <1>2 DEF OnePlace, Carries, AtLoop

\* No worker has a message in its hands
HandsEmpty == \A w \in Workers : worker[w].at \notin {"relay", "emit"}

\* An event is queued: it carries nothing, or the message the worker had
LEMMA EventQueued ==
    ASSUME OnePlace, FeedTypes, NEW e \in Events,
           \A n \in Numbers : Carries(e, n) => AtWorker(n),
           events' = Append(events, e), HandsEmpty',
           UNCHANGED <<gossip, published, foreign, loops, forwarded>>
    PROVE  OnePlace'
  <1>2. /\ Len(events') = Len(events) + 1 /\ events'[Len(events) + 1] = e
        /\ \A i \in 1..Len(events) : events'[i] = events[i]
        /\ Len(events) \in Nat
    BY DEF FeedTypes
  <1>3. \A n \in Numbers, i \in 1..Len(events') :
           Carries(events'[i], n) =>
              \/ i \in 1..Len(events) /\ Carries(events[i], n)
              \/ i = Len(events) + 1 /\ AtWorker(n)
    BY <1>2
  <1>4. \A n \in Numbers : Queued(n)' => Queued(n) \/ AtWorker(n)
    BY <1>3 DEF Queued, Carries
  <1>5. \A n \in Numbers : ~AtWorker(n)'
    BY DEF AtWorker, HandsEmpty
  <1>6. \A n \in Numbers : /\ OnItsWay(n)' <=> OnItsWay(n)
                           /\ Handled(n)' <=> Handled(n)
                           /\ Forwarded(n)' <=> Forwarded(n)
                           /\ Out(n)' <=> Out(n)
    BY DEF OnItsWay, Handled, AtLoop, Forwarded, Carries, Out
  <1>7. \A n \in Numbers : \A i, j \in 1..Len(events') :
           Carries(events'[i], n) /\ Carries(events'[j], n) => i = j
    BY <1>3 DEF OnePlace, Queued
  <1> QED
    BY <1>4, <1>5, <1>6, <1>7 DEF OnePlace, AtLoop, Carries

\* A message is taken from the network by a worker
LEMMA MessageTaken ==
    ASSUME OnePlace, FeedTypes, HandsEmpty, NEW m \in gossip, gossip' = gossip \ {m},
           \A w \in Workers : worker'[w].at \in {"relay", "emit"} => worker'[w].ev.what = m,
           UNCHANGED <<published, foreign, events, loops, forwarded>>
    PROVE  OnePlace'
  <1>0. m.n \in Numbers
    BY DEF FeedTypes, Messages
  <1>1. \A n \in Numbers : /\ OnItsWay(n)' => OnItsWay(n) /\ n # m.n
                           /\ AtWorker(n)' => OnItsWay(n) /\ n = m.n
    BY <1>0 DEF OnItsWay, AtWorker, OnePlace
  <1>2. \A n \in Numbers : /\ Queued(n)' <=> Queued(n)
                           /\ Handled(n)' <=> Handled(n)
                           /\ Forwarded(n)' <=> Forwarded(n)
                           /\ Out(n)' <=> Out(n)
    BY DEF Queued, Handled, AtLoop, Forwarded, Carries, Out
  <1> QED
    BY <1>1, <1>2 DEF OnePlace, Carries, AtLoop

\* The first event of the queue goes to a loop that has none
LEMMA EventTaken ==
    ASSUME OnePlace, FeedTypes, NEW k \in Runs, loops[k].at = "next", events # <<>>,
           events' = Tail(events), LoopTo(k, "handle", Head(events)),
           UNCHANGED <<published, foreign, gossip, worker, forwarded>>
    PROVE  OnePlace'
  <1>1. /\ Len(events) \in Nat \ {0} /\ Len(events') = Len(events) - 1
        /\ \A i \in 1..Len(events') : events'[i] = events[i + 1]
        /\ Head(events) = events[1]
    BY DEF FeedTypes
  <1>2. \A n \in Numbers, i \in 1..Len(events') :
           Carries(events'[i], n) => i + 1 \in 1..Len(events) /\ Carries(events[i + 1], n)
    BY <1>1
  <1>3. \A n \in Numbers, l \in Runs :
           AtLoop(l, n)' => \/ l # k /\ AtLoop(l, n)
                            \/ l = k /\ Carries(events[1], n)
    BY <1>1 DEF LoopTo, AtLoop, FeedTypes, Carries
  <1>4. \A n \in Numbers : Carries(events[1], n) => Queued(n) /\ ~Queued(n)'
    <2> SUFFICES ASSUME NEW n \in Numbers, Carries(events[1], n) PROVE Queued(n) /\ ~Queued(n)'
      OBVIOUS
    <2>1. Queued(n)
      BY <1>1 DEF Queued
    <2>2. \A i \in 1..Len(events') : ~Carries(events'[i], n)
      <3> SUFFICES ASSUME NEW i \in 1..Len(events'), Carries(events'[i], n) PROVE FALSE
        OBVIOUS
      <3>1. i + 1 \in 1..Len(events) /\ 1 \in 1..Len(events) /\ Carries(events[i + 1], n)
        BY <1>1, <1>2
      <3>2. i + 1 = 1
        BY <3>1 DEF OnePlace
      <3> QED
        BY <3>2, <1>1
    <2> QED
      BY <2>1, <2>2 DEF Queued, Carries
  <1>5. \A n \in Numbers : /\ Queued(n)' => Queued(n)
                           /\ Handled(n)' => Handled(n) \/ Carries(events[1], n)
                           /\ AtWorker(n)' <=> AtWorker(n)
                           /\ OnItsWay(n)' <=> OnItsWay(n)
                           /\ Forwarded(n)' <=> Forwarded(n)
                           /\ Out(n)' <=> Out(n)
    BY <1>2, <1>3 DEF Queued, AtWorker, OnItsWay, Handled, Forwarded, Carries, Out
  <1>6. \A n \in Numbers : \A i, j \in 1..Len(events') :
           Carries(events'[i], n) /\ Carries(events'[j], n) => i = j
    <2> SUFFICES ASSUME NEW n \in Numbers, NEW i \in 1..Len(events'), NEW j \in 1..Len(events'),
                        Carries(events'[i], n), Carries(events'[j], n)
                 PROVE  i = j
      OBVIOUS
    <2>1. i + 1 = j + 1
      BY <1>2 DEF OnePlace
    <2> QED
      BY <2>1, <1>1
  <1>7. \A n \in Numbers : \A l, j \in Runs : AtLoop(l, n)' /\ AtLoop(j, n)' => l = j
    BY <1>3, <1>4 DEF OnePlace, Handled
  <1> QED
    BY <1>4, <1>5, <1>6, <1>7 DEF OnePlace, Carries, AtLoop

\* A loop is done with its event, and may have forwarded the segment in it
LEMMA EventDone ==
    ASSUME OnePlace, FeedTypes, NEW k \in Runs, NEW at \in {"next", "ended"},
           LoopTo(k, at, NoEvent), UNCHANGED <<published, foreign, gossip, worker, events>>,
           \/ UNCHANGED forwarded
           \/ \E s \in Numbers : AtLoop(k, s) /\ forwarded' = Append(forwarded, s)
    PROVE  OnePlace'
  <1>1. \A n \in Numbers, l \in Runs : AtLoop(l, n)' => l # k /\ AtLoop(l, n)
    BY DEF LoopTo, AtLoop, FeedTypes, Carries
  <1>2. \A n \in Numbers : Forwarded(n)' => Forwarded(n) \/ AtLoop(k, n)
    BY DEF Forwarded, FeedTypes
  <1>3. \A n \in Numbers : /\ Queued(n)' <=> Queued(n)
                           /\ AtWorker(n)' <=> AtWorker(n)
                           /\ OnItsWay(n)' <=> OnItsWay(n)
                           /\ Handled(n)' => Handled(n) /\ ~AtLoop(k, n)
                           /\ Out(n)' <=> Out(n)
    BY <1>1 DEF Queued, AtWorker, OnItsWay, Handled, Carries, OnePlace, Out
  <1>4. \A n \in Numbers : AtLoop(k, n) => Handled(n)
    BY DEF Handled
  <1>5. \A n \in Numbers : \A l, j \in Runs : AtLoop(l, n)' /\ AtLoop(j, n)' => l = j
    BY <1>1 DEF OnePlace
  <1> QED
    BY <1>2, <1>3, <1>4, <1>5 DEF OnePlace, Carries

\* A new message is sent
LEMMA MessageSent ==
    ASSUME OnePlace, NEW m \in Messages, ~Out(m.n), gossip' = gossip \cup {m},
           \A n \in Numbers : Out(n)' <=> Out(n) \/ n = m.n,
           UNCHANGED <<worker, events, loops, forwarded>>
    PROVE  OnePlace'
  <1>0. m.n \in Numbers
    BY DEF Messages
  <1>1. \A n \in Numbers : OnItsWay(n)' => OnItsWay(n) \/ n = m.n
    BY DEF OnItsWay
  <1>2. \A n \in Numbers : /\ AtWorker(n)' <=> AtWorker(n)
                           /\ Queued(n)' <=> Queued(n)
                           /\ Handled(n)' <=> Handled(n)
                           /\ Forwarded(n)' <=> Forwarded(n)
    BY DEF AtWorker, Queued, Handled, AtLoop, Forwarded, Carries
  <1>3. ~OnItsWay(m.n) /\ ~AtWorker(m.n) /\ ~Queued(m.n) /\ ~Handled(m.n) /\ ~Forwarded(m.n)
    BY <1>0 DEF OnePlace
  <1>4. \A n \in Numbers : \A l, k \in gossip' : l.n = n /\ k.n = n => l = k
    BY <1>3 DEF OnePlace, OnItsWay
  <1> QED
    BY <1>1, <1>2, <1>3, <1>4 DEF OnePlace, Carries, AtLoop

-----------------------------------------------------------------------------
\* What a step of one worker does to the others: nothing
LEMMA OneMoves ==
    ASSUME FeedTypes, OneHolder, NEW w \in Workers, NEW at \in Handling \cup {"check", "lock", "gone"},
           NEW ev \in Swarmed, worker' = [worker EXCEPT ![w] = [at |-> at, ev |-> ev]],
           worker[w].at \in Handling \/ at \notin Handling \/ SwarmFree
    PROVE  /\ OneHolder'
           /\ worker' \in [Workers -> [at : Handling \cup {"check", "lock", "gone"}, ev : Swarmed]]
           /\ worker'[w].at = at /\ worker'[w].ev = ev
           /\ \A v \in Workers \ {w} : worker'[v] = worker[v]
           /\ worker[w].at \in Handling => \A v \in Workers \ {w} : worker'[v].at \notin Handling
  <1>1. /\ worker' \in [Workers -> [at : Handling \cup {"check", "lock", "gone"}, ev : Swarmed]]
        /\ worker'[w].at = at /\ worker'[w].ev = ev
        /\ \A v \in Workers \ {w} : worker'[v] = worker[v]
    BY DEF FeedTypes
  <1>2. worker[w].at \in Handling => \A v \in Workers \ {w} : worker'[v].at \notin Handling
    BY <1>1 DEF OneHolder
  <1>3. OneHolder'
    BY <1>1, <1>2 DEF OneHolder, SwarmFree
  <1> QED
    BY <1>1, <1>2, <1>3

\* Where a worker goes next, as one assignment
LEMMA WorkerToIs ==
    ASSUME FeedTypes, NEW w \in Workers, NEW at, WorkerTo(w, at)
    PROVE  worker' = [worker EXCEPT ![w] = [at |-> at, ev |-> worker[w].ev]]
  <1>1. worker[w] \in [at : Handling \cup {"check", "lock", "gone"}, ev : Swarmed]
    BY DEF FeedTypes
  <1>2. [worker[w] EXCEPT !.at = at] = [at |-> at, ev |-> worker[w].ev]
    BY <1>1
  <1> QED
    BY <1>2 DEF WorkerTo

\* The worker of the overlay keeps the invariant
LEMMA WorkerInv ==
    ASSUME IInv, NEW w \in Workers, UNCHANGED <<pubVars, bridgeVars>>,
           \/ worker_check(w) \/ worker_lock(w) \/ poll_timeout(w) \/ is_peer_allowed(w)
           \/ set_connected(w) \/ set_disconnected(w)
           \/ publish_chunk(w) \/ emit(w) \/ add_remove_subscriber(w)
           \/ \E p \in Peers : \/ ConnectionEstablished(w, p) \/ ConnectionClosed(w, p)
                               \/ PeerSubscription(w, p) \/ handle_identify_event(w, p)
           \/ \E m \in gossip : handle_gossipsub_message(w, m)
    PROVE  IInv'
  <1> USE DEF pubVars, bridgeVars, foreignVars
  <1>0. /\ PublisherInv' /\ UNCHANGED <<published, foreign, strays, loops, forwarded>>
        /\ FeedTypes /\ OneHolder /\ OnePlace /\ StrayInv
    BY DEF IInv, PublisherInv
  <1>t. \A m : Taken(m)' <=> Taken(m)
    BY DEF Taken
  <1>e. worker[w].ev \in Swarmed /\ NoEvent \in Swarmed
    BY <1>0 DEF FeedTypes, NoEvent, Swarmed
  <1>1. CASE \/ worker_check(w) \/ worker_lock(w) \/ poll_timeout(w) \/ is_peer_allowed(w)
             \/ add_remove_subscriber(w)
    <2>1. PICK at \in {"check", "lock", "gone", "poll", "connect"}, ev \in {worker[w].ev, NoEvent} :
             /\ worker' = [worker EXCEPT ![w] = [at |-> at, ev |-> ev]]
             /\ UNCHANGED <<gossip, events>>
             /\ at = "connect" => worker[w].at = "allow" /\ ev = worker[w].ev
             /\ worker[w].at \in Handling \/ at \notin Handling \/ SwarmFree
      BY <1>0, <1>1, WorkerToIs DEF worker_check, worker_lock, poll_timeout, is_peer_allowed,
         add_remove_subscriber, Done, Handling
    <2>2. at \in Handling \cup {"check", "lock", "gone"} /\ ev \in Swarmed
      BY <1>e DEF Handling
    <2>3. /\ OneHolder'
          /\ worker' \in [Workers -> [at : Handling \cup {"check", "lock", "gone"}, ev : Swarmed]]
          /\ worker'[w].at = at /\ worker'[w].ev = ev
          /\ \A v \in Workers \ {w} : worker'[v] = worker[v]
      BY <1>0, <2>1, <2>2, OneMoves
    <2>4. FeedTypes'
      BY <1>0, <2>1, <2>3 DEF FeedTypes
    <2>5. StrayInv'
      BY <1>0, <1>t, <2>1, <2>3 DEF StrayInv
    <2>6. OnePlace'
      BY <1>0, <2>1, <2>3, NothingMoves
    <2> QED
      BY <1>0, <2>3, <2>4, <2>5, <2>6 DEF IInv
  <1>2. CASE set_connected(w) \/ set_disconnected(w) \/ emit(w)
    <2>1. PICK e \in Events :
             /\ events' = Append(events, e) /\ gossip' = gossip
             /\ worker' = [worker EXCEPT ![w] = [at |-> "check", ev |-> NoEvent]]
             /\ worker[w].at \in Handling
             /\ e.kind = "StreamData" => worker[w].at = "emit" /\ e.what = worker[w].ev.what
      <3>1. CASE set_connected(w) \/ set_disconnected(w)
        <4> DEFINE p == worker[w].ev.what
        <4>1. PICK kind \in {"PeerConnected", "PeerDisconnected"} :
                 /\ p \in Peers /\ events' = Append(events, [kind |-> kind, what |-> p])
                 /\ worker' = [worker EXCEPT ![w] = [at |-> "check", ev |-> NoEvent]]
                 /\ gossip' = gossip /\ worker[w].at \in Handling
          BY <1>0, <3>1 DEF FeedTypes, set_connected, set_disconnected, Emit, Done, Handling
        <4>2. [kind |-> kind, what |-> p] \in Events
          BY <4>1 DEF Events
        <4> QED
          BY <4>1, <4>2
      <3>2. CASE emit(w)
        <4> DEFINE m == worker[w].ev.what
        <4>1. PICK kind \in {"StreamAnnounced", "StreamData"} :
                 /\ m \in Messages /\ events' = Append(events, [kind |-> kind, what |-> m])
                 /\ worker' = [worker EXCEPT ![w] = [at |-> "check", ev |-> NoEvent]]
                 /\ gossip' = gossip /\ worker[w].at = "emit"
          BY <1>0, <3>2 DEF FeedTypes, emit, Emit, Done
        <4>2. [kind |-> kind, what |-> m] \in Events /\ worker[w].at \in Handling
          BY <4>1 DEF Events, Handling
        <4> QED
          BY <4>1, <4>2
      <3> QED
        BY <1>2, <3>1, <3>2
    <2>2. "check" \in Handling \cup {"check", "lock", "gone"}
      OBVIOUS
    <2>3. /\ OneHolder'
          /\ worker' \in [Workers -> [at : Handling \cup {"check", "lock", "gone"}, ev : Swarmed]]
          /\ worker'[w].at = "check"
          /\ \A v \in Workers \ {w} : worker'[v] = worker[v] /\ worker'[v].at \notin Handling
      BY <1>0, <1>e, <2>1, <2>2, OneMoves
    <2>4. \A v \in Workers : worker'[v].at \notin Handling
      BY <2>3 DEF Handling
    <2>5. HandsEmpty'
      BY <2>4 DEF HandsEmpty, Handling
    <2>6. events' \in Seq(Events)
      BY <1>0, <2>1 DEF FeedTypes
    <2>7. FeedTypes'
      BY <1>0, <2>1, <2>3, <2>4, <2>6 DEF FeedTypes, Handling
    <2>8. StrayInv'
      <3>1. \A i \in 1..Len(events') : (i \in 1..Len(events) /\ events'[i] = events[i]) \/ events'[i] = e
        BY <1>0, <2>1 DEF FeedTypes
      <3>2. e.kind = "StreamData" => Taken(e.what)
        BY <1>0, <2>1 DEF StrayInv
      <3>3. \A i \in 1..Len(events') : events'[i].kind = "StreamData" => Taken(events'[i].what)
        BY <1>0, <3>1, <3>2 DEF StrayInv
      <3> QED
        BY <1>0, <1>t, <2>1, <2>5, <3>3 DEF StrayInv, HandsEmpty
    <2>9. \A n \in Numbers : Carries(e, n) => AtWorker(n)
      BY <2>1 DEF Carries, AtWorker
    <2>10. OnePlace'
      BY <1>0, <2>1, <2>5, <2>9, EventQueued
    <2> QED
      BY <1>0, <2>3, <2>7, <2>8, <2>10 DEF IInv
  <1>3. CASE publish_chunk(w)
    <2>1. /\ worker' = [worker EXCEPT ![w] = [at |-> "emit", ev |-> worker[w].ev]]
          /\ worker[w].at = "relay" /\ UNCHANGED <<gossip, events>>
      BY <1>0, <1>3, WorkerToIs DEF publish_chunk
    <2>2. worker[w].at \in Handling /\ "emit" \in Handling \cup {"check", "lock", "gone"}
      BY <2>1 DEF Handling
    <2>3. /\ OneHolder'
          /\ worker' \in [Workers -> [at : Handling \cup {"check", "lock", "gone"}, ev : Swarmed]]
          /\ worker'[w].at = "emit" /\ worker'[w].ev = worker[w].ev
          /\ \A v \in Workers \ {w} : worker'[v] = worker[v]
      BY <1>0, <1>e, <2>1, <2>2, OneMoves
    <2>4. FeedTypes'
      BY <1>0, <2>1, <2>3 DEF FeedTypes
    <2>5. StrayInv'
      BY <1>0, <1>t, <2>1, <2>3 DEF StrayInv
    <2>6. OnePlace'
      BY <1>0, <2>1, <2>3, NothingMoves
    <2> QED
      BY <1>0, <2>3, <2>4, <2>5, <2>6 DEF IInv
  <1>4. CASE \E p \in Peers : \/ ConnectionEstablished(w, p) \/ ConnectionClosed(w, p)
                              \/ PeerSubscription(w, p) \/ handle_identify_event(w, p)
    <2>1. PICK p \in Peers, at \in {"allow", "close", "subscriber", "check"},
               kind \in {"established", "closed", "subscription", "identified"} :
             /\ worker' = [worker EXCEPT ![w] = [at |-> at, ev |-> [kind |-> kind, what |-> p]]]
             /\ worker[w].at = "poll" /\ UNCHANGED <<gossip, events>>
      <3>1. PICK p \in Peers : \/ ConnectionEstablished(w, p) \/ ConnectionClosed(w, p)
                               \/ PeerSubscription(w, p) \/ handle_identify_event(w, p)
        BY <1>4
      <3> QED
        BY <3>1 DEF ConnectionEstablished, ConnectionClosed, PeerSubscription,
                    handle_identify_event, Poll
    <2> DEFINE ev == [kind |-> kind, what |-> p]
    <2>2. /\ worker[w].at \in Handling /\ at \in Handling \cup {"check", "lock", "gone"}
          /\ ev \in Swarmed /\ ev.what = p
      BY <2>1 DEF Handling, Swarmed
    <2> HIDE DEF ev
    <2>3. /\ OneHolder'
          /\ worker' \in [Workers -> [at : Handling \cup {"check", "lock", "gone"}, ev : Swarmed]]
          /\ worker'[w].at = at /\ worker'[w].ev = ev
          /\ \A v \in Workers \ {w} : worker'[v] = worker[v]
      BY <1>0, <2>1, <2>2, OneMoves DEF ev
    <2>4. FeedTypes'
      BY <1>0, <2>1, <2>2, <2>3 DEF FeedTypes
    <2>5. StrayInv'
      BY <1>0, <1>t, <2>1, <2>3 DEF StrayInv
    <2>6. OnePlace'
      BY <1>0, <2>1, <2>3, NothingMoves
    <2> QED
      BY <1>0, <2>3, <2>4, <2>5, <2>6 DEF IInv
  <1>5. CASE \E m \in gossip : handle_gossipsub_message(w, m)
    <2>1. PICK m \in gossip, at \in {"check", "relay", "emit"} :
             /\ gossip' = gossip \ {m}
             /\ worker' = [worker EXCEPT ![w] = [at |-> at, ev |-> [kind |-> "message", what |-> m]]]
             /\ worker[w].at = "poll" /\ events' = events
             /\ at # "check" => ~Kept(m)
      BY <1>5 DEF handle_gossipsub_message, Route, Verified, Poll, Kept
    <2> DEFINE ev == [kind |-> "message", what |-> m]
    <2>2. /\ worker[w].at \in Handling /\ at \in Handling \cup {"check", "lock", "gone"}
          /\ m \in Messages /\ ev \in Swarmed /\ ev.what = m
      BY <1>0, <2>1 DEF Handling, Swarmed, FeedTypes
    <2> HIDE DEF ev
    <2>3. /\ OneHolder'
          /\ worker' \in [Workers -> [at : Handling \cup {"check", "lock", "gone"}, ev : Swarmed]]
          /\ worker'[w].at = at /\ worker'[w].ev = ev
          /\ \A v \in Workers \ {w} : worker'[v] = worker[v] /\ worker'[v].at \notin Handling
      BY <1>0, <2>1, <2>2, OneMoves DEF ev
    <2>4. FeedTypes'
      BY <1>0, <2>1, <2>2, <2>3 DEF FeedTypes
    <2>5. \A v \in Workers : worker'[v].at \in {"relay", "emit"} => v = w /\ at # "check"
      BY <2>3 DEF Handling
    <2>6. StrayInv'
      BY <1>0, <1>t, <2>1, <2>2, <2>3, <2>5 DEF StrayInv
    <2>7. HandsEmpty
      BY <1>0, <2>1, <2>3 DEF HandsEmpty, Handling
    <2>8. OnePlace'
      BY <1>0, <2>1, <2>2, <2>3, <2>5, <2>7, MessageTaken
    <2> QED
      BY <1>0, <2>3, <2>4, <2>6, <2>8 DEF IInv
  <1> QED
    BY <1>1, <1>2, <1>3, <1>4, <1>5

\* Starts, stops and callers of the overlay keep it: they move no message, though an
\* abort may lose the one the worker has
LEMMA OthersInv ==
    ASSUME IInv, Control \/ Callers, UNCHANGED <<pubVars, bridgeVars>>
    PROVE  IInv'
  <1> USE DEF pubVars, bridgeVars, foreignVars
  <1>0. /\ PublisherInv' /\ UNCHANGED <<published, foreign, strays, loops, forwarded>>
        /\ FeedTypes /\ OneHolder /\ OnePlace /\ StrayInv
    BY DEF IInv, PublisherInv
  <1>t. \A m : Taken(m)' <=> Taken(m)
    BY DEF Taken
  <1>1. UNCHANGED <<gossip, events>>
    BY DEF Control, run_swarm, start, stop, stop_abort, Callers, relay_stream, subscribe_to_stream,
           unsubscribe_from_stream, publish_stream, stop_stream, connect_peer_impl,
           disconnect_peer_impl, finish_peer_impl, connect_peer_util, connect_peer,
           disconnect_peer, block
  <1>2. /\ worker' \in [Workers -> [at : Handling \cup {"check", "lock", "gone"}, ev : Swarmed]]
        /\ \A w \in Workers : worker'[w] = worker[w] \/ worker'[w].at \in {"check", "gone"}
    <2>1. CASE UNCHANGED worker
      BY <1>0, <2>1 DEF FeedTypes
    <2>2. CASE start \/ stop_abort
      <3> DEFINE S == [at : Handling \cup {"check", "lock", "gone"}, ev : Swarmed]
      <3>1. /\ [at |-> "check", ev |-> NoEvent] \in S /\ [at |-> "gone", ev |-> NoEvent] \in S
            /\ worker \in [Workers -> S]
        BY <1>0 DEF FeedTypes, NoEvent, Swarmed
      <3> HIDE DEF S
      <3>2. worker' \in [Workers -> S]
        BY <2>2, <3>1 DEF start, stop_abort
      <3>3. \A w \in Workers : \/ worker'[w] = worker[w]
                               \/ worker'[w] = [at |-> "check", ev |-> NoEvent]
                               \/ worker'[w] = [at |-> "gone", ev |-> NoEvent]
        BY <2>2, <3>1 DEF start, stop_abort
      <3> QED
        BY <3>2, <3>3 DEF S
    <2>3. UNCHANGED worker \/ start \/ stop_abort
      BY DEF Control, run_swarm, stop, Callers, relay_stream, subscribe_to_stream,
           unsubscribe_from_stream, publish_stream, stop_stream, connect_peer_impl,
           disconnect_peer_impl, finish_peer_impl, connect_peer_util, connect_peer,
           disconnect_peer, block
    <2> QED
      BY <2>1, <2>2, <2>3
  <1>3. FeedTypes'
    BY <1>0, <1>1, <1>2 DEF FeedTypes
  <1>4. OneHolder'
    BY <1>0, <1>2 DEF OneHolder, Handling
  <1>5. StrayInv'
    BY <1>0, <1>t, <1>1, <1>2 DEF StrayInv
  <1>6. OnePlace'
    BY <1>0, <1>1, <1>2, NothingMoves
  <1> QED
    BY <1>0, <1>3, <1>4, <1>5, <1>6 DEF IInv

\* The publisher keeps it, and publishes what SegmentFeed allows
LEMMA PublisherStep ==
    ASSUME IInv, Publisher
    PROVE  /\ IInv'
           /\ UNCHANGED <<published, strays, forwarded>> \/ \E n \in Numbers : Feed!Publish(n)
  <1> USE DEF bridgeVars, overlayVars, overlayButGossip, foreignVars
  <1>0. /\ UNCHANGED <<worker, events, loops, forwarded, foreign, strays>>
        /\ UNCHANGED <<published, gossip>> \/ Send(publisher.next)
    BY DEF Publisher, publish_begin, publish_header, publish_media, publish_end
  <1>1. publisher.next \in Nat /\ publisher = [at |-> publisher.at, next |-> publisher.next]
    BY DEF IInv, PublisherInv
  <1>4. OneHolder'
    BY <1>0 DEF IInv, OneHolder
  <1>5. Send(publisher.next) /\ published' = published => publisher.next \in published
    BY DEF Send
  <1>2. CASE UNCHANGED <<published, gossip>>
    <2>1. PublisherInv'
      <3>1. PICK at \in {"header", "failed", "media", "done"}, next \in 1..Last + 1 :
               /\ publisher' = [at |-> at, next |-> next] /\ next >= publisher.next
               /\ at = "header" => publisher.at \in {"new", "header"} /\ next = publisher.next
               /\ at = "media" => publisher.at = "media"
        BY <1>1, <1>2, <1>5, NumberFacts DEF IInv, PublisherInv, Publisher, publish_begin,
           publish_header, publish_media, publish_end
      <3>2. \A n \in published : n < next
        BY <3>1, NumberFacts DEF IInv, PublisherInv
      <3>3. at = "header" => next \in Header /\ \A n \in 1 .. next - 1 : n \in published
        BY <1>1, <3>1 DEF IInv, PublisherInv, Header
      <3>4. at = "media" => next > 2 /\ Header \subseteq published
        BY <1>1, <3>1 DEF IInv, PublisherInv
      <3> QED
        BY <1>2, <3>1, <3>2, <3>3, <3>4 DEF IInv, PublisherInv
    <2>2. FeedTypes' /\ StrayInv'
      BY <1>0, <1>2 DEF IInv, FeedTypes, StrayInv, Taken
    <2>3. OnePlace'
      BY <1>0, <1>2, NothingMoves DEF IInv
    <2> QED
      BY <1>0, <1>2, <1>4, <2>1, <2>2, <2>3 DEF IInv
  <1>3. CASE Send(publisher.next) /\ (publish_header \/ publish_media)
    <2>1. PICK n \in 1..Last : n = publisher.next /\ n \notin published
      BY <1>1, <1>3, NumberFacts
         DEF IInv, PublisherInv, publish_header, publish_media, Header
    <2>2. /\ published' = published \cup {n} /\ gossip' = gossip \cup {Segment(n)}
          /\ Segment(n) \in Messages /\ Segment(n).form = "good" /\ Segment(n).n = n
      BY <1>3, <2>1, NumberFacts, SegmentMessage DEF Send
    <2>3. OnePlace'
      <3>1. foreign \in Nat
        BY DEF IInv, StrayInv
      <3>2. ~Out(n) /\ \A i \in Numbers : Out(i)' <=> Out(i) \/ i = n
        BY <1>0, <2>1, <2>2, <3>1, NumberFacts DEF Out
      <3> QED
        BY <1>0, <2>2, <3>2, MessageSent DEF IInv
    <2>4. FeedTypes' /\ StrayInv'
      <3>1. FeedTypes'
        BY <1>0, <2>2 DEF IInv, FeedTypes
      <3>2. (\A m : Taken(m) => Taken(m)') /\ Taken(Segment(n))'
        BY <1>0, <2>2 DEF Taken
      <3>3. StrayInv'
        BY <1>0, <2>2, <3>2 DEF IInv, StrayInv
      <3> QED
        BY <3>1, <3>3
    <2>5. n \in Media => Header \subseteq published
      BY <1>3, <2>1, NumberFacts
         DEF IInv, PublisherInv, publish_header, publish_media, Header, Media
    <2>6. PublisherInv'
      <3>1. CASE publish_header
        <4>1. /\ n \in Header /\ \A i \in 1 .. n - 1 : i \in published
              /\ publisher' = [at |-> IF n = 2 THEN "media" ELSE "header", next |-> n + 1]
          BY <1>1, <2>1, <2>2, <3>1 DEF IInv, PublisherInv, publish_header
        <4>2. (\A i \in published' : i < n + 1) /\ (\A i \in 1..n : i \in published')
          BY <1>1, <2>1, <2>2, <4>1 DEF IInv, PublisherInv
        <4>3. /\ publisher' \in [at : {"header", "media"}, next : 1..Last + 1]
              /\ publisher'.next = n + 1 /\ n + 1 - 1 = n
              /\ publisher'.at = "header" => n = 1
              /\ publisher'.at = "media" => n = 2
          BY <1>1, <2>1, <4>1, NumberFacts DEF Header
        <4>4. published' \subseteq 1..Last
          BY <2>1, <2>2 DEF IInv, PublisherInv
        <4>5. publisher'.at = "header" => \A i \in 1 .. publisher'.next - 1 : i \in published'
          BY <4>2, <4>3
        <4>6. publisher'.at = "media" => Header \subseteq published'
          BY <4>2, <4>3 DEF Header
        <4> QED
          BY <4>2, <4>3, <4>4, <4>5, <4>6 DEF PublisherInv, Header
      <3>2. CASE publish_media
        <4>1. /\ n > 2 /\ Header \subseteq published
              /\ publisher' = [at |-> "media", next |-> n + 1]
          BY <1>1, <2>1, <3>2 DEF IInv, PublisherInv, publish_media
        <4>2. \A i \in published' : i < n + 1
          BY <1>1, <2>1, <2>2 DEF IInv, PublisherInv
        <4>3. /\ publisher' \in [at : {"media"}, next : 1..Last + 1]
              /\ publisher'.next = n + 1 /\ publisher'.next > 2
          BY <1>1, <2>1, <4>1, NumberFacts
        <4>4. published' \subseteq 1..Last /\ Header \subseteq published'
          BY <2>1, <2>2, <4>1 DEF IInv, PublisherInv
        <4> QED
          BY <4>2, <4>3, <4>4 DEF PublisherInv
      <3> QED
        BY <1>3, <3>1, <3>2
    <2>7. Feed!Publish(n)
      BY <1>0, <2>1, <2>2, <2>5, NumberFacts DEF Feed!Publish
    <2> QED
      BY <1>4, <2>1, <2>3, <2>4, <2>6, <2>7, NumberFacts DEF IInv
  <1> QED
    BY <1>0, <1>2, <1>3 DEF Publisher, publish_begin, publish_end, publish_header, publish_media

\* Messages of others keep it; those that a bridge may take for segments are strays
LEMMA ForeignInv ==
    ASSUME IInv, NEW topic \in {"data", "control", "announce", "discovery"}, NEW s \in Streams,
           NEW form \in Forms(topic), Foreign(topic, s, form)
    PROVE  /\ IInv'
           /\ UNCHANGED <<published, strays, forwarded>> \/ \E n \in Numbers : Feed!Stray(n)
  <1> USE DEF bridgeVars, overlayButGossip
  <1>0. PICK n : n = Last + foreign'
    OBVIOUS
  <1> DEFINE m == Message(topic, s, n, form)
  <1>1. /\ UNCHANGED <<publisher, published, worker, events, loops, forwarded>>
        /\ foreign < MaxForeign /\ foreign' = foreign + 1
        /\ gossip' = gossip \cup {m}
        /\ strays' = IF form = "good" \/ (form = "corrupt" /\ topic = "control")
                     THEN strays \cup {n} ELSE strays
    BY <1>0 DEF Foreign
  <1>2. /\ foreign \in Nat /\ foreign' \in 0..MaxForeign
        /\ n \in Numbers /\ n \notin published /\ n \notin strays
        /\ n \in Last + 1 .. Last + MaxForeign
    BY <1>0, <1>1, NumberFacts DEF IInv, StrayInv, PublisherInv, Numbers
  <1>3. /\ m \in Messages /\ m.n = n /\ m.form = form /\ m.topic = topic
        /\ topic \in {"announce", "discovery"} => form = "garbage"
    BY <1>2 DEF Message, Messages, Forms
  <1> HIDE DEF m
  <1>4. PublisherInv' /\ OneHolder'
    BY <1>1 DEF IInv, PublisherInv, OneHolder
  <1>5. FeedTypes'
    BY <1>1, <1>3 DEF IInv, FeedTypes
  <1>6. StrayInv'
    <2>1. (\A l : Taken(l) => Taken(l)') /\ (Taken(m)' \/ Kept(m))
      BY <1>1, <1>3 DEF Taken, Kept, Forms
    <2>2. strays' \subseteq Last + 1 .. Last + foreign'
      BY <1>0, <1>1, <1>2, NumberFacts DEF IInv, StrayInv
    <2> QED
      BY <1>1, <1>2, <2>1, <2>2 DEF IInv, StrayInv, Kept
  <1>7. OnePlace'
    <2>1. ~Out(n) /\ \A i \in Numbers : Out(i)' <=> Out(i) \/ i = n
      BY <1>0, <1>1, <1>2, NumberFacts DEF Out, Numbers
    <2> QED
      BY <1>1, <1>3, <2>1, MessageSent DEF IInv
  <1>8. strays' = strays \/ Feed!Stray(n)
    BY <1>1, <1>2 DEF Feed!Stray
  <1> QED
    BY <1>1, <1>2, <1>4, <1>5, <1>6, <1>7, <1>8 DEF IInv

\* The bridge keeps it, and delivers what SegmentFeed allows
LEMMA BridgeStep ==
    ASSUME IInv, Bridge
    PROVE  /\ IInv'
           /\ UNCHANGED <<published, strays, forwarded>> \/ \E n \in Numbers : Feed!Deliver(n)
  <1> USE DEF pubVars, foreignVars, overlayVars
  <1>0. /\ UNCHANGED <<publisher, published, foreign, strays, gossip, worker>>
        /\ PublisherInv' /\ OneHolder'
    <2>1. UNCHANGED <<publisher, published, foreign, strays, gossip, worker>>
      BY DEF Bridge, bridge_stop, run, Loop, run_next, handle_event, next_event, subscribe_check,
             subscribe_topic, subscribe_to_stream, subscribe_insert, unsubscribe
    <2> QED
      BY <2>1 DEF IInv, PublisherInv, OneHolder
  <1>t. \A m : Taken(m)' <=> Taken(m)
    BY <1>0 DEF Taken
  <1>1. CASE \/ bridge_stop
             \/ \E s \in Streams : \/ subscribe_check(s) \/ subscribe_topic(s)
                                   \/ subscribe_insert(s) \/ unsubscribe(s)
    <2>1. UNCHANGED <<events, loops, forwarded>>
      BY <1>1 DEF bridge_stop, subscribe_check, subscribe_topic, subscribe_to_stream,
                  subscribe_insert, unsubscribe
    <2>2. FeedTypes' /\ StrayInv'
      BY <1>0, <1>t, <2>1 DEF IInv, FeedTypes, StrayInv
    <2>3. OnePlace'
      BY <1>0, <2>1, NothingMoves DEF IInv
    <2> QED
      BY <1>0, <2>1, <2>2, <2>3 DEF IInv
  <1>2. ASSUME NEW k \in Runs, run(k) PROVE IInv' /\ UNCHANGED <<published, strays, forwarded>>
    <2>1. UNCHANGED <<events, forwarded>>
      BY <1>2 DEF run
    <2>2. PICK at \in {"refused", "next"} : loops[k].at = "none" /\ LoopTo(k, at, NoEvent)
      BY <1>2 DEF run
    <2>3. FeedTypes'
      BY <1>0, <2>1, <2>2 DEF IInv, FeedTypes, LoopTo
    <2>4. \A l \in Runs : /\ loops'[l].at = "handle" <=> loops[l].at = "handle"
                          /\ loops'[l].at = "handle" => loops'[l] = loops[l]
      BY <2>2 DEF IInv, FeedTypes, LoopTo
    <2>5. \A n \in Numbers : /\ \A l \in Runs : AtLoop(l, n)' <=> AtLoop(l, n)
                             /\ Queued(n)' <=> Queued(n)
                             /\ AtWorker(n)' <=> AtWorker(n)
                             /\ OnItsWay(n)' <=> OnItsWay(n)
                             /\ Forwarded(n)' <=> Forwarded(n)
                             /\ Out(n)' <=> Out(n)
      BY <1>0, <2>1, <2>4 DEF AtLoop, Carries, Queued, AtWorker, OnItsWay, Forwarded, Out
    <2>6. \A n \in Numbers : Handled(n)' <=> Handled(n)
      BY <2>5 DEF Handled
    <2>7. OnePlace'
      BY <1>0, <2>1, <2>5, <2>6 DEF IInv, OnePlace, Carries
    <2>8. StrayInv'
      BY <1>0, <1>t, <2>1, <2>4 DEF IInv, StrayInv
    <2> QED
      BY <1>0, <2>1, <2>3, <2>7, <2>8 DEF IInv
  <1>3. ASSUME NEW k \in Runs, run_next(k) PROVE IInv' /\ UNCHANGED <<published, strays, forwarded>>
    <2>1. /\ loops[k].at = "next" /\ events # <<>> /\ events' = Tail(events)
          /\ LoopTo(k, "handle", Head(events)) /\ forwarded' = forwarded
      BY <1>3 DEF run_next, next_event
    <2>2. Head(events) \in Events /\ Tail(events) \in Seq(Events)
      BY <2>1 DEF IInv, FeedTypes
    <2>3. FeedTypes'
      BY <1>0, <2>1, <2>2 DEF IInv, FeedTypes, LoopTo
    <2>4. OnePlace'
      BY <1>0, <2>1, EventTaken DEF IInv
    <2>5. StrayInv'
      <3>1. /\ Len(events) \in Nat \ {0} /\ Len(events') = Len(events) - 1
            /\ \A i \in 1..Len(events') : events'[i] = events[i + 1]
            /\ Head(events) = events[1]
        BY <2>1 DEF IInv, FeedTypes
      <3>2. \A i \in 1..Len(events') : events'[i].kind = "StreamData" => Taken(events'[i].what)
        BY <3>1 DEF IInv, StrayInv
      <3>3. \A l \in Runs : loops'[l].at = "handle" /\ loops'[l].ev.kind = "StreamData"
                             => Taken(loops'[l].ev.what)
        BY <2>1, <3>1 DEF IInv, FeedTypes, StrayInv, LoopTo
      <3> QED
        BY <1>0, <1>t, <2>1, <3>2, <3>3 DEF IInv, StrayInv
    <2> QED
      BY <1>0, <2>1, <2>3, <2>4, <2>5 DEF IInv
  <1>4. ASSUME NEW k \in Runs, handle_event(k)
        PROVE  /\ IInv'
               /\ UNCHANGED <<published, strays, forwarded>> \/ \E n \in Numbers : Feed!Deliver(n)
    <2> DEFINE e == loops[k].ev
    <2>1. PICK at \in {"next", "ended"} : LoopTo(k, at, NoEvent)
      BY <1>4 DEF handle_event, Again
    <2>2. events' = events /\ e \in Events /\ loops[k].at = "handle"
      BY <1>4 DEF handle_event, IInv, FeedTypes
    <2>3. \/ UNCHANGED forwarded
          \/ \E n \in Numbers : /\ AtLoop(k, n) /\ forwarded' = Append(forwarded, n)
                                /\ n \in published \cup strays
      <3> SUFFICES ASSUME Decodes(e), forwarded' = Append(forwarded, e.what.n)
                   PROVE  \E n \in Numbers : /\ AtLoop(k, n) /\ forwarded' = Append(forwarded, n)
                                            /\ n \in published \cup strays
        BY <1>4 DEF handle_event
      <3>1. e.kind = "StreamData" /\ e.what.form # "garbage" /\ e.what \in Messages
        BY <2>2 DEF Events, Decodes
      <3>2. e.what.n \in Numbers /\ e.what.n \in published \cup strays
        BY <2>2, <3>1 DEF IInv, StrayInv, Taken, Messages
      <3> QED
        BY <2>2, <3>1, <3>2 DEF AtLoop, Carries
    <2>4. forwarded' \in Seq(Numbers)
      BY <2>3 DEF IInv, FeedTypes
    <2>5. FeedTypes'
      BY <1>0, <2>1, <2>2, <2>4 DEF IInv, FeedTypes, LoopTo
    <2>6. OnePlace'
      BY <1>0, <2>1, <2>2, <2>3, EventDone DEF IInv
    <2>7. \A n \in Numbers : AtLoop(k, n) /\ forwarded' = Append(forwarded, n)
                             /\ n \in published \cup strays => Feed!Deliver(n)
      BY <1>0 DEF IInv, OnePlace, Handled, Forwarded, Feed!Deliver
    <2>8. StrayInv'
      <3>1. \A l \in Runs : loops'[l].at = "handle" => loops'[l] = loops[l]
        BY <2>1 DEF IInv, FeedTypes, LoopTo
      <3> QED
        BY <1>0, <1>t, <2>2, <3>1 DEF IInv, StrayInv
    <2> QED
      BY <1>0, <2>3, <2>5, <2>6, <2>7, <2>8 DEF IInv
  <1> QED
    BY <1>1, <1>2, <1>3, <1>4 DEF Bridge, Loop

-----------------------------------------------------------------------------
\* Every step keeps the invariant and is a step of SegmentFeed or none at all.
LEMMA StepInv ==
    ASSUME IInv, [Next]_vars
    PROVE  IInv' /\ [Feed!FeedNext]_<<published, strays, forwarded>>
  <1>1. CASE (Worker \/ Control \/ Callers) /\ UNCHANGED <<pubVars, bridgeVars>>
    <2>1. IInv'
      BY <1>1, WorkerInv, OthersInv DEF Worker
    <2> QED
      BY <1>1, <2>1 DEF pubVars, foreignVars, bridgeVars
  <1>2. CASE Publisher
    BY <1>2, PublisherStep, NumberFacts DEF Feed!FeedNext
  <1>3. CASE bridge /\ Bridge
    BY <1>3, BridgeStep, NumberFacts DEF Feed!FeedNext
  <1>4. CASE Others
    BY <1>4, ForeignInv, NumberFacts DEF Others, Feed!FeedNext
  <1>5. CASE UNCHANGED vars
    <2>1. UNCHANGED <<worker, gossip, events, loops, forwarded, publisher, published, foreign,
                      strays>>
      BY <1>5 DEF vars, overlayVars, pubVars, foreignVars, bridgeVars
    <2>2. FeedTypes' /\ PublisherInv' /\ OneHolder' /\ StrayInv'
      BY <2>1 DEF IInv, FeedTypes, PublisherInv, OneHolder, StrayInv, Taken
    <2> QED
      BY <2>1, <2>2, NothingMoves DEF IInv
  <1> QED
    BY <1>1, <1>2, <1>3, <1>4, <1>5 DEF Next

\* The publisher, gossip that loses, reorders and carries what others send on the data
\* and the control topic, the overlay with any number of workers, and the bridge together
\* keep the promise of SegmentFeed: viewers get only published segments and strays, none
\* twice, strays have a right hash or came by the control topic, and media is published
\* only after the whole header.
THEOREM FeedRefined == Spec => FeedImplemented
  <1>1. Init => Feed!FeedInit
    BY DEF Init, Feed!FeedInit
  <1> QED
    BY <1>1, InitInv, StepInv, PTL DEF Spec, FeedImplemented, Feed!FeedSpec, Feed!feedVars

-----------------------------------------------------------------------------
Entries == [status : Statuses, addresses : BOOLEAN]

\* What becomes of an entry of the map
LEMMA EntryFacts ==
    ASSUME NEW x \in Entries
    PROVE  /\ Absent \in Entries /\ Absent.status # "Connected"
           /\ Disconnected(x) \in Entries /\ Disconnected(x).status # "Connected"
           /\ [x EXCEPT !.addresses = TRUE] \in Entries
           /\ [x EXCEPT !.addresses = TRUE].status = x.status
           /\ \A s \in Statuses : /\ [x EXCEPT !.status = s] \in Entries
                                 /\ [x EXCEPT !.status = s].status = s
  BY DEF Entries, Absent, Disconnected, Statuses

\* Who has the swarm is the only one that could see a connection change, until it is
\* done with the peer
Listed(p) ==
    peers[p].status = "Connected" =>
        conns[p] > 0 \/ \E w \in Workers : worker[w].at = "close" /\ worker[w].ev.what = p

\* The next worker to be spawned is not there yet
Fresh ==
    /\ starts \in Nat
    /\ \A w \in Workers : w > starts \/ (w = starts /\ ctl = "swarm") => worker[w].at = "gone"

ConnInv ==
    /\ peers \in [Peers -> Entries]
    /\ conns \in [Peers -> Nat]
    /\ ctl = "stopping" => stopped
    /\ ~stopped => \A w \in Workers :
          worker[w].at \in {"allow", "connect"} => conns[worker[w].ev.what] > 0
    /\ ~stopped => \A p \in Peers : Listed(p)
    /\ Fresh

LEMMA ConnInit == Init => ConnInv
  BY DEF Init, OverlayInit, ConnInv, Listed, Fresh, Absent, Statuses, Entries

LEMMA ConnWorker ==
    ASSUME FeedTypes, OneHolder, ConnInv, Worker
    PROVE  ConnInv'
  <1> USE DEF ctlVars, peerVars
  <1>0. UNCHANGED <<ctl, starts, stopped>>
    BY DEF Worker, worker_check, worker_lock, poll_timeout, is_peer_allowed, set_connected,
           set_disconnected, publish_chunk, emit, add_remove_subscriber, ConnectionEstablished,
           ConnectionClosed, PeerSubscription, handle_identify_event, handle_gossipsub_message, Poll
  <1> SUFFICES ASSUME NEW w \in Workers,
                      \/ worker_check(w) \/ worker_lock(w) \/ poll_timeout(w) \/ is_peer_allowed(w)
                      \/ set_connected(w) \/ set_disconnected(w)
                      \/ publish_chunk(w) \/ emit(w) \/ add_remove_subscriber(w)
                      \/ \E p \in Peers :
                            \/ ConnectionEstablished(w, p) \/ ConnectionClosed(w, p)
                            \/ PeerSubscription(w, p) \/ handle_identify_event(w, p)
                      \/ \E m \in gossip : handle_gossipsub_message(w, m)
               PROVE  ConnInv'
    BY DEF Worker
  <1>f. Fresh'
    <2>1. worker[w].at # "gone" /\ \A v \in Workers \ {w} : worker'[v] = worker[v]
      BY DEF FeedTypes, worker_check, worker_lock, poll_timeout, is_peer_allowed, set_connected,
           set_disconnected, publish_chunk, emit, add_remove_subscriber, ConnectionEstablished,
           ConnectionClosed, PeerSubscription, handle_identify_event, handle_gossipsub_message, Poll,
           WorkerTo, Done
    <2> QED
      BY <1>0, <2>1 DEF ConnInv, Fresh
  <1>1. CASE \/ worker_check(w) \/ worker_lock(w) \/ poll_timeout(w) \/ is_peer_allowed(w)
             \/ publish_chunk(w) \/ emit(w) \/ add_remove_subscriber(w)
    <2>1. UNCHANGED <<peers, conns>> /\ worker[w].at # "close"
      BY <1>1 DEF worker_check, worker_lock, poll_timeout, is_peer_allowed, publish_chunk, emit,
                  add_remove_subscriber
    <2>2. /\ worker'[w].at \in {"allow", "connect"} =>
                worker[w].at = "allow" /\ worker'[w].ev = worker[w].ev
          /\ \A v \in Workers \ {w} : worker'[v] = worker[v]
      BY <1>1 DEF FeedTypes, worker_check, worker_lock, poll_timeout, is_peer_allowed,
                  publish_chunk, emit, add_remove_subscriber, WorkerTo, Done
    <2>3. ~stopped => \A p \in Peers : Listed(p)'
      BY <2>1, <2>2 DEF ConnInv, Listed
    <2> QED
      BY <1>0, <1>f, <2>1, <2>2, <2>3 DEF ConnInv
  <1>2. CASE set_connected(w)
    <2> DEFINE q == worker[w].ev.what
    <2>1. /\ q \in Peers /\ worker[w].at = "connect" /\ conns' = conns /\ worker'[w].at = "check"
          /\ \A v \in Workers \ {w} : worker'[v] = worker[v]
      BY <1>2 DEF FeedTypes, set_connected, Done
    <2>2. ~stopped => conns[q] > 0
      BY <2>1 DEF ConnInv
    <2>3. /\ peers' \in [Peers -> Entries]
          /\ \A p \in Peers \ {q} : peers'[p] = peers[p]
      BY <1>2, <2>1, EntryFacts DEF ConnInv, set_connected, Statuses
    <2>4. ~stopped => \A p \in Peers : Listed(p)'
      BY <2>1, <2>2, <2>3 DEF ConnInv, Listed
    <2> QED
      BY <1>0, <1>f, <2>1, <2>3, <2>4 DEF ConnInv
  <1>3. CASE set_disconnected(w)
    <2> DEFINE q == worker[w].ev.what
    <2>1. /\ q \in Peers /\ worker[w].at = "close" /\ conns' = conns /\ worker'[w].at = "check"
          /\ \A v \in Workers \ {w} : worker'[v] = worker[v]
      BY <1>3 DEF FeedTypes, set_disconnected, Done
    <2>2. /\ peers' \in [Peers -> Entries] /\ peers'[q].status # "Connected"
          /\ \A p \in Peers \ {q} : peers'[p] = peers[p]
      BY <1>3, <2>1, EntryFacts DEF ConnInv, set_disconnected
    <2>3. ~stopped => \A p \in Peers : Listed(p)'
      BY <2>1, <2>2 DEF ConnInv, Listed
    <2> QED
      BY <1>0, <1>f, <2>1, <2>2, <2>3 DEF ConnInv
  <1>4. ASSUME NEW p \in Peers, ConnectionEstablished(w, p) \/ ConnectionClosed(w, p) PROVE ConnInv'
    <2>0. PICK at \in {"allow", "close"}, kind \in {"established", "closed"} :
             /\ worker[w].at = "poll" /\ peers' = peers
             /\ worker' = [worker EXCEPT ![w] = [at |-> at, ev |-> [kind |-> kind, what |-> p]]]
             /\ \/ at = "allow" /\ conns' = [conns EXCEPT ![p] = @ + 1]
                \/ at = "close" /\ conns[p] > 0 /\ conns' = [conns EXCEPT ![p] = @ - 1]
      BY <1>4 DEF ConnectionEstablished, ConnectionClosed, Poll
    <2>1. /\ worker[w].at = "poll" /\ peers' = peers
          /\ worker'[w].ev.what = p
          /\ \A v \in Workers \ {w} : worker'[v] = worker[v]
          /\ conns' \in [Peers -> Nat] /\ \A q \in Peers \ {p} : conns'[q] = conns[q]
          /\ worker'[w].at = "close" \/ (worker'[w].at = "allow" /\ conns'[p] > 0)
      <3>1. /\ worker'[w] = [at |-> at, ev |-> [kind |-> kind, what |-> p]]
            /\ \A v \in Workers \ {w} : worker'[v] = worker[v]
        BY <2>0 DEF FeedTypes
      <3>2. conns \in [Peers -> Nat]
        BY DEF ConnInv
      <3>3. /\ conns' \in [Peers -> Nat] /\ \A q \in Peers \ {p} : conns'[q] = conns[q]
            /\ at = "allow" => conns'[p] > 0
        BY <2>0, <3>2
      <3> QED
        BY <2>0, <3>1, <3>3
    <2>2. \A v \in Workers \ {w} : worker'[v].at \notin {"allow", "connect", "close"}
      BY <2>1 DEF OneHolder, Handling
    <2>3. \A v \in Workers : worker[v].at # "close"
      BY <2>1, <2>2
    <2>4. ~stopped => \A q \in Peers : Listed(q)'
      BY <2>1, <2>3 DEF ConnInv, Listed
    <2> QED
      BY <1>0, <1>f, <2>1, <2>2, <2>4 DEF ConnInv
  <1>5. ASSUME NEW p \in Peers, PeerSubscription(w, p) \/ handle_identify_event(w, p) PROVE ConnInv'
    <2>1. /\ peers' \in [Peers -> Entries] /\ \A q \in Peers : peers'[q].status = peers[q].status
          /\ conns' = conns /\ worker[w].at = "poll" /\ worker'[w].at \in {"subscriber", "check"}
          /\ \A v \in Workers \ {w} : worker'[v] = worker[v]
      <3> DEFINE e == [peers[p] EXCEPT !.addresses = TRUE]
      <3>1. e \in Entries /\ e.status = peers[p].status
        BY EntryFacts DEF ConnInv
      <3>2. peers' = peers \/ peers' = [peers EXCEPT ![p] = e]
        BY <1>5 DEF PeerSubscription, handle_identify_event
      <3> HIDE DEF e
      <3>3. /\ peers' \in [Peers -> Entries]
            /\ \A q \in Peers : peers'[q].status = peers[q].status
        BY <3>1, <3>2 DEF ConnInv
      <3> QED
        BY <1>5, <3>3 DEF FeedTypes, PeerSubscription, handle_identify_event, Poll
    <2>2. ~stopped => \A q \in Peers : Listed(q)'
      BY <2>1 DEF ConnInv, Listed
    <2> QED
      BY <1>0, <1>f, <2>1, <2>2 DEF ConnInv
  <1>6. ASSUME NEW m \in gossip, handle_gossipsub_message(w, m) PROVE ConnInv'
    <2>1. /\ UNCHANGED <<peers, conns>> /\ worker[w].at = "poll"
          /\ worker'[w].at \in {"check", "relay", "emit"}
          /\ \A v \in Workers \ {w} : worker'[v] = worker[v]
      BY <1>6 DEF FeedTypes, handle_gossipsub_message, Poll, Route, Verified
    <2>2. ~stopped => \A q \in Peers : Listed(q)'
      BY <2>1 DEF ConnInv, Listed
    <2> QED
      BY <1>0, <1>f, <2>1, <2>2 DEF ConnInv
  <1> QED
    BY <1>1, <1>2, <1>3, <1>4, <1>5, <1>6

LEMMA ConnControl ==
    ASSUME FeedTypes, ConnInv, Control
    PROVE  ConnInv'
  <1> USE DEF peerVars
  <1>1. UNCHANGED <<peers, conns>>
    BY DEF Control, run_swarm, start, stop, stop_abort
  <1>2. CASE run_swarm
    <2>1. /\ UNCHANGED <<worker, stopped>> /\ starts' = starts + 1 /\ ctl' = "swarm"
      BY <1>2 DEF run_swarm
    <2>2. Fresh'
      BY <2>1 DEF ConnInv, Fresh, Workers
    <2>3. \A p \in Peers : Listed(p) => Listed(p)'
      BY <1>1, <2>1 DEF Listed
    <2> QED
      BY <1>1, <2>1, <2>2, <2>3 DEF ConnInv
  <1>3. CASE start
    <2>1. /\ \A w \in Workers : worker'[w] = worker[w] \/ (w = starts /\ worker'[w].at = "check")
          /\ UNCHANGED stopped /\ ctl' = "idle" /\ ctl = "swarm"
          /\ starts' = starts
      BY <1>3 DEF FeedTypes, start
    <2>2. Fresh' /\ \A w \in Workers : w = starts => worker[w].at = "gone"
      BY <2>1 DEF ConnInv, Fresh
    <2>3. ~stopped => \A p \in Peers : Listed(p)'
      BY <1>1, <2>1, <2>2 DEF ConnInv, Listed
    <2> QED
      BY <1>1, <2>1, <2>2, <2>3 DEF ConnInv
  <1>4. CASE stop
    BY <1>1, <1>4 DEF ConnInv, Fresh, stop
  <1>5. CASE stop_abort
    BY <1>1, <1>5 DEF ConnInv, Fresh, stop_abort
  <1> QED
    BY <1>2, <1>3, <1>4, <1>5 DEF Control

LEMMA ConnCallers ==
    ASSUME FeedTypes, ConnInv, Callers
    PROVE  ConnInv'
  <1> USE DEF ctlVars, peerVars
  <1>1. UNCHANGED <<ctl, starts, stopped, worker, conns>>
    BY DEF Callers, relay_stream, subscribe_to_stream, unsubscribe_from_stream,
           publish_stream, stop_stream, connect_peer_impl, disconnect_peer_impl,
           finish_peer_impl, connect_peer_util, connect_peer, disconnect_peer, block
  <1>2. /\ peers' \in [Peers -> Entries]
        /\ \A p \in Peers : peers'[p].status = "Connected" => peers[p].status = "Connected"
    <2>1. CASE UNCHANGED peers
      BY <2>1 DEF ConnInv
    <2>2. ASSUME NEW p \in Peers, finish_peer_impl(p) \/ connect_peer_util(p)
                                  \/ connect_peer(p) \/ disconnect_peer(p)
          PROVE  \/ UNCHANGED peers
                 \/ \E e \in Entries : e.status # "Connected" /\ peers' = [peers EXCEPT ![p] = e]
      <3> DEFINE new == [status |-> "Connecting", addresses |-> TRUE]
      <3>1. /\ peers[p] \in Entries /\ new \in Entries /\ new.status # "Connected"
            /\ "Connecting" \in Statuses
        BY DEF ConnInv, Entries, Statuses
      <3> QED
        BY <2>2, <3>1, EntryFacts DEF finish_peer_impl, connect_peer_util, connect_peer,
                                      disconnect_peer
    <2>3. ASSUME NEW p \in Peers, NEW e \in Entries, e.status # "Connected",
                 peers' = [peers EXCEPT ![p] = e]
          PROVE  <1>2!1 /\ <1>2!2
      BY <2>3 DEF ConnInv
    <2> QED
      BY <2>1, <2>2, <2>3 DEF Callers, relay_stream, subscribe_to_stream, unsubscribe_from_stream,
           publish_stream, stop_stream, connect_peer_impl, disconnect_peer_impl, block
  <1> QED
    BY <1>1, <1>2 DEF ConnInv, Listed, Fresh

LEMMA ConnStep ==
    ASSUME IInv, ConnInv, [Next]_vars
    PROVE  ConnInv'
  <1> USE DEF overlayVars, ctlVars, peerVars
  <1>1. CASE Worker \/ Control \/ Callers
    BY <1>1, ConnWorker, ConnControl, ConnCallers DEF IInv
  <1>2. CASE ~(Worker \/ Control \/ Callers)
    <2>1. UNCHANGED <<ctl, starts, stopped, worker, peers, conns>>
      BY <1>2 DEF Next, Publisher, publish_begin, publish_header, publish_media, publish_end,
         Others, Foreign, overlayButGossip, Bridge, bridge_stop, run, Loop, run_next, handle_event,
         next_event, subscribe_check, subscribe_topic, subscribe_to_stream, subscribe_insert,
         unsubscribe, vars
    <2> QED
      BY <2>1 DEF ConnInv, Listed, Fresh
  <1> QED
    BY <1>1, <1>2

\* Until the overlay is first stopped, who is listed as connected has a connection or
\* is about to be taken off the list, for any number of peers and connections.
THEOREM AlwaysListedIsConnected == Spec => []ListedIsConnected
  <1>1. ConnInv => ListedIsConnected
    BY DEF ConnInv, Listed, ListedIsConnected
  <1> QED
    BY <1>1, InitInv, StepInv, ConnInit, ConnStep, PTL DEF Spec
=============================================================================
