-------------------------------- MODULE P2PFeed --------------------------------
(***************************************************************************)
(* A stream on its way from one node to the viewers of another: the        *)
(* StreamPublisher of the first (core/src/media/publisher.rs), gossip, the *)
(* overlay of the second (Libp2pOverlay) and its P2PBridge                 *)
(* (core/src/media/p2p_bridge.rs), which hands the segments to local       *)
(* receivers.                                                              *)
(*                                                                         *)
(* The publisher's own overlay is left out except for its answers: gossip  *)
(* refuses a message when no peer listens to the topic.  The stream        *)
(* consists of the metadata, one initialization segment and Media media    *)
(* segments.  Gossip also carries what other peers send on the stream's    *)
(* data and control topics: segments of their own, segments with a wrong   *)
(* hash and bytes that are no segment.                                     *)
(***************************************************************************)
EXTENDS Libp2pOverlay

CONSTANTS
    Stream,      \* the stream that is published, one of Streams
    Last,        \* number of its last segment; 1 is metadata, 2 initialization
    Runs,        \* calls of P2PBridge::run
    MaxStreams,  \* config.max_streams
    MaxForeign   \* bound: other messages

ASSUME FeedAssumption ==
    /\ Stream \in Streams /\ Last \in Nat /\ Last > 2 /\ MaxStreams \in Nat
    /\ MaxForeign \in Nat

VARIABLES
    bridge,       \* whether the node has a bridge
    publisher,    \* where publish_from_file is, its next segment
    published,    \* segments gossip has accepted
    foreign,      \* messages of other peers so far, numbered after Last
    strays,       \* history: those among them that a bridge may take for segments
    is_running,
    loops,        \* the calls of run: where each is, the event it handles
    subscribed,   \* subscribed_streams
    subs,         \* calls of subscribe between its checks and its insert
    forwarded     \* what went to segment_sender

foreignVars == <<foreign, strays>>
pubVars == <<publisher, published, foreignVars>>
bridgeVars == <<bridge, is_running, loops, subscribed, subs, forwarded>>
vars == <<overlayVars, pubVars, bridgeVars>>

Header == {1, 2}
Media == 3..Last
Segment(n) == [topic |-> "data", stream |-> Stream, n |-> n, form |-> "good"]

\* A node with a bridge or without; a publisher that has failed publishes nothing
Init ==
    /\ OverlayInit
    /\ bridge \in BOOLEAN
    /\ publisher \in [at : {"new", "failed"}, next : {1}]
    /\ published = {} /\ foreign \in 0..MaxForeign /\ strays = {}
    /\ is_running = FALSE
    /\ loops = [k \in Runs |-> [at |-> "none", ev |-> NoEvent]]
    /\ subscribed = {}
    /\ subs = [s \in Streams |-> "no"]
    /\ forwarded = <<>>

-----------------------------------------------------------------------------
(* StreamPublisher *)

overlayButGossip == <<ctlVars, worker, peerVars, topics, streams, relayVars, events,
                      polled, calls>>

\* publish_stream, subscribe_stream, reading and parsing; any of them may fail
publish_begin ==
    /\ publisher.at = "new"
    /\ \E at \in {"header", "failed"} : publisher' = [publisher EXCEPT !.at = at]
    /\ UNCHANGED <<overlayVars, published, foreignVars, bridgeVars>>

\* publish_segment
Send(n) ==
    /\ published' = published \cup {n}
    /\ gossip' = gossip \cup {Segment(n)}

\* The metadata and the initialization segment: a failure ends the publication,
\* and leaves the stream as it is in the overlay
publish_header ==
    /\ publisher.at = "header"
    /\ \/ /\ Send(publisher.next)
          /\ publisher' = [publisher EXCEPT !.next = @ + 1,
                              !.at = IF publisher.next = 2 THEN "media" ELSE "header"]
       \/ /\ publisher' = [publisher EXCEPT !.at = "failed"]
          /\ UNCHANGED <<published, gossip>>
    /\ UNCHANGED <<overlayButGossip, foreignVars, bridgeVars>>

\* A media segment that cannot be published is logged and left out
publish_media ==
    /\ publisher.at = "media" /\ publisher.next <= Last
    /\ Send(publisher.next) \/ UNCHANGED <<published, gossip>>
    /\ publisher' = [publisher EXCEPT !.next = @ + 1]
    /\ UNCHANGED <<overlayButGossip, foreignVars, bridgeVars>>

\* The last one is out, or a stop signal won the select; only a publication that
\* has come to its media listens to that signal
publish_end ==
    /\ publisher.at = "media"
    /\ publisher' = [publisher EXCEPT !.at = "done"]
    /\ UNCHANGED <<overlayVars, published, foreignVars, bridgeVars>>

-----------------------------------------------------------------------------
(* Gossip: external.  A lost message is one that stays on its way. *)

Message(topic, s, n, form) == [topic |-> topic, stream |-> s, n |-> n, form |-> form]

\* Somebody else's message: "good" and "corrupt" decode, the hash of "corrupt" is
\* wrong. Only on the data topic does anybody look at the hash.
Foreign(topic, s, form) ==
    /\ foreign < MaxForeign
    /\ foreign' = foreign + 1
    /\ gossip' = gossip \cup {Message(topic, s, Last + foreign', form)}
    /\ strays' = IF form = "good" \/ (form = "corrupt" /\ topic = "control")
                 THEN strays \cup {Last + foreign'} ELSE strays
    /\ UNCHANGED <<overlayButGossip, publisher, published, bridgeVars>>

\* What is on the other two topics is nobody's segment
Forms(topic) == IF topic \in {"data", "control"} THEN {"good", "corrupt", "garbage"} ELSE {"garbage"}
Others == \E topic \in {"data", "control", "announce", "discovery"}, s \in Streams :
              \E form \in Forms(topic) : Foreign(topic, s, form)

-----------------------------------------------------------------------------
(* P2PBridge *)

\* The two looks at subscribed_streams; the lock is not kept
subscribe_check(s) ==
    /\ subs[s] = "no" /\ s \notin subscribed
    /\ Cardinality(subscribed) < MaxStreams
    /\ subs' = [subs EXCEPT ![s] = "checked"]
    /\ UNCHANGED <<overlayVars, pubVars, bridge, is_running, loops, subscribed, forwarded>>

\* overlay.subscribe_stream
subscribe_topic(s) ==
    /\ subs[s] = "checked"
    /\ subscribe_to_stream(s)
    /\ subs' = [subs EXCEPT ![s] = "topic"]
    /\ UNCHANGED <<pubVars, bridge, is_running, loops, subscribed, forwarded>>

subscribe_insert(s) ==
    /\ subs[s] = "topic"
    /\ subscribed' = subscribed \cup {s}
    /\ subs' = [subs EXCEPT ![s] = "no"]
    /\ UNCHANGED <<overlayVars, pubVars, bridge, is_running, loops, forwarded>>

\* The topics stay subscribed
unsubscribe(s) ==
    /\ s \in subscribed
    /\ subscribed' = subscribed \ {s}
    /\ UNCHANGED <<overlayVars, pubVars, bridge, is_running, loops, subs, forwarded>>

LoopTo(k, at, ev) == loops' = [loops EXCEPT ![k] = [at |-> at, ev |-> ev]]

\* The condition of the loop
Again == IF is_running THEN "next" ELSE "ended"

run(k) ==
    /\ loops[k].at = "none"
    /\ LoopTo(k, IF is_running THEN "refused" ELSE "next", NoEvent)
    /\ is_running' = TRUE
    /\ UNCHANGED <<overlayVars, pubVars, bridge, subscribed, subs, forwarded>>

\* next_event; a loop that waits there does not see stop
run_next(k) ==
    /\ loops[k].at = "next"
    /\ next_event
    /\ LoopTo(k, "handle", Head(events))
    /\ UNCHANGED <<pubVars, bridge, is_running, subscribed, subs, forwarded>>

\* The hash is not looked at here
Decodes(e) == e.kind = "StreamData" /\ e.what.form # "garbage"

\* Mutant: whatever comes is handed on
ForwardAnything(k) ==
    /\ loops[k].at = "handle"
    /\ forwarded' = IF loops[k].ev.kind = "StreamData"
                    THEN Append(forwarded, loops[k].ev.what.n) ELSE forwarded
    /\ LoopTo(k, Again, NoEvent)
    /\ UNCHANGED <<overlayVars, pubVars, bridge, is_running, subscribed, subs>>

\* A segment of a subscribed stream goes on when somebody receives
handle_event(k) ==
    /\ loops[k].at = "handle"
    /\ LET e == loops[k].ev
       IN \/ /\ Decodes(e) /\ e.what.stream \in subscribed
             /\ forwarded' = Append(forwarded, e.what.n)
          \/ UNCHANGED forwarded
    /\ LoopTo(k, Again, NoEvent)
    /\ UNCHANGED <<overlayVars, pubVars, bridge, is_running, subscribed, subs>>

bridge_stop ==
    /\ is_running
    /\ is_running' = FALSE
    /\ UNCHANGED <<overlayVars, pubVars, bridge, loops, subscribed, subs, forwarded>>

-----------------------------------------------------------------------------
Publisher == publish_begin \/ publish_header \/ publish_media \/ publish_end
Loop(k) == run_next(k) \/ handle_event(k)
Bridge == \/ bridge_stop
          \/ \E k \in Runs : run(k) \/ Loop(k)
          \/ \E s \in Streams : \/ subscribe_check(s) \/ subscribe_topic(s)
                                \/ subscribe_insert(s) \/ unsubscribe(s)

Next ==
    \/ (Worker \/ Control \/ Callers) /\ UNCHANGED <<pubVars, bridgeVars>>
    \/ Publisher
    \/ bridge /\ Bridge
    \/ Others

\* The runtime runs the worker whenever it can go on
Spec == Init /\ [][Next]_vars /\ WF_vars(Worker /\ UNCHANGED <<pubVars, bridgeVars>>)

-----------------------------------------------------------------------------
\* The whole way, with lost and reordered messages, the messages of other peers,
\* several workers, aborted and restarted ones, and a bridge that is stopped and run
\* again, gives the viewers what SegmentFeed promises (publish_from_file,
\* handle_gossipsub_event, run): each segment of the publisher and each stray at most
\* once, and neither data that does not decode nor data whose hash is wrong, except by
\* the control topic, where nobody looks at the hash.
Feed == INSTANCE SegmentFeed WITH delivered <- forwarded, Strays <- Last + 1 .. Last + MaxForeign
FeedImplemented == Feed!FeedSpec
=============================================================================
