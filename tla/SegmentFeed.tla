------------------------------ MODULE SegmentFeed ------------------------------
(***************************************************************************)
(* What a broadcast promises to those who watch a stream, whatever lies    *)
(* between its publisher and them: they are given only segments that were  *)
(* sent, none of them twice, and the publisher sends no media before the   *)
(* header (the metadata and the initialization segment) that it needs.     *)
(* Segments may be lost, and may come in another order. Nothing keeps      *)
(* other peers from sending segments too: these are strays.                *)
(***************************************************************************)
EXTENDS Naturals, Sequences

CONSTANTS
    Header,  \* numbers of the segments of the header
    Media,   \* numbers of the media segments
    Strays   \* numbers of segments of other peers

VARIABLES
    published,  \* numbers of the segments published
    strays,     \* numbers of the strays sent
    delivered   \* the segments handed to the viewers, in order

feedVars == <<published, strays, delivered>>

FeedInit == published = {} /\ strays = {} /\ delivered = <<>>

Publish(n) ==
    /\ n \in (Header \cup Media) \ published
    /\ n \in Media => Header \subseteq published
    /\ published' = published \cup {n}
    /\ UNCHANGED <<strays, delivered>>

Stray(n) ==
    /\ n \in Strays \ strays
    /\ strays' = strays \cup {n}
    /\ UNCHANGED <<published, delivered>>

Deliver(n) ==
    /\ n \in published \cup strays
    /\ \A i \in DOMAIN delivered : delivered[i] # n
    /\ delivered' = Append(delivered, n)
    /\ UNCHANGED <<published, strays>>

FeedNext == \E n \in Header \cup Media \cup Strays : Publish(n) \/ Stray(n) \/ Deliver(n)
FeedSpec == FeedInit /\ [][FeedNext]_feedVars
=============================================================================
