----------------------------- MODULE StreamHistory -----------------------------
(***************************************************************************)
(* StreamRelay fed with every arrival order of up to MaxArrivals chunks,   *)
(* beside the whole history of what arrived.                               *)
(***************************************************************************)
EXTENDS StreamRelay

CONSTANTS SequenceNumbers,   \* sequence numbers a chunk may carry
          MaxArrivals   \* bound: length of the history

ASSUME HistoryAssumption == SequenceNumbers \subseteq Nat /\ MaxArrivals \in Nat

VARIABLES relay, history

ArrivingChunks == [seq : SequenceNumbers, kind : {"init", "key", "delta"}]

Arrive(c) ==
    /\ Len(history) < MaxArrivals
    /\ history' = Append(history, c)
    /\ relay' = add_chunk(relay, c)

StreamInit == relay = NewRelay /\ history = <<>>
StreamNext == \E c \in ArrivingChunks : Arrive(c)
StreamSpec == StreamInit /\ [][StreamNext]_<<relay, history>>

-----------------------------------------------------------------------------
\* The last n elements of s
Suffix(s, n) == SubSeq(s, IF Len(s) > n THEN Len(s) - n + 1 ELSE 1, Len(s))
OfKind(k) == Sifted(history, [seq : SequenceNumbers, kind : {k}])

\* Eviction forgets exactly the oldest: the buffer holds the latest
\* max_buffer_size chunks, the keyframe list the latest max_keyframes keyframes
\* and the initialization segment is the latest one, in the order of arrival.
KeepsLatest ==
    /\ relay.buffer = Suffix(history, MaxBufferSize)
    /\ relay.keyframes = Suffix(OfKind("key"), MaxKeyframes)
    /\ relay.init_segment = Suffix(OfKind("init"), 1)
    /\ \A c \in Range(history) : c.seq <= relay.last_sequence

\* What a late joiner is given, against "the most recent keyframe and all chunks
\* after it" (stream.rs:125): first the latest initialization segment and the latest
\* keyframe that ever arrived, then, in the order of arrival, the chunks numbered
\* after that keyframe without those among the evicted ones.  So the promise is
\* kept until one of these is evicted; from then on there is a gap behind the
\* keyframe.  Without a keyframe there is nothing to decode.
CatchupExact ==
    LET cat == get_catchup_chunks(relay)
        ini == Suffix(OfKind("init"), 1)
        key == Suffix(OfKind("key"), 1)
        given == SubSeq(cat, Len(ini \o key) + 1, Len(cat))
        Later == {c \in ArrivingChunks : c.seq > key[1].seq}
        evicted == SubSeq(history, 1, Len(history) - MaxBufferSize)
    IN IF key = <<>> THEN cat = ini
       ELSE /\ cat = ini \o key \o given
            /\ Sifted(history, Later) = Sifted(evicted, Later) \o given
=============================================================================
