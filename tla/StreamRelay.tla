------------------------------ MODULE StreamRelay ------------------------------
(***************************************************************************)
(* What a relay keeps of one stream (core/src/overlay/relay/stream.rs): a  *)
(* bounded buffer of the latest chunks, a bounded list of the latest       *)
(* keyframes and the initialization segment, from which a viewer that      *)
(* joins late is served.                                                   *)
(*                                                                         *)
(* A chunk is a record with at least a sequence number seq and a kind:     *)
(* "init" (content type init or initialization), "key" (a video keyframe)  *)
(* or "delta" (anything else).  Nothing orders the arrival of chunks by    *)
(* their sequence numbers.                                                 *)
(***************************************************************************)
EXTENDS Integers, Sequences, SequencesExt, Sifting

CONSTANTS
    MaxBufferSize,    \* config.max_buffer_size (100)
    MaxKeyframes      \* DEFAULT_KEYFRAME_BUFFER_SIZE (3)

ASSUME BufferAssumption == MaxBufferSize \in Nat /\ MaxKeyframes \in Nat \ {0}

NewRelay == [subscribers |-> {}, buffer |-> <<>>, last_sequence |-> 0,
             init_segment |-> <<>>, keyframes |-> <<>>]

\* Mutant: one too many is kept
PushOneMore(s, x, n) ==
    LET t == Append(s, x) IN SubSeq(t, IF Len(t) > n + 1 THEN Len(t) - n ELSE 1, Len(t))

\* push_back, then pop_front until at most n are left
PushBounded(s, x, n) ==
    LET t == Append(s, x) IN SubSeq(t, IF Len(t) > n THEN Len(t) - n + 1 ELSE 1, Len(t))

add_chunk(r, c) ==
    [r EXCEPT
        !.last_sequence = IF c.seq > @ THEN c.seq ELSE @,
        !.init_segment = IF c.kind = "init" THEN <<c>> ELSE @,
        !.keyframes = IF c.kind = "key" THEN PushBounded(@, c, MaxKeyframes) ELSE @,
        !.buffer = PushBounded(@, c, MaxBufferSize)]

get_chunks_since(r, n) == Sifted(r.buffer, {c \in Range(r.buffer) : c.seq > n})

\* Mutant: starts from the oldest keyframe kept
CatchupFromOldest(r) ==
    IF r.keyframes = <<>> THEN r.init_segment
    ELSE r.init_segment \o <<Head(r.keyframes)>>
         \o get_chunks_since(r, Head(r.keyframes).seq)

get_catchup_chunks(r) ==
    IF r.keyframes = <<>> THEN r.init_segment
    ELSE r.init_segment \o <<Last(r.keyframes)>>
         \o get_chunks_since(r, Last(r.keyframes).seq)
=============================================================================
