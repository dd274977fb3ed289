------------------------------ MODULE Segments ------------------------------
(***************************************************************************)
(* StreamSegment, the form media has inside a node, as it is made from an  *)
(* MSE segment (core/src/media/segment.rs). Payloads are opaque.           *)
(***************************************************************************)
EXTENDS Integers

StreamSegment(stream, sequence, pts_us, duration_us, media_type, data, key, track) ==
    [stream_id |-> stream, sequence |-> sequence, pts_us |-> pts_us,
     duration_us |-> duration_us, media_type |-> media_type, data |-> data,
     is_keyframe |-> key, track_id |-> track]

\* The segment keeps the low byte of the track id.
AsU8(id) == id % 256

\* An MSE segment says what it is by its track id alone: 2 is audio.
from_mse_segment(mse, stream, sequence) ==
    StreamSegment(stream, sequence, mse.timestamp * 1000, mse.duration * 1000,
                  IF mse.segment_type = "initialization" THEN "init"
                  ELSE IF mse.track_id = 2 THEN "audio" ELSE "video",
                  mse.data, mse.is_keyframe, AsU8(mse.track_id))
=============================================================================
