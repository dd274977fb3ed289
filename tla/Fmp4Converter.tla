--------------------------- MODULE Fmp4Converter ---------------------------
(***************************************************************************)
(* FragmentedMp4Converter (core/src/media/fmp4_converter.rs): builds a     *)
(* moof + mdat fragment from frames and keeps the sequence number and the  *)
(* decode time of the next one. Sizes are real, since the run's data       *)
(* offset is computed from a formula and must point past the boxes that    *)
(* are really written. U32Max stands for 2^32 - 1.                         *)
(***************************************************************************)
EXTENDS RunningSums

CONSTANT U32Max

ASSUME U32Assumption == U32Max \in Nat

NewConverter == [sequence_number |-> 1, base_media_decode_time |-> 0]

FrameData(entry, is_keyframe, composition_offset) ==
    [size |-> entry.size, duration |-> entry.duration, is_keyframe |-> is_keyframe,
     composition_offset |-> composition_offset]

TotalDuration(frames) == SumOf([i \in 1..Len(frames) |-> frames[i].duration])
TotalSize(frames) == SumOf([i \in 1..Len(frames) |-> frames[i].size])

\* Version 0 keeps the low 32 bits of the decode time.
create_tfdt(conv) ==
    [size |-> 16, version |-> 0, time |-> conv.base_media_decode_time % (U32Max + 1)]
create_tfdt_auto(conv) ==
    IF conv.base_media_decode_time > U32Max
    THEN [size |-> 20, version |-> 1, time |-> conv.base_media_decode_time]
    ELSE create_tfdt(conv)

\* Written for the data offset, apart from the boxes themselves.
calculate_moof_size(conv, frames) == 8 + 16 + 8 + 16 + 16 + 8 + 12 + Len(frames) * 8
\* Mutant: the longer tfdt is forgotten
MoofSizeShortTfdt(conv, frames) == 8 + 16 + 8 + 16 + 16 + 8 + 12 + Len(frames) * 16
calculate_moof_size_v2(conv, frames) ==
    8 + 16 + 8 + 16 + (IF conv.base_media_decode_time > U32Max THEN 20 ELSE 16)
      + 8 + 12 + Len(frames) * 16

create_trun(conv, frames) ==
    [size |-> 8 + 12 + Len(frames) * 8, data_offset |-> calculate_moof_size(conv, frames) + 8,
     samples |-> [i \in 1..Len(frames) |-> [duration |-> frames[i].duration, size |-> frames[i].size]]]

SampleFlags(is_keyframe) == IF is_keyframe THEN "independent" ELSE "dependent non-sync"

create_trun_v2(conv, frames) ==
    [size |-> 8 + 12 + Len(frames) * 16, data_offset |-> calculate_moof_size_v2(conv, frames) + 8,
     samples |-> [i \in 1..Len(frames) |->
        [duration |-> frames[i].duration, size |-> frames[i].size,
         flags |-> SampleFlags(frames[i].is_keyframe), cts |-> frames[i].composition_offset]]]

create_mfhd(conv) == [size |-> 16, sequence |-> conv.sequence_number]
create_tfhd(track_id) == [size |-> 16, track |-> track_id, flags |-> {"default-base-is-moof"}]
create_traf(tfhd, tfdt, trun) ==
    [size |-> 8 + tfhd.size + tfdt.size + trun.size, tfhd |-> tfhd, tfdt |-> tfdt, trun |-> trun]
create_moof(mfhd, traf) == [size |-> 8 + mfhd.size + traf.size, mfhd |-> mfhd, traf |-> traf]
create_mdat(frames) == [size |-> 8 + TotalSize(frames)]

After(conv, frames) ==
    [sequence_number |-> conv.sequence_number + 1,
     base_media_decode_time |-> conv.base_media_decode_time + TotalDuration(frames)]

create_fragment(conv, frames, track_id) ==
    [moof |-> create_moof(create_mfhd(conv),
                          create_traf(create_tfhd(track_id), create_tfdt(conv),
                                      create_trun(conv, frames))),
     mdat |-> create_mdat(frames)]

create_fragment_v2(conv, frames, track_id) ==
    [moof |-> create_moof(create_mfhd(conv),
                          create_traf(create_tfhd(track_id), create_tfdt_auto(conv),
                                      create_trun_v2(conv, frames))),
     mdat |-> create_mdat(frames)]
=============================================================================
