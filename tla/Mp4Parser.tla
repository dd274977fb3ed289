----------------------------- MODULE Mp4Parser -----------------------------
(***************************************************************************)
(* Mp4Parser (core/src/media/mp4_parser.rs): walks the top-level boxes of  *)
(* a file, then turns it into MSE segments, along one path for a file that *)
(* is already fragmented and another for one that is not, and into         *)
(* separate initialization segments for the video and the audio buffer of  *)
(* a browser.                                                              *)
(*                                                                         *)
(* A top-level box also has `bytes` (content length), `wide` (16-byte      *)
(* header with a 64-bit size) and `form`: "whole", "truncated", or         *)
(* "to_end" for the size 0 that means up to the end of the file. A box in  *)
(* a moof or a traf that is not whole is `tiny` (its size field is 1 to 7) *)
(* or not (the size is 0 or too large); what follows a tiny box is what a  *)
(* walk reads so many bytes further on.                                    *)
(***************************************************************************)
EXTENDS Mp4Tracks, Fmp4Converter, Segments

CONSTANTS
    Files,          \* the files a parser may be given
    StreamIds,      \* the stream the segments are for
    ChunkBytes,     \* 64 * 1024
    MaxBoxBytes     \* 100_000_000

\* The fields of a track the parser makes have the types of Mp4Track
TypedTracks(ts) ==
    /\ ts \in Seq(ToSet(ts))
    /\ \A t \in ToSet(ts) :
          /\ {t.timescale, t.duration} \subseteq Nat
          /\ t.sample_table # NoTable =>
                t.sample_table = <<t.sample_table[1]>> /\ t.sample_table[1] \in SampleTables

\* A box that holds boxes, down to the ones the parser rewrites or reads fields of
HasKids(b) == {"type", "whole", "kids"} \subseteq DOMAIN b /\ b.kids \in Seq(ToSet(b.kids))
HasTfhdFields(d) == {"type", "whole", "flags", "bytes"} \subseteq DOMAIN d /\ d.bytes \in Nat
HasRoom(d) == {d.bytes, d.room} \subseteq Nat /\ d.room >= 8 + d.bytes
TypedTrak(t) ==
    /\ HasKids(t)
    /\ \A c \in ToSet(t.kids) :
         /\ c.type = "tkhd" => HasRoom(c)
         /\ c.type = "mdia" =>
              HasKids(c) /\ \A d \in ToSet(c.kids) :
                  d.type = "hdlr" => HasRoom(d) /\ d.span \in Nat /\ d.span >= d.room
TypedBox(b) ==
    /\ HasKids(b)
    /\ \A c \in ToSet(b.kids) :
         /\ c.type = "trak" => TypedTrak(c)
         /\ c.type = "tfhd" => HasTfhdFields(c)
         /\ c.type \in {"traf", "mvex"} =>
              HasKids(c) /\ \A d \in ToSet(c.kids) :
                  /\ d.type = "tfhd" => HasTfhdFields(d)
                  /\ d.type = "trex" => HasRoom(d)

ASSUME FilesAssumption ==
    /\ ChunkBytes \in Nat \ {0}
    /\ \A f \in Files : f \in Seq(ToSet(f)) /\ \A b \in ToSet(f) :
          /\ b.bytes \in Nat /\ TypedBox(b)
          /\ b.type = "moov" => TypedTracks(parse_moov_box(b.kids))

VARIABLES
    file,                  \* the boxes of the file
    cursor,                \* the next one to read
    boxes, tracks, is_fragmented, mdat_payload_offset, fmp4_converter,
    outcome,               \* "reading", "parsed", "segmented", "error" or "panic"
    segments,              \* what generate_stream_segments returned
    mse,                   \* the MSE segments they were made from
    inits                  \* what generate_separate_init_segments returned

parserVars == <<file, cursor, boxes, tracks, is_fragmented, mdat_payload_offset,
                fmp4_converter, outcome, segments, mse, inits>>

NoInits == [video |-> <<>>, audio |-> <<>>]

Header(b) == IF b.wide THEN 16 ELSE 8
Position(n) == SumOf([i \in 1 .. n - 1 |-> Header(file[i]) + file[i].bytes])

ParserInit ==
    /\ file \in Files
    /\ cursor = 1
    /\ boxes = <<>> /\ tracks = <<>> /\ is_fragmented = FALSE
    /\ mdat_payload_offset = 0 /\ fmp4_converter = NewConverter
    /\ outcome = "reading"
    /\ segments = <<>> /\ mse = <<>> /\ inits = NoInits

-----------------------------------------------------------------------------
(* parse *)

\* A box is kept, a moof marks the file as fragmented, the last mdat gives the
\* payload's offset and every moov adds its tracks.
parse_box ==
    /\ outcome = "reading" /\ cursor <= Len(file)
    /\ LET b == file[cursor] IN
       /\ b.form = "whole"
       /\ boxes' = Append(boxes, b)
       /\ tracks' = IF b.type = "moov" THEN tracks \o parse_moov_box(b.kids) ELSE tracks
       /\ is_fragmented' = (is_fragmented \/ b.type = "moof")
       /\ mdat_payload_offset' = IF b.type = "mdat" THEN Position(cursor) + Header(b)
                                 ELSE mdat_payload_offset
    /\ cursor' = cursor + 1
    /\ UNCHANGED <<file, fmp4_converter, outcome, segments, mse, inits>>

\* The end of the file, or a box that cannot be read: what was read is kept.
parse_end ==
    /\ outcome = "reading"
    /\ cursor <= Len(file) => file[cursor].form = "truncated"
    /\ outcome' = "parsed"
    /\ UNCHANGED <<file, cursor, boxes, tracks, is_fragmented, mdat_payload_offset,
                   fmp4_converter, segments, mse, inits>>

\* The content size of a box of size 0 underflows.
parse_box_to_end ==
    /\ outcome = "reading" /\ cursor <= Len(file) /\ file[cursor].form = "to_end"
    /\ outcome' = "panic"
    /\ UNCHANGED <<file, cursor, boxes, tracks, is_fragmented, mdat_payload_offset,
                   fmp4_converter, segments, mse, inits>>

-----------------------------------------------------------------------------
(* Segments *)

Places(type) == {i \in 1..Len(boxes) : boxes[i].type = type}
LastBox(type) == boxes[Max(Places(type))]
serialize_box(b) == IF b.bytes + 8 > MaxBoxBytes THEN <<>> ELSE <<b>>

InitSegment(data) ==
    IF data = <<>> THEN <<>>
    ELSE << [segment_type |-> "initialization", data |-> data, timestamp |-> 0,
             duration |-> 0, is_keyframe |-> TRUE, track_id |-> 0, samples |-> {}] >>

MediaSegment(data, timestamp, duration, key, track, samples) ==
    [segment_type |-> "media", data |-> data, timestamp |-> timestamp, duration |-> duration,
     is_keyframe |-> key, track_id |-> track, samples |-> samples]

\* What a path through the parser gives, and what it fails with
Ok(made) == [outcome |-> "segmented", segments |-> made.segments, converter |-> made.converter]
Failed(how) == [outcome |-> how, segments |-> <<>>, converter |-> fmp4_converter]

Nothing(conv) == [segments |-> <<>>, converter |-> conv]

is_likely_keyframe(mdat, index) == index % 5 = 0 \/ mdat.parameter_sets

\* Relative addressing: the base-data-offset flag goes, its field stays. A tfhd
\* of less than 16 bytes is left alone.
fix_single_tfhd_flags(tfhd) ==
    IF tfhd.bytes < 8 THEN tfhd
    ELSE [tfhd EXCEPT !.flags = (@ \ {"base-data-offset"}) \cup {"default-base-is-moof"}]

\* Every tfhd the search reaches before a box that is not whole, in the moof and
\* in its trafs; the other boxes stay as they are. (It goes on behind a traf, where
\* it finds what the walk over the moof finds, and into mfhd, whose first field
\* reads as a size of 0.)
FixTraf(traf) ==
    [traf EXCEPT !.kids = [j \in DOMAIN @ |->
        IF j <= Len(Whole(@)) /\ @[j].type = "tfhd" THEN fix_single_tfhd_flags(@[j]) ELSE @[j]]]
fix_moof_tfhd_flags(kids) ==
    [i \in DOMAIN kids |->
        CASE i <= Len(Whole(kids)) /\ kids[i].type = "traf" -> FixTraf(kids[i])
          [] i <= Len(Whole(kids)) /\ kids[i].type = "tfhd" -> fix_single_tfhd_flags(kids[i])
          [] OTHER -> kids[i]]

\* The walks that put the decode time in pass over tiny boxes.
Passed(kids) == Until(kids, {i \in 1..Len(kids) : ~kids[i].whole /\ ~kids[i].tiny})

create_tfdt_box(time) == [type |-> "tfdt", whole |-> TRUE, time |-> time]

\* Mutant: a tfdt that is there keeps its time
KeepOldTfdt(traf, time) ==
    LET all  == Passed(traf.kids)
        tfhd == Among(all, "tfhd")
        rest == Sifted(all, {b \in ToSet(all) : b.type # "tfhd"})
    IN  [traf EXCEPT !.kids =
            (IF tfhd = <<>> THEN <<>> ELSE <<Last(tfhd)>>)
            \o (IF Among(all, "tfdt") # <<>> THEN <<>> ELSE <<create_tfdt_box(time)>>)
            \o rest]

\* tfhd first, then tfdt: a new one, or the old one replaced where it was.
ensure_traf_has_tfdt(traf, time) ==
    LET all  == Passed(traf.kids)
        tfhd == Among(all, "tfhd")
        rest == Sifted(all, {b \in ToSet(all) : b.type # "tfhd"})
        had  == Among(all, "tfdt") # <<>>
    IN  [traf EXCEPT !.kids =
            (IF tfhd = <<>> THEN <<>> ELSE <<Last(tfhd)>>)
            \o (IF had THEN <<>> ELSE <<create_tfdt_box(time)>>)
            \o [i \in 1..Len(rest) |-> IF rest[i].type = "tfdt" THEN create_tfdt_box(time)
                                       ELSE rest[i]]]

\* A tiny traf is an error.
HasTinyTraf(kids) ==
    \E i \in 1..Len(Passed(kids)) : Passed(kids)[i].type = "traf" /\ ~Passed(kids)[i].whole

ensure_moof_has_tfdt(kids, time) ==
    LET all == Passed(kids)
    IN  [i \in 1..Len(all) |->
            IF all[i].type = "traf" THEN ensure_traf_has_tfdt(all[i], time) ELSE all[i]]

\* An already fragmented file: ftyp and moov, then every moof that an mdat
\* follows. The fragments share the duration of the video track evenly.
FragmentedInit ==
    LET Part(b) == CASE b.type = "ftyp" -> serialize_box(b)
                     [] b.type = "moov" ->
                           IF HasAc3Codec(tracks)
                           THEN << [b EXCEPT !.kids = create_video_only_moov(@)] >>
                           ELSE serialize_box(b)
                     [] OTHER -> <<>>
    IN  FoldLeft(LAMBDA acc, b : acc \o Part(b), <<>>, boxes)

FrameDuration(timescale) ==
    LET video == FirstTrack(tracks, "vide")
        total == IF video = <<>> THEN 0 ELSE video[1].duration
        moofs == Cardinality(Places("moof"))
    IN  IF moofs > 0 /\ total > 0 THEN total \div moofs ELSE timescale \div 30

\* A moof and the mdat behind it
IsPair(i) == boxes[i].type = "moof" /\ i < Len(boxes) /\ boxes[i + 1].type = "mdat"

\* The segment of the pair at i, with `index` of them before it
PairSegment(i, index, frame, timescale) ==
    LET base == index * frame
        moof == ensure_moof_has_tfdt(fix_moof_tfhd_flags(boxes[i].kids), base)
    IN  MediaSegment([moof |-> moof, mdat |-> serialize_box(boxes[i + 1])],
                     (base * 1000) \div timescale, (frame * 1000) \div timescale,
                     is_likely_keyframe(boxes[i + 1], index), 1, {i})

PairsUpto(frame, timescale) ==
    LET made[i \in 0..Len(boxes)] ==
            IF i = 0 THEN <<>>
            ELSE LET before == made[i - 1] IN
                 IF IsPair(i) THEN Append(before, PairSegment(i, Len(before), frame, timescale))
                 ELSE before
    IN  made

extract_fragmented_segments ==
    LET video == FirstTrack(tracks, "vide")
        timescale == IF video = <<>> THEN 1000 ELSE video[1].timescale
        frame == FrameDuration(timescale)
        pairs == {i \in 1..Len(boxes) : IsPair(i)}
        tiny  == {i \in pairs : HasTinyTraf(boxes[i].kids)}
    IN  IF timescale = 0 /\ pairs # {}
        THEN Failed(IF Min(pairs) \in tiny THEN "error" ELSE "panic")
        ELSE IF tiny # {} THEN Failed("error")
        ELSE Ok([segments |-> InitSegment(FragmentedInit) \o PairsUpto(frame, timescale)[Len(boxes)],
                 converter |-> fmp4_converter])

\* The frames of a group of samples; audio samples are all sync samples
Frames(entries, g, sync) ==
    [i \in 1..(g.last - g.first + 1) |->
        LET s == entries[g.first + i - 1]
        IN  FrameData(s, s.is_keyframe \/ sync, IF sync THEN 0 ELSE s.composition_offset)]

AddFragment(acc, frames, track, g) ==
    [segments |-> Append(acc.segments,
                    MediaSegment(create_fragment_v2(acc.converter, frames, track.track_id),
                                 (acc.time * 1000) \div track.timescale, TotalDuration(frames),
                                 TRUE, track.track_id, g.first..g.last)),
     time |-> acc.time + TotalDuration(frames),
     converter |-> After(acc.converter, frames)]

\* One fragment per group of samples whose bytes are there; the others are
\* skipped and take no time.
FragmentsUpto(entries, groups, track, available, conv, sync) ==
    LET made[k \in 0..Len(groups)] ==
            IF k = 0 THEN [segments |-> <<>>, time |-> 0, converter |-> conv]
            ELSE LET before == made[k - 1] IN
                 IF GroupFits(entries, groups[k], mdat_payload_offset, available)
                 THEN AddFragment(before, Frames(entries, groups[k], sync), track, groups[k])
                 ELSE before
    IN  made
Fragments(entries, groups, track, available, conv, sync) ==
    FragmentsUpto(entries, groups, track, available, conv, sync)[Len(groups)]

\* A group whose slice panics, or a duration divided by a timescale of 0.
GroupsPanic(entries, groups, timescale, available) ==
    \E k \in 1..Len(groups) :
        \/ GroupPanics(entries, groups[k], mdat_payload_offset, available)
        \/ timescale = 0 /\ GroupFits(entries, groups[k], mdat_payload_offset, available)

Cut(entries, groups, track, available, conv, sync) ==
    IF GroupsPanic(entries, groups, track.timescale, available) THEN Failed("panic")
    ELSE Ok(Fragments(entries, groups, track, available, conv, sync))

\* Without a sample table the payload is cut into chunks of 64 KiB, each one
\* frame of one second.
LegacyFrame(k, available, timescale) ==
    [size |-> Min({ChunkBytes, available - (k - 1) * ChunkBytes}),
     duration |-> timescale, is_keyframe |-> k = 1, composition_offset |-> 0]
AddLegacy(acc, k, frame, track_id, timescale) ==
    [segments |-> Append(acc.segments,
                    MediaSegment(create_fragment(acc.converter, <<frame>>, track_id),
                                 (k - 1) * 1000, timescale, k = 1, track_id, {k})),
     converter |-> After(acc.converter, <<frame>>)]
LegacyUpto(n, available, track_id, timescale) ==
    LET made[k \in 0..n] ==
            IF k = 0 THEN Nothing(fmp4_converter)
            ELSE AddLegacy(made[k - 1], k, LegacyFrame(k, available, timescale), track_id, timescale)
    IN  made
LegacyChunks(available, track_id, timescale) ==
    LET n == (available + ChunkBytes - 1) \div ChunkBytes
    IN  Ok(LegacyUpto(n, available, track_id, timescale)[n])

\* The audio samples of the first audio track that has a table, with a
\* converter of their own.
CutAudio(entries, track, available) ==
    IF entries = <<>> THEN Ok(Nothing(NewConverter))
    ELSE Cut(entries, AudioChunks(entries, track.timescale), track, available, NewConverter, TRUE)

AudioFragments(audio, available) ==
    IF HasAc3Params(tracks) \/ audio = <<>> THEN Ok(Nothing(NewConverter))
    ELSE IF audio[1].sample_table = NoTable THEN Ok(Nothing(NewConverter))
    ELSE IF RunPanics(audio[1].sample_table[1]) THEN Failed("panic")
    ELSE CutAudio(resolve_sample_offsets(audio[1].sample_table[1]), audio[1], available)

CutVideo(entries, track, available) ==
    IF entries = <<>> THEN Failed("error")
    ELSE Cut(entries, Gops(entries), track, available, fmp4_converter, FALSE)

VideoFragments(video, available) ==
    IF video = <<>> THEN LegacyChunks(available, 1, 1000)
    ELSE IF video[1].sample_table = NoTable
         THEN LegacyChunks(available, video[1].track_id, video[1].timescale)
    ELSE IF RunPanics(video[1].sample_table[1]) THEN Failed("panic")
    ELSE CutVideo(resolve_sample_offsets(video[1].sample_table[1]), video[1], available)

\* The video first: the converter that is kept is the video's.
Joined(init, video, audio) ==
    IF video.outcome # "segmented" THEN video
    ELSE IF audio.outcome # "segmented" THEN audio
    ELSE [video EXCEPT !.segments = init \o @ \o audio.segments]

\* A file that is not fragmented: the last moov with mvex, then the payload of
\* the last mdat.
create_fragments_from_regular_mp4 ==
    LET ftyp == FoldLeft(LAMBDA acc, b : IF b.type = "ftyp" THEN acc \o serialize_box(b) ELSE acc,
                         <<>>, boxes)
        init == InitSegment(Append(ftyp,
                    [LastBox("moov") EXCEPT !.kids = create_mse_compatible_moov(@, tracks)]))
        payload == IF Places("mdat") = {} THEN 0 ELSE LastBox("mdat").bytes
    IN  IF Places("moov") = {} THEN Failed("error")
        ELSE IF payload = 0 THEN Ok([segments |-> init, converter |-> fmp4_converter])
        ELSE Joined(init, VideoFragments(FirstTrack(tracks, "vide"), payload),
                    AudioFragments(FirstTrack(tracks, "soun"), payload))

generate_mse_segments ==
    IF is_fragmented THEN extract_fragmented_segments ELSE create_fragments_from_regular_mp4

generate_stream_segments(stream) ==
    /\ outcome = "parsed"
    /\ \E r \in {generate_mse_segments} :
       /\ outcome' = r.outcome
       /\ mse' = r.segments
       /\ segments' = [i \in 1..Len(r.segments) |-> from_mse_segment(r.segments[i], stream, i - 1)]
       /\ fmp4_converter' = r.converter
    /\ UNCHANGED <<file, cursor, boxes, tracks, is_fragmented, mdat_payload_offset, inits>>

\* Refused without ftyp, moov or a video track. A trak that ends in the middle of
\* its handler panics.
generate_separate_init_segments ==
    /\ outcome \in {"parsed", "segmented"} /\ inits = NoInits
    /\ Places("ftyp") # {} /\ Places("moov") # {} /\ HasTrack(tracks, "vide")
    /\ LET moov == LastBox("moov")
           Only(type) == serialize_box(LastBox("ftyp"))
                         \o << [moov EXCEPT !.kids = filter_moov_for_track_type(@, type)] >>
       IN  IF \E t \in ToSet(OfType(moov.kids, "trak")) : HandlerPanics(t)
           THEN outcome' = "panic" /\ inits' = inits
           ELSE /\ inits' = [video |-> Only("vide"),
                             audio |-> IF HasTrack(tracks, "soun") THEN Only("soun") ELSE <<>>]
                /\ outcome' = outcome
    /\ UNCHANGED <<file, cursor, boxes, tracks, is_fragmented, mdat_payload_offset,
                   fmp4_converter, segments, mse>>

ParserNext ==
    \/ parse_box \/ parse_end \/ parse_box_to_end
    \/ \E stream \in StreamIds : generate_stream_segments(stream)
    \/ generate_separate_init_segments

ParserSpec == ParserInit /\ [][ParserNext]_parserVars

-----------------------------------------------------------------------------
(* Properties *)

Tables == UNION {ToSet(tracks[i].sample_table) : i \in DOMAIN tracks}

\* Where the chunks of a table say its samples are
ChunkOf(t, i) ==
    LET upto == Sums(SamplesPerChunk(t), Len(t.chunk_offsets))
    IN  CHOOSE c \in 1..Len(t.chunk_offsets) : upto[c - 1] < i /\ i <= upto[c]
InPlace(t, e) ==
    /\ Len(e) = Min({Len(t.sample_sizes), Sums(SamplesPerChunk(t), Len(t.chunk_offsets))[Len(t.chunk_offsets)]})
    /\ \A i \in 1..Len(e) :
         /\ e[i].size = t.sample_sizes[i]
         /\ e[i].offset = IF i > 1 /\ ChunkOf(t, i) = ChunkOf(t, i - 1)
                          THEN e[i - 1].offset + e[i - 1].size
                          ELSE t.chunk_offsets[ChunkOf(t, i)]

\* Resolving a sample table (resolve_sample_offsets) finds the samples where the
\* file has them: as many as both the size table and the chunks can account for,
\* the first of each chunk at the chunk's offset and every other right behind its
\* predecessor, each with its own size, even when a table was cut short.
SamplesWhereTheyAre ==
    \A t \in Tables : ~RunPanics(t) => InPlace(t, resolve_sample_offsets(t))

\* The media segments of a track, and of those up to each segment the number and the
\* total duration
OfTrack(ms, id) == {p \in 1..Len(ms) : ms[p].segment_type = "media" /\ ms[p].track_id = id}
Counted(ms, id) == Sums([p \in 1..Len(ms) |-> IF p \in OfTrack(ms, id) THEN 1 ELSE 0], Len(ms))
Elapsed(ms, id) == Sums([p \in 1..Len(ms) |-> IF p \in OfTrack(ms, id) THEN ms[p].duration ELSE 0], Len(ms))

Regular == outcome = "segmented" /\ ~is_fragmented
TabledTrack(type) == {t \in ToSet(FirstTrack(tracks, type)) : t.sample_table # NoTable}
DistinctIds == \A i, j \in 1..Len(tracks) : tracks[i].track_id = tracks[j].track_id => i = j

\* The samples of the segments `ms` at places P are disjoint runs in order, each starts at the
\* first sample or at a key frame and holds no other
AreGops(ms, P, e) ==
    \A p \in P : \E a, b \in 1..Len(e) :
        /\ a <= b /\ ms[p].samples = a..b
        /\ a = 1 \/ e[a].is_keyframe
        /\ \A i \in a + 1 .. b : ~e[i].is_keyframe
        /\ \A q \in P : q < p => \A i \in ms[q].samples : i < a

\* The video is cut before every key frame and nowhere else: the media segments of
\* the video track are disjoint runs of samples in order, each starts at the first
\* sample or at a key frame and holds no other key frame, and a sample is left out
\* only together with its whole group, because a sample of that group lies outside
\* the payload. (The samples before the first key frame make a segment that does
\* not start at one, though mp4_parser.rs:1980 says that each does.)
SegmentsAreGops ==
    (Regular /\ DistinctIds /\ Places("mdat") # {} /\ LastBox("mdat").bytes > 0) =>
        \A track \in TabledTrack("vide") :
            LET e == resolve_sample_offsets(track.sample_table[1])
                P == OfTrack(mse, track.track_id)
                Lost(j) == \/ e[j].offset < mdat_payload_offset
                           \/ e[j].offset + e[j].size > mdat_payload_offset + LastBox("mdat").bytes
                SameGop(i, j) == \A k \in 2..Len(e) :
                                    (i < k /\ k <= j) \/ (j < k /\ k <= i) => ~e[k].is_keyframe
            IN  /\ AreGops(mse, P, e)
                /\ \A i \in 1..Len(e) :
                     (\A p \in P : i \notin mse[p].samples)
                         <=> \E j \in 1..Len(e) : Lost(j) /\ SameGop(i, j)

\* The fragments of a track form one gapless timeline: their sequence numbers
\* count from 1, each decode time is the total duration of the fragments before
\* it and agrees with the segment's timestamp, and every data offset points just
\* past the boxes written before the payload, also when the decode time no longer
\* fits 32 bits.
TimelineContiguous ==
    (Regular /\ DistinctIds /\ TabledTrack("vide") # {}) =>
        \A track \in TabledTrack("vide") \cup TabledTrack("soun") :
        \A p \in OfTrack(mse, track.track_id) :
            LET f == mse[p].data
                samples == f.moof.traf.trun.samples
                before == Elapsed(mse, track.track_id)[p - 1]
            IN  /\ f.moof.mfhd.sequence = Counted(mse, track.track_id)[p]
                /\ f.moof.traf.tfdt.time = before
                /\ mse[p].timestamp = (before * 1000) \div track.timescale
                /\ f.moof.traf.trun.data_offset = f.moof.size + 8
                /\ f.mdat.size = 8 + SumOf([j \in 1..Len(samples) |-> samples[j].size])

\* The ids that the trex of the last mvex among `kids` name
TrexIds(kids) ==
    LET mvex == OfType(kids, "mvex")
    IN  IF mvex = <<>> THEN {}
        ELSE {b.id : b \in {x \in ToSet(OfType(Last(mvex).kids, "trex")) : x.bytes >= 8}}

\* A trak with one header, one media box and one handler in it, of which the parser
\* makes a track
WellFormed(trak) ==
    LET tkhd == OfType(trak.kids, "tkhd")
        mdia == OfType(trak.kids, "mdia")
    IN  /\ Len(tkhd) = 1 /\ tkhd[1].bytes >= 16
        /\ Len(mdia) = 1 /\ Len(OfType(mdia[1].kids, "hdlr")) = 1
        /\ IsTrack(Seen(trak.kids))

\* The id and the type that parse_trak_box gives the track
ParsedId(trak) == TrackId(Seen(trak.kids))
ParsedType(trak) == HandlerType(Seen(trak.kids))

\* A moov with the boxes `new` is what one with the boxes `old` says of the tracks of one type
SplitsOff(old, new, type) ==
    LET traks == OfType(old, "trak")
        kept  == {t \in ToSet(traks) : ParsedType(t) = type}
        Other(kids) == Sifted(Whole(kids), {b \in ToSet(Whole(kids)) : b.type \notin {"trak", "mvex"}})
    IN  (\A t \in ToSet(traks) : WellFormed(t)) =>
            /\ OfType(new, "trak") = Sifted(traks, kept)
            /\ TrexIds(new) = TrexIds(old) \cap {ParsedId(t) : t \in kept}
            /\ Other(new) = Other(old)

\* The parser and the splitter read the handler and the id of a trak with different
\* code, one to list the tracks, the other to make an initialization segment for each
\* kind. Where the traks are well formed they agree: the segment of a kind has exactly
\* the traks that the parser listed as that kind, in order, its mvex names exactly
\* those of their ids that it named before, and the other boxes of the moov stay.
InitsSplitTheTracks ==
    inits # NoInits =>
        /\ SplitsOff(LastBox("moov").kids, Last(inits.video).kids, "vide")
        /\ inits.audio # <<>> => SplitsOff(LastBox("moov").kids, Last(inits.audio).kids, "soun")

\* What becomes of a traf (old: the boxes in it, new: those that are sent): its last
\* tfhd comes first and keeps its flags other than the two on addressing, it is
\* relative when it is long enough and no tiny box hides it, every tfdt has the new
\* time and there is one, and the samples of the runs are kept in order.
Retimed(old, new, time, hidden) ==
    LET all  == Passed(old)
        tfhd == Among(all, "tfhd")
        tfdt == Among(new, "tfdt")
        Addressing == {"base-data-offset", "default-base-is-moof"}
        Samples(bs) == [i \in 1..Len(Among(bs, "trun")) |-> Among(bs, "trun")[i].samples]
    IN  /\ tfhd # <<>> =>
              /\ new[1].type = "tfhd"
              /\ new[1].flags \ Addressing = Last(tfhd).flags \ Addressing
              /\ (~hidden /\ Whole(old) = all /\ Last(tfhd).bytes >= 8) =>
                    new[1].flags \cap Addressing = {"default-base-is-moof"}
        /\ tfdt # <<>> /\ \A d \in ToSet(tfdt) : d.time = time
        /\ Len(Among(all, "tfdt")) <= 1 => Len(tfdt) = 1
        /\ Samples(new) = Samples(all)

\* The fragments of an already fragmented file get their place on one timeline,
\* whatever the time in the file: the segments are the moofs with an mdat behind them,
\* all of them and in the order of the file, each traf is retimed to the fragment's
\* place, and the timestamps rise by the fragment duration. (That the moof grows by
\* the tfdt while the runs keep their data_offset is not part of it.)
FragmentsRetimed ==
    (outcome = "segmented" /\ is_fragmented) =>
        LET video == FirstTrack(tracks, "vide")
            timescale == IF video = <<>> THEN 1000 ELSE video[1].timescale
            P == OfTrack(mse, 1)
        IN  /\ \A i \in 1..Len(boxes) : IsPair(i) => \E p \in P : mse[p].samples = {i}
            /\ \A p \in P :
                 LET base == (Counted(mse, 1)[p] - 1) * FrameDuration(timescale)
                     at   == Max(mse[p].samples)
                     old  == Passed(file[at].kids)
                     new  == mse[p].data.moof
                 IN  /\ file[at].type = "moof" /\ file[at + 1].type = "mdat"
                     /\ Len(new) = Len(old)
                     /\ \A k \in 1..Len(old) :
                          /\ new[k].type = old[k].type
                          /\ old[k].type = "traf" =>
                               Retimed(old[k].kids, new[k].kids, base, old # Whole(file[at].kids))
                          /\ old[k].type \notin {"traf", "tfhd"} => new[k] = old[k]
                     /\ mse[p].timestamp = (base * 1000) \div timescale
                     /\ \A q \in P : q < p => Max(mse[q].samples) < at
=============================================================================
