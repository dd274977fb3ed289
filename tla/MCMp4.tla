------------------------------- MODULE MCMp4 -------------------------------
(***************************************************************************)
(* Mp4Parser over five families of small files: sample tables, a video     *)
(* with an audio track, tracks, fragmented files and unusual structure.    *)
(***************************************************************************)
EXTENDS Mp4Parser, TLC

-----------------------------------------------------------------------------
(* Building blocks *)

Leaf(type, fields) == [type |-> type, whole |-> TRUE] @@ fields
Node(type, kids) == [type |-> type, whole |-> TRUE, kids |-> kids]
Top(type, bytes) == [type |-> type, whole |-> TRUE, wide |-> FALSE, form |-> "whole",
                     bytes |-> bytes, kids |-> <<>>, parameter_sets |-> FALSE]
Moov(kids) == [Top("moov", 8) EXCEPT !.kids = kids]
Ftyp == Top("ftyp", 4)
Mdat(bytes) == Top("mdat", bytes)

\* A table box of which the last `cut` entries are missing from the content.
Table(type, header, width, entries, cut) ==
    Leaf(type, [count |-> Len(entries), bytes |-> header + width * (Len(entries) - cut),
                default_size |-> 0, entries |-> entries])
FixedSizes(size, count) ==
    Leaf("stsz", [count |-> count, bytes |-> 12, default_size |-> size, entries |-> <<>>])

Stbl(format, sizes, durations, runs, offsets, syncs) ==
    Node("stbl", <<Leaf("stsd", [bytes |-> 90, format |-> format]), sizes,
                   Table("stts", 8, 8, durations, 0), Table("stsc", 8, 12, runs, 0),
                   Table("stco", 8, 4, offsets, 0), Table("stss", 8, 4, syncs, 0)>>)

Tkhd(id, version) == Leaf("tkhd", [bytes |-> 84, room |-> 200, version |-> version, id |-> id])
Mdhd(timescale, version) ==
    Leaf("mdhd", [bytes |-> 24, version |-> version, timescale |-> timescale,
                  duration |-> 40, modified |-> 7])
Hdlr(handler) == Leaf("hdlr", [bytes |-> 25, room |-> 60, span |-> 60, pre_defined |-> "", handler |-> handler])
Trak(id, version, timescale, handler, minf) ==
    Node("trak", <<Tkhd(id, version),
                   Node("mdia", <<Mdhd(timescale, 0), Hdlr(handler), Node("minf", minf)>>)>>)

Run(count, value) == [count |-> count, value |-> value]
Chunk(first, per) == [first_chunk |-> first, samples_per_chunk |-> per]

-----------------------------------------------------------------------------
(* Sample tables. ftyp and moov take 28 bytes, so the payload starts at 36. *)

Sizes == {Table("stsz", 12, 4, <<1, 2, 1, 3>>, cut) : cut \in 0..1} \cup {FixedSizes(2, 4)}
ChunkRuns == {<<Chunk(1, 2)>>, <<Chunk(1, 1), Chunk(2, 3)>>, <<Chunk(2, 2)>>,
              <<Chunk(1, 2), Chunk(3, 1)>>, <<Chunk(1, 2), Chunk(0, 1)>>}
Offsets == {<<36, 40>>, <<36, 39, 43>>, <<40, 36>>}
Syncs == {<<>>, <<1, 3>>, <<2>>, <<1, 2, 4>>}
Durations == {<<Run(4, 10)>>, <<Run(2, 10), Run(2, 5)>>, <<Run(1, 7)>>}

TableFiles ==
    {<<Ftyp, Moov(<<Trak(1, 0, 600, "vide",
                        <<Stbl("avc1", sz, du, ru, ofs, sy)>>)>>), Mdat(bytes)>> :
        sz \in Sizes, du \in Durations, ru \in ChunkRuns, ofs \in Offsets, sy \in Syncs,
        bytes \in {6, 8}}

\* Both tracks in one payload, the audio in chunks of two samples.
AudioFiles ==
    {<<Ftyp, Moov(<<Trak(v, 0, 600, "vide",
                        <<Stbl("avc1", FixedSizes(2, 2), <<Run(2, 10)>>, <<Chunk(1, 2)>>, <<36>>, <<1>>)>>),
                    Trak(a, 0, rate, "soun",
                        <<Stbl(e, FixedSizes(1, n), du, <<Chunk(1, n)>>, <<40>>, <<>>)>>)>>),
       Mdat(bytes)>> :
        v \in {1, 3}, a \in {2, 4}, rate \in {40, 4}, n \in {1, 4}, bytes \in {7, 8},
        e \in {"mp4a", "ac-3"}, du \in {<<Run(4, 10)>>, <<Run(4, 0)>>}}

-----------------------------------------------------------------------------
(* Tracks *)

SmallTable(format) == Stbl(format, FixedSizes(1, 2), <<Run(2, 10)>>, <<Chunk(1, 2)>>, <<36>>, <<>>)
Minfs == {<<SmallTable("avc1")>>, <<SmallTable("hvc1")>>, <<SmallTable("mp4a")>>, <<>>}
Mvex(ids) == Node("mvex", [i \in 1..Len(ids) |-> create_trex_box(ids[i])])
HandlerLast(id, handler) ==
    Node("trak", <<Tkhd(id, 0), Node("mdia", <<Node("minf", <<SmallTable("avc1")>>), Hdlr(handler)>>)>>)
OldClock(id) ==
    Node("trak", <<Tkhd(id, 0), Node("mdia", <<Mdhd(600, 1), Hdlr("vide"),
                                               Node("minf", <<SmallTable("avc1")>>)>>)>>)
Broken(trak) == [trak EXCEPT !.whole = FALSE]

\* A handler box cut to so many bytes, with so many left in its mdia and in the trak;
\* a track header too short to be read or to be skipped once; two of both
ShortHdlr(bytes, room, span) == [Hdlr("soun") EXCEPT !.bytes = bytes, !.room = room, !.span = span]
ShortTkhd(bytes, room, skewed) ==
    Leaf("tkhd", [bytes |-> bytes, room |-> room, version |-> 0, id |-> 2, skewed |-> skewed])
Sound(tkhd, hdlr) == Node("trak", tkhd \o <<Node("mdia", <<Mdhd(600, 0)>> \o hdlr)>>)
ShortTraks ==
    {Sound(<<Tkhd(2, 0)>>, <<ShortHdlr(bytes, room, span)>> \o more) :
        bytes \in {4, 8}, room \in {16, 18, 33}, span \in {33}, more \in {<<>>, <<Hdlr("vide")>>}}
    \cup {Sound(<<Tkhd(2, 0)>>, <<ShortHdlr(4, 12, 12)>> \o more) : more \in {<<>>, <<Hdlr("soun")>>}}
    \cup {Sound(<<Tkhd(2, 0)>>, <<ShortHdlr(8, room, span)>>) : room \in {16, 18}, span \in {18, 20}}
    \cup {Sound(<<ShortTkhd(bytes, room, skewed), Tkhd(3, 0)>>, <<Hdlr("soun")>>) :
            bytes \in {8, 12}, room \in {22, 200}, skewed \in {<<>>, <<Tkhd(2, 0)>>}}
Traks == {Trak(id, version, 1000, h, minf) :
             id \in 2..3, version \in 0..1, h \in {"vide", "soun"}, minf \in Minfs}
         \cup {HandlerLast(2, "vide"), OldClock(2), Broken(Trak(2, 0, 1000, "soun", <<>>))}
         \cup {t \in ShortTraks : TypedTrak(t)}
TrackFiles ==
    {<<Ftyp, Moov(<<first, second>> \o mvex), Mdat(2)>> :
        first \in {Trak(1, 0, 1000, "vide", <<SmallTable("avc1")>>), HandlerLast(1, "vide"), OldClock(1)},
        second \in Traks, mvex \in {<<>>, <<Mvex(<<1, 2>>)>>, <<Mvex(<<2>>), Node("udta", <<>>)>>}}

-----------------------------------------------------------------------------
(* Fragmented files *)

Tfhd(flags) == Leaf("tfhd", [flags |-> flags, bytes |-> 16])
Trun == Leaf("trun", [samples |-> <<7, 9>>])
Trafs == {<<Tfhd({"base-data-offset"}), Trun>>, <<Tfhd({"default-base-is-moof"}), create_tfdt_box(9), Trun>>,
          <<create_tfdt_box(9), Tfhd({}), Trun>>, <<Tfhd({}), Trun, Trun>>}
Mfhd == Leaf("mfhd", [sequence |-> 1])
Moof(traf) == [Top("moof", 40) EXCEPT !.kids = <<Mfhd, Node("traf", traf)>>]

\* Without tfhd, with two of them, with a short one, with two tfdt, with a run that is
\* cut off, and with a tiny box
Bad(b, tiny) == [b EXCEPT !.whole = FALSE] @@ [tiny |-> tiny]
OddTrafs == {<<Trun>>, <<Tfhd({"duration"}), Tfhd({"size", "base-data-offset"}), Trun>>,
             <<[Tfhd({"base-data-offset"}) EXCEPT !.bytes = 4], Trun>>,
             <<Tfhd({}), create_tfdt_box(3), create_tfdt_box(9), Trun>>,
             <<Tfhd({}), Trun, Bad(Trun, FALSE), create_tfdt_box(9)>>,
             <<Bad(Mfhd, TRUE), Tfhd({"base-data-offset"}), Trun, Bad(create_tfdt_box(9), TRUE)>>}
OddMoof(first, traf) == [Top("moof", 40) EXCEPT !.kids = <<first, Node("traf", traf)>>]
Firsts == {Node("traf", <<Tfhd({}), Trun>>), Bad(Node("traf", <<>>), FALSE), Bad(Node("traf", <<>>), TRUE),
           Bad(Mfhd, TRUE), Tfhd({"base-data-offset"})}
Ac3 == Trak(2, 0, 1000, "soun", <<SmallTable("ac-3")>>)
FragmentedFiles ==
    {<<Ftyp, Moov(<<Trak(1, 0, 10, "vide", <<SmallTable("avc1")>>)>> \o sound)>> \o
        <<Moof(x)>> \o rest \o <<Moof(y), Mdat(5)>> :
        sound \in {<<>>, <<Ac3>>}, x \in Trafs, y \in Trafs,
        rest \in {<<Mdat(3)>>, <<[Mdat(3) EXCEPT !.parameter_sets = TRUE]>>,
                  <<Mdat(3), Top("free", 2)>>, <<>>, <<Top("sidx", 2), Mdat(3)>>}}

-----------------------------------------------------------------------------
(* Top-level structure *)

ThreeFrames(at) == Trak(1, 0, 1000, "vide",
    <<Stbl("avc1", FixedSizes(2, 3), <<Run(3, 10)>>, <<Chunk(1, 3)>>, <<at>>, <<1, 3>>)>>)
OddFiles ==
    {<<Ftyp, Moov(<<ThreeFrames(at)>>), m, Mdat(6)>> :
        at \in {36, 50, 44}, m \in {Mdat(6), [Mdat(6) EXCEPT !.wide = TRUE]}}
    \cup {<<Ftyp, Moov(<<ThreeFrames(36)>>), [Mdat(6) EXCEPT !.form = f]>> : f \in {"truncated", "to_end"}}
    \cup {head \o <<OddMoof(Mfhd, x), Mdat(3), OddMoof(first, y), Mdat(5)>> :
            x \in OddTrafs, y \in OddTrafs, first \in Firsts,
            head \in {<<>>, <<Ftyp, Moov(<<Trak(1, 0, 0, "vide", <<>>)>>)>>}}
    \cup {<<Ftyp, Moov(<<Trak(1, 0, 600, "vide", <<>>), Trak(2, 0, 600, "soun", <<>>),
                        Node("mvex", <<Leaf("mehd", [duration |-> 5])>> \o trexes)>>), Mdat(6)>> :
            trexes \in {<<>>, <<create_trex_box(2)>>,
                        <<create_trex_box(2), Broken(create_trex_box(1))>>,
                        <<[create_trex_box(2) EXCEPT !.bytes = 4, !.room = 44], create_trex_box(1)>>,
                        <<create_trex_box(1), [create_trex_box(2) EXCEPT !.bytes = 4, !.room = 12]>>}}
    \cup {<<Moov(<<ThreeFrames(24)>>), Mdat(6)>>, <<Ftyp, Mdat(6)>>, <<Ftyp, Moov(<<>>), Mdat(6)>>,
          <<Ftyp, Moov(<<Trak(1, 0, 1000, "vide", <<>>)>>), Mdat(6)>>,
          <<Ftyp, Moov(<<ThreeFrames(36)>>), Mdat(0)>>, <<Ftyp, Moov(<<ThreeFrames(36)>>)>>,
          <<Top("ftyp", 900), Moov(<<ThreeFrames(36)>>), Mdat(6)>>,
          <<Ftyp, Moov(<<Trak(1, 0, 1000, "soun", <<SmallTable("mp4a")>>)>>), Mdat(2)>>,
          <<Ftyp, Moov(<<Trak(1, 0, 600, "vide",
              <<Stbl("avc1", FixedSizes(2, 0), <<>>, <<Chunk(4, 1)>>, <<36>>, <<>>)>>)>>), Mdat(6)>>}

MCFiles == TableFiles \cup AudioFiles \cup TrackFiles \cup FragmentedFiles \cup OddFiles
=============================================================================
