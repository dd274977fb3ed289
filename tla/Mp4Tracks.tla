----------------------------- MODULE Mp4Tracks -----------------------------
(***************************************************************************)
(* Tracks and initialization segments of an MP4 file                       *)
(* (core/src/media/mp4_parser.rs). A box is a record with its `type`,      *)
(* whether it is `whole` (its size field is at least 8 and its content     *)
(* fits in the parent) and either its `kids` or the fields of a leaf.      *)
(* Every walk over the children in this module stops at the first box that *)
(* is not whole.                                                           *)
(*                                                                         *)
(* Some readers take a field at a fixed distance from the start of a box,  *)
(* without asking whether the box is that long. `room` counts the bytes    *)
(* from the start of the box to the end of its parent and `span` those to  *)
(* the end of the trak; the field is what lies there, be it of the box or  *)
(* of one behind it.                                                       *)
(***************************************************************************)
EXTENDS SampleTable, Sifting

\* Options are sequences of at most one element.
NoTable == <<>>
NoParams == <<>>

\* The boxes before the first of the places `bad`
Until(kids, bad) == IF bad = {} THEN kids ELSE SubSeq(kids, 1, Min(bad) - 1)
Whole(kids) == Until(kids, {i \in 1..Len(kids) : ~kids[i].whole})

Among(bs, type) == Sifted(bs, {b \in ToSet(bs) : b.type = type})
OfType(kids, type) == Among(Whole(kids), type)

\* The last box of a type with at least so many bytes of content
LastRead(bs, type, least) ==
    LET long == Sifted(bs, {b \in ToSet(bs) : b.type = type /\ b.bytes >= least})
    IN  IF long = <<>> THEN <<>> ELSE <<Last(long)>>

-----------------------------------------------------------------------------
(* Codec of a track: stsd *)

Codec(ok, codec, params) == [ok |-> ok, codec |-> codec, params |-> params]
NoCodec == Codec(FALSE, "", NoParams)

\* The profile of an H.264 entry or the object type of an AAC entry, which go into
\* a MIME type only: all that is kept of them is that there is one.
CodecParams(media_type, format) ==
    IF <<media_type, format>> \in {<<"vide", "avc1">>, <<"soun", "mp4a">>}
    THEN <<"of entry">> ELSE NoParams

\* The codec by the handler, with AC-3 told apart by the format of the entry
parse_stsd_box(b, media_type) ==
    IF b.bytes < 16 \/ media_type \notin {"vide", "soun"} THEN NoCodec
    ELSE Codec(TRUE, CASE media_type = "vide" -> "H.264"
                       [] media_type = "soun" /\ b.format = "ac-3" -> "AC-3"
                       [] OTHER -> "AAC",
               CodecParams(media_type, b.format))

-----------------------------------------------------------------------------
(* stbl, minf, mdia, trak, moov *)

TableField ==
    [stsz |-> "sample_sizes", stts |-> "time_to_sample", stsc |-> "sample_to_chunk",
     stco |-> "chunk_offsets", co64 |-> "chunk_offsets", stss |-> "sync_samples",
     ctts |-> "composition_offsets"]

ReadBox(b) ==
    CASE b.type = "stsz" -> parse_stsz(b)
      [] b.type = "stts" -> parse_stts(b)
      [] b.type = "stsc" -> parse_stsc(b)
      [] b.type = "stco" -> parse_stco(b)
      [] b.type = "co64" -> parse_co64(b)
      [] b.type = "stss" -> parse_stss(b)
      [] b.type = "ctts" -> parse_ctts(b)

\* The codec of the last stsd, and the table when it has sizes; otherwise the
\* table of an earlier stbl of the track stays pending.
parse_stbl_box(kids, media_type, pending) ==
    LET Step(acc, b) ==
            IF b.type = "stsd" THEN [acc EXCEPT !.codec = parse_stsd_box(b, media_type)]
            ELSE IF b.type \in DOMAIN TableField
                 THEN [acc EXCEPT !.table[TableField[b.type]] = ReadBox(b)]
            ELSE acc
        read == FoldLeft(Step, [codec |-> NoCodec, table |-> EmptyTable], Whole(kids))
    IN  [codec |-> read.codec,
         pending |-> IF read.table.sample_sizes = <<>> THEN pending ELSE <<read.table>>]

\* Without a readable stbl the codec is guessed from the handler.
parse_minf_box(kids, media_type, pending) ==
    LET stbl == OfType(kids, "stbl")
    IN  IF stbl # <<>> THEN parse_stbl_box(stbl[1].kids, media_type, pending)
        ELSE [pending |-> pending,
              codec |-> Codec(TRUE, CASE media_type = "vide" -> "H.264"
                                      [] media_type = "soun" -> "AAC"
                                      [] OTHER -> "Unknown", NoParams)]

\* Both headers are read with the version 0 layout. In a version 1 header the
\* same bytes hold the upper half of the modification time, which is 0.
parse_tkhd_box(b) == IF b.version = 0 THEN b.id ELSE 0
parse_mdhd_box(b) ==
    IF b.version = 0 THEN [timescale |-> b.timescale, duration |-> b.duration]
    ELSE [timescale |-> 0, duration |-> b.modified]
parse_hdlr_box(b) == b.handler

NoHandler == ""
MediaType(bs) ==
    LET hdlr == LastRead(bs, "hdlr", 12) IN IF hdlr = <<>> THEN NoHandler ELSE parse_hdlr_box(hdlr[1])

\* The handler, the clock, and the codec and table of the minf boxes: hdlr only
\* helps the codec when it comes before minf.
parse_mdia_box(kids, pending) ==
    LET all  == Whole(kids)
        mdhd == LastRead(all, "mdhd", 20)
        Step(acc, i) ==
            LET m == parse_minf_box(all[i].kids, MediaType(SubSeq(all, 1, i - 1)), acc.pending)
            IN  IF all[i].type # "minf" THEN acc
                ELSE [pending |-> m.pending, codec |-> IF m.codec.ok THEN m.codec ELSE acc.codec]
        read == FoldLeftDomain(Step, [pending |-> pending, codec |-> Codec(TRUE, "", NoParams)], all)
    IN  [media_type |-> MediaType(all),
         clock |-> IF mdhd = <<>> THEN [timescale |-> 1000, duration |-> 0] ELSE parse_mdhd_box(mdhd[1]),
         codec |-> read.codec, pending |-> read.pending]

\* A tkhd with 12 to 15 bytes of content is read, found too small and skipped
\* once more: `skewed` are the boxes the walk makes of the bytes from there on.
Seen(kids) ==
    LET all == Whole(kids)
        odd == {i \in 1..Len(all) : all[i].type = "tkhd" /\ all[i].bytes \in 12..15}
    IN  IF odd = {} THEN all ELSE SubSeq(all, 1, Min(odd)) \o Whole(all[Min(odd)].skewed)

\* Every mdia is read, with the table the ones before it left pending; the last counts.
ReadMdias(all) ==
    FoldLeft(LAMBDA acc, b : parse_mdia_box(b.kids, acc.pending), [pending |-> NoTable],
             Among(all, "mdia"))
TrackId(all) ==
    LET tkhd == LastRead(all, "tkhd", 16) IN IF tkhd = <<>> THEN 0 ELSE parse_tkhd_box(tkhd[1])
HandlerType(all) ==
    LET mdia == Among(all, "mdia")
    IN  IF mdia = <<>> THEN NoHandler ELSE MediaType(Whole(Last(mdia).kids))

\* A trak gives a track only with a track id and a handler.
IsTrack(all) == TrackId(all) > 0 /\ HandlerType(all) # NoHandler
parse_trak_box(kids) ==
    LET all  == Seen(kids)
        read == ReadMdias(all)
    IN  IF IsTrack(all)
        THEN << [track_id |-> TrackId(all), media_type |-> HandlerType(all),
                 timescale |-> read.clock.timescale, duration |-> read.clock.duration,
                 codec |-> read.codec.codec, codec_params |-> read.codec.params,
                 sample_table |-> read.pending] >>
        ELSE <<>>

parse_moov_box(kids) ==
    FoldLeft(LAMBDA acc, b : acc \o parse_trak_box(b.kids), <<>>, OfType(kids, "trak"))

\* tracks.iter().find(..)
FirstTrack(tracks, type) ==
    LET found == {i \in 1..Len(tracks) : tracks[i].media_type = type}
    IN  IF found = {} THEN <<>> ELSE <<tracks[Min(found)]>>
HasTrack(tracks, type) == FirstTrack(tracks, type) # <<>>
-----------------------------------------------------------------------------
(* Initialization segments *)

\* The hdlr that decides: the first one with 16 bytes left in its mdia, in the
\* first mdia that has such a one
HandlerBox(trak) ==
    LET mdia == OfType(trak.kids, "mdia")
        Long(m) == Sifted(OfType(m.kids, "hdlr"),
                          {b \in ToSet(OfType(m.kids, "hdlr")) : b.room >= 16})
        has == {i \in 1..Len(mdia) : Long(mdia[i]) # <<>>}
    IN  IF has = {} THEN <<>> ELSE <<Long(mdia[Min(has)])[1]>>

\* Bytes 12..16 of hdlr are its pre_defined field, not the handler type.
is_video_track(trak) ==
    LET h == HandlerBox(trak) IN h # <<>> /\ h[1].pre_defined = "vide"

\* Bytes 16..20 are the handler type; the slice panics where the trak ends
\* before them.
track_has_handler_type(trak, type) ==
    LET h == HandlerBox(trak) IN h # <<>> /\ h[1].handler = type
HandlerPanics(trak) == LET h == HandlerBox(trak) IN h # <<>> /\ h[1].span < 20

\* The first tkhd with 24 bytes left in the trak
extract_track_id_from_trak(trak) ==
    LET found == Sifted(OfType(trak.kids, "tkhd"),
                        {b \in ToSet(OfType(trak.kids, "tkhd")) : b.room >= 24})
    IN  IF found = <<>> THEN {} ELSE {parse_tkhd_box(found[1])}

create_video_only_moov(kids) ==
    Sifted(Whole(kids), {b \in ToSet(Whole(kids)) : b.type = "trak" => is_video_track(b)})

create_trex_box(id) == [type |-> "trex", whole |-> TRUE, bytes |-> 24, room |-> 32, id |-> id]
create_mvex_box(tracks) ==
    [type |-> "mvex", whole |-> TRUE,
     kids |-> [i \in 1..Len(tracks) |-> create_trex_box(tracks[i].track_id)]]

\* mvex names every parsed track, those a video-only moov leaves out as well.
\* The AC-3 test looks at the codec parameters, which parse_stsd_box leaves
\* empty for AC-3.
HasAc3Params(tracks) ==
    \E i \in 1..Len(tracks) : tracks[i].media_type = "soun" /\ tracks[i].codec_params = <<"AC-3">>
HasAc3Codec(tracks) ==
    \E i \in 1..Len(tracks) : tracks[i].media_type = "soun" /\ tracks[i].codec = "AC-3"

create_mse_compatible_moov(kids, tracks) ==
    (IF HasAc3Params(tracks) THEN create_video_only_moov(kids) ELSE kids)
        \o <<create_mvex_box(tracks)>>

\* Mutant: every trex is kept
KeepEveryTrex(mvex, ids) ==
    IF Whole(mvex.kids) = <<>> THEN <<>> ELSE << [mvex EXCEPT !.kids = Whole(@)] >>

\* The trex of tracks that are left out are left out, and so is one too short to
\* name a track; an empty mvex is dropped.
filter_mvex_for_tracks(mvex, ids) ==
    LET all  == Whole(mvex.kids)
        kept == Sifted(all, {b \in ToSet(all) : b.type = "trex" => b.room >= 16 /\ b.id \in ids})
    IN  IF kept = <<>> THEN <<>> ELSE << [mvex EXCEPT !.kids = kept] >>

\* The last mvex is filtered and moves to the end.
filter_moov_for_track_type(kids, type) ==
    LET all  == Whole(kids)
        keep == Sifted(all, {b \in ToSet(all) : /\ b.type # "mvex"
                                                /\ b.type = "trak" => track_has_handler_type(b, type)})
        ids  == UNION {extract_track_id_from_trak(keep[i]) :
                           i \in {j \in 1..Len(keep) : keep[j].type = "trak"}}
        mvex == OfType(kids, "mvex")
    IN  keep \o (IF mvex = <<>> THEN <<>> ELSE filter_mvex_for_tracks(Last(mvex), ids))
=============================================================================
