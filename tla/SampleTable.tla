---------------------------- MODULE SampleTable ----------------------------
(***************************************************************************)
(* The sample tables of an MP4 track (core/src/media/mp4_parser.rs): how   *)
(* the table boxes of a stbl are read, how they resolve to samples with    *)
(* absolute byte ranges, and how samples are grouped into fragments.       *)
(* Everything here is a pure function of the file.                         *)
(*                                                                         *)
(* A table box is [count, bytes, entries]: the number of entries its       *)
(* header declares, the length of its content and the entries themselves,  *)
(* of which a truncated content holds only the first.                      *)
(***************************************************************************)
EXTENDS RunningSums, SequencesExt, FiniteSetsExt

\* The vectors of a SampleTable
SampleTables ==
    [sample_sizes : Seq(Nat), time_to_sample : Seq([count : Nat, value : Nat]),
     sample_to_chunk : Seq([first_chunk : Nat, samples_per_chunk : Nat]), chunk_offsets : Seq(Nat),
     sync_samples : Seq(Nat), composition_offsets : Seq([count : Nat, value : Int])]

EmptyTable ==
    [sample_sizes |-> <<>>, time_to_sample |-> <<>>, sample_to_chunk |-> <<>>,
     chunk_offsets |-> <<>>, sync_samples |-> <<>>, composition_offsets |-> <<>>]

\* The loop all seven readers share: up to `count` entries of `width` bytes,
\* stopping at the first one that does not fit in the content.
ReadTable(box, header, width) ==
    IF box.bytes < header THEN <<>>
    ELSE SubSeq(box.entries, 1, Min({box.count, (box.bytes - header) \div width}))

parse_stsz(box) ==
    IF box.bytes >= 12 /\ box.default_size # 0
    THEN [i \in 1..box.count |-> box.default_size]
    ELSE ReadTable(box, 12, 4)
parse_stts(box) == ReadTable(box, 8, 8)
parse_stsc(box) == ReadTable(box, 8, 12)
parse_stco(box) == ReadTable(box, 8, 4)
parse_co64(box) == ReadTable(box, 8, 8)
parse_stss(box) == ReadTable(box, 8, 4)
parse_ctts(box) == ReadTable(box, 8, 8)

-----------------------------------------------------------------------------
(* resolve_sample_offsets *)

\* The chunks (1-based) that run i of stsc covers.
RunChunks(t, i) ==
    LET runs == t.sample_to_chunk
        last == IF i < Len(runs) THEN runs[i + 1].first_chunk - 1
                ELSE Len(t.chunk_offsets)
    IN  runs[i].first_chunk .. Min({last, Len(t.chunk_offsets)})

\* The slice samples_per_chunk[start..end] panics when start is past end, also for a
\* first chunk of 0, which wraps; without sizes the slices are never reached.
RunPanics(t) ==
    LET runs == t.sample_to_chunk
        end(i) == IF i < Len(runs) THEN runs[i + 1].first_chunk - 1 ELSE Len(t.chunk_offsets)
    IN  /\ t.sample_sizes # <<>>
        /\ \E i \in 1..Len(runs) :
              \/ runs[i].first_chunk = 0
              \/ runs[i].first_chunk - 1 > Min({end(i), Len(t.chunk_offsets)})

\* A later run overwrites what an earlier one left; a chunk before the first
\* run has no samples.
SamplesPerChunk(t) ==
    [c \in 1..Len(t.chunk_offsets) |->
        LET runs == {i \in 1..Len(t.sample_to_chunk) : c \in RunChunks(t, i)}
        IN  IF runs = {} THEN 0 ELSE t.sample_to_chunk[Max(runs)].samples_per_chunk]

\* Mutant: the offset inside a chunk is not reset for the next chunk
ChunkEntriesNoReset(t, c, done) ==
    LET n == Min({SamplesPerChunk(t)[c], Len(t.sample_sizes) - done})
        offset_in_chunk == Sums(t.sample_sizes, Len(t.sample_sizes))
    IN  [j \in 1..n |->
            [offset |-> t.chunk_offsets[c] + offset_in_chunk[done + j - 1],
             size   |-> t.sample_sizes[done + j]]]

\* The samples placed in chunk c when `done` samples precede it.
ChunkEntries(t, c, done) ==
    LET n == Min({SamplesPerChunk(t)[c], Len(t.sample_sizes) - done})
        offset_in_chunk == Sums([j \in 1..n |-> t.sample_sizes[done + j]], n)
    IN  [j \in 1..n |->
            [offset |-> t.chunk_offsets[c] + offset_in_chunk[j - 1],
             size   |-> t.sample_sizes[done + j]]]

\* Run-length expansion of stts and ctts over n samples; the rest keep 0.
Expand(runs, n) ==
    LET upto == Sums([r \in 1..Len(runs) |-> runs[r].count], Len(runs))
        run(i) == {r \in 1..Len(runs) : upto[r - 1] < i /\ i <= upto[r]}
    IN  [i \in 1..n |-> IF run(i) = {} THEN 0 ELSE runs[Min(run(i))].value]

\* The entries after each chunk
Placed(t) ==
    LET placed[c \in 0..Len(t.chunk_offsets)] ==
            IF c = 0 THEN <<>>
            ELSE LET before == placed[c - 1] IN before \o ChunkEntries(t, c, Len(before))
    IN  placed

resolve_sample_offsets(t) ==
    LET placed == Placed(t)[Len(t.chunk_offsets)]
        n      == Len(placed)
        durs   == Expand(t.time_to_sample, n)
        ctts   == Expand(t.composition_offsets, n)
        syncs  == ToSet(t.sync_samples)
    IN  IF t.sample_sizes = <<>> THEN <<>>
        ELSE [i \in 1..n |->
                [offset |-> placed[i].offset, size |-> placed[i].size,
                 duration |-> durs[i], is_keyframe |-> syncs = {} \/ i \in syncs,
                 composition_offset |-> ctts[i]]]

-----------------------------------------------------------------------------
(* Grouping of resolved samples into fragments *)

\* GOPs after each sample: one ends before every key frame but the first sample, and
\* at the end.
GopsUpto(entries) ==
    LET gops[i \in 0..Len(entries)] ==
            IF i = 0 THEN <<>>
            ELSE LET before == gops[i - 1] IN
                 IF i = Len(entries) \/ entries[i + 1].is_keyframe
                 THEN Append(before, [first |-> IF before = <<>> THEN 1 ELSE Last(before).last + 1,
                                      last  |-> i])
                 ELSE before
    IN  gops
Gops(entries) == GopsUpto(entries)[Len(entries)]

\* Audio: about half a second of samples, measured by the first one.
AudioChunks(entries, timescale) ==
    LET n   == Len(entries)
        per == Max({1, (timescale \div 2) \div Max({entries[1].duration, 1})})
    IN  [k \in 1..((n + per - 1) \div per) |->
            [first |-> (k - 1) * per + 1, last |-> Min({k * per, n})]]

\* Mutant: only the last sample of the group is checked
LastFits(entries, group, payload, available) ==
    /\ entries[group.last].offset >= payload
    /\ entries[group.last].offset - payload + entries[group.last].size <= available

\* A sample of the group lies outside the payload that was kept (the last
\* mdat): the group is skipped.
GroupFits(entries, group, payload, available) ==
    \A i \in group.first..group.last :
        /\ entries[i].offset >= payload
        /\ entries[i].offset - payload + entries[i].size <= available

\* offset - mdat_offset wraps (release build) for a sample that lies before the
\* payload; when its size wraps the end back into the payload, slicing panics
\* instead of skipping. The loop stops at the first sample that does not fit.
GroupPanics(entries, group, payload, available) ==
    \E i \in group.first..group.last :
        /\ entries[i].offset < payload
        /\ entries[i].offset + entries[i].size - payload \in 0..available
        /\ GroupFits(entries, [first |-> group.first, last |-> i - 1], payload, available)
=============================================================================
