---------------------------- MODULE AlignedFile ----------------------------
(***************************************************************************)
(* AlignedFileAdaptor (fs/aligned-file.cpp) over range_split_power2        *)
(* (fs/range-split.h): reads and writes of any range, made of reads and    *)
(* writes of whole blocks of the file underneath.                          *)
(***************************************************************************)
EXTENDS Integers, Sequences, SequencesExt, FiniteSetsExt

CONSTANTS Alignment, MaxSize, MaxCount

VARIABLES file,   \* the file underneath
          ref,    \* what it is to be
          rs,     \* the range of the last operation, split
          io,     \* the blocks, <<offset, length>>, that it has read or written
          got     \* what the last read returned, and what it is to return

vars == <<file, ref, rs, io, got>>

\* Bytes: of a hole, of memory that was never written, of the data of a write
Hole == 0
Garbage == 9

\* What an operation that fails returns
Failed == <<-1>>
Byte == {1, 2}

----------------------------------------------------------------------------
\* divide() and multiply()
Down(x) == x \div Alignment
Rem(x) == x % Alignment
Up(x) == (x + Alignment - 1) \div Alignment

NoPart == [i |-> 0, offset |-> 0, length |-> 0]
Part(i, offset, length) == [i |-> i, offset |-> offset, length |-> length]

\* init(offset, length): the parts of a range
RangeSplit(offset, length) ==
    LET end == offset + length
        abegin == Down(offset)  apbegin == Up(offset)
        apend == Down(end)      aend == Up(end)
        one == abegin + 1 = aend
        all == Part(abegin, Rem(offset), length)
        pre == IF one THEN (IF abegin # apbegin /\ aend = apend THEN all ELSE NoPart)
               ELSE IF abegin = apbegin THEN NoPart
               ELSE Part(abegin, Rem(offset), Alignment - Rem(offset)) IN
    [begin |-> offset, end |-> end, abegin |-> abegin, aend |-> aend,
     apbegin |-> apbegin, apend |-> apend,
     small_note |-> IF one /\ abegin # apbegin /\ aend # apend THEN all ELSE NoPart,
     preface |-> pre,
     first |-> IF one THEN all ELSE IF pre.length > 0 THEN pre ELSE Part(apbegin, 0, Alignment),
     postface |-> IF one THEN (IF abegin = apbegin /\ aend # apend THEN all ELSE NoPart)
                  ELSE IF aend = apend THEN NoPart ELSE Part(apend, 0, Rem(end))]

\* aligned_parts()
AlignedParts(r) ==
    [k \in 1..(IF r.small_note.length > 0 THEN 0 ELSE r.apend - r.apbegin) |->
        Part(r.apbegin + k - 1, 0, Alignment)]

\* fault: the last part has the length of a block
AllPartsWhole(r) ==
    [k \in 1..(r.aend - r.first.i) |-> IF k = 1 THEN r.first ELSE Part(r.first.i + k - 1, 0, Alignment)]

\* all_parts(): from the first one on, the last one may be the postface
AllParts(r) ==
    [k \in 1..(r.aend - r.first.i) |->
        LET i == r.first.i + k - 1 IN
        IF k = 1 THEN r.first
        ELSE Part(i, 0, IF r.postface.length > 0 /\ r.postface.i = i THEN r.postface.length
                        ELSE Alignment)]

AlignedBegin(r) == r.abegin * Alignment
AlignedEnd(r) == r.aend * Alignment
IsAligned(r) == Rem(r.begin) = 0 /\ Rem(r.end) = 0

----------------------------------------------------------------------------
\* The file underneath: a read of what there is, a write that makes a hole if it must
PreadOf(f, offset, count) == SubSeq(f, offset + 1, Min({offset + count, Len(f)}))

Written(f, offset, data) ==
    [k \in 1..Max({Len(f), offset + Len(data)}) |->
        IF k \in offset + 1..offset + Len(data) THEN data[k - offset]
        ELSE IF k <= Len(f) THEN f[k] ELSE Hole]

Over(s, from, data) == [k \in 1..Len(s) |-> IF k \in from + 1..from + Len(data) THEN data[k - from] ELSE s[k]]

Init ==
    /\ file = <<>> /\ ref = <<>>
    /\ rs = RangeSplit(0, 0) /\ io = {} /\ got = <<<<>>, <<>>>>

\* pread(): of a copy of the whole blocks; memory that is not aligned needs it, too.  It fails
\* if there are not even the bytes before the range.
Pread(offset, count, memory) ==
    LET r == RangeSplit(offset, count)
        direct == IsAligned(r) /\ memory
        from == IF direct THEN offset ELSE AlignedBegin(r)
        raw == PreadOf(file, from, IF direct THEN count ELSE AlignedEnd(r) - from)
        skip == offset - from IN
    /\ rs' = r
    /\ io' = {<<from, IF direct THEN count ELSE AlignedEnd(r) - from>>}
    /\ got' = <<IF Len(raw) < skip THEN Failed ELSE SubSeq(raw, skip + 1, Min({skip + count, Len(raw)})),
                PreadOf(ref, offset, count)>>
    /\ UNCHANGED <<file, ref>>

\* The blocks that a write covers in part are read first: the first one, with zeroes for what
\* is beyond the end of the file, and the last one if the file goes on after the write.
\* fault: the last block is never read
PatchedFirstOnly(r) ==
    LET raw == PreadOf(file, AlignedBegin(r), Alignment) IN
    [k \in 1..AlignedEnd(r) - AlignedBegin(r) |->
        IF Rem(r.begin) > 0 /\ k <= Alignment THEN (IF k <= Len(raw) THEN raw[k] ELSE Hole)
        ELSE Garbage]

Patched(r) ==
    LET fresh == [k \in 1..AlignedEnd(r) - AlignedBegin(r) |-> Garbage]
        raw == PreadOf(file, AlignedBegin(r), Alignment)
        block == [k \in 1..Alignment |-> IF k <= Len(raw) THEN raw[k] ELSE Hole]
        head == IF Rem(r.begin) > 0 THEN Over(fresh, 0, block) ELSE fresh
        off == AlignedEnd(r) - Alignment IN
    IF r.small_note.length = 0 /\ Rem(r.end) > 0 /\ Len(file) - off > Rem(r.end)
    THEN Over(head, off - AlignedBegin(r), PreadOf(file, off, Alignment))
    ELSE head

\* pwrite(): and the file is cut back when the last block made it too long.
Pwrite(offset, data, memory) ==
    LET r == RangeSplit(offset, Len(data))
        direct == IsAligned(r) /\ memory
        blocks == Over(Patched(r), offset - AlignedBegin(r), data)
        w == Written(file, AlignedBegin(r), blocks)
        size == Max({Len(file), offset + Len(data)}) IN
    /\ rs' = r
    /\ io' = {<<IF direct THEN offset ELSE AlignedBegin(r),
                IF direct THEN Len(data) ELSE AlignedEnd(r) - AlignedBegin(r)>>}
    /\ file' = IF direct THEN Written(file, offset, data)
               ELSE IF size < AlignedEnd(r) THEN SubSeq(w, 1, size) ELSE w
    /\ ref' = Written(ref, offset, data)
    /\ got' = <<<<>>, <<>>>>

Next ==
    \E offset \in 0..MaxSize, count \in 1..MaxCount, memory \in BOOLEAN :
        /\ offset + count <= MaxSize
        /\ \/ Pread(offset, count, memory)
           \/ \E b \in Byte : Pwrite(offset, [k \in 1..count |-> b], memory)

Spec == Init /\ [][Next]_vars

----------------------------------------------------------------------------
\* all_parts() are the range, piece by piece, and so are the small note, or the preface, the
\* aligned parts and the postface.
PartsCover ==
    LET covers(ps) ==
            /\ FoldLeft(LAMBDA n, p : n + p.length, 0, ps) = rs.end - rs.begin
            /\ \A k \in 1..Len(ps) : /\ ps[k].length > 0
                                     /\ ps[k].offset + ps[k].length <= Alignment
            /\ \A k \in 1..Len(ps) - 1 : /\ ps[k].i + 1 = ps[k + 1].i
                                         /\ ps[k].offset + ps[k].length = Alignment
            /\ ps # <<>> => ps[1].i * Alignment + ps[1].offset = rs.begin
        some(p) == IF p.length > 0 THEN <<p>> ELSE <<>> IN
    /\ covers(AllParts(rs))
    /\ covers(some(rs.small_note) \o some(rs.preface) \o AlignedParts(rs) \o some(rs.postface))

\* The file is what the writes make it, of the size they make it, and reads return that, or
\* fail beyond its end; the file underneath is used in whole blocks only.
FileAsWritten ==
    /\ file = ref
    /\ got[1] = got[2] \/ (got[1] = Failed /\ got[2] = <<>>)
    /\ \A x \in io : x[1] % Alignment = 0 /\ x[2] % Alignment = 0
============================================================================
