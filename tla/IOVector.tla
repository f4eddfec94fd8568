------------------------------ MODULE IOVector ------------------------------
(***************************************************************************)
(* iovector (common/iovector.h, iovector.cpp): buffers in an array of      *)
(* `capacity` slots from iov_begin on.  Every operation is compared with   *)
(* what it does to the bytes as one string.  A buffer is the sequence of   *)
(* its bytes; a byte is told apart by a number.                            *)
(***************************************************************************)
EXTENDS Integers, Sequences, SequencesExt, FiniteSetsExt

CONSTANTS Capacity, Reserve, MaxLen, MaxBytes, MaxSteps

VARIABLES iovs,    \* the buffers
          begin,   \* iov_begin: the slots before them
          nbases,  \* the buffers it has allocated
          bytes,   \* what the buffers are to hold, as one string
          next,    \* a byte not used before
          steps,
          ok       \* the last operation returned what it is to return

vars == <<iovs, begin, nbases, bytes, next, steps, ok>>

Init ==
    /\ iovs = <<>> /\ begin = Reserve /\ nbases = 0 /\ bytes = <<>>
    /\ next = 1 /\ steps = 0 /\ ok = TRUE

Flat(v) == FlattenSeq(v)
Sum(v) == FoldLeft(LAMBDA n, b : n + Len(b), 0, v)
Taken(s, n) == SubSeq(s, 1, Min({n, Len(s)}))
Dropped(s, n) == SubSeq(s, Min({n, Len(s)}) + 1, Len(s))
Fresh(n) == [i \in 1..n |-> next + i - 1]

Step == steps < MaxSteps /\ steps' = steps + 1

----------------------------------------------------------------------------
\* The buffer in which the n-th byte is, n > 0; one past the end if there are fewer.
BufferOf(v, n) == Min({k \in 1..Len(v) : Sum(SubSeq(v, 1, k)) >= n} \cup {Len(v) + 1})

\* do_extract_front(): whole buffers, and a part of the one in which the last byte is.  The
\* callback stores each piece; it can store `slots` pieces and then fails.
FrontPieces(v, n) ==
    LET k == BufferOf(v, n)
        before == Sum(SubSeq(v, 1, k - 1)) IN
    IF n = 0 THEN <<>>
    ELSE IF k > Len(v) THEN v ELSE Append(SubSeq(v, 1, k - 1), SubSeq(v[k], 1, n - before))

\* fault: a buffer that is used up stays, empty, in front
ExtractFrontKeeps(v, n, slots) ==
    LET m == Len(FrontPieces(v, n))
        p == SubSeq(FrontPieces(v, n), 1, Min({m, slots}))
        k == Len(p) IN
    [pieces |-> p, ret |-> IF m > slots THEN -1 ELSE Sum(p),
     rest |-> IF k = 0 THEN v ELSE <<v[k]>> \o SubSeq(v, k + 1, Len(v))]

ExtractFront(v, n, slots) ==
    LET m == Len(FrontPieces(v, n))
        p == SubSeq(FrontPieces(v, n), 1, Min({m, slots}))
        k == Len(p) IN
    [pieces |-> p, ret |-> IF m > slots THEN -1 ELSE Sum(p),
     rest |-> IF k = 0 THEN v
              ELSE IF Len(p[k]) = Len(v[k]) THEN SubSeq(v, k + 1, Len(v))
              ELSE <<Dropped(v[k], Len(p[k]))>> \o SubSeq(v, k + 1, Len(v))]

\* do_extract_back(): the same from the back, the pieces stored from the last slot down.
ExtractBack(v, n, slots) ==
    LET m == Len(FrontPieces(Reverse(v), n))
        from == BufferOf(Reverse(v), n)
        after == Sum(SubSeq(v, Len(v) - from + 2, Len(v)))
        part == v[Len(v) - from + 1]
        all == IF n = 0 THEN <<>>
               ELSE IF from > Len(v) THEN v
               ELSE <<Dropped(part, Len(part) - (n - after))>> \o SubSeq(v, Len(v) - from + 2, Len(v))
        p == SubSeq(all, Max({0, m - slots}) + 1, m)
        k == Len(v) - Len(p) + 1 IN
    [pieces |-> p, ret |-> IF m > slots THEN -1 ELSE Sum(p),
     rest |-> IF p = <<>> THEN v
              ELSE IF Len(Head(p)) = Len(v[k]) THEN SubSeq(v, 1, k - 1)
              ELSE Append(SubSeq(v, 1, k - 1), Taken(v[k], Len(v[k]) - Len(Head(p))))]

\* shrink_to(): what it keeps, when there are that many bytes.
ShrinkTo(v, n) ==
    LET k == BufferOf(v, n) IN
    IF n = 0 THEN <<>>
    ELSE IF k > Len(v) THEN v
    ELSE Append(SubSeq(v, 1, k - 1), Taken(v[k], n - Sum(SubSeq(v, 1, k - 1))))

\* _copy_pipe_iov(): piece by piece, each as long as what is left of the front buffers.
\* The destination's buffers are given by their lengths.
RECURSIVE CopyPipe(_, _, _)
CopyPipe(room, src, size) ==
    IF size = 0 \/ room = <<>> \/ src = <<>> THEN <<>>
    ELSE LET n == Min({size, Head(room), Len(Head(src))})
             r == IF n < Head(room) THEN <<Head(room) - n>> \o Tail(room) ELSE Tail(room)
             s == IF n < Len(Head(src)) THEN <<Dropped(Head(src), n)>> \o Tail(src) ELSE Tail(src) IN
         Taken(Head(src), n) \o CopyPipe(r, s, size - n)

\* slice(): a position that moves on only with the buffers that the slice takes from.
Slice(v, count, offset, slots) ==
    LET piece(a, b) == Taken(Dropped(b, Max({0, offset - a.pos})), a.count)
        turn(a, b) == IF a.count > 0 /\ a.pos + Len(b) > offset /\ Len(a.out) < slots
                      THEN [pos |-> a.pos + Len(b), count |-> a.count - Len(piece(a, b)),
                            out |-> Append(a.out, piece(a, b))]
                      ELSE a IN
    FoldLeft(turn, [pos |-> 0, count |-> count, out |-> <<>>], v).out

----------------------------------------------------------------------------
PushBack(n) ==
    /\ Step
    /\ IF begin + Len(iovs) < Capacity
       THEN iovs' = Append(iovs, Fresh(n)) /\ bytes' = bytes \o Fresh(n) /\ next' = next + n
       ELSE UNCHANGED <<iovs, bytes, next>>
    /\ UNCHANGED <<begin, nbases, ok>>

PushFront(n) ==
    /\ Step
    /\ IF begin > 0
       THEN /\ iovs' = <<Fresh(n)>> \o iovs /\ begin' = begin - 1
            /\ bytes' = Fresh(n) \o bytes /\ next' = next + n
       ELSE UNCHANGED <<iovs, begin, bytes, next>>
    /\ UNCHANGED <<nbases, ok>>

\* push_back(size_t) and push_back_more(): the allocator may give less than it is asked for.
Allocate(n, one) ==
    LET ls == IF one THEN <<n>> ELSE [i \in 1..n |-> 1]
        room == Min({Len(ls), Capacity - begin - Len(iovs), Capacity - nbases})
        got == [i \in 1..room |-> IF one THEN Fresh(n) ELSE <<next + i - 1>>] IN
    /\ iovs' = iovs \o got
    /\ bytes' = bytes \o Flat(got)
    /\ next' = next + n
    /\ nbases' = nbases + room

\* truncate()
Truncate(n, one) ==
    /\ Step
    /\ IF n <= Sum(iovs)
       THEN iovs' = ShrinkTo(iovs, n) /\ bytes' = Taken(bytes, n) /\ UNCHANGED <<nbases, next>>
       ELSE begin + Len(iovs) < Capacity /\ nbases < Capacity /\ Allocate(n - Sum(iovs), one)
    /\ UNCHANGED <<begin, ok>>

PopFront ==
    /\ Step /\ iovs # <<>>
    /\ iovs' = Tail(iovs) /\ begin' = begin + 1 /\ bytes' = Dropped(bytes, Len(Head(iovs)))
    /\ UNCHANGED <<nbases, next, ok>>

PopBack ==
    /\ Step /\ iovs # <<>>
    /\ iovs' = Front(iovs) /\ bytes' = Taken(bytes, Len(bytes) - Len(Last(iovs)))
    /\ UNCHANGED <<begin, nbases, next, ok>>

\* extract_front() into nothing, into a buffer (slots enough for any piece) or into a view
ExtractFrontTo(n, slots) ==
    \E e \in {ExtractFront(iovs, n, slots)} :
    /\ Step
    /\ iovs' = e.rest
    /\ begin' = begin + Len(iovs) - Len(e.rest)
    /\ bytes' = Dropped(bytes, Sum(e.pieces))
    /\ ok' = (/\ Flat(e.pieces) = Taken(bytes, Sum(e.pieces))
              /\ e.ret \in {-1, Min({n, Len(bytes)})} /\ (e.ret = -1 => Len(e.pieces) = slots))
    /\ UNCHANGED <<nbases, next>>

ExtractBackTo(n, slots) ==
    \E e \in {ExtractBack(iovs, n, slots)} :
    /\ Step
    /\ iovs' = e.rest
    /\ bytes' = Taken(bytes, Len(bytes) - Sum(e.pieces))
    /\ ok' = (/\ Flat(e.pieces) = Dropped(bytes, Len(bytes) - Sum(e.pieces))
              /\ e.ret \in {-1, Min({n, Len(bytes)})} /\ (e.ret = -1 => Len(e.pieces) = slots))
    /\ UNCHANGED <<begin, nbases, next>>

\* extract_front_continuous(): of the first buffer, or else a copy in a buffer of its own
ExtractFrontContinuous(n) ==
    \E e \in {ExtractFront(iovs, n, Capacity)} :
    /\ Step /\ iovs # <<>> /\ n <= Sum(iovs)
    /\ Len(Head(iovs)) < n => nbases < Capacity
    /\ nbases' = IF Len(Head(iovs)) < n THEN nbases + 1 ELSE nbases
    /\ iovs' = e.rest /\ begin' = begin + Len(iovs) - Len(e.rest)
    /\ bytes' = Dropped(bytes, n)
    /\ ok' = (Flat(e.pieces) = Taken(bytes, n))
    /\ next' = next

\* memcpy_to() and pipe_to(), which drops what it copies
CopyTo(room, size, pipe) ==
    \E c \in {CopyPipe(room, iovs, size)} : \E e \in {ExtractFront(iovs, Len(c), Capacity)} :
    /\ Step
    /\ iovs' = IF pipe THEN e.rest ELSE iovs
    /\ begin' = begin + Len(iovs) - Len(iovs')
    /\ bytes' = IF pipe THEN Dropped(bytes, Len(c)) ELSE bytes
    /\ ok' = (c = Taken(bytes, Min({size, FoldLeft(+, 0, room)})))
    /\ UNCHANGED <<nbases, next>>

\* slice() from within the first buffer, into a view that is large enough
SliceTo(count, offset) ==
    /\ Step
    /\ iovs # <<>> /\ offset < Len(Head(iovs))
    /\ ok' = (Flat(Slice(iovs, count, offset, Capacity)) = SubSeq(bytes, offset + 1, Min({offset + count, Len(bytes)})))
    /\ UNCHANGED <<iovs, begin, nbases, bytes, next>>

\* clear_dispose()
Dispose ==
    /\ Step
    /\ iovs' = <<>> /\ nbases' = 0 /\ bytes' = <<>>
    /\ UNCHANGED <<begin, next, ok>>

Next ==
    \/ \E n \in 1..MaxLen : PushBack(n) \/ PushFront(n)
    \/ \E n \in 0..MaxBytes : \/ \E one \in BOOLEAN : Truncate(n, one)
                              \/ \E s \in 1..Capacity : ExtractFrontTo(n, s) \/ ExtractBackTo(n, s)
                              \/ \E room \in {<<n>>, <<1, n>>}, size \in 0..MaxBytes, pipe \in BOOLEAN :
                                    n > 0 /\ CopyTo(room, size, pipe)
    \/ \E n \in 1..MaxBytes : ExtractFrontContinuous(n) \/ \E offset \in 0..MaxLen : SliceTo(n, offset)
    \/ PopFront \/ PopBack \/ Dispose

Spec == Init /\ [][Next]_vars

----------------------------------------------------------------------------
\* The buffers hold the bytes that pushing and extracting leave, in order; what is extracted
\* or copied is the right part of them; nothing is lost when a view is too small; and the
\* assertions of do_assert() hold.
BytesKept ==
    /\ Flat(iovs) = bytes
    /\ ok
    /\ begin >= 0 /\ begin + Len(iovs) <= Capacity /\ nbases <= Capacity
============================================================================
