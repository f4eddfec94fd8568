---------------------------- MODULE ChunkedBody ----------------------------
(***************************************************************************)
(* ChunkedBodyReadStream (net/http/body.cpp): the decoding of a chunked    *)
(* body that arrives in pieces of any size.  A byte is a hex digit of a    *)
(* chunk's size, a byte of the body, or one of CR and LF.                  *)
(***************************************************************************)
EXTENDS Integers, Sequences, SequencesExt, FiniteSetsExt

CONSTANTS MaxChunks, \* a body is sent in at most so many chunks
          MaxLen,    \* of at most so many bytes
          MaxCount,  \* the most that a read() asks for
          AnyPiece   \* whether a piece that is received may end where a chunk's size line ends

VARIABLES wire,   \* what the connection still carries
          line,   \* m_get_line_buf, m_line_size bytes of it
          cur,    \* m_cursor
          remain, \* m_chunked_remain
          finish, \* m_finish
          rd,     \* the read() in progress: where it is, and its count
          out,    \* what read() has returned so far
          body    \* what was sent

vars == <<wire, line, cur, remain, finish, rd, out, body>>

CR == <<"cr", 0>>
LF == <<"lf", 0>>
CRLF == <<CR, LF>>
Size(n) == <<"size", n>>
Data(from, n) == [i \in 1..n |-> <<"data", from + i>>]

\* What a server sends for the chunks of lens.
SentBytes(lens) ==
    LET start == [i \in 1..Len(lens) + 1 |-> FoldLeft(+, 0, SubSeq(lens, 1, i - 1))]
        one(i) == <<Size(lens[i])>> \o CRLF \o Data(start[i], lens[i]) \o CRLF IN
    FlattenSeq([i \in 1..Len(lens) |-> one(i)]) \o <<Size(0)>> \o CRLF \o CRLF

Total(lens) == FoldLeft(+, 0, lens)

EndsAtSizeLine(piece) ==
    \/ piece = <<LF>> \/ piece = CRLF
    \/ \E n \in 1..Len(piece) - 2 : piece[n][1] = "size" /\ n + 2 = Len(piece)

Piece(s, n) == AnyPiece \/ ~EndsAtSizeLine(SubSeq(s, 1, n))

\* The header came with some part of the body.
Init ==
    \E lens \in BoundedSeq(1..MaxLen, MaxChunks) : \E n \in 0..Len(SentBytes(lens)) :
        /\ Piece(SentBytes(lens), n)
        /\ line = SubSeq(SentBytes(lens), 1, n)
        /\ wire = SubSeq(SentBytes(lens), n + 1, Len(SentBytes(lens)))
        /\ body = Data(0, Total(lens))
        /\ cur = 0 /\ remain = 0 /\ finish = FALSE /\ out = <<>>
        /\ rd = [pc |-> "out", count |-> 0]

----------------------------------------------------------------------------
\* pos_next_chunk(pos): looks for the end of a line from pos on.  The chunk that it begins,
\* or the CR LF after a chunk's data, which is a line of its own and of size 0.
EndOfLine(pos) ==
    {p \in 0..(Len(line) - pos - 2) : SubSeq(line, pos + p + 1, pos + p + 2) = CRLF}

HexToUint64(s) == IF s # <<>> /\ Head(s)[1] = "size" THEN Head(s)[2] ELSE 0

\* fault: the empty line after the last chunk is left on the connection
FinishUnread(pos, p) ==
    finish' = TRUE /\ remain' = 0 /\ wire' = wire

\* The last chunk: what is missing of the empty line after it is read from the stream.
Finish(pos, p) ==
    LET rest == pos + p + 4 - Len(line) IN
    /\ finish' = TRUE /\ remain' = 0
    /\ wire' = IF rest \in 1..2 THEN SubSeq(wire, rest + 1, Len(wire)) ELSE wire

PosNextChunk(pos, p, c) ==
    LET size == HexToUint64(SubSeq(line, pos + 1, pos + p)) IN
    IF size # 0 \/ p = 0
    THEN remain' = size /\ cur' = c + p + 2 /\ UNCHANGED <<wire, finish>>
    ELSE Finish(pos, p) /\ cur' = c

----------------------------------------------------------------------------
\* read(buf, count)
Read(n) ==
    /\ rd.pc = "out" /\ ~finish
    /\ rd' = [pc |-> "line", count |-> n]
    /\ UNCHANGED <<wire, line, cur, remain, finish, out, body>>

\* read_from_line_buf(), one turn of its loop: a part of the chunk, and the next chunk's line
\* when the chunk is done.
Deliver(n, from) == out' = out \o SubSeq(line, from + 1, from + n)

ReadFromLineBuf ==
    /\ rd.pc = "line"
    /\ body' = body
    /\ IF rd.count = 0 \/ cur >= Len(line) \/ finish
       THEN /\ rd' = [rd EXCEPT !.pc = "stream"]
            /\ UNCHANGED <<wire, line, cur, remain, finish, out>>
       ELSE LET n == Min({rd.count, remain, Len(line) - cur}) IN
            /\ Deliver(n, cur)
            /\ IF remain # n
               THEN /\ remain' = remain - n
                    /\ line' = IF cur + n = Len(line) THEN <<>> ELSE line
                    /\ cur' = IF cur + n = Len(line) THEN 0 ELSE cur + n
                    /\ rd' = [rd EXCEPT !.count = @ - n]
                    /\ UNCHANGED <<wire, finish>>
               ELSE IF EndOfLine(cur + n) = {}
               THEN /\ line' = SubSeq(line, cur + n + 1, Len(line))
                    /\ cur' = 0 /\ remain' = 0
                    /\ rd' = [pc |-> "stream", count |-> rd.count - n]
                    /\ UNCHANGED <<wire, finish>>
               ELSE /\ PosNextChunk(cur + n, Min(EndOfLine(cur + n)), cur + n)
                    /\ rd' = [rd EXCEPT !.count = @ - n, !.pc = "rewind"]
                    /\ line' = line

\* `if (m_cursor == m_line_size) m_cursor = m_line_size = 0`
Rewind ==
    /\ rd.pc = "rewind"
    /\ rd' = [rd EXCEPT !.pc = "line"]
    /\ line' = IF cur = Len(line) THEN <<>> ELSE line
    /\ cur' = IF cur = Len(line) THEN 0 ELSE cur
    /\ UNCHANGED <<wire, remain, finish, out, body>>

\* read_from_stream(): the stream reads all that is asked for, as long as there is some.
ReadFromStream ==
    /\ rd.pc = "stream"
    /\ LET n == Min({rd.count, remain, Len(wire)}) IN
       /\ out' = out \o SubSeq(wire, 1, n)
       /\ wire' = SubSeq(wire, n + 1, Len(wire))
       /\ remain' = remain - n
       /\ rd' = [pc |-> IF remain = n THEN "new" ELSE "again", count |-> rd.count - n]
    /\ UNCHANGED <<line, cur, finish, body>>

\* get_new_chunk(): from what is in the buffer,
GetNewChunk ==
    /\ rd.pc = "new" /\ ~(finish /\ cur >= Len(line))
    /\ UNCHANGED <<out, body>>
    /\ IF cur < Len(line) /\ EndOfLine(cur) # {}
       THEN /\ PosNextChunk(cur, Min(EndOfLine(cur)), cur)
            /\ rd' = [rd EXCEPT !.pc = "again"]
            /\ line' = line
       ELSE /\ line' = IF cur < Len(line) THEN SubSeq(line, cur + 1, Len(line)) ELSE line
            /\ cur' = IF cur < Len(line) THEN 0 ELSE cur
            /\ rd' = [rd EXCEPT !.pc = "recv"]
            /\ UNCHANGED <<wire, remain, finish>>

\* and else from what arrives, appended to it.
Recv(n) ==
    /\ rd.pc = "recv" /\ ~finish
    /\ Piece(wire, n)
    /\ line' = line \o SubSeq(wire, 1, n)
    /\ wire' = SubSeq(wire, n + 1, Len(wire))
    /\ rd' = [rd EXCEPT !.pc = IF Len(line) + n <= 2 THEN "recv" ELSE "parse"]
    /\ UNCHANGED <<cur, remain, finish, out, body>>

Parse ==
    /\ rd.pc = "parse"
    /\ IF EndOfLine(0) = {}
       THEN rd' = [rd EXCEPT !.pc = "recv"] /\ UNCHANGED <<wire, cur, remain, finish>>
       ELSE PosNextChunk(0, Min(EndOfLine(0)), cur) /\ rd' = [rd EXCEPT !.pc = "again"]
    /\ UNCHANGED <<line, out, body>>

\* The loop of read()
Again ==
    /\ rd.pc = "again" \/ (rd.pc = "new" /\ finish /\ cur >= Len(line)) \/ (rd.pc = "recv" /\ finish)
    /\ rd' = [rd EXCEPT !.pc = IF rd.count > 0 /\ ~finish THEN "line" ELSE "out"]
    /\ UNCHANGED <<wire, line, cur, remain, finish, out, body>>

Next ==
    \/ \E n \in 1..MaxCount : Read(n)
    \/ ReadFromLineBuf \/ Rewind \/ ReadFromStream \/ GetNewChunk \/ Parse \/ Again
    \/ \E n \in 1..Len(wire) : Recv(n)

Spec == Init /\ [][Next]_vars

----------------------------------------------------------------------------
\* read() returns the bytes of the chunks in order, and after the last one the connection is
\* at the end of the message: what comes next there is another message's.
BodyDecoded ==
    /\ IsPrefix(out, body)
    /\ finish => out = body /\ wire = <<>>
============================================================================
