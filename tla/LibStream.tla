------------------------------ MODULE LibStream ------------------------------
(***************************************************************************)
(* LibStream, the byte buffer of the library: what is written at the write *)
(* position is read at the read position; writing grows a buffer of its    *)
(* own, compressing drops what has been read and gives memory back.        *)
(*                                                                         *)
(* A stream is a record: mem, what lies before the write position (so the  *)
(* write position is Len(mem)); rd, the read position; cap, _capicity; and *)
(* attach, whether the memory belongs to somebody else.  What a byte is,   *)
(* the user of the module says: any value may be written.                  *)
(***************************************************************************)
EXTENDS Integers, Sequences

IsStream(s) ==
    /\ s.attach \in BOOLEAN
    /\ s.rd \in 0..Len(s.mem)
    /\ Len(s.mem) <= s.cap

\* After the constructor, Destroy or PopBuffer: no buffer.
Null == [mem |-> <<>>, rd |-> 0, cap |-> 0, attach |-> FALSE]

InitBuffer(n) == [mem |-> <<>>, rd |-> 0, cap |-> n, attach |-> FALSE]

\* A view of memory that is already written.
AttachBuffer(mem) == [mem |-> mem, rd |-> 0, cap |-> Len(mem), attach |-> TRUE]

Destroy(s) == Null

AppendCapacity(s, n) == [s EXCEPT !.cap = @ + n]

ReadableBytes(s) == Len(s.mem) - s.rd

Readable(s) == SubSeq(s.mem, s.rd + 1, Len(s.mem))

WritableBytes(s) == s.cap - Len(s.mem)

AtMost(a, b) == IF a < b THEN a ELSE b

AtLeast(a, b) == IF a > b THEN a ELSE b

ShiftReadPos(s, n) == [s EXCEPT !.rd = @ + AtMost(n, ReadableBytes(s))]

\* Somebody has put data at GetWriteBegin(); what does not fit is not counted.
ShiftWritePos(s, data) ==
    [s EXCEPT !.mem = @ \o SubSeq(data, 1, AtMost(Len(data), WritableBytes(s)))]

\* Growing at least doubles the buffer; an attached one is left alone.
Write(s, data) ==
    IF Len(data) <= WritableBytes(s) THEN [s EXCEPT !.mem = @ \o data]
    ELSE IF s.attach THEN s
    ELSE [s EXCEPT !.mem = @ \o data, !.cap = @ + AtLeast(Len(data), s.cap)]

\* The move of the unread bytes overlaps when there are more of them than read
\* ones: the memcpy of the supported C libraries then works as memmove does.
Compress(s) ==
    [s EXCEPT !.mem = Readable(s), !.rd = 0,
              !.cap = IF s.attach THEN @ ELSE ReadableBytes(s)]
=============================================================================
