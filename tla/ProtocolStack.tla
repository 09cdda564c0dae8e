---------------------------- MODULE ProtocolStack ----------------------------
(***************************************************************************)
(* ServerClientProtocolStack: messages framed in a byte stream.  A packet  *)
(* is a header (length, opcode, packet id), then its body; the reader      *)
(* decodes every complete packet and leaves the rest in the stream.        *)
(*                                                                         *)
(* A cell stands for a few bytes: the message it belongs to and its        *)
(* position in the packet.  The header is the first HeaderSize cells, so   *)
(* it can be cut in two.                                                   *)
(***************************************************************************)
EXTENDS LibStream

CONSTANTS HeaderSize   \* cells of a header (ProtocolHeaderStructure)

ASSUME StackAssumption == HeaderSize \in Nat \ {0}

\* A message: a number that tells it from others, the cells of its body, and its
\* kind.  "req" is a HelloWorldReq, "note" any other message with a coder, "over"
\* one above TOTAL_MSG_BYTES_LIMIT, "bad" one with an opcode that has no coder or
\* with a negative packet id.
Kinds == {"req", "note", "over", "bad"}

PacketLen(m) == HeaderSize + m.body

Packet(m) == [i \in 1..PacketLen(m) |-> [msg |-> m, pos |-> i]]

\* Encode writes the header, then the body; nothing limits the length.
Encode(stream, m) ==
    Write(Write(IF stream.cap = 0 THEN AppendCapacity(stream, HeaderSize)
                                  ELSE stream,
                SubSeq(Packet(m), 1, HeaderSize)),
          SubSeq(Packet(m), HeaderSize + 1, PacketLen(m)))

-----------------------------------------------------------------------------
(* Decode, at the first readable cell. *)

HasHeader(cells) == Len(cells) >= HeaderSize

HasBody(cells) == Len(cells) >= PacketLen(cells[1].msg)

\* The header is read at a place where a packet begins; what is read elsewhere
\* makes no sense and is refused like a length over the limit.
OverLimit(cells) == cells[1].pos # 1 \/ cells[1].msg.kind = "over"

Refused(cells) ==
    /\ HasHeader(cells)
    /\ OverLimit(cells) \/ (HasBody(cells) /\ cells[1].msg.kind = "bad")

Complete(cells) == HasHeader(cells) /\ ~Refused(cells) /\ HasBody(cells)

\* messageList, hasBadMsg and what stays in the stream.  Each round takes a packet
\* of one cell at least, so there are no more rounds than cells.
Decode(stream) ==
    LET after[n \in 0..ReadableBytes(stream)] ==
            IF n = 0 THEN [packets |-> <<>>, stream |-> stream]
            ELSE LET was == after[n - 1]
                     cells == Readable(was.stream)
                 IN  IF Complete(cells)
                     THEN [packets |-> Append(was.packets, cells[1].msg),
                           stream |-> ShiftReadPos(was.stream, PacketLen(cells[1].msg))]
                     ELSE was
        last == after[ReadableBytes(stream)]
    IN  [packets |-> last.packets, hasBadMsg |-> Refused(Readable(last.stream)),
         stream |-> last.stream]
=============================================================================
