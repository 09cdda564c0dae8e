----------------------------- MODULE KcpChannel -----------------------------
(***************************************************************************)
(* The byte streams of two connected KcpChannels: messages are encoded     *)
(* into a stream, cut into pieces for ikcp_send, kept back while the send  *)
(* window is full, received piece by piece, joined and decoded, and some   *)
(* of them answered by their handler.                                      *)
(*                                                                         *)
(* Abstractions.  Below the channel lies what KcpArq is proved to be: a    *)
(* stream of whole pieces in order (ReliableStream); an acknowledgement    *)
(* may come late.  A segment carries one cell (mss = 1).  Both channels    *)
(* are active: the server activates one when it creates it, the client     *)
(* when its worker starts.                                                 *)
(***************************************************************************)
EXTENDS ProtocolStack, SequencesExt

CONSTANTS
    Client, Server,  \* the two channels
    Users,           \* the channels whose users send messages
    Bodies,          \* cells a body may have
    SndWnd,          \* snd_wnd, segments
    WndRcv,          \* IKCP_WND_RCV
    MaxMsgs          \* bound of the model: messages a user sends

Ends == {Client, Server}

ASSUME ChannelAssumption ==
    /\ Client # Server
    /\ Users \subseteq Ends
    /\ Bodies \subseteq Nat
    /\ SndWnd \in Nat \ {0}
    /\ WndRcv \in Nat \ {0, 1}
    /\ MaxMsgs \in Nat

VARIABLES
    sent,     \* history: messages for which Send returned true, in order
    handled,  \* history: messages given to ProcessMessage, in order
    out,      \* the sending half of a channel, with its half of the control block
    rcv,      \* pieces that have arrived and wait for ikcp_recv, as cells
    left,     \* _leftMsgStream
    ctrl,     \* _streamCtrlFlag
    cb        \* the control block: not created yet, created, released

vars == <<sent, handled, out, rcv, left, ctrl, cb>>

Peer(e) == IF e = Client THEN Server ELSE Client

\* A cell inside KCP: last marks the end of a piece (frg = 0).
Marked(cells) == [i \in 1..Len(cells) |-> [cell |-> cells[i], last |-> i = Len(cells)]]

Cells(marked) == [i \in 1..Len(marked) |-> marked[i].cell]

Flags == {"LAZY_CLOSE", "FORBID_SEND", "FORBID_RECV"}

\* waiting is _waitingSendMsgStream, write the WRITE flag; flying has been taken
\* by ikcp_send and has not arrived, unacked has arrived but is not acknowledged.
TypeOK ==
    /\ \A e \in Ends :
          /\ IsStream(out[e].waiting)
          /\ ~out[e].waiting.attach
          /\ out[e].write \in BOOLEAN
          /\ out[e].unacked \in Nat
          /\ IsStream(left[e])
          /\ ~left[e].attach
          /\ Len(handled[e]) <= Len(sent[Peer(e)])
          /\ ctrl[e] \in SUBSET Flags
    /\ cb \in [Ends -> {"none", "created", "released"}]

\* The server channel has its control block before its acknowledgement leaves.
Init ==
    /\ sent = [e \in Ends |-> <<>>]
    /\ handled = [e \in Ends |-> <<>>]
    /\ out = [e \in Ends |-> [waiting |-> Null, write |-> FALSE,
                              flying |-> <<>>, unacked |-> 0]]
    /\ rcv = [e \in Ends |-> <<>>]
    /\ left = [e \in Ends |-> Null]
    /\ ctrl = [e \in Ends |-> {}]
    /\ cb = [e \in Ends |-> IF e = Server THEN "created" ELSE "none"]

-----------------------------------------------------------------------------
(* Plausible mistakes in the operators below. *)

\* ikcp_getmaxsendlen_pertimes without its - 1: ikcp_send refuses such a piece.
MaxSendLenWhole == WndRcv

\* The capacity of _leftMsgStream is taken for what is writable.
RoomInCapacity(s, n) ==
    IF s.cap = 0 THEN InitBuffer(n)
    ELSE IF s.cap < n THEN AppendCapacity(s, n - s.cap) ELSE s

\* The rest of a message is kept back but not flagged.
KeepBackQuietly(o, stream) ==
    [o EXCEPT !.waiting =
        Compress(Write(IF @.cap = 0 THEN InitBuffer(ReadableBytes(stream)) ELSE @,
                       Readable(stream)))]

-----------------------------------------------------------------------------
(* Sending. *)

\* ikcp_waitsnd
WaitSnd(o) == Len(o.flying) + o.unacked

\* ikcp_getmaxsendlen_pertimes
MaxSendLen == WndRcv - 1

\* ikcp_send: a piece of n segments, n < IKCP_WND_RCV.
KcpTakes(n) == n < WndRcv

\* _SendStream: pieces go to ikcp_send until twice the window waits; one that
\* ikcp_send refuses is dropped from the stream all the same.  Each round takes a
\* cell at least, so there are no more rounds than cells.
SendStream(o, stream) ==
    LET after[n \in 0..ReadableBytes(stream)] ==
            IF n = 0 THEN [out |-> o, stream |-> stream]
            ELSE LET was == after[n - 1]
                     cells == Readable(was.stream)
                     piece == SubSeq(cells, 1, AtMost(MaxSendLen, Len(cells)))
                 IN  IF cells = <<>> \/ WaitSnd(was.out) >= 2 * SndWnd THEN was
                     ELSE [out |-> IF KcpTakes(Len(piece))
                                   THEN [was.out EXCEPT !.flying = @ \o Marked(piece)]
                                   ELSE was.out,
                           stream |-> ShiftReadPos(was.stream, Len(piece))]
    IN  after[ReadableBytes(stream)]

\* What is left of stream waits; the WRITE flag says so.
KeepBack(o, stream) ==
    LET kept == IF ReadableBytes(stream) = 0 THEN o.waiting
                ELSE Write(IF o.waiting.cap = 0
                           THEN InitBuffer(ReadableBytes(stream)) ELSE o.waiting,
                           Readable(stream))
    IN  [o EXCEPT !.waiting = Compress(kept),
                  !.write = @ \/ ReadableBytes(kept) # 0]

\* KcpChannel::Send: what waits goes before the new message.  MaskWriteDirty(FALSE)
\* clears the READ flag, so the WRITE flag stays as it is.
SendTo(o, m) ==
    LET older == IF ReadableBytes(o.waiting) = 0 THEN Null
                 ELSE Write(InitBuffer(ReadableBytes(o.waiting)), Readable(o.waiting))
        waiting == IF ReadableBytes(o.waiting) = 0 THEN o.waiting ELSE Destroy(o.waiting)
        r == SendStream([o EXCEPT !.waiting = waiting], Encode(older, m))
    IN  KeepBack(r.out, r.stream)

CanSend(e) == "FORBID_SEND" \notin ctrl[e]
CanRecv(e) == "FORBID_RECV" \notin ctrl[e]

Send(e) ==
    /\ CanSend(e) /\ cb[e] = "created"
    /\ Len(sent[e]) < MaxMsgs                             \* bound: MaxMsgs
    /\ \E body \in Bodies, kind \in Kinds :
          LET m == [id |-> Len(sent[e]) + 1, body |-> body, kind |-> kind]
          IN  /\ sent' = [sent EXCEPT ![e] = Append(@, m)]
              /\ out' = [out EXCEPT ![e] = SendTo(@, m)]
    /\ UNCHANGED <<handled, rcv, left, ctrl, cb>>

\* _ContinueSend
ContinueSend(o) ==
    LET r == SendStream(o, o.waiting)
    IN  [r.out EXCEPT !.waiting = Compress(r.stream),
                      !.write = @ \/ ReadableBytes(r.stream) # 0]

\* OnUpdate, every frame: ikcp_update is KcpArq's business but for a socket error
\* in RawSend, which marks the channel; then the waiting bytes get their turn.
Update(e) ==
    /\ cb[e] = "created"
    /\ out' = IF out[e].write THEN [out EXCEPT ![e] = ContinueSend(@)] ELSE out
    /\ ctrl' \in {ctrl, [ctrl EXCEPT ![e] = @ \cup {"LAZY_CLOSE"}]}
    /\ UNCHANGED <<sent, handled, rcv, left, cb>>

-----------------------------------------------------------------------------
(* Receiving. *)

\* _InitKcpCb of a client channel when the ACK of its handshake arrives.
Connected ==
    /\ cb[Client] = "none"
    /\ CanRecv(Client)
    /\ cb' = [cb EXCEPT ![Client] = "created"]
    /\ UNCHANGED <<sent, handled, out, rcv, left, ctrl>>

\* ikcp_peeksize: the first piece, if all of it is there.
FirstPiece(arrived) ==
    LET ends == {i \in 1..Len(arrived) : arrived[i].last}
    IN  IF ends = {} THEN <<>>
        ELSE SubSeq(arrived, 1, CHOOSE i \in ends : \A j \in ends : i <= j)

Room(s, n) ==
    IF s.cap = 0 THEN InitBuffer(n)
    ELSE IF WritableBytes(s) < n THEN AppendCapacity(s, n - WritableBytes(s)) ELSE s

\* One ikcp_recv into the stream, however many pieces there are.
Received(s, piece) ==
    IF piece = <<>> THEN s ELSE ShiftWritePos(Room(s, Len(piece)), Cells(piece))

\* HelloWorldReqHandler answers with a message of the same content.
Answer(n, m) == [id |-> n, body |-> m.body, kind |-> "note"]

\* _OnRcvMsg handles one packet after the other: a request is answered by Send.
Answered(e, o, packets) ==
    LET after[n \in 0..Len(packets)] ==
            IF n = 0 THEN [sent |-> sent[e], out |-> o]
            ELSE LET was == after[n - 1]
                     answer == Answer(Len(was.sent) + 1, packets[n])
                 IN  IF packets[n].kind = "req"
                     THEN [sent |-> Append(was.sent, answer), out |-> SendTo(was.out, answer)]
                     ELSE was
    IN  after[Len(packets)]

\* OnReadable(stream): a datagram brings k more cells of the other end's pieces in
\* order and acknowledges a cells; _OnRcvMsg decodes what is complete, handles it
\* and marks the channel if something cannot be decoded.
Datagram(e, k, a) ==
    LET p == Peer(e)
        arrived == rcv[e] \o SubSeq(out[p].flying, 1, k)
        piece == FirstPiece(arrived)
    IN  /\ cb[e] = "created" /\ CanRecv(e)
        /\ \E d \in {Decode(Received(left[e], piece))} :
              \E done \in {Answered(e, [out[e] EXCEPT !.unacked = @ - a], d.packets)} :
                 /\ left' = [left EXCEPT ![e] = Compress(d.stream)]
                 /\ handled' = [handled EXCEPT ![e] = @ \o d.packets]
                 /\ sent' = [sent EXCEPT ![e] = done.sent]
                 /\ out' = [out EXCEPT ![p].flying = SubSeq(@, k + 1, Len(@)),
                                      ![p].unacked = @ + k,
                                      ![e] = done.out]
                 /\ ctrl' = IF d.hasBadMsg THEN [ctrl EXCEPT ![e] = Flags] ELSE ctrl
        /\ rcv' = [rcv EXCEPT ![e] = SubSeq(arrived, Len(piece) + 1, Len(arrived))]
        /\ UNCHANGED cb

OnReadable(e) ==
    \E k \in 0..Len(out[Peer(e)].flying), a \in 0..out[e].unacked : Datagram(e, k, a)

-----------------------------------------------------------------------------
(* The end of a channel. *)

\* A heartbeat timeout, an exception reported by select or an error of recvfrom
\* marks the channel and forbids it to send and receive.
Shut(e) ==
    /\ ctrl' = [ctrl EXCEPT ![e] = Flags]
    /\ UNCHANGED <<sent, handled, out, rcv, left, cb>>

\* The close loop destroys a marked channel: ikcp_release frees what KCP held, and
\* some of what is in flight arrives all the same.
Close(e) ==
    /\ "LAZY_CLOSE" \in ctrl[e] /\ cb[e] # "released"
    /\ cb' = [cb EXCEPT ![e] = "released"]
    /\ \E k \in 0..Len(out[e].flying) :
          out' = [out EXCEPT ![e].flying = SubSeq(@, 1, k)]
    /\ UNCHANGED <<sent, handled, rcv, left, ctrl>>

Next ==
    \/ \E e \in Users : Send(e)
    \/ \E e \in Ends : Update(e) \/ OnReadable(e) \/ Shut(e) \/ Close(e)
    \/ Connected

Spec == Init /\ [][Next]_vars

-----------------------------------------------------------------------------
(* What must hold. *)

Flat(messages) == FlattenSeq([i \in 1..Len(messages) |-> Packet(messages[i])])

\* Between two channels no byte is lost, repeated or moved: what the peer has
\* handled, the rest in its _leftMsgStream, the pieces KCP carries and what waits
\* to be sent are, one after the other, the packets that were sent.  So every
\* message is decoded where it begins, and handled once, in order.
BytesConserved ==
    \A e \in Ends : cb[e] # "released" =>
        Flat(sent[e]) = Flat(handled[Peer(e)])
                            \o Readable(left[Peer(e)])
                            \o Cells(rcv[Peer(e)])
                            \o Cells(out[e].flying)
                            \o Readable(out[e].waiting)
=============================================================================
