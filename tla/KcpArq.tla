------------------------------- MODULE KcpArq -------------------------------
(***************************************************************************)
(* The KCP automatic-repeat-request protocol (ikcp.cpp): two control       *)
(* blocks of one conversation, joined by a datagram network that loses,    *)
(* repeats and reorders.  Each end has the whole control block, so data,   *)
(* acknowledgements and window probes travel both ways.                    *)
(*                                                                         *)
(* Abstractions.  A payload is the identity of its fragment; a segment     *)
(* travels in a datagram of its own (ikcp_input treats the segments of one *)
(* datagram one after the other); the clock is a choice: a flush resends   *)
(* any of the unacknowledged segments, and an armed probe timer may have   *)
(* run out or not.  Sequence numbers are naturals (KcpSerial relates them  *)
(* to the 32-bit ones) and congestion control is off, as KcpChannel        *)
(* configures it (nocwnd = 1, stream = 0).                                 *)
(***************************************************************************)
EXTENDS Integers, Sequences, FiniteSets

CONSTANTS
    A, B,        \* the two ends of the conversation
    Senders,     \* the ends whose users hand messages over
    SndWnd,      \* snd_wnd, segments
    RcvWnd,      \* rcv_wnd, segments
    WndRcv,      \* IKCP_WND_RCV: a message has fewer fragments than this
    NoData,      \* payload of a segment that is not a PUSH
    MaxSent,     \* bound of the model: fragments a user hands over
    NetCap       \* bound of the model: datagrams in flight; more are lost

Ends == {A, B}

\* ikcp_wndsize never lets rcv_wnd fall below IKCP_WND_RCV.
ASSUME ArqAssumption ==
    /\ A # B
    /\ Senders \subseteq Ends
    /\ SndWnd \in Nat \ {0}
    /\ WndRcv \in Nat \ {0, 1}
    /\ RcvWnd \in Nat
    /\ RcvWnd >= WndRcv
    /\ MaxSent \in Nat
    /\ NetCap \in Nat

VARIABLES
    sent,        \* history: fragments handed to ikcp_send, in order
    delivered,   \* history: fragments ikcp_recv has returned, in order
    snd_queue,   \* fragments without a sequence number yet
    snd_buf,     \* sn -> fragment, sent and not acknowledged
    snd_una,     \* first unacknowledged sequence number
    snd_nxt,     \* next sequence number to assign
    rmt_wnd,     \* window the other end last advertised
    rcv_buf,     \* sn -> fragment, received and not yet in order
    rcv_queue,   \* fragments in order, waiting for ikcp_recv
    rcv_nxt,     \* next sequence number to enter rcv_queue
    acklist,     \* sequence numbers to acknowledge at the next flush
    probe,       \* subset of {"ASK_SEND", "ASK_TELL"}
    probing,     \* probe_wait # 0: the probe timer is armed
    net          \* the datagrams in flight

sndVars == <<snd_queue, snd_buf, snd_una, snd_nxt, rmt_wnd>>
rcvVars == <<rcv_buf, rcv_queue, rcv_nxt>>
vars == <<sent, delivered, sndVars, rcvVars, acklist, probe, probing, net>>

Peer(e) == IF e = A THEN B ELSE A

Fragment == [msg: Nat, frg: Nat]

Segment ==
    [to: Ends, cmd: {"PUSH"}, sn: Nat, una: Nat, wnd: Nat, data: Fragment]
        \cup [to: Ends, cmd: {"ACK", "WASK", "WINS"}, sn: Nat, una: Nat,
              wnd: Nat, data: {NoData}]

TypeOK ==
    /\ sent \in [Ends -> Seq(Fragment)]
    /\ delivered \in [Ends -> Seq(Fragment)]
    /\ snd_queue \in [Ends -> Seq(Fragment)]
    /\ rcv_queue \in [Ends -> Seq(Fragment)]
    /\ snd_una \in [Ends -> Nat]
    /\ snd_nxt \in [Ends -> Nat]
    /\ rcv_nxt \in [Ends -> Nat]
    /\ rmt_wnd \in [Ends -> Nat]
    /\ DOMAIN snd_buf = Ends
    /\ DOMAIN rcv_buf = Ends
    /\ \A e \in Ends :
          /\ DOMAIN snd_buf[e] \subseteq Nat
          /\ DOMAIN rcv_buf[e] \subseteq Nat
          /\ \A sn \in DOMAIN snd_buf[e] : snd_buf[e][sn] \in Fragment
          /\ \A sn \in DOMAIN rcv_buf[e] : rcv_buf[e][sn] \in Fragment
          /\ acklist[e] \subseteq Nat
    /\ DOMAIN acklist = Ends
    /\ probe \in [Ends -> SUBSET {"ASK_SEND", "ASK_TELL"}]
    /\ probing \in [Ends -> BOOLEAN]
    /\ net \subseteq Segment

Init ==
    /\ sent = [e \in Ends |-> <<>>]
    /\ delivered = [e \in Ends |-> <<>>]
    /\ snd_queue = [e \in Ends |-> <<>>]
    /\ snd_buf = [e \in Ends |-> [sn \in {} |-> NoData]]
    /\ snd_una = [e \in Ends |-> 0]
    /\ snd_nxt = [e \in Ends |-> 0]
    /\ rmt_wnd = [e \in Ends |-> WndRcv]
    /\ rcv_buf = [e \in Ends |-> [sn \in {} |-> NoData]]
    /\ rcv_queue = [e \in Ends |-> <<>>]
    /\ rcv_nxt = [e \in Ends |-> 0]
    /\ acklist = [e \in Ends |-> {}]
    /\ probe = [e \in Ends |-> {}]
    /\ probing = [e \in Ends |-> FALSE]
    /\ net = {}

-----------------------------------------------------------------------------
(* Plausible mistakes in the operators below: each violates one of the      *)
(* properties, which shows that the property depends on the code.           *)

\* The limit on the fragments of a message is forgotten (ikcp_send).
AcceptedAny(n) == TRUE

\* Only one fragment moves on per call.
MovesOne(k, buf, nxt, len) ==
    k = IF nxt \in DOMAIN buf /\ len < RcvWnd THEN 1 ELSE 0

\* The fragments are inserted at the wrong end of rcv_queue.
FillQueueFront(e, buf, queue, k) ==
    /\ k \in 0..(RcvWnd - Len(queue))
    /\ \A i \in 0..(k - 1) : rcv_nxt[e] + i \in DOMAIN buf
    /\ k = RcvWnd - Len(queue) \/ rcv_nxt[e] + k \notin DOMAIN buf
    /\ rcv_queue' = [rcv_queue EXCEPT ![e] =
                        [i \in 1..k |-> buf[rcv_nxt[e] + i - 1]] \o queue]
    /\ rcv_buf' = [rcv_buf EXCEPT ![e] =
                      [sn \in DOMAIN buf \ (rcv_nxt[e]..(rcv_nxt[e] + k - 1)) |->
                          buf[sn]]]
    /\ rcv_nxt' = [rcv_nxt EXCEPT ![e] = @ + k]

\* ikcp_peeksize counts one fragment too few.
PeekableEarly(queue) ==
    queue # <<>> /\ (queue[1].frg = 0 \/ Len(queue) >= queue[1].frg)

\* ikcp_recv merges past the last fragment of a message.
MergeLenAll(queue, n) == n = Len(queue)

\* una acknowledges the segment it names, too.
UnackedPast(e, m) ==
    {sn \in DOMAIN snd_buf[e] : sn > m.una /\ (m.cmd = "ACK" => sn # m.sn)}

\* The window of the sender is not looked at.
AdmitsRemote(e, n) ==
    LET room == snd_una[e] + rmt_wnd[e] - snd_nxt[e]
    IN  /\ n \in 0..Len(snd_queue[e])
        /\ n = 0 \/ n <= room
        /\ n = Len(snd_queue[e]) \/ n >= room

\* A repeated segment is not acknowledged again.
AcceptableNew(e, m) == m.sn >= rcv_nxt[e] /\ m.sn < rcv_nxt[e] + RcvWnd

\* una is the last number received instead of the next one expected.
SegLast(e, cmd, sn, data) ==
    [to |-> Peer(e), cmd |-> cmd, sn |-> sn, una |-> rcv_nxt[e] - 1,
     wnd |-> RcvWnd - Len(rcv_queue[e]), data |-> data]

\* The probe timer never asks.
AsksNever(e, expired) == probe[e]

-----------------------------------------------------------------------------
(* ikcp_send: cut the message into n fragments and queue them. *)

\* A message of count fragments is refused when count >= IKCP_WND_RCV.
Accepted(n) == n < WndRcv

Send(e) ==
    /\ \E n \in 1..(MaxSent - Len(sent[e])) :      \* bound: MaxSent
          LET frags == [i \in 1..n |-> [msg |-> Len(sent[e]), frg |-> n - i]]
          IN  /\ Accepted(n)
              /\ sent' = [sent EXCEPT ![e] = @ \o frags]
              /\ snd_queue' = [snd_queue EXCEPT ![e] = @ \o frags]
    /\ UNCHANGED <<delivered, snd_buf, snd_una, snd_nxt, rmt_wnd, rcvVars,
                   acklist, probe, probing, net>>

-----------------------------------------------------------------------------
(* The receive side. *)

\* k fragments move from buf to the queue: as many as are in sequence from
\* nxt on and fit in the queue (the loop that ends parse_data and recv).
Moves(k, buf, nxt, len) ==
    /\ k \in 0..(RcvWnd - len)
    /\ \A i \in 0..(k - 1) : nxt + i \in DOMAIN buf
    /\ k = RcvWnd - len \/ nxt + k \notin DOMAIN buf

FillQueue(e, buf, queue, k) ==
    /\ Moves(k, buf, rcv_nxt[e], Len(queue))
    /\ rcv_queue' = [rcv_queue EXCEPT ![e] =
                        queue \o [i \in 1..k |-> buf[rcv_nxt[e] + i - 1]]]
    /\ rcv_buf' = [rcv_buf EXCEPT ![e] =
                      [sn \in DOMAIN buf \ (rcv_nxt[e]..(rcv_nxt[e] + k - 1)) |->
                          buf[sn]]]
    /\ rcv_nxt' = [rcv_nxt EXCEPT ![e] = @ + k]

\* ikcp_peeksize finds a complete message at the head of the queue.
Peekable(queue) ==
    /\ queue # <<>>
    /\ queue[1].frg = 0 \/ Len(queue) >= queue[1].frg + 1

\* ikcp_recv merges the first n fragments, up to one with frg = 0.
MergeLen(queue, n) ==
    /\ n \in 1..Len(queue)
    /\ \A i \in 1..(n - 1) : queue[i].frg # 0
    /\ n = Len(queue) \/ queue[n].frg = 0

Recv(e) ==
    /\ Peekable(rcv_queue[e])
    /\ \E n \in 1..Len(rcv_queue[e]) :
          LET rest == SubSeq(rcv_queue[e], n + 1, Len(rcv_queue[e]))
              recover == Len(rcv_queue[e]) >= RcvWnd
          IN  /\ MergeLen(rcv_queue[e], n)
              /\ delivered' = [delivered EXCEPT
                                 ![e] = @ \o SubSeq(rcv_queue[e], 1, n)]
              /\ \E k \in 0..RcvWnd :
                    /\ FillQueue(e, rcv_buf[e], rest, k)
                    /\ probe' = [probe EXCEPT ![e] =
                                   IF Len(rest) + k < RcvWnd /\ recover
                                   THEN @ \cup {"ASK_TELL"} ELSE @]
    /\ UNCHANGED <<sent, sndVars, acklist, probing, net>>

-----------------------------------------------------------------------------
(* ikcp_input, one segment. *)

\* snd_buf without what una and, for an ACK, sn acknowledge.
Unacked(e, m) ==
    {sn \in DOMAIN snd_buf[e] : sn >= m.una /\ (m.cmd = "ACK" => sn # m.sn)}

\* parse_una, parse_ack and shrink_buf, common to every command.
AcceptAcks(e, m) ==
    /\ rmt_wnd' = [rmt_wnd EXCEPT ![e] = m.wnd]
    /\ snd_buf' = [snd_buf EXCEPT ![e] = [sn \in Unacked(e, m) |-> @[sn]]]
    /\ \E u \in Unacked(e, m) \cup {snd_nxt[e]} :
          /\ \A sn \in Unacked(e, m) \cup {snd_nxt[e]} : u <= sn
          /\ snd_una' = [snd_una EXCEPT ![e] = u]

\* A PUSH left of the right edge of the window is acknowledged, even a
\* repeated one; parse_data keeps it when it is new.
Acceptable(e, m) == m.sn < rcv_nxt[e] + RcvWnd

AcceptData(e, m) ==
    /\ acklist' = IF Acceptable(e, m)
                  THEN [acklist EXCEPT ![e] = @ \cup {m.sn}] ELSE acklist
    /\ IF Acceptable(e, m) /\ m.sn >= rcv_nxt[e]
       THEN \E k \in 0..RcvWnd :
               FillQueue(e, [sn \in DOMAIN rcv_buf[e] \cup {m.sn} |->
                               IF sn \in DOMAIN rcv_buf[e]
                               THEN rcv_buf[e][sn] ELSE m.data],
                         rcv_queue[e], k)
       ELSE UNCHANGED rcvVars

\* The network hands m to its end, and may keep a copy to hand over again.
Input(m) ==
    /\ m \in net
    /\ net' \in {net, net \ {m}}
    /\ AcceptAcks(m.to, m)
    /\ IF m.cmd = "PUSH" THEN AcceptData(m.to, m)
                         ELSE UNCHANGED <<rcvVars, acklist>>
    /\ probe' = IF m.cmd = "WASK"
                THEN [probe EXCEPT ![m.to] = @ \cup {"ASK_TELL"}] ELSE probe
    /\ UNCHANGED <<sent, delivered, snd_queue, snd_nxt, probing>>

-----------------------------------------------------------------------------
(* ikcp_update when a flush is due: ikcp_flush. *)

WndUnused(e) == IF Len(rcv_queue[e]) < RcvWnd
                THEN RcvWnd - Len(rcv_queue[e]) ELSE 0

Seg(e, cmd, sn, data) ==
    [to |-> Peer(e), cmd |-> cmd, sn |-> sn, una |-> rcv_nxt[e],
     wnd |-> WndUnused(e), data |-> data]

\* The probe timer arms itself at the first flush that sees a closed window; at
\* a later one it may have run out.
Expires(e) == IF rmt_wnd[e] = 0 /\ probing[e] THEN BOOLEAN ELSE {FALSE}

\* The sends the probe flags ask for.
Asks(e, expired) == IF expired THEN probe[e] \cup {"ASK_SEND"} ELSE probe[e]

\* How many fragments get a sequence number: all that fit in the window.
Admits(e, n) ==
    LET cwnd == IF SndWnd < rmt_wnd[e] THEN SndWnd ELSE rmt_wnd[e]
        room == snd_una[e] + cwnd - snd_nxt[e]
    IN  /\ n \in 0..Len(snd_queue[e])
        /\ n = 0 \/ n <= room
        /\ n = Len(snd_queue[e]) \/ n >= room

\* snd_buf once n fragments of snd_queue have been appended to it.
Appended(e, n) ==
    [sn \in DOMAIN snd_buf[e] \cup (snd_nxt[e]..(snd_nxt[e] + n - 1)) |->
        IF sn \in DOMAIN snd_buf[e] THEN snd_buf[e][sn]
                                    ELSE snd_queue[e][sn - snd_nxt[e] + 1]]

\* What the flush outputs when every unacknowledged segment is due.
Output(e, n, expired) ==
    {Seg(e, "ACK", sn, NoData) : sn \in acklist[e]}
        \cup {Seg(e, "WASK", 0, NoData) : x \in Asks(e, expired) \cap {"ASK_SEND"}}
        \cup {Seg(e, "WINS", 0, NoData) : x \in Asks(e, expired) \cap {"ASK_TELL"}}
        \cup {Seg(e, "PUSH", sn, Appended(e, n)[sn]) : sn \in DOMAIN Appended(e, n)}

\* What is not due, and what the network loses, is missing from net'.
Flush(e) ==
    /\ \E n \in 0..Len(snd_queue[e]), expired \in Expires(e) :
          /\ Admits(e, n)
          /\ snd_buf' = [snd_buf EXCEPT ![e] = Appended(e, n)]
          /\ snd_nxt' = [snd_nxt EXCEPT ![e] = @ + n]
          /\ snd_queue' = [snd_queue EXCEPT ![e] = SubSeq(@, n + 1, Len(@))]
          /\ \E kept \in SUBSET (Output(e, n, expired) \ net) :
                /\ Cardinality(net \cup kept) <= NetCap
                /\ net' = net \cup kept
    /\ acklist' = [acklist EXCEPT ![e] = {}]
    /\ probe' = [probe EXCEPT ![e] = {}]
    /\ probing' = [probing EXCEPT ![e] = rmt_wnd[e] = 0]
    /\ UNCHANGED <<sent, delivered, snd_una, rmt_wnd, rcvVars>>

Lose(m) ==
    /\ m \in net
    /\ net' = net \ {m}
    /\ UNCHANGED <<sent, delivered, sndVars, rcvVars, acklist, probe, probing>>

-----------------------------------------------------------------------------

Next ==
    \/ \E e \in Senders : Send(e)
    \/ \E e \in Ends : Recv(e)
    \/ \E e \in Ends : Flush(e)
    \/ \E m \in net : Input(m)
    \/ \E m \in net : Lose(m)

Spec == Init /\ [][Next]_vars

-----------------------------------------------------------------------------
(* What must hold. *)

\* Every user obtains a prefix of what the other one handed over: nothing is
\* lost, repeated, reordered or mixed up on its way through snd_queue, snd_buf,
\* the network, rcv_buf and rcv_queue.
InOrder ==
    \A e \in Ends :
        /\ Len(delivered[e]) <= Len(sent[Peer(e)])
        /\ \A i \in 1..Len(delivered[e]) : delivered[e][i] = sent[Peer(e)][i]

\* ikcp_recv returns whole messages: what it has returned never ends inside
\* one (the assert(len == peeksize) of ikcp_recv speaks of the same fact).
WholeMessages ==
    \A e \in Ends : delivered[e] # <<>> => delivered[e][Len(delivered[e])].frg = 0

\* parse_ack and parse_una discard a segment only when the other end has it:
\* a discarded segment is never sent again.
Received(e, sn) == sn < rcv_nxt[e] \/ sn \in DOMAIN rcv_buf[e]

DiscardedIsReceived ==
    \A e \in Ends : \A sn \in 0..(snd_nxt[e] - 1) :
        sn \notin DOMAIN snd_buf[e] => Received(Peer(e), sn)

\* The buffers stay within their windows whatever stale window a reordered
\* segment advertises.
Bounded ==
    \A e \in Ends :
        /\ DOMAIN snd_buf[e] \subseteq snd_una[e]..(snd_nxt[e] - 1)
        /\ snd_nxt[e] <= snd_una[e] + SndWnd
        /\ Len(rcv_queue[e]) <= RcvWnd
        /\ DOMAIN rcv_buf[e] \subseteq rcv_nxt[e]..(rcv_nxt[e] + RcvWnd - 1)

\* A fragment that is next in sequence never waits in rcv_buf while rcv_queue
\* has room: nothing but an arrival or a receive would move it later.
NothingStranded ==
    \A e \in Ends : rcv_nxt[e] \in DOMAIN rcv_buf[e] => Len(rcv_queue[e]) = RcvWnd

\* A full rcv_queue holds a complete message (IKCP_WND_RCV "must >= max
\* fragment size"): otherwise the receive window would stay closed for ever.
NeverWedged ==
    \A e \in Ends : Len(rcv_queue[e]) >= RcvWnd => Peekable(rcv_queue[e])

\* The conversation keeps the promise of a reliable message stream.
Stream == INSTANCE ReliableStream WITH MaxFrag <- WndRcv - 1

StreamSpec == Stream!Spec

-----------------------------------------------------------------------------
(* The inductive strengthening of these invariants (proved in KcpArqProofs). *)

\* Fragment frg of a message is followed by its fragments frg - 1, ..., 0.
StreamShape(e) ==
    \A i \in 1..Len(sent[e]) :
        LET f == sent[e][i].frg
        IN  /\ f + 1 < WndRcv
            /\ i + f <= Len(sent[e])
            /\ \A j \in 0..f : sent[e][i + j].frg = f - j

\* snd_queue is the part of the stream without sequence numbers; snd_buf holds
\* the fragments of the stream that the other end may not have.
SendSide(e) ==
    /\ snd_nxt[e] + Len(snd_queue[e]) = Len(sent[e])
    /\ \A i \in 1..Len(snd_queue[e]) : snd_queue[e][i] = sent[e][snd_nxt[e] + i]
    /\ snd_una[e] <= snd_nxt[e]
    /\ snd_nxt[e] <= snd_una[e] + SndWnd
    /\ \A sn \in DOMAIN snd_buf[e] :
          snd_una[e] <= sn /\ sn < snd_nxt[e] /\ snd_buf[e][sn] = sent[e][sn + 1]
    /\ \A sn \in 0..(snd_nxt[e] - 1) :
          sn \notin DOMAIN snd_buf[e] => Received(Peer(e), sn)

\* delivered, then rcv_queue, is the stream of the other end up to rcv_nxt, and
\* rcv_buf holds some of the fragments that come next.
ReceiveSide(e) ==
    /\ rcv_nxt[e] <= snd_nxt[Peer(e)]
    /\ Len(delivered[e]) + Len(rcv_queue[e]) = rcv_nxt[e]
    /\ Len(rcv_queue[e]) <= RcvWnd
    /\ \A i \in 1..Len(delivered[e]) : delivered[e][i] = sent[Peer(e)][i]
    /\ \A i \in 1..Len(rcv_queue[e]) :
          rcv_queue[e][i] = sent[Peer(e)][Len(delivered[e]) + i]
    /\ \A sn \in DOMAIN rcv_buf[e] :
          /\ rcv_nxt[e] <= sn /\ sn < rcv_nxt[e] + RcvWnd
          /\ sn < snd_nxt[Peer(e)] /\ rcv_buf[e][sn] = sent[Peer(e)][sn + 1]
    /\ \A sn \in acklist[e] : Received(e, sn)

\* What is in flight was true when it was sent and stays true.
Truthful(m) ==
    /\ m.una <= rcv_nxt[Peer(m.to)]
    /\ m.cmd = "ACK" => Received(Peer(m.to), m.sn)
    /\ m.cmd = "PUSH" => /\ m.sn < snd_nxt[Peer(m.to)]
                         /\ m.data = sent[Peer(m.to)][m.sn + 1]

IInv ==
    /\ TypeOK
    /\ \A e \in Ends : StreamShape(e) /\ SendSide(e) /\ ReceiveSide(e)
    /\ \A m \in net : Truthful(m)
    /\ WholeMessages
    /\ NothingStranded
=============================================================================
