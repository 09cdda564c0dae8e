------------------------------ MODULE MCKcpArq ------------------------------
(***************************************************************************)
(* Small instances of KcpArq for TLC: the invariants and the refinement on *)
(* lossy, repeating, reordering networks, and liveness on a fair one.      *)
(***************************************************************************)
EXTENDS KcpArq, TLC

\* Both ends run the same code: when both send they are interchangeable.
Symmetry == Permutations(Ends)

-----------------------------------------------------------------------------
(* A network that is bad but not hopeless, and users that keep reading.    *)
(* Channels call ikcp_update every few milliseconds for ever, an RTO ends  *)
(* every wait, and no datagram that is sent again and again is lost every  *)
(* time: so each of these steps, possible again and again, is taken.       *)

\* A flush in which the oldest unacknowledged segment is due and survives.
Resend(e) ==
    Flush(e) /\ \E m \in net' : /\ m.to = Peer(e) /\ m.cmd = "PUSH"
                                /\ m.sn = snd_una[e] /\ m.una = rcv_nxt[e]

\* A flush that gives a fragment its sequence number.
Advance(e) == Flush(e) /\ snd_nxt'[e] > snd_nxt[e]

\* A flush whose answer, of the given kind, survives.
Answer(e, cmd) ==
    Flush(e) /\ \E m \in net' : /\ m.to = Peer(e) /\ m.cmd = cmd
                                /\ m.una = rcv_nxt[e] /\ m.wnd = WndUnused(e)

\* The last copy of a datagram arrives: it makes room for the answer.
Arrive(m) == Input(m) /\ m \notin net'

\* The oldest unacknowledged segment of the other end arrives.
Awaited(e) ==
    \E m \in net : m.to = e /\ m.cmd = "PUSH" /\ m.sn = snd_una[Peer(e)] /\ Arrive(m)

\* News arrive: of an acknowledgement, of a window, of a question.
Acknowledged(e) == \E m \in net : m.to = e /\ Arrive(m) /\ snd_una'[e] > snd_una[e]
Reopened(e) == \E m \in net : m.to = e /\ Arrive(m) /\ rmt_wnd[e] = 0 /\ rmt_wnd'[e] # 0
Asked(e) == \E m \in net : m.to = e /\ m.cmd = "WASK" /\ Arrive(m)

\* No datagram stays in flight for ever.
Expire == \E m \in net : Lose(m)

Fairness ==
    /\ WF_vars(Expire)
    /\ \A e \in Senders :
          LET r == Peer(e)
          IN  /\ WF_vars(Flush(e))
              /\ SF_vars(Advance(e)) /\ SF_vars(Resend(e)) /\ SF_vars(Answer(e, "WASK"))
              /\ SF_vars(Awaited(r)) /\ SF_vars(Asked(r))
              /\ WF_vars(Recv(r))
              /\ SF_vars(Answer(r, "ACK")) /\ SF_vars(Answer(r, "WINS"))
              /\ SF_vars(Acknowledged(e)) /\ SF_vars(Reopened(e))

FairSpec == Spec /\ Fairness

\* Every fragment a user hands over reaches the other user: retransmission,
\* the window probe and the refill of rcv_queue leave no state in which a
\* message is stuck.
EventuallyDelivered ==
    \A i \in 1..MaxSent : \A e \in Senders :
        Len(sent[e]) >= i ~> Len(delivered[Peer(e)]) >= i

\* Every segment is acknowledged in the end, although its acknowledgement may
\* be lost: a repeated segment is acknowledged again.
EventuallyAcknowledged ==
    \A i \in 1..MaxSent : \A e \in Senders :
        Len(sent[e]) >= i ~> snd_una[e] >= i
=============================================================================
