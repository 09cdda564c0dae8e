---------------------------- MODULE MCKcpChannel ----------------------------
(***************************************************************************)
(* Small instances of KcpChannel for TLC.  A header has two cells, so it   *)
(* is cut in two; a piece has at most WndRcv - 1 cells, so a message may   *)
(* need several and a piece may hold the ends of two messages.             *)
(***************************************************************************)
EXTENDS KcpChannel

\* The worker loops run for ever: every frame updates every channel.  KCP delivers
\* what it carries (KcpArq's EventuallyDelivered and EventuallyAcknowledged).  A
\* client sends heartbeats and both ends acknowledge what they receive, so as long
\* as both channels live datagrams keep coming, also ones that bring nothing new.
Receives(e) == cb[e] = "created" /\ CanRecv(e)

Arrives(e) == \E k \in 1..Len(out[Peer(e)].flying) : Datagram(e, k, 0)

Acknowledged(e) == \E a \in 1..out[e].unacked : Datagram(e, 0, a)

\* An update that sends some of what waits, and meets no error.
Continues(e) == Update(e) /\ ctrl' = ctrl

CanContinue(e) ==
    /\ cb[e] = "created" /\ out[e].write
    /\ WaitSnd(out[e]) < 2 * SndWnd /\ ReadableBytes(out[e].waiting) # 0

\* Weak fairness of each: []<>~ENABLED \/ []<><<A>>_vars, with ENABLED spelled out.
Fairness ==
    /\ WF_vars(Connected)
    /\ \A e \in Ends :
          /\ []<>~CanContinue(e) \/ []<><<Continues(e)>>_vars
          /\ []<>~(Receives(e) /\ out[Peer(e)].flying # <<>>)
                \/ []<><<Arrives(e)>>_vars
          /\ []<>~(Receives(e) /\ out[e].unacked # 0) \/ []<><<Acknowledged(e)>>_vars
          /\ []<>~(Receives(e) /\ FirstPiece(rcv[e]) # <<>>)
                \/ []<><<Datagram(e, 0, 0)>>_vars

FairSpec == Spec /\ Fairness

\* Every message for which Send returned true is handled by the other end, although
\* it may have to wait behind a full window, unless a channel is being closed (a
\* message that cannot be decoded closes one).
EventuallyHandled ==
    \A e \in Ends : \A i \in 1..MaxMsgs :
        Len(sent[e]) >= i ~> \/ Len(handled[Peer(e)]) >= i
                             \/ ctrl[e] # {} \/ ctrl[Peer(e)] # {}
=============================================================================
