---------------------------- MODULE MCKcpConnect ----------------------------
(***************************************************************************)
(* Small instances of KcpConnect for TLC: the safety properties with and   *)
(* without restarts of the server, and liveness of the handshake.          *)
(***************************************************************************)
EXTENDS KcpConnect, TLC

\* The client's channels are interchangeable.
Symmetry == Permutations(Channels)

-----------------------------------------------------------------------------
(* The worker loops run for ever, so what can always be done is done: timers *)
(* expire, marked channels are closed.  The network is bad but not hopeless: *)
(* what is sent again and again arrives.  No datagram flies for ever.        *)

SynSent(c) == LinkTimeout /\ Syn(c) \in net'

SynArrives(c) == \E m \in net : m.from = c /\ ReadSyn(m) /\ m \notin net'

AckSent(c) == \E s \in ackTimers : /\ AckTimeout(s)
                                  /\ \E m \in net' : m.kind = "ACK" /\ m.to = c

AckArrives(c) == \E m \in net : m.to = c /\ ReadAck(m) /\ m \notin net'

Fairness ==
    /\ WF_vars(\E m \in net : Lose(m))
    /\ WF_vars(\E s \in heartTimers : HeartbeatTimeout(s))
    /\ WF_vars(\E s \in DOMAIN sessions : ServerClose(s))
    /\ WF_vars(LinkTimeout)
    /\ \A c \in Channels :
          /\ SF_vars(SynSent(c)) /\ SF_vars(SynArrives(c))
          /\ SF_vars(AckSent(c)) /\ SF_vars(AckArrives(c))
          /\ WF_vars(ClientClose(c))

\* The numbers of the model run out, those of the server do not: so the last
\* number is not wasted.  Without heartbeats its channel meets no socket error
\* before the client has it; with them, its one acknowledgement is not lost.
LastNumberUsed ==
    IF heartbeat
    THEN /\ maxConv < MaxConv /\ maxConv' = MaxConv =>
               \E m \in net' : m.kind = "ACK" /\ m.conv = MaxConv
         /\ \A m \in net \ net' : m.kind = "ACK" /\ m.conv = MaxConv =>
               client'[m.to].conv # 0 \/ ~client'[m.to].open
    ELSE \A s \in DOMAIN sessions' :
               sessions'[s].conv = MaxConv /\ sessions'[s].closing =>
                   client[sessions'[s].addr].conv # 0

LiveNext == Next /\ LastNumberUsed

FairSpec == Init /\ [][LiveNext]_vars /\ Fairness

\* Every channel of the client obtains a conversation or is closed, whatever is
\* lost: SYNs are repeated; a lost acknowledgement is repeated (without
\* heartbeats), or the heartbeat timeout frees the address for the next SYN.
EventuallyConnected ==
    \A c \in Channels : client[c].conv = 0 ~> client[c].conv # 0 \/ ~client[c].open
=============================================================================
