----------------------------- MODULE KcpConnect -----------------------------
(***************************************************************************)
(* Connections: the channels of one KcpClient ask a KcpServer for a        *)
(* conversation (SYN), the server creates a channel, issues a conversation *)
(* number and confirms it (ACK), data travels, and each side drops a       *)
(* channel on a heartbeat timeout, a bad message or a socket error.  The   *)
(* server process may die and start again.                                 *)
(*                                                                         *)
(* Abstractions.  Each step of the two worker loops is an action: one      *)
(* datagram read, one channel closed, one timer run, one channel updated.  *)
(* Time is a choice: a scheduled timer may expire at any moment.  What KCP *)
(* puts into a datagram is KcpArq's business; here a datagram carries its  *)
(* kind, its conversation number and, as history, the server channel that  *)
(* the conversation belongs to.                                            *)
(***************************************************************************)
EXTENDS Integers, FiniteSets

CONSTANTS
    Channels,     \* the channels of the client; each has an address of its own
    Server,       \* the address of the server
    Heartbeats,   \* whether _heartbeatTime # 0, so that silent channels time out
    MaxConv,      \* bound of the model: channels the first server process
                  \* creates; each later one creates one less
    MaxRestarts,  \* bound of the model: restarts of the server
    NetCap        \* bound of the model: datagrams in flight; more are lost

ASSUME ConnectAssumption ==
    /\ Server \notin Channels
    /\ IsFiniteSet(Channels)
    /\ Heartbeats \subseteq BOOLEAN
    /\ MaxConv \in Nat
    /\ MaxRestarts \in Nat
    /\ NetCap \in Nat

VARIABLES
    sessions,     \* the server's _sessionIdRefChannel, with the channels
    convRef,      \* its _convRefChannel: conversation -> session
    addrRef,      \* its _addrRefKcpChannel: address -> session
    maxConv, maxSession,
    ackTimers,    \* sessions whose acknowledgement is sent every second
    heartTimers,  \* sessions whose channel has a heartbeat timer
    restarts,     \* restarts of the server so far
    heartbeat,    \* the server is configured with a heartbeat time
    client,       \* the client's channels
    clientConvRef,\* its _convRefChannel: conversation -> channel
    linking,      \* the timer that sends the SYNs is scheduled
    net           \* the datagrams in flight

serverVars == <<sessions, convRef, addrRef, maxConv, maxSession, ackTimers,
                heartTimers>>
clientVars == <<client, clientConvRef, linking>>
process == <<restarts, heartbeat>>
vars == <<serverVars, process, clientVars, net>>

\* A server channel through all restarts.
NoLife == [restart |-> 0, session |-> 0]
Life(s) == [restart |-> restarts, session |-> s]

Lives == [restart: 0..MaxRestarts, session: Nat]

Datagram == [to: Channels \cup {Server}, from: Channels \cup {Server},
             kind: {"SYN", "ACK", "DATA"}, conv: Nat, life: Lives]

TypeOK ==
    /\ \A s \in DOMAIN sessions :
          /\ s \in 2..maxSession
          /\ sessions[s] \in [addr: Channels, conv: 1..maxConv, beats: 0..2,
                              recv: BOOLEAN, closing: BOOLEAN, heard: BOOLEAN]
    /\ maxConv \in Nat /\ maxSession \in Nat \ {0}
    /\ ackTimers \subseteq 2..maxSession /\ heartTimers \subseteq 2..maxSession
    /\ client \in [Channels -> [open: BOOLEAN, conv: Nat, life: Lives,
                                recv: BOOLEAN, closing: BOOLEAN]]
    /\ linking \in BOOLEAN
    /\ restarts \in 0..MaxRestarts /\ heartbeat \in Heartbeats
    /\ net \subseteq Datagram

EmptyMap == [x \in {} |-> x]

Init ==
    /\ sessions = EmptyMap
    /\ convRef = EmptyMap
    /\ addrRef = EmptyMap
    /\ maxConv = 0
    /\ maxSession = 1                     \* the monitor channel has session 1
    /\ ackTimers = {}
    /\ heartTimers = {}
    /\ restarts = 0
    /\ heartbeat \in Heartbeats
    /\ client = [c \in Channels |-> [open |-> TRUE, conv |-> 0, life |-> NoLife,
                                     recv |-> TRUE, closing |-> FALSE]]
    /\ clientConvRef = EmptyMap
    /\ linking = TRUE
    /\ net = {}

\* std::map: insert leaves an existing entry as it is.
Insert(map, key, value) ==
    [k \in DOMAIN map \cup {key} |-> IF k \in DOMAIN map THEN map[k] ELSE value]

Erase(map, key) == [k \in DOMAIN map \ {key} |-> map[k]]

\* The network hands m over, and may keep a copy to hand over again.
Received(m) == {net, net \ {m}}

\* The network carries some of what is sent, and loses the others.
Sent(flying, out) ==
    {n \in {flying \cup kept : kept \in SUBSET out} :
        Cardinality(n) <= NetCap}                              \* bound: NetCap

-----------------------------------------------------------------------------
(* Plausible mistakes in the operators below: each violates one of the      *)
(* properties, which shows that the property depends on the code.           *)

\* A channel counts as alive after its first beat.
AliveAtOnce(s) == sessions[s].beats > 0

\* _maxConv is incremented after its use.
ConvBefore == maxConv

\* Conversations are numbered by the channels there are.
ConvReused == Cardinality(DOMAIN sessions) + 1

\* The conversation is asked for after Destroy, when it reads 0.
ConvDestroyed(s) == 0

\* The endpoint is that of the socket, which all channels share.
AddrOfSocket(s) == Server

\* Every acknowledgement makes a control block.
AdoptsAlways(c) == TRUE

-----------------------------------------------------------------------------
(* The server. *)

\* _sucHeartbeatCount; only "more than one" is ever asked.
Beaten(beats) == IF beats < 2 THEN beats + 1 ELSE beats

IsAlive(s) == sessions[s].beats > 1

Ack(s, conv, addr) ==
    [to |-> addr, from |-> Server, kind |-> "ACK", conv |-> conv, life |-> Life(s)]

\* A new channel: _CreateChannel counts a beat when it schedules the heartbeat
\* timer, OnConnected counts another; a failed send marks the channel.
NewChannel(addr, conv, ok) ==
    [addr |-> addr, conv |-> conv, beats |-> Beaten(IF heartbeat THEN 1 ELSE 0),
     recv |-> TRUE, closing |-> ~ok, heard |-> FALSE]

\* _OnWillConnect and _OnConnected; an address that has a channel gets nothing.
Refused(addr) == addr \in DOMAIN addrRef

NextConv == maxConv + 1

ReadSyn(m) ==
    /\ m.kind = "SYN"
    /\ IF Refused(m.from)
       THEN /\ net' \in Received(m)
            /\ UNCHANGED serverVars
       ELSE /\ maxConv < MaxConv - restarts                   \* bound: MaxConv
            /\ maxSession' = maxSession + 1
            /\ maxConv' = NextConv
            /\ \E ok \in BOOLEAN :
                  /\ sessions' = Insert(sessions, maxSession',
                                        NewChannel(m.from, maxConv', ok))
                  /\ \E rest \in Received(m) :
                        net' \in Sent(rest, IF ok
                                            THEN {Ack(maxSession', maxConv', m.from)}
                                            ELSE {})
            /\ convRef' = Insert(convRef, maxConv', maxSession')
            /\ addrRef' = Insert(addrRef, m.from, maxSession')
            /\ ackTimers' = ackTimers \cup {maxSession'}
            /\ heartTimers' = heartTimers \cup (IF heartbeat THEN {maxSession'} ELSE {})
    /\ UNCHANGED <<process, clientVars>>

\* _OnNetPacket hands a datagram to the channel of its conversation if it comes
\* from the remote end of that channel, and OnReadable takes it in.
TakesIn(m) ==
    /\ m.conv \in DOMAIN convRef
    /\ sessions[convRef[m.conv]].addr = m.from
    /\ sessions[convRef[m.conv]].recv

\* The datagram completes no message, a good one (which counts a beat), or one
\* that cannot be decoded.
ReadData(m) ==
    /\ m.kind = "DATA" /\ m.to = Server
    /\ net' \in Received(m)
    /\ IF TakesIn(m)
       THEN LET s == convRef[m.conv]
            IN  \/ UNCHANGED sessions
                \/ sessions' = [sessions EXCEPT ![s].beats = Beaten(@),
                                                ![s].heard = TRUE]
                \/ sessions' = [sessions EXCEPT ![s].closing = TRUE,
                                                ![s].recv = FALSE]
       ELSE UNCHANGED sessions
    /\ UNCHANGED <<convRef, addrRef, maxConv, maxSession, ackTimers, heartTimers,
                   process, clientVars>>

\* The heartbeat timer of session s expires (_CreateChannel's callback, which
\* holds a pointer to the channel); it stays until the channel deletes it.
HeartbeatTimeout(s) ==
    /\ ~sessions[s].closing
    /\ sessions' = [sessions EXCEPT ![s].closing = TRUE, ![s].recv = FALSE]
    /\ UNCHANGED <<convRef, addrRef, maxConv, maxSession, ackTimers, heartTimers,
                   process, clientVars, net>>

\* RawSend on session s: a socket error marks the channel.
ServerSend(s, m) ==
    \/ net' \in Sent(net, {m}) /\ UNCHANGED sessions
    \/ sessions' = [sessions EXCEPT ![s].closing = TRUE] /\ UNCHANGED net

\* The timer of _OnConnected: it ends when the channel is gone or alive.
AckTimeout(s) ==
    /\ IF s \notin DOMAIN sessions \/ sessions[s].closing \/ IsAlive(s)
       THEN ackTimers' = ackTimers \ {s} /\ UNCHANGED <<sessions, net>>
       ELSE /\ ServerSend(s, Ack(s, sessions[s].conv, sessions[s].addr))
            /\ UNCHANGED ackTimers
    /\ UNCHANGED <<convRef, addrRef, maxConv, maxSession, heartTimers, process,
                   clientVars>>

\* OnUpdate: ikcp_update outputs data of session s.
ServerUpdate(s) ==
    /\ ServerSend(s, [to |-> sessions[s].addr, from |-> Server, kind |-> "DATA",
                      conv |-> sessions[s].conv, life |-> Life(s)])
    /\ UNCHANGED <<convRef, addrRef, maxConv, maxSession, ackTimers, heartTimers,
                   process, clientVars>>

\* The close loop of _OnWork deletes a marked channel; conv and endpoint are
\* read before Destroy, which deletes the heartbeat timer.
ConvToErase(s) == sessions[s].conv
AddrToErase(s) == sessions[s].addr
TimersDestroyed(s) == {s}

ServerClose(s) ==
    /\ sessions[s].closing
    /\ sessions' = Erase(sessions, s)
    /\ convRef' = Erase(convRef, ConvToErase(s))
    /\ addrRef' = Erase(addrRef, AddrToErase(s))
    /\ heartTimers' = heartTimers \ TimersDestroyed(s)
    /\ UNCHANGED <<maxConv, maxSession, ackTimers, process, clientVars, net>>

\* The server process dies and is started again; numbering starts over.
Restart ==
    /\ restarts < MaxRestarts                              \* bound: MaxRestarts
    /\ restarts' = restarts + 1
    /\ sessions' = EmptyMap
    /\ convRef' = EmptyMap
    /\ addrRef' = EmptyMap
    /\ maxConv' = 0
    /\ maxSession' = 1
    /\ ackTimers' = {}
    /\ heartTimers' = {}
    /\ UNCHANGED <<heartbeat, clientVars, net>>

-----------------------------------------------------------------------------
(* The client. *)

Unconnected == {c \in Channels : client[c].open /\ client[c].conv = 0}

Syn(c) == [to |-> Server, from |-> c, kind |-> "SYN", conv |-> 0, life |-> NoLife]

\* linkinTimer: a SYN for every channel without a conversation; the timer
\* deletes itself once there is none.
Linked == Unconnected = {}

LinkTimeout ==
    /\ linking
    /\ linking' = ~Linked
    /\ \E failed \in SUBSET Unconnected :
          /\ net' \in Sent(net, {Syn(c) : c \in Unconnected \ failed})
          /\ client' = [c \in Channels |->
                          [client[c] EXCEPT !.closing = @ \/ c \in failed]]
    /\ UNCHANGED <<serverVars, process, clientConvRef>>

\* _InitKcpCb: a channel that has a control block keeps it.
Adopts(c) == client[c].conv = 0

ReadAck(m) ==
    /\ m.kind = "ACK"
    /\ client[m.to].open /\ client[m.to].recv
    /\ net' \in Received(m)
    /\ IF Adopts(m.to)
       THEN /\ client' = [client EXCEPT ![m.to].conv = m.conv, ![m.to].life = m.life]
            /\ clientConvRef' = Insert(clientConvRef, m.conv, m.to)
       ELSE UNCHANGED <<client, clientConvRef>>
    /\ UNCHANGED <<serverVars, process, linking>>

\* A datagram goes to the channel that the client's map names for its
\* conversation, which need not be the channel it arrived on: both endpoints
\* the client compares are empty.
ClientTakesIn(m) ==
    /\ m.conv \in DOMAIN clientConvRef
    /\ client[clientConvRef[m.conv]].recv

ClientReadData(m) ==
    /\ m.kind = "DATA" /\ m.to # Server
    /\ client[m.to].open /\ client[m.to].recv
    /\ net' \in Received(m)
    /\ IF ClientTakesIn(m)
       THEN LET d == clientConvRef[m.conv]
            IN  \/ UNCHANGED client
                \/ client' = [client EXCEPT ![d].closing = TRUE, ![d].recv = FALSE]
       ELSE UNCHANGED client
    /\ UNCHANGED <<serverVars, process, clientConvRef, linking>>

\* OnUpdate: heartbeats and messages of channel c; RawSend may fail.
ClientUpdate(c) ==
    /\ client[c].open /\ client[c].conv # 0
    /\ \/ /\ net' \in Sent(net, {[to |-> Server, from |-> c, kind |-> "DATA",
                                  conv |-> client[c].conv, life |-> client[c].life]})
          /\ UNCHANGED client
       \/ client' = [client EXCEPT ![c].closing = TRUE] /\ UNCHANGED net
    /\ UNCHANGED <<serverVars, process, clientConvRef, linking>>

\* select reports an exception, or the socket an error, on channel c.
ClientError(c) ==
    /\ client[c].open
    /\ client' = [client EXCEPT ![c].closing = TRUE, ![c].recv = FALSE]
    /\ UNCHANGED <<serverVars, process, clientConvRef, linking, net>>

\* The close loop: _OnDisonnected unmaps the conversation, Destroy drops it.
ClientClose(c) ==
    /\ client[c].open /\ client[c].closing
    /\ client' = [client EXCEPT ![c] = [open |-> FALSE, conv |-> 0, life |-> NoLife,
                                        recv |-> FALSE, closing |-> TRUE]]
    /\ clientConvRef' = Erase(clientConvRef, client[c].conv)
    /\ UNCHANGED <<serverVars, process, linking, net>>

-----------------------------------------------------------------------------

Lose(m) ==
    /\ net' = net \ {m}
    /\ UNCHANGED <<serverVars, process, clientVars>>

Next ==
    \/ \E m \in net : ReadSyn(m) \/ ReadData(m) \/ ReadAck(m) \/ ClientReadData(m)
    \/ \E m \in net : Lose(m)
    \/ \E s \in DOMAIN sessions : ServerUpdate(s) \/ ServerClose(s)
    \/ \E s \in heartTimers : HeartbeatTimeout(s)
    \/ \E s \in ackTimers : AckTimeout(s)
    \/ Restart
    \/ LinkTimeout
    \/ \E c \in Channels : ClientUpdate(c) \/ ClientError(c) \/ ClientClose(c)

Spec == Init /\ [][Next]_vars

-----------------------------------------------------------------------------
(* What must hold. *)

\* The three maps of the server describe the same channels: every channel is
\* found by its conversation and by its address, and no entry names a channel
\* that has been deleted (a dangling pointer) or another channel.  With heartbeats
\* the channels are those that have a heartbeat timer, whose callback holds such a
\* pointer as well.  Until the server restarts, the client's map finds each of its
\* connected channels.
MapsAgree ==
    /\ \A s \in DOMAIN sessions :
          /\ sessions[s].conv \in DOMAIN convRef /\ convRef[sessions[s].conv] = s
          /\ sessions[s].addr \in DOMAIN addrRef /\ addrRef[sessions[s].addr] = s
    /\ \A v \in DOMAIN convRef :
          convRef[v] \in DOMAIN sessions /\ sessions[convRef[v]].conv = v
    /\ \A a \in DOMAIN addrRef :
          addrRef[a] \in DOMAIN sessions /\ sessions[addrRef[a]].addr = a
    /\ heartTimers = IF heartbeat THEN DOMAIN sessions ELSE {}
    /\ restarts = 0 => \A c \in Channels : client[c].conv # 0 =>
          client[c].conv \in DOMAIN clientConvRef /\ clientConvRef[client[c].conv] = c

\* Until the server restarts and issues its numbers again, no control block can
\* be fed data of another conversation, not even late data of an earlier one of
\* the same address.
OneConversation ==
    restarts = 0 => \A m \in net : m.kind = "DATA" =>
        /\ m.to = Server /\ TakesIn(m) => m.life = Life(convRef[m.conv])
        /\ m.to # Server /\ ClientTakesIn(m) =>
               m.life = client[clientConvRef[m.conv]].life

\* A client channel leaves a conversation only by closing: a late or repeated
\* acknowledgement of another handshake never replaces its control block.
ConversationKept ==
    [][\A c \in Channels : client[c].conv # 0 =>
          \/ client'[c].conv = client[c].conv /\ client'[c].life = client[c].life
          \/ ~client'[c].open]_vars

\* The timer of an acknowledgement does not end while the channel lives and its
\* client has not been heard.
EndsWhenAlive ==
    restarts' = restarts =>
        \A s \in ackTimers \ ackTimers' :
            s \notin DOMAIN sessions \/ sessions[s].closing \/ sessions[s].heard

\* The acknowledgement is sent every second until the client is alive
\* (KcpServer.cpp:261).
AckedUntilAlive == [][EndsWhenAlive]_vars

\* At least without heartbeats, where no beat is counted before the client is
\* heard.
QuietAckedUntilAlive == [][~heartbeat => EndsWhenAlive]_vars
=============================================================================
