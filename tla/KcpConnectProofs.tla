-------------------------- MODULE KcpConnectProofs --------------------------
(***************************************************************************)
(* Machine-checked facts about KcpConnect, for any number of channels, any *)
(* number of conversations and restarts, and a network of any capacity.    *)
(***************************************************************************)
EXTENDS KcpConnect, TLAPS

-----------------------------------------------------------------------------
(* The inductive invariant. *)

\* Which side a datagram comes from and goes to.
Directed(m) ==
    /\ m.kind = "SYN" => m.to = Server /\ m.from \in Channels
    /\ m.kind = "ACK" => m.to \in Channels
    /\ m.kind = "DATA" /\ m.to = Server => m.from \in Channels

Flying == \A m \in net : Directed(m)

\* Whatever names a conversation, at either end or on the way: its number, the
\* address it was issued to and the server channel it belongs to.
Tag(conv, addr, life) == [conv |-> conv, addr |-> addr, life |-> life]

TagOf(m) == Tag(m.conv, IF m.to = Server THEN m.from ELSE m.to, m.life)

Tags ==
    {Tag(sessions[s].conv, sessions[s].addr, Life(s)) : s \in DOMAIN sessions}
    \cup {TagOf(m) : m \in {n \in net : n.kind # "SYN"}}
    \cup {Tag(client[c].conv, c, client[c].life) :
              c \in {d \in Channels : client[d].conv # 0}}

\* A number is issued once, and so names one address and one server channel, even
\* after that channel is gone.
IssuedOnce ==
    restarts = 0 =>
        \A x \in Tags : /\ x.conv \in 1..maxConv
                        /\ \A y \in Tags : x.conv = y.conv => x = y

\* The client's map finds a channel of the client, and until the server restarts
\* one that has the conversation.
ClientMap ==
    /\ \A v \in DOMAIN clientConvRef : clientConvRef[v] \in Channels
    /\ restarts = 0 =>
          \A v \in DOMAIN clientConvRef :
              v # 0 /\ client[clientConvRef[v]].conv = v

\* Without heartbeats, the one beat that OnConnected counts makes nobody alive.
OneBeat ==
    ~heartbeat =>
        \A s \in DOMAIN sessions : sessions[s].heard \/ sessions[s].beats = 1

IInv == TypeOK /\ MapsAgree /\ Flying /\ IssuedOnce /\ ClientMap /\ OneBeat

-----------------------------------------------------------------------------
(* What the operators do. *)

\* The network invents nothing.
LEMMA NothingInvented ==
    /\ \A m : \A n \in Received(m) : n \subseteq net
    /\ \A flying, out : \A n \in Sent(flying, out) : n \subseteq flying \cup out
  BY DEF Received, Sent

\* A number that is not in the map yet gets the value; an address as well.
LEMMA InsertNew ==
    ASSUME NEW map, NEW key, NEW value, key \notin DOMAIN map
    PROVE  /\ DOMAIN Insert(map, key, value) = DOMAIN map \cup {key}
           /\ Insert(map, key, value)[key] = value
           /\ \A k \in DOMAIN map : Insert(map, key, value)[k] = map[k]
  BY DEF Insert

\* The others stay.
LEMMA EraseOne ==
    ASSUME NEW map, NEW key
    PROVE  /\ DOMAIN Erase(map, key) = DOMAIN map \ {key}
           /\ \A k \in DOMAIN map \ {key} : Erase(map, key)[k] = map[k]
  BY DEF Erase

\* What the tags are.
LEMMA InTags ==
    /\ \A s \in DOMAIN sessions :
          Tag(sessions[s].conv, sessions[s].addr, Life(s)) \in Tags
    /\ \A m \in net : m.kind # "SYN" => TagOf(m) \in Tags
    /\ \A c \in Channels : client[c].conv # 0 =>
          Tag(client[c].conv, c, client[c].life) \in Tags
  BY DEF Tags

\* Tags say what they say.
LEMMA TagFields ==
    \A v, a, l : /\ Tag(v, a, l).conv = v
                 /\ Tag(v, a, l).addr = a
                 /\ Tag(v, a, l).life = l
  BY DEF Tag

-----------------------------------------------------------------------------
(* The steps that issue, adopt and close nothing. *)

ServerChannel == [addr: Channels, conv: 1..maxConv, beats: 0..2,
                  recv: BOOLEAN, closing: BOOLEAN, heard: BOOLEAN]

ClientChannel == [open: BOOLEAN, conv: Nat, life: Lives,
                  recv: BOOLEAN, closing: BOOLEAN]

\* The server's channels stay, with their numbers and addresses, and a beat
\* makes its channel heard.
ServerKeeps ==
    /\ DOMAIN sessions' = DOMAIN sessions
    /\ \A s \in DOMAIN sessions :
          /\ sessions'[s] \in ServerChannel
          /\ sessions'[s].conv = sessions[s].conv /\ sessions'[s].addr = sessions[s].addr
          /\ \/ sessions'[s].beats = sessions[s].beats
                /\ sessions'[s].heard = sessions[s].heard
             \/ sessions'[s].heard
    /\ ackTimers' \subseteq ackTimers
    /\ UNCHANGED <<convRef, addrRef, maxConv, maxSession, heartTimers, process>>

\* What comes onto the way names no new conversation.
NetKeeps ==
    \A m \in net' :
        \/ m \in net
        \/ m \in Datagram /\ Directed(m) /\ (m.kind = "SYN" \/ TagOf(m) \in Tags)

\* The client's channels keep their control blocks.
ClientKeeps ==
    /\ client' \in [Channels -> ClientChannel]
    /\ \A c \in Channels : client'[c].conv = client[c].conv /\ client'[c].life = client[c].life
    /\ linking' \in BOOLEAN
    /\ UNCHANGED clientConvRef

\* A step holds what its sessions, datagrams and client channels hold.
LEMMA TagsAfter ==
    ASSUME NEW T,
           \A s \in DOMAIN sessions' :
              Tag(sessions'[s].conv, sessions'[s].addr, Life(s)') \in T,
           \A m \in net' : m.kind # "SYN" => TagOf(m) \in T,
           \A c \in Channels : client'[c].conv # 0 =>
              Tag(client'[c].conv, c, client'[c].life) \in T
    PROVE  Tags' \subseteq T
  <1>1. Tags' = {Tag(sessions'[s].conv, sessions'[s].addr, Life(s)') : s \in DOMAIN sessions'}
                \cup {TagOf(m) : m \in {n \in net' : n.kind # "SYN"}}
                \cup {Tag(client'[c].conv, c, client'[c].life) :
                          c \in {d \in Channels : client'[d].conv # 0}}
    BY DEF Tags, TagOf, Tag
  <1>. QED
    BY <1>1

LEMMA TagsKept ==
    ASSUME IInv, ServerKeeps, NetKeeps, ClientKeeps
    PROVE  Tags' \subseteq Tags
  <1>1. \A s \in DOMAIN sessions' :
           Tag(sessions'[s].conv, sessions'[s].addr, Life(s)') \in Tags
    BY InTags DEF ServerKeeps, process, Life
  <1>2. \A m \in net' : m.kind # "SYN" => TagOf(m) \in Tags
    BY InTags DEF NetKeeps
  <1>3. \A c \in Channels : client'[c].conv # 0 =>
           Tag(client'[c].conv, c, client'[c].life) \in Tags
    BY InTags DEF ClientKeeps
  <1>. QED
    BY <1>1, <1>2, <1>3, TagsAfter

LEMMA QuietStep == IInv /\ ServerKeeps /\ NetKeeps /\ ClientKeeps => IInv'
  <1>. SUFFICES ASSUME IInv, ServerKeeps, NetKeeps, ClientKeeps PROVE IInv'
    OBVIOUS
  <1>1. TypeOK'
    BY DEF IInv, TypeOK, ServerKeeps, NetKeeps, ClientKeeps, ServerChannel, ClientChannel,
           process
  <1>2. MapsAgree'
    <2>1. UNCHANGED <<convRef, addrRef, heartTimers, heartbeat, clientConvRef, restarts>>
      BY DEF ServerKeeps, ClientKeeps, process
    <2>2. /\ DOMAIN sessions' = DOMAIN sessions
          /\ \A s \in DOMAIN sessions :
                sessions'[s].conv = sessions[s].conv /\ sessions'[s].addr = sessions[s].addr
          /\ \A c \in Channels : client'[c].conv = client[c].conv
      BY DEF ServerKeeps, ClientKeeps
    <2>. QED
      BY <2>1, <2>2 DEF IInv, MapsAgree
  <1>3. Flying'
    BY DEF IInv, Flying, NetKeeps, Directed
  <1>4. IssuedOnce'
    <2>1. Tags' \subseteq Tags
      BY TagsKept
    <2>. QED
      BY <2>1 DEF IInv, IssuedOnce, ServerKeeps, process
  <1>5. ClientMap'
    BY DEF IInv, ClientMap, ServerKeeps, ClientKeeps, process
  <1>6. OneBeat'
    BY DEF IInv, OneBeat, ServerKeeps, process
  <1>. QED
    BY <1>1, <1>2, <1>3, <1>4, <1>5, <1>6 DEF IInv

LEMMA ServerIdle == IInv /\ UNCHANGED <<serverVars, process>> => ServerKeeps
  BY DEF IInv, TypeOK, ServerKeeps, serverVars, ServerChannel

LEMMA ClientIdle == IInv /\ UNCHANGED clientVars => ClientKeeps
  BY DEF IInv, TypeOK, ClientKeeps, clientVars, ClientChannel

LEMMA NetIdle == net' \subseteq net => NetKeeps
  BY DEF NetKeeps

\* A mark or a beat on channel s.
LEMMA SessionMarked ==
    ASSUME IInv, NEW s \in DOMAIN sessions,
           UNCHANGED <<convRef, addrRef, maxConv, maxSession, ackTimers, heartTimers, process>>,
           \/ sessions' = sessions
           \/ sessions' = [sessions EXCEPT ![s].closing = TRUE]
           \/ sessions' = [sessions EXCEPT ![s].closing = TRUE, ![s].recv = FALSE]
           \/ sessions' = [sessions EXCEPT ![s].beats = Beaten(@), ![s].heard = TRUE]
    PROVE  ServerKeeps
  <1>1. \A u \in DOMAIN sessions : sessions[u] \in ServerChannel
    BY DEF IInv, TypeOK, ServerChannel
  <1>2. Beaten(sessions[s].beats) \in 0..2
    BY <1>1 DEF Beaten, ServerChannel
  <1>3. /\ DOMAIN sessions' = DOMAIN sessions
        /\ \A u \in DOMAIN sessions : u # s => sessions'[u] = sessions[u]
        /\ \/ sessions'[s] = sessions[s]
           \/ sessions'[s] = [sessions[s] EXCEPT !.closing = TRUE]
           \/ sessions'[s] = [sessions[s] EXCEPT !.closing = TRUE, !.recv = FALSE]
           \/ sessions'[s] = [sessions[s] EXCEPT !.beats = Beaten(sessions[s].beats),
                                                 !.heard = TRUE]
    OBVIOUS
  <1>4. /\ sessions'[s] \in ServerChannel
        /\ sessions'[s].conv = sessions[s].conv /\ sessions'[s].addr = sessions[s].addr
        /\ \/ sessions'[s].beats = sessions[s].beats /\ sessions'[s].heard = sessions[s].heard
           \/ sessions'[s].heard
    BY <1>1, <1>2, <1>3 DEF ServerChannel
  <1>. QED
    BY <1>1, <1>3, <1>4 DEF ServerKeeps

\* A mark on channel c of the client.
LEMMA ClientMarked ==
    ASSUME IInv, NEW c \in Channels, UNCHANGED <<clientConvRef, linking>>,
           \/ client' = client
           \/ client' = [client EXCEPT ![c].closing = TRUE]
           \/ client' = [client EXCEPT ![c].closing = TRUE, ![c].recv = FALSE]
    PROVE  ClientKeeps
  <1>1. client \in [Channels -> ClientChannel] /\ linking \in BOOLEAN
    BY DEF IInv, TypeOK, ClientChannel
  <1>2. /\ \A d \in Channels : d # c => client'[d] = client[d]
        /\ \/ client'[c] = client[c]
           \/ client'[c] = [client[c] EXCEPT !.closing = TRUE]
           \/ client'[c] = [client[c] EXCEPT !.closing = TRUE, !.recv = FALSE]
    BY <1>1
  <1>3. /\ client'[c] \in ClientChannel
        /\ client'[c].conv = client[c].conv /\ client'[c].life = client[c].life
    <2>1. client[c] \in ClientChannel
      BY <1>1
    <2>. QED
      BY <1>2, <2>1 DEF ClientChannel
  <1>4. client' \in [Channels -> ClientChannel]
    <2>1. DOMAIN client' = Channels /\ client' = [d \in Channels |-> client'[d]]
      BY <1>1
    <2>2. \A d \in Channels : client'[d] \in ClientChannel
      BY <1>1, <1>2, <1>3
    <2>. QED
      BY <2>1, <2>2
  <1>. QED
    BY <1>1, <1>2, <1>3, <1>4 DEF ClientKeeps

\* What the server sends on session s names a conversation that is held.
LEMMA ServerSendKeeps ==
    ASSUME IInv, NEW s \in DOMAIN sessions, NEW m,
           m \in {Ack(s, sessions[s].conv, sessions[s].addr),
                  [to |-> sessions[s].addr, from |-> Server, kind |-> "DATA",
                   conv |-> sessions[s].conv, life |-> Life(s)]},
           ServerSend(s, m),
           UNCHANGED <<convRef, addrRef, maxConv, maxSession, ackTimers, heartTimers, process>>
    PROVE  ServerKeeps /\ NetKeeps
  <1>1. ServerKeeps
    BY SessionMarked DEF ServerSend
  <1>2. net' \subseteq net \cup {m}
    BY NothingInvented DEF ServerSend
  <1>3. sessions[s] \in ServerChannel /\ s \in Nat /\ Life(s) \in Lives
    BY DEF IInv, TypeOK, ServerChannel, Life, Lives
  <1>4. m \in Datagram
    BY <1>3 DEF Datagram, Ack, ServerChannel, IInv, TypeOK
  <1>5. Directed(m) /\ TagOf(m) = Tag(sessions[s].conv, sessions[s].addr, Life(s))
    BY <1>3, ConnectAssumption DEF Directed, TagOf, Ack, ServerChannel
  <1>. QED
    BY <1>1, <1>2, <1>4, <1>5, InTags DEF NetKeeps

-----------------------------------------------------------------------------
(* Every action. *)

LEMMA ReadDataKeeps == IInv /\ (\E m \in net : ReadData(m)) => IInv'
  <1>. SUFFICES ASSUME IInv, NEW m \in net, ReadData(m) PROVE IInv'
    OBVIOUS
  <1>1. NetKeeps
    BY NothingInvented, NetIdle DEF ReadData
  <1>2. ClientKeeps
    BY ClientIdle DEF ReadData
  <1>3. UNCHANGED <<convRef, addrRef, maxConv, maxSession, ackTimers, heartTimers, process>>
    BY DEF ReadData
  <1>4. CASE TakesIn(m)
    <2>. DEFINE s == convRef[m.conv]
    <2>1. s \in DOMAIN sessions
      BY <1>4 DEF TakesIn, IInv, MapsAgree
    <2>2. \/ sessions' = sessions
          \/ sessions' = [sessions EXCEPT ![s].beats = Beaten(@), ![s].heard = TRUE]
          \/ sessions' = [sessions EXCEPT ![s].closing = TRUE, ![s].recv = FALSE]
      BY <1>4 DEF ReadData
    <2>. HIDE DEF s
    <2>3. ServerKeeps
      BY <1>3, <2>1, <2>2, SessionMarked
    <2>. QED
      BY <1>1, <1>2, <2>3, QuietStep
  <1>5. CASE ~TakesIn(m)
    BY <1>1, <1>2, <1>3, <1>5, ServerIdle, QuietStep DEF ReadData, serverVars
  <1>. QED
    BY <1>4, <1>5

LEMMA HeartbeatTimeoutKeeps ==
    IInv /\ (\E s \in heartTimers : HeartbeatTimeout(s)) => IInv'
  <1>. SUFFICES ASSUME IInv, NEW s \in heartTimers, HeartbeatTimeout(s) PROVE IInv'
    OBVIOUS
  <1>1. s \in DOMAIN sessions
    BY DEF IInv, MapsAgree
  <1>. QED
    BY <1>1, SessionMarked, NetIdle, ClientIdle, QuietStep DEF HeartbeatTimeout

LEMMA ServerUpdateKeeps == IInv /\ (\E s \in DOMAIN sessions : ServerUpdate(s)) => IInv'
  <1>. SUFFICES ASSUME IInv, NEW s \in DOMAIN sessions, ServerUpdate(s) PROVE IInv'
    OBVIOUS
  <1>. QED
    BY ServerSendKeeps, ClientIdle, QuietStep DEF ServerUpdate

LEMMA AckTimeoutKeeps == IInv /\ (\E s \in ackTimers : AckTimeout(s)) => IInv'
  <1>. SUFFICES ASSUME IInv, NEW s \in ackTimers, AckTimeout(s) PROVE IInv'
    OBVIOUS
  <1>1. ClientKeeps
    BY ClientIdle DEF AckTimeout
  <1>2. CASE s \notin DOMAIN sessions \/ sessions[s].closing \/ IsAlive(s)
    <2>1. ServerKeeps
      BY <1>2 DEF AckTimeout, IInv, TypeOK, ServerKeeps, ServerChannel, process
    <2>. QED
      BY <1>1, <1>2, <2>1, NetIdle, QuietStep DEF AckTimeout
  <1>3. CASE ~(s \notin DOMAIN sessions \/ sessions[s].closing \/ IsAlive(s))
    BY <1>1, <1>3, ServerSendKeeps, QuietStep DEF AckTimeout
  <1>. QED
    BY <1>2, <1>3

LEMMA LoseKeeps == IInv /\ (\E m \in net : Lose(m)) => IInv'
  BY ServerIdle, ClientIdle, NetIdle, QuietStep DEF Lose

LEMMA LinkTimeoutKeeps == IInv /\ LinkTimeout => IInv'
  <1>. SUFFICES ASSUME IInv, LinkTimeout PROVE IInv'
    OBVIOUS
  <1>1. ServerKeeps
    BY ServerIdle DEF LinkTimeout
  <1>2. PICK failed \in SUBSET Unconnected :
           /\ net' \in Sent(net, {Syn(c) : c \in Unconnected \ failed})
           /\ client' = [c \in Channels |->
                           [client[c] EXCEPT !.closing = @ \/ c \in failed]]
    BY DEF LinkTimeout
  <1>3. NetKeeps
    <2>1. \A m \in net' : m \in net \/ \E c \in Channels : m = Syn(c)
      BY <1>2, NothingInvented DEF Unconnected
    <2>2. \A c \in Channels : Syn(c) \in Datagram /\ Directed(Syn(c)) /\ Syn(c).kind = "SYN"
      BY ConnectAssumption DEF Syn, Datagram, Directed, NoLife, Lives
    <2>. QED
      BY <2>1, <2>2 DEF NetKeeps
  <1>4. ClientKeeps
    <2>1. client \in [Channels -> ClientChannel]
      BY DEF IInv, TypeOK, ClientChannel
    <2>2. \A c \in Channels : client'[c] = [client[c] EXCEPT !.closing = client[c].closing \/ c \in failed]
      BY <1>2
    <2>3. \A c \in Channels : /\ client'[c] \in ClientChannel
                              /\ client'[c].conv = client[c].conv
                              /\ client'[c].life = client[c].life
      BY <2>1, <2>2 DEF ClientChannel
    <2>. QED
      BY <1>2, <2>3 DEF ClientKeeps, LinkTimeout, Linked
  <1>. QED
    BY <1>1, <1>3, <1>4, QuietStep

LEMMA ClientReadDataKeeps == IInv /\ (\E m \in net : ClientReadData(m)) => IInv'
  <1>. SUFFICES ASSUME IInv, NEW m \in net, ClientReadData(m) PROVE IInv'
    OBVIOUS
  <1>1. ServerKeeps /\ NetKeeps
    BY ServerIdle, NothingInvented, NetIdle DEF ClientReadData
  <1>2. UNCHANGED <<clientConvRef, linking>>
    BY DEF ClientReadData
  <1>3. CASE ClientTakesIn(m)
    <2>. DEFINE d == clientConvRef[m.conv]
    <2>1. d \in Channels
      BY <1>3 DEF ClientTakesIn, IInv, ClientMap
    <2>2. \/ client' = client
          \/ client' = [client EXCEPT ![d].closing = TRUE, ![d].recv = FALSE]
      BY <1>3 DEF ClientReadData
    <2>. HIDE DEF d
    <2>. QED
      BY <1>1, <1>2, <2>1, <2>2, ClientMarked, QuietStep
  <1>4. CASE ~ClientTakesIn(m)
    BY <1>1, <1>2, <1>4, ClientIdle, QuietStep DEF ClientReadData, clientVars
  <1>. QED
    BY <1>3, <1>4

LEMMA ClientUpdateKeeps == IInv /\ (\E c \in Channels : ClientUpdate(c)) => IInv'
  <1>. SUFFICES ASSUME IInv, NEW c \in Channels, ClientUpdate(c) PROVE IInv'
    OBVIOUS
  <1>. DEFINE m == [to |-> Server, from |-> c, kind |-> "DATA",
                    conv |-> client[c].conv, life |-> client[c].life]
  <1>1. ServerKeeps /\ ClientKeeps
    BY ServerIdle, ClientMarked DEF ClientUpdate
  <1>2. net' \subseteq net \cup {m}
    BY NothingInvented DEF ClientUpdate
  <1>3. client[c] \in ClientChannel /\ client[c].conv # 0
    BY DEF IInv, TypeOK, ClientChannel, ClientUpdate
  <1>4. m \in Datagram /\ Directed(m) /\ TagOf(m) = Tag(client[c].conv, c, client[c].life)
    BY <1>3 DEF Datagram, Directed, TagOf, ClientChannel
  <1>. HIDE DEF m
  <1>5. NetKeeps
    BY <1>2, <1>3, <1>4, InTags DEF NetKeeps
  <1>. QED
    BY <1>1, <1>5, QuietStep

LEMMA ClientErrorKeeps == IInv /\ (\E c \in Channels : ClientError(c)) => IInv'
  <1>. SUFFICES ASSUME IInv, NEW c \in Channels, ClientError(c) PROVE IInv'
    OBVIOUS
  <1>. QED
    BY ServerIdle, ClientMarked, NetIdle, QuietStep DEF ClientError

\* A repeated or late acknowledgement changes nothing; another one is adopted with
\* the conversation it names, which no other channel can have.
LEMMA ReadAckKeeps == IInv /\ (\E m \in net : ReadAck(m)) => IInv'
  <1>. SUFFICES ASSUME IInv, NEW m \in net, ReadAck(m) PROVE IInv'
    OBVIOUS
  <1>. DEFINE c == m.to
  <1>1. c \in Channels /\ m \in Datagram /\ m.kind = "ACK" /\ c # Server
    BY ConnectAssumption DEF ReadAck, IInv, TypeOK, Flying, Directed
  <1>2. net' \subseteq net
    BY NothingInvented DEF ReadAck
  <1>3. UNCHANGED <<serverVars, process, linking>>
    BY DEF ReadAck
  <1>4. CASE ~Adopts(c)
    BY <1>2, <1>3, <1>4, ServerIdle, ClientIdle, NetIdle, QuietStep DEF ReadAck, clientVars
  <1>5. CASE Adopts(c)
    <2>. DEFINE tag == Tag(m.conv, c, m.life)
    <2>1. /\ client' = [client EXCEPT ![c].conv = m.conv, ![c].life = m.life]
          /\ clientConvRef' = Insert(clientConvRef, m.conv, c)
          /\ client[c].conv = 0
      BY <1>5 DEF ReadAck, Adopts
    <2>2. client \in [Channels -> ClientChannel] /\ m.conv \in Nat /\ m.life \in Lives
      BY <1>1 DEF IInv, TypeOK, ClientChannel, Datagram
    <2>3. /\ client'[c] \in ClientChannel
          /\ client'[c].conv = m.conv /\ client'[c].life = m.life
          /\ \A d \in Channels : d # c => client'[d] = client[d]
          /\ client' \in [Channels -> ClientChannel]
      <3>1. client[c] \in ClientChannel
        BY <1>1, <2>2
      <3>2. client'[c] = [client[c] EXCEPT !.conv = m.conv, !.life = m.life]
        BY <1>1, <2>1, <2>2
      <3>3. client'[c] \in ClientChannel /\ client'[c].conv = m.conv /\ client'[c].life = m.life
        BY <2>2, <3>1, <3>2 DEF ClientChannel
      <3>. QED
        BY <1>1, <2>1, <2>2, <3>3
    <2>4. tag \in Tags /\ tag.conv = m.conv /\ tag.addr = c
      BY <1>1, InTags, TagFields DEF TagOf
    <2>5. restarts = 0 =>
             /\ m.conv \in 1..maxConv
             /\ m.conv \notin DOMAIN clientConvRef
             /\ \A d \in Channels : client[d].conv # m.conv
      <3>. SUFFICES ASSUME restarts = 0
                    PROVE  /\ m.conv \in 1..maxConv
                           /\ m.conv \notin DOMAIN clientConvRef
                           /\ \A d \in Channels : client[d].conv # m.conv
        OBVIOUS
      <3>1. m.conv \in 1..maxConv /\ \A y \in Tags : y.conv = m.conv => y = tag
        BY <2>4 DEF IInv, IssuedOnce
      <3>2. m.conv # 0
        BY <3>1
      <3>3. \A d \in Channels : client[d].conv # m.conv
        <4>. SUFFICES ASSUME NEW d \in Channels, client[d].conv = m.conv PROVE FALSE
          OBVIOUS
        <4>1. Tag(client[d].conv, d, client[d].life) \in Tags
          BY <3>2, InTags
        <4>2. d = c
          BY <2>4, <3>1, <4>1, TagFields
        <4>. QED
          BY <2>1, <3>2, <4>2
      <3>. QED
        BY <3>1, <3>3 DEF IInv, ClientMap
    <2>. HIDE DEF tag, c
    <2>6. TypeOK'
      BY <1>2, <1>3, <2>3 DEF IInv, TypeOK, ClientChannel, serverVars, process
    <2>7. \A v \in DOMAIN clientConvRef' :
             \/ v \in DOMAIN clientConvRef /\ clientConvRef'[v] = clientConvRef[v]
             \/ v = m.conv /\ clientConvRef'[v] = c
      BY <2>1 DEF Insert
    <2>8. restarts = 0 => /\ m.conv \in DOMAIN clientConvRef' /\ clientConvRef'[m.conv] = c
                          /\ \A v \in DOMAIN clientConvRef :
                                v \in DOMAIN clientConvRef' /\ clientConvRef'[v] = clientConvRef[v]
      BY <2>1, <2>5 DEF Insert
    <2>9. MapsAgree'
      <3>1. restarts = 0 => \A d \in Channels : client'[d].conv # 0 =>
               client'[d].conv \in DOMAIN clientConvRef' /\ clientConvRef'[client'[d].conv] = d
        BY <2>3, <2>8 DEF IInv, MapsAgree
      <3>. QED
        BY <1>3, <3>1 DEF IInv, MapsAgree, serverVars, process
    <2>10. Flying'
      BY <1>2 DEF IInv, Flying, Directed
    <2>11. IssuedOnce'
      <3>1. \A s \in DOMAIN sessions' :
               Tag(sessions'[s].conv, sessions'[s].addr, Life(s)') \in Tags
        BY <1>3, InTags DEF serverVars, process, Life
      <3>2. \A n \in net' : n.kind # "SYN" => TagOf(n) \in Tags
        BY <1>2, InTags
      <3>3. \A d \in Channels : client'[d].conv # 0 =>
               Tag(client'[d].conv, d, client'[d].life) \in Tags
        BY <2>3, <2>4, InTags DEF tag
      <3>4. Tags' \subseteq Tags
        BY <3>1, <3>2, <3>3, TagsAfter
      <3>. QED
        BY <1>3, <3>4 DEF IInv, IssuedOnce, serverVars, process
    <2>12. ClientMap'
      <3>1. \A v \in DOMAIN clientConvRef' : clientConvRef'[v] \in Channels
        BY <1>1, <2>7 DEF IInv, ClientMap, c
      <3>2. ASSUME restarts = 0, NEW v \in DOMAIN clientConvRef'
            PROVE  v # 0 /\ client'[clientConvRef'[v]].conv = v
        BY <1>1, <2>1, <2>3, <2>5, <2>7, <3>2 DEF IInv, ClientMap, c
      <3>. QED
        BY <1>3, <3>1, <3>2 DEF ClientMap, process
    <2>13. OneBeat'
      BY <1>3 DEF IInv, OneBeat, serverVars, process
    <2>. QED
      BY <2>6, <2>9, <2>10, <2>11, <2>12, <2>13 DEF IInv
  <1>. QED
    BY <1>4, <1>5

\* A channel that closes forgets its conversation, and the map with it.
LEMMA ClientCloseKeeps == IInv /\ (\E c \in Channels : ClientClose(c)) => IInv'
  <1>. SUFFICES ASSUME IInv, NEW c \in Channels, ClientClose(c) PROVE IInv'
    OBVIOUS
  <1>1. /\ client' = [client EXCEPT ![c] = [open |-> FALSE, conv |-> 0, life |-> NoLife,
                                            recv |-> FALSE, closing |-> TRUE]]
        /\ clientConvRef' = Erase(clientConvRef, client[c].conv)
        /\ UNCHANGED <<serverVars, process, linking, net>>
    BY DEF ClientClose
  <1>2. client \in [Channels -> ClientChannel]
    BY DEF IInv, TypeOK, ClientChannel
  <1>3. /\ client'[c].conv = 0 /\ client'[c] \in ClientChannel
        /\ \A d \in Channels : d # c => client'[d] = client[d]
        /\ client' \in [Channels -> ClientChannel]
    <2>1. NoLife \in Lives
      BY ConnectAssumption DEF NoLife, Lives
    <2>2. client'[c] = [open |-> FALSE, conv |-> 0, life |-> NoLife,
                        recv |-> FALSE, closing |-> TRUE]
      BY <1>1, <1>2
    <2>3. client'[c].conv = 0 /\ client'[c] \in ClientChannel
      BY <2>1, <2>2 DEF ClientChannel
    <2>. QED
      BY <1>1, <1>2, <2>3
  <1>4. /\ DOMAIN clientConvRef' = DOMAIN clientConvRef \ {client[c].conv}
        /\ \A v \in DOMAIN clientConvRef' : clientConvRef'[v] = clientConvRef[v]
    BY <1>1, EraseOne
  <1>5. TypeOK'
    BY <1>1, <1>3 DEF IInv, TypeOK, ClientChannel, serverVars, process
  <1>6. MapsAgree'
    <2>1. restarts = 0 => \A d \in Channels : client'[d].conv # 0 =>
             client'[d].conv \in DOMAIN clientConvRef' /\ clientConvRef'[client'[d].conv] = d
      BY <1>3, <1>4 DEF IInv, MapsAgree
    <2>. QED
      BY <1>1, <2>1 DEF IInv, MapsAgree, serverVars, process
  <1>7. Flying'
    BY <1>1 DEF IInv, Flying, Directed
  <1>8. IssuedOnce'
    <2>1. \A s \in DOMAIN sessions' :
             Tag(sessions'[s].conv, sessions'[s].addr, Life(s)') \in Tags
      BY <1>1, InTags DEF serverVars, process, Life
    <2>2. \A n \in net' : n.kind # "SYN" => TagOf(n) \in Tags
      BY <1>1, InTags
    <2>3. \A d \in Channels : client'[d].conv # 0 =>
             Tag(client'[d].conv, d, client'[d].life) \in Tags
      BY <1>3, InTags
    <2>4. Tags' \subseteq Tags
      BY <2>1, <2>2, <2>3, TagsAfter
    <2>. QED
      BY <1>1, <2>4 DEF IInv, IssuedOnce, serverVars, process
  <1>9. ClientMap'
    <2>1. \A v \in DOMAIN clientConvRef' : clientConvRef'[v] \in Channels
      BY <1>4 DEF IInv, ClientMap
    <2>2. ASSUME restarts = 0, NEW v \in DOMAIN clientConvRef'
          PROVE  v # 0 /\ client'[clientConvRef'[v]].conv = v
      BY <1>3, <1>4, <2>2 DEF IInv, ClientMap
    <2>. QED
      BY <1>1, <2>1, <2>2 DEF ClientMap, process
  <1>10. OneBeat'
    BY <1>1 DEF IInv, OneBeat, serverVars, process
  <1>. QED
    BY <1>5, <1>6, <1>7, <1>8, <1>9, <1>10 DEF IInv

\* The server deletes a channel, and every entry that names it.
LEMMA ServerCloseKeeps == IInv /\ (\E s \in DOMAIN sessions : ServerClose(s)) => IInv'
  <1>. SUFFICES ASSUME IInv, NEW s \in DOMAIN sessions, ServerClose(s) PROVE IInv'
    OBVIOUS
  <1>1. /\ sessions' = Erase(sessions, s)
        /\ convRef' = Erase(convRef, sessions[s].conv)
        /\ addrRef' = Erase(addrRef, sessions[s].addr)
        /\ heartTimers' = heartTimers \ {s}
        /\ UNCHANGED <<maxConv, maxSession, ackTimers, process, clientVars, net>>
    BY DEF ServerClose, ConvToErase, AddrToErase, TimersDestroyed
  <1>2. /\ DOMAIN sessions' = DOMAIN sessions \ {s}
        /\ \A u \in DOMAIN sessions' : sessions'[u] = sessions[u]
    BY <1>1 DEF Erase
  <1>3. /\ DOMAIN convRef' = DOMAIN convRef \ {sessions[s].conv}
        /\ \A v \in DOMAIN convRef' : convRef'[v] = convRef[v]
    BY <1>1 DEF Erase
  <1>4. /\ DOMAIN addrRef' = DOMAIN addrRef \ {sessions[s].addr}
        /\ \A a \in DOMAIN addrRef' : addrRef'[a] = addrRef[a]
    BY <1>1 DEF Erase
  <1>5. TypeOK'
    BY <1>1, <1>2 DEF IInv, TypeOK, process, clientVars
  <1>6. MapsAgree'
    <2>1. \A u \in DOMAIN sessions' :
             /\ sessions'[u].conv \in DOMAIN convRef' /\ convRef'[sessions'[u].conv] = u
             /\ sessions'[u].addr \in DOMAIN addrRef' /\ addrRef'[sessions'[u].addr] = u
      BY <1>2, <1>3, <1>4 DEF IInv, MapsAgree
    <2>2. \A v \in DOMAIN convRef' :
             convRef'[v] \in DOMAIN sessions' /\ sessions'[convRef'[v]].conv = v
      BY <1>2, <1>3 DEF IInv, MapsAgree
    <2>3. \A a \in DOMAIN addrRef' :
             addrRef'[a] \in DOMAIN sessions' /\ sessions'[addrRef'[a]].addr = a
      BY <1>2, <1>4 DEF IInv, MapsAgree
    <2>4. heartTimers' = IF heartbeat' THEN DOMAIN sessions' ELSE {}
      BY <1>1, <1>2 DEF IInv, MapsAgree, process
    <2>. QED
      BY <1>1, <2>1, <2>2, <2>3, <2>4 DEF IInv, MapsAgree, process, clientVars
  <1>7. Flying'
    BY <1>1 DEF IInv, Flying, Directed
  <1>8. IssuedOnce'
    <2>1. \A u \in DOMAIN sessions' :
             Tag(sessions'[u].conv, sessions'[u].addr, Life(u)') \in Tags
      BY <1>1, <1>2, InTags DEF process, Life
    <2>2. /\ \A n \in net' : n.kind # "SYN" => TagOf(n) \in Tags
          /\ \A c \in Channels : client'[c].conv # 0 =>
               Tag(client'[c].conv, c, client'[c].life) \in Tags
      BY <1>1, InTags DEF clientVars
    <2>3. Tags' \subseteq Tags
      BY <2>1, <2>2, TagsAfter
    <2>. QED
      BY <1>1, <2>3 DEF IInv, IssuedOnce, process
  <1>9. ClientMap'
    BY <1>1 DEF IInv, ClientMap, process, clientVars
  <1>10. OneBeat'
    BY <1>1, <1>2 DEF IInv, OneBeat, process
  <1>. QED
    BY <1>5, <1>6, <1>7, <1>8, <1>9, <1>10 DEF IInv

\* A new server process knows nobody, and promises nothing about the numbers its
\* predecessor issued.
LEMMA RestartKeeps == IInv /\ Restart => IInv'
  <1>. SUFFICES ASSUME IInv, Restart PROVE IInv'
    OBVIOUS
  <1>1. /\ DOMAIN sessions' = {} /\ DOMAIN convRef' = {} /\ DOMAIN addrRef' = {}
        /\ restarts' = restarts + 1 /\ restarts' # 0 /\ restarts' \in 0..MaxRestarts
    BY ConnectAssumption DEF Restart, EmptyMap, IInv, TypeOK
  <1>2. /\ maxConv' = 0 /\ maxSession' = 1 /\ ackTimers' = {} /\ heartTimers' = {}
        /\ UNCHANGED <<heartbeat, client, clientConvRef, linking, net>>
    BY DEF Restart, clientVars
  <1>3. TypeOK'
    BY <1>1, <1>2 DEF IInv, TypeOK
  <1>4. MapsAgree' /\ IssuedOnce' /\ OneBeat'
    BY <1>1, <1>2 DEF MapsAgree, IssuedOnce, OneBeat
  <1>5. Flying' /\ ClientMap'
    BY <1>1, <1>2 DEF IInv, Flying, Directed, ClientMap
  <1>. QED
    BY <1>3, <1>4, <1>5 DEF IInv

\* The server makes a channel for an address that has none, under numbers that
\* nothing has.
LEMMA ReadSynKeeps == IInv /\ (\E m \in net : ReadSyn(m)) => IInv'
  <1>. SUFFICES ASSUME IInv, NEW m \in net, ReadSyn(m) PROVE IInv'
    OBVIOUS
  <1>1. UNCHANGED <<process, clientVars>>
    BY DEF ReadSyn
  <1>2. CASE Refused(m.from)
    BY <1>1, <1>2, ServerIdle, ClientIdle, NothingInvented, NetIdle, QuietStep DEF ReadSyn
  <1>3. CASE ~Refused(m.from)
    <2>. DEFINE a == m.from
                s == maxSession + 1
                v == maxConv + 1
                tag == Tag(v, a, Life(s))
    <2>1. PICK ok \in BOOLEAN :
             /\ sessions' = Insert(sessions, s, NewChannel(a, v, ok))
             /\ \E rest \in Received(m) :
                   net' \in Sent(rest, IF ok THEN {Ack(s, v, a)} ELSE {})
             /\ convRef' = Insert(convRef, v, s)
             /\ addrRef' = Insert(addrRef, a, s)
             /\ ackTimers' = ackTimers \cup {s}
             /\ heartTimers' = heartTimers \cup (IF heartbeat THEN {s} ELSE {})
             /\ maxConv' = v /\ maxSession' = s
      BY <1>3 DEF ReadSyn, NextConv
    <2>2. /\ a \in Channels /\ a # Server /\ a \notin DOMAIN addrRef
          /\ maxConv \in Nat /\ maxSession \in Nat
      BY <1>3, ConnectAssumption DEF IInv, TypeOK, Flying, Directed, ReadSyn, Refused
    <2>3. s \notin DOMAIN sessions /\ v \notin DOMAIN convRef
      <3>1. \A u \in DOMAIN sessions : u \in 2..maxSession /\ sessions[u].conv \in 1..maxConv
        BY DEF IInv, TypeOK
      <3>2. \A w \in DOMAIN convRef : w \in 1..maxConv
        BY <3>1 DEF IInv, MapsAgree
      <3>. QED
        BY <2>2, <3>1, <3>2
    <2>4. /\ NewChannel(a, v, ok) \in ServerChannel'
          /\ NewChannel(a, v, ok).conv = v /\ NewChannel(a, v, ok).addr = a
          /\ ~heartbeat => NewChannel(a, v, ok).beats = 1
      BY <2>1, <2>2 DEF NewChannel, Beaten, ServerChannel
    <2>5. /\ Ack(s, v, a) \in Datagram /\ Directed(Ack(s, v, a))
          /\ TagOf(Ack(s, v, a)) = tag
      BY <2>2, ConnectAssumption DEF Ack, Datagram, Directed, TagOf, Life, Lives, IInv, TypeOK
    <2>6. net' \subseteq net \cup {Ack(s, v, a)}
      <3>1. PICK rest \in Received(m) :
                net' \in Sent(rest, IF ok THEN {Ack(s, v, a)} ELSE {})
        BY <2>1
      <3>. QED
        BY <3>1, NothingInvented
    <2>. HIDE DEF a, s, v, tag
    <2>7. /\ DOMAIN sessions' = DOMAIN sessions \cup {s}
          /\ sessions'[s] = NewChannel(a, v, ok)
          /\ \A u \in DOMAIN sessions : sessions'[u] = sessions[u]
      BY <2>1, <2>3 DEF Insert
    <2>8. /\ DOMAIN convRef' = DOMAIN convRef \cup {v} /\ convRef'[v] = s
          /\ \A w \in DOMAIN convRef : convRef'[w] = convRef[w]
      BY <2>1, <2>3 DEF Insert
    <2>9. /\ DOMAIN addrRef' = DOMAIN addrRef \cup {a} /\ addrRef'[a] = s
          /\ \A b \in DOMAIN addrRef : addrRef'[b] = addrRef[b]
      BY <2>1, <2>2 DEF Insert
    <2>10. TypeOK'
      <3>1. /\ \A u \in DOMAIN sessions : u \in 2..maxSession /\ sessions[u] \in ServerChannel
            /\ ackTimers \subseteq 2..maxSession /\ heartTimers \subseteq 2..maxSession
            /\ maxSession \in Nat \ {0}
        BY DEF IInv, TypeOK, ServerChannel
      <3>2. /\ maxConv' = maxConv + 1 /\ maxSession' = maxSession + 1
            /\ s = maxSession + 1
        BY <2>1 DEF s, v
      <3>3. \A u \in DOMAIN sessions : sessions[u] \in ServerChannel'
        BY <2>2, <3>1, <3>2 DEF ServerChannel
      <3>4. \A u \in DOMAIN sessions' : u \in 2..maxSession' /\ sessions'[u] \in ServerChannel'
        BY <2>2, <2>4, <2>7, <3>1, <3>2, <3>3
      <3>5. /\ maxConv' \in Nat /\ maxSession' \in Nat \ {0}
            /\ ackTimers' \subseteq 2..maxSession' /\ heartTimers' \subseteq 2..maxSession'
        BY <2>1, <2>2, <3>1, <3>2
      <3>6. net' \subseteq Datagram
        BY <2>5, <2>6 DEF IInv, TypeOK
      <3>. QED
        BY <1>1, <3>4, <3>5, <3>6 DEF IInv, TypeOK, ServerChannel, process, clientVars
    <2>11. MapsAgree'
      <3>1. \A u \in DOMAIN sessions' :
               /\ sessions'[u].conv \in DOMAIN convRef' /\ convRef'[sessions'[u].conv] = u
               /\ sessions'[u].addr \in DOMAIN addrRef' /\ addrRef'[sessions'[u].addr] = u
        BY <2>4, <2>7, <2>8, <2>9 DEF IInv, MapsAgree
      <3>2. \A w \in DOMAIN convRef' :
               convRef'[w] \in DOMAIN sessions' /\ sessions'[convRef'[w]].conv = w
        BY <2>4, <2>7, <2>8 DEF IInv, MapsAgree
      <3>3. \A b \in DOMAIN addrRef' :
               addrRef'[b] \in DOMAIN sessions' /\ sessions'[addrRef'[b]].addr = b
        BY <2>4, <2>7, <2>9 DEF IInv, MapsAgree
      <3>4. heartTimers' = IF heartbeat' THEN DOMAIN sessions' ELSE {}
        BY <1>1, <2>1, <2>7 DEF IInv, MapsAgree, process
      <3>. QED
        BY <1>1, <3>1, <3>2, <3>3, <3>4 DEF IInv, MapsAgree, process, clientVars
    <2>12. Flying'
      BY <2>5, <2>6 DEF IInv, Flying, Directed
    <2>13. IssuedOnce'
      <3>1. \A u \in DOMAIN sessions' :
               Tag(sessions'[u].conv, sessions'[u].addr, Life(u)') \in Tags \cup {tag}
        <4>1. \A u : Life(u)' = Life(u)
          BY <1>1 DEF Life, process
        <4>. QED
          BY <2>4, <2>7, <4>1, InTags DEF tag
      <3>2. \A n \in net' : n.kind # "SYN" => TagOf(n) \in Tags \cup {tag}
        BY <2>5, <2>6, InTags
      <3>3. \A c \in Channels : client'[c].conv # 0 =>
               Tag(client'[c].conv, c, client'[c].life) \in Tags \cup {tag}
        BY <1>1, InTags DEF clientVars
      <3>4. Tags' \subseteq Tags \cup {tag}
        BY <3>1, <3>2, <3>3, TagsAfter
      <3>5. tag.conv = v
        BY TagFields DEF tag
      <3>6. v = maxConv + 1 /\ maxConv' = maxConv + 1
        BY <2>1 DEF v
      <3>7. ASSUME restarts = 0
            PROVE  /\ \A x \in Tags : x.conv \in 1..maxConv'
                   /\ \A x \in Tags : x.conv # tag.conv
                   /\ \A x, y \in Tags : x.conv = y.conv => x = y
                   /\ tag.conv \in 1..maxConv'
        BY <2>2, <3>5, <3>6, <3>7 DEF IInv, IssuedOnce
      <3>8. restarts' = restarts
        BY <1>1 DEF process
      <3>. QED
        BY <3>4, <3>7, <3>8 DEF IssuedOnce
    <2>14. ClientMap'
      BY <1>1 DEF IInv, ClientMap, process, clientVars
    <2>15. OneBeat'
      BY <1>1, <2>4, <2>7 DEF IInv, OneBeat, process
    <2>. QED
      BY <2>10, <2>11, <2>12, <2>13, <2>14, <2>15 DEF IInv
  <1>. QED
    BY <1>2, <1>3

-----------------------------------------------------------------------------
(* The specification. *)

LEMMA InitIInv == Init => IInv
  <1>. SUFFICES ASSUME Init PROVE IInv
    OBVIOUS
  <1>1. /\ DOMAIN sessions = {} /\ DOMAIN convRef = {} /\ DOMAIN addrRef = {}
        /\ DOMAIN clientConvRef = {} /\ net = {} /\ heartTimers = {}
    BY DEF Init, EmptyMap
  <1>2. \A c \in Channels : client[c].conv = 0
    BY DEF Init
  <1>3. NoLife \in Lives
    BY ConnectAssumption DEF NoLife, Lives
  <1>4. TypeOK
    BY <1>1, <1>3, ConnectAssumption DEF Init, TypeOK
  <1>5. Tags = {}
    BY <1>1, <1>2 DEF Tags
  <1>. QED
    BY <1>1, <1>2, <1>4, <1>5
       DEF IInv, MapsAgree, Flying, IssuedOnce, ClientMap, OneBeat

LEMMA NextIInv == IInv /\ [Next]_vars => IInv'
  <1>. SUFFICES ASSUME IInv, [Next]_vars PROVE IInv'
    OBVIOUS
  <1>1. CASE UNCHANGED vars
    BY <1>1, ServerIdle, ClientIdle, NetIdle, QuietStep DEF vars
  <1>2. CASE Next
    BY <1>2, ReadSynKeeps, ReadDataKeeps, ReadAckKeeps, ClientReadDataKeeps, LoseKeeps,
       HeartbeatTimeoutKeeps, ServerUpdateKeeps, ServerCloseKeeps, AckTimeoutKeeps,
       RestartKeeps, LinkTimeoutKeeps, ClientUpdateKeeps, ClientErrorKeeps,
       ClientCloseKeeps
       DEF Next
  <1>. QED
    BY <1>1, <1>2

\* The invariant holds in every state of every behaviour.
THEOREM Inductive == Spec => []IInv
  BY InitIInv, NextIInv, PTL DEF Spec

\* Every variable keeps its type, for any number of channels and restarts.
THEOREM TypeCorrect == Spec => []TypeOK
  BY Inductive, PTL DEF IInv

\* The server's three maps and its heartbeat timers always name the same channels,
\* so that none of them ever holds a pointer to a deleted one, whatever the network does and whenever
\* timers, errors and restarts strike; and the client's map finds its channels.
THEOREM MapsAlwaysAgree == Spec => []MapsAgree
  BY Inductive, PTL DEF IInv

\* Until the server restarts, no control block at either end is fed data of
\* another conversation, however late: a number is never issued twice.
THEOREM OnlyOneConversation == Spec => []OneConversation
  <1>1. IInv => OneConversation
    <2>. SUFFICES ASSUME IInv, restarts = 0, NEW m \in net, m.kind = "DATA"
                  PROVE  /\ m.to = Server /\ TakesIn(m) => m.life = Life(convRef[m.conv])
                         /\ m.to # Server /\ ClientTakesIn(m) =>
                                m.life = client[clientConvRef[m.conv]].life
      BY DEF OneConversation
    <2>1. TagOf(m) \in Tags /\ TagOf(m).conv = m.conv /\ TagOf(m).life = m.life
      BY InTags, TagFields DEF TagOf
    <2>2. \A v, a, l : Tag(v, a, l) \in Tags /\ v = m.conv => l = m.life
      BY <2>1, TagFields DEF IInv, IssuedOnce
    <2>3. ASSUME TakesIn(m)
          PROVE  m.life = Life(convRef[m.conv])
      <3>1. /\ convRef[m.conv] \in DOMAIN sessions
            /\ sessions[convRef[m.conv]].conv = m.conv
        BY <2>3 DEF TakesIn, IInv, MapsAgree
      <3>. QED
        BY <2>2, <3>1, InTags
    <2>4. ASSUME ClientTakesIn(m)
          PROVE  m.life = client[clientConvRef[m.conv]].life
      <3>1. /\ clientConvRef[m.conv] \in Channels
            /\ m.conv # 0 /\ client[clientConvRef[m.conv]].conv = m.conv
        BY <2>4 DEF ClientTakesIn, IInv, ClientMap
      <3>. QED
        BY <2>2, <3>1, InTags
    <2>. QED
      BY <2>3, <2>4
  <1>. QED
    BY <1>1, Inductive, PTL

\* A client channel leaves a conversation only by closing: no acknowledgement,
\* late, repeated or of a restarted server, replaces its control block.
THEOREM ConversationStays == Spec => ConversationKept
  <1>. DEFINE Stays == \A c \in Channels : client[c].conv # 0 =>
                          \/ client'[c].conv = client[c].conv /\ client'[c].life = client[c].life
                          \/ ~client'[c].open
  <1>1. IInv /\ [Next]_vars => [Stays]_vars
    <2>. SUFFICES ASSUME IInv, Next, NEW c \in Channels, client[c].conv # 0
                  PROVE  \/ client'[c].conv = client[c].conv /\ client'[c].life = client[c].life
                         \/ ~client'[c].open
      OBVIOUS
    <2>1. client \in [Channels -> ClientChannel]
      BY DEF IInv, TypeOK, ClientChannel
    <2>2. ASSUME NEW m \in net, ReadSyn(m) \/ ReadData(m) \/ Lose(m)
          PROVE  client' = client
      BY <2>2 DEF ReadSyn, ReadData, Lose, clientVars
    <2>3. ASSUME NEW m \in net, ReadAck(m)
          PROVE  client'[c].conv = client[c].conv /\ client'[c].life = client[c].life
      BY <2>1, <2>3 DEF ReadAck, Adopts
    <2>4. ASSUME NEW m \in net, ClientReadData(m)
          PROVE  client'[c].conv = client[c].conv /\ client'[c].life = client[c].life
      <3>. DEFINE d == clientConvRef[m.conv]
      <3>1. \/ client' = client
            \/ /\ client' = [client EXCEPT ![d].closing = TRUE, ![d].recv = FALSE]
               /\ d \in Channels
        BY <2>4 DEF ClientReadData, ClientTakesIn, IInv, ClientMap
      <3>2. UNCHANGED <<clientConvRef, linking>>
        BY <2>4 DEF ClientReadData
      <3>. HIDE DEF d
      <3>3. ClientKeeps
        BY <3>1, <3>2, ClientMarked
      <3>. QED
        BY <3>3 DEF ClientKeeps
    <2>5. ASSUME NEW s, HeartbeatTimeout(s) \/ ServerUpdate(s) \/ ServerClose(s) \/ AckTimeout(s)
          PROVE  client' = client
      BY <2>5 DEF HeartbeatTimeout, ServerUpdate, ServerClose, AckTimeout, clientVars
    <2>6. ASSUME Restart
          PROVE  client' = client
      BY <2>6 DEF Restart, clientVars
    <2>7. ASSUME LinkTimeout
          PROVE  client'[c].conv = client[c].conv /\ client'[c].life = client[c].life
      <3>1. PICK failed \in SUBSET Unconnected :
               client' = [d \in Channels |-> [client[d] EXCEPT !.closing = @ \/ d \in failed]]
        BY <2>7 DEF LinkTimeout
      <3>2. client'[c] = [client[c] EXCEPT !.closing = client[c].closing \/ c \in failed]
        BY <3>1
      <3>. QED
        BY <2>1, <3>2
    <2>8. ASSUME NEW d \in Channels, ClientUpdate(d) \/ ClientError(d)
          PROVE  client'[c].conv = client[c].conv /\ client'[c].life = client[c].life
      <3>1. ClientKeeps
        BY <2>8, ClientMarked DEF ClientUpdate, ClientError
      <3>. QED
        BY <3>1 DEF ClientKeeps
    <2>9. ASSUME NEW d \in Channels, ClientClose(d)
          PROVE  client'[c] = client[c] \/ ~client'[c].open
      BY <2>1, <2>9 DEF ClientClose
    <2>. QED
      BY <2>2, <2>3, <2>4, <2>5, <2>6, <2>7, <2>8, <2>9 DEF Next
  <1>. QED
    BY <1>1, Inductive, PTL DEF Spec, ConversationKept

\* Without heartbeats the server does not stop acknowledging a living channel
\* before its client has been heard, whatever happens to others.
THEOREM QuietAcked == Spec => QuietAckedUntilAlive
  <1>1. IInv /\ [Next]_vars => [~heartbeat => EndsWhenAlive]_vars
    <2>. SUFFICES ASSUME IInv, Next, ~heartbeat, restarts' = restarts,
                         NEW s \in ackTimers \ ackTimers'
                  PROVE  s \notin DOMAIN sessions \/ sessions[s].closing \/ sessions[s].heard
      BY DEF EndsWhenAlive
    <2>1. AckTimeout(s)
      <3>1. restarts' # restarts + 1
        BY DEF IInv, TypeOK
      <3>2. ~Restart
        BY <3>1 DEF Restart
      <3>3. \A m \in net : ~ReadSyn(m) /\ ~ReadData(m) /\ ~ReadAck(m)
                           /\ ~ClientReadData(m) /\ ~Lose(m)
        BY DEF ReadSyn, ReadData, ReadAck, ClientReadData, Lose, serverVars
      <3>4. \A u : ~HeartbeatTimeout(u) /\ ~ServerUpdate(u) /\ ~ServerClose(u)
        BY DEF HeartbeatTimeout, ServerUpdate, ServerClose
      <3>5. ~LinkTimeout /\ \A c \in Channels :
               ~ClientUpdate(c) /\ ~ClientError(c) /\ ~ClientClose(c)
        BY DEF LinkTimeout, ClientUpdate, ClientError, ClientClose, serverVars
      <3>6. PICK u \in ackTimers : AckTimeout(u)
        BY <3>2, <3>3, <3>4, <3>5 DEF Next
      <3>7. u = s
        BY <3>6 DEF AckTimeout
      <3>. QED
        BY <3>6, <3>7
    <2>2. s \notin DOMAIN sessions \/ sessions[s].closing \/ IsAlive(s)
      BY <2>1 DEF AckTimeout
    <2>. QED
      BY <2>2 DEF IsAlive, IInv, OneBeat
  <1>. QED
    BY <1>1, Inductive, PTL DEF Spec, QuietAckedUntilAlive
=============================================================================
