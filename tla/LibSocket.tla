------------------------------- MODULE LibSocket -------------------------------
(***************************************************************************)
(* UDP sockets and their endpoints (UdpSocket, EndPoint), as the channels  *)
(* use them: one thread polls them without blocking.  The kernel's half is *)
(* external: it may lose datagrams, and may report an error in place of    *)
(* one.  The parts only TCP has are left out, and those that do not        *)
(* compile (Join, Accept, Bind to a sockaddr).                             *)
(***************************************************************************)
EXTENDS Integers, Sequences, SequencesExt

CONSTANTS
    Sockets,    \* the socket objects of all the processes
    Hosts,      \* addresses with their ports, of either family
    MaxQueued   \* bound: datagrams the kernel keeps for a socket

\* An address, and what is read from one of the other family's.
Addresses == [isIpv6 : BOOLEAN, host : Hosts]
None == [isIpv6 |-> FALSE, host |-> "none"]
Garbled == [isIpv6 |-> FALSE, host |-> "garbled"]

VARIABLES
    socket,   \* the program's objects: _af, _sock, the endpoints, _connected
    kernel,   \* the kernel's: the address bound, the peer, the queue; none when closed
    heard     \* contexts of the last OnReadable: the data, which name their sender, and _endpoint
socketVars == <<socket, kernel, heard>>

-----------------------------------------------------------------------------
(* Endpoints: an address as text, the same for the kernel (_addrInfo).      *)

EndPoint == [addr |-> None, isIpv6 |-> FALSE, addrInfo |-> None]

\* From an address's text.
UpdateAddrIn(address) == [addr |-> address, isIpv6 |-> address.isIpv6, addrInfo |-> address]

\* The text of what the kernel wrote: fields of the family that is expected.
UpdateAddrByAddrIn(addrInfo, isIpv6) ==
    [addr |-> IF addrInfo.isIpv6 = isIpv6 THEN addrInfo ELSE Garbled,
     isIpv6 |-> isIpv6, addrInfo |-> IF addrInfo.isIpv6 = isIpv6 THEN addrInfo ELSE Garbled]

\* Asked of the kernel by the socket; the text is missing when it does not know.
UpdateRemoteAddrIn(endPoint, peer) ==
    IF peer = None THEN endPoint
    ELSE [addr |-> peer, isIpv6 |-> peer.isIpv6, addrInfo |-> peer]

-----------------------------------------------------------------------------
(* The kernel. *)

Unbound(isIpv6) == [isIpv6 |-> isIpv6, bound |-> None, peer |-> None, queue |-> <<>>]
NoSocket == [isIpv6 |-> FALSE, bound |-> Garbled, peer |-> None, queue |-> <<>>]

Free(address) == \A s \in Sockets : kernel[s].bound # address

ResetNotice == [error |-> TRUE, from |-> None]
Datagram(from) == [error |-> FALSE, from |-> from]

\* With a datagram queued by its receiver, who takes only its peer's once connected.
Queued(from, to) ==
    [s \in Sockets |->
        IF /\ kernel[s].bound = to
           /\ kernel[s].peer \in {None, from}
           /\ Len(SelectSeq(kernel[s].queue, LAMBDA entry : ~entry.error)) < MaxQueued
        THEN [kernel[s] EXCEPT !.queue = Append(@, Datagram(from))]
        ELSE kernel[s]]

-----------------------------------------------------------------------------
(* Operations.  One that fails only logs, and changes what is said here.    *)

Af(isIpv6) == IF isIpv6 THEN 6 ELSE 4

Closed == [af |-> 0, sock |-> FALSE, local |-> EndPoint, remote |-> EndPoint,
           connected |-> FALSE]

SocketInit ==
    /\ socket = [s \in Sockets |-> [Closed EXCEPT !.af = Af(FALSE)]]
    /\ kernel = [s \in Sockets |-> NoSocket]
    /\ heard = [s \in Sockets |-> <<>>]

Create(s, isIpv6) ==
    /\ ~socket[s].sock
    /\ socket' = [socket EXCEPT ![s].sock = TRUE, ![s].af = Af(isIpv6)]
    /\ kernel' = [kernel EXCEPT ![s] = Unbound(isIpv6)]
    /\ UNCHANGED heard

\* The kernel refuses an address of the other family, one in use and a second one.
Bind(s, address) ==
    /\ socket[s].sock
    /\ address.isIpv6 = kernel[s].isIpv6 /\ kernel[s].bound = None /\ Free(address)
    /\ kernel' = [kernel EXCEPT ![s].bound = address]
    /\ socket' = [socket EXCEPT ![s].local = UpdateAddrIn(address)]
    /\ UNCHANGED heard

\* Destroys the socket; the connection is not taken back before that, for the
\* address that says so (AF_UNSPEC) is built and not used.
Close(s) ==
    /\ socket[s].sock
    /\ socket' = [socket EXCEPT ![s] = Closed]
    /\ kernel' = [kernel EXCEPT ![s] = NoSocket]
    /\ heard' = [heard EXCEPT ![s] = <<>>]

\* An address for the sockets the program has given none.
Chosen(s) ==
    IF kernel[s].bound # None THEN {kernel[s].bound}
    ELSE {a \in Addresses : a.isIpv6 = kernel[s].isIpv6 /\ Free(a)}

Connect(s, address) ==
    /\ socket[s].sock /\ ~socket[s].connected
    /\ Af(address.isIpv6) = socket[s].af
    /\ \E own \in Chosen(s) :
        kernel' = [kernel EXCEPT ![s].peer = address, ![s].bound = own]
    /\ socket' = [socket EXCEPT ![s].connected = TRUE,
                                ![s].remote = UpdateRemoteAddrIn(EndPoint, kernel'[s].peer)]
    /\ UNCHANGED heard

\* Where a datagram goes; none to no endpoint before a connection.
Destination(s, endPoint) ==
    IF socket[s].connected THEN kernel[s].peer
    ELSE IF endPoint = EndPoint THEN socket[s].remote.addrInfo
    ELSE endPoint.addrInfo

\* The kernel refuses the other family; the datagram may be lost.
SocketSend(s, endPoint) ==
    LET to == Destination(s, endPoint)
    IN  /\ socket[s].sock
        /\ to \in Addresses /\ to.isIpv6 = kernel[s].isIpv6
        /\ \E own \in Chosen(s), lost \in BOOLEAN :
            kernel' = [IF lost THEN kernel ELSE Queued(own, to) EXCEPT ![s].bound = own]
        /\ UNCHANGED <<socket, heard>>

\* A plausible mistake: the other endpoint is asked for the family.
RecvRemote(s, entry) ==
    IF socket[s].connected THEN EndPoint
    ELSE UpdateAddrByAddrIn(entry.from, socket[s].remote.isIpv6)

\* One datagram.  The endpoint is filled in before the result is looked at, as
\* long as the local endpoint says the addresses are; connected, it is not.
Recv(s, entry) ==
    IF socket[s].connected THEN EndPoint
    ELSE UpdateAddrByAddrIn(entry.from, socket[s].local.isIpv6)

\* Reads until nothing is left or an error stops it, which is read with the rest;
\* what is behind waits for the next time.  The contexts are handled after that.
OnReadable(s) ==
    LET queue == kernel[s].queue
    IN  /\ queue # <<>>
        /\ \E good \in 0..Len(queue) :
            /\ \A i \in 1..good : ~queue[i].error
            /\ good < Len(queue) => queue[good + 1].error
            /\ kernel' = [kernel EXCEPT ![s].queue = SubSeq(queue, good + 2, Len(queue))]
            /\ heard' = [heard EXCEPT ![s] =
                            [i \in 1..good |->
                                [data |-> queue[i].from, endpoint |-> Recv(s, queue[i])]]]
        /\ UNCHANGED socket

-----------------------------------------------------------------------------
(* Steps.  A socket is connected, if ever, before anything is sent to it.   *)

RawSend(s) == \E i \in DOMAIN heard[s] : SocketSend(s, heard[s][i].endpoint)

\* The kernel reports, in place of a datagram, that an earlier one was refused.
Refused(s) ==
    /\ kernel[s].bound \in Addresses
    /\ ResetNotice \notin ToSet(kernel[s].queue)
    /\ kernel' = [kernel EXCEPT ![s].queue = Append(@, ResetNotice)]
    /\ UNCHANGED <<socket, heard>>

SocketNext ==
    \E s \in Sockets :
        \/ \E isIpv6 \in BOOLEAN : Create(s, isIpv6)
        \/ \E address \in Addresses : Bind(s, address)
        \/ \E address \in Addresses :
            kernel[s].queue = <<>> /\ heard[s] = <<>> /\ Connect(s, address)
        \/ \E address \in Addresses : SocketSend(s, UpdateAddrIn(address))
        \/ SocketSend(s, EndPoint)
        \/ RawSend(s)
        \/ Refused(s)
        \/ OnReadable(s)
        \/ Close(s)

-----------------------------------------------------------------------------

\* A datagram's answer goes to the one who sent the datagram, whatever was bound,
\* connected, closed or refused in between, on every socket whose Bind succeeded
\* (or whose addresses are IPv4: others are read at the wrong length); and the
\* endpoints a socket tells are the kernel's.
AnswersSender ==
    \A s \in Sockets :
        /\ \A i \in DOMAIN heard[s] :
            \/ socket[s].local = EndPoint /\ kernel[s].isIpv6
            \/ Destination(s, heard[s][i].endpoint) = heard[s][i].data
        /\ socket[s].local # EndPoint => socket[s].local.addr = kernel[s].bound
        /\ socket[s].remote.addr = kernel[s].peer
        /\ socket[s].connected <=> kernel[s].peer # None
=============================================================================
