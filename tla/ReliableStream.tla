--------------------------- MODULE ReliableStream ---------------------------
(***************************************************************************)
(* What one KCP conversation promises its two users.  Each user hands      *)
(* messages to its own end; the other user obtains those messages, whole,  *)
(* in the order they were handed over, each exactly once.                  *)
(*                                                                         *)
(* A message is the run of fragments it is cut into.  A fragment carries   *)
(* the identity of its message and frg, the number of fragments of that    *)
(* message that follow it (0 marks the last one).                          *)
(***************************************************************************)
EXTENDS Integers, Sequences

CONSTANTS A, B,      \* the two ends of the conversation
          MaxFrag    \* the most fragments a message may have

VARIABLES sent,      \* sent[e]: fragments user e has handed over, in order
          delivered  \* delivered[e]: fragments user e has obtained, in order

vars == <<sent, delivered>>

Ends == {A, B}

Peer(e) == IF e = A THEN B ELSE A

\* The n fragments of the message handed over after `before` fragments.
Message(before, n) == [i \in 1..n |-> [msg |-> before, frg |-> n - i]]

Init ==
    /\ sent = [e \in Ends |-> <<>>]
    /\ delivered = [e \in Ends |-> <<>>]

Send(e) ==
    /\ \E n \in 1..MaxFrag :
          sent' = [sent EXCEPT ![e] = @ \o Message(Len(@), n)]
    /\ UNCHANGED delivered

\* User e obtains the next message of the other user, all of it and no more.
Deliver(e) ==
    /\ \E n \in (Len(delivered[e]) + 1)..Len(sent[Peer(e)]) :
          /\ sent[Peer(e)][n].frg = 0
          /\ \A i \in (Len(delivered[e]) + 1)..(n - 1) : sent[Peer(e)][i].frg # 0
          /\ delivered' = [delivered EXCEPT ![e] = SubSeq(sent[Peer(e)], 1, n)]
    /\ UNCHANGED sent

Next == \E e \in Ends : Send(e) \/ Deliver(e)

Spec == Init /\ [][Next]_vars
=============================================================================
