---------------------------- MODULE KcpArqProofs ----------------------------
(***************************************************************************)
(* Machine-checked facts about KcpArq, for every window size, message      *)
(* limit and bound of the model.                                           *)
(***************************************************************************)
EXTENDS KcpArq, SequenceTheorems, TLAPS

LEMMA PeerEnds ==
    \A e \in Ends : Peer(e) \in Ends /\ Peer(e) # e /\ Peer(Peer(e)) = e
  BY ArqAssumption DEF Ends, Peer

\* The tail of a sequence from position n + 1 on.
LEMMA Dropped ==
    ASSUME NEW S, NEW s \in Seq(S), NEW n \in 0..Len(s)
    PROVE  /\ SubSeq(s, n + 1, Len(s)) \in Seq(S)
           /\ Len(SubSeq(s, n + 1, Len(s))) = Len(s) - n
           /\ \A i \in 1..(Len(s) - n) : SubSeq(s, n + 1, Len(s))[i] = s[n + i]
  <1>1. \A i \in (n + 1)..Len(s) : s[i] \in S
    BY ElementOfSeq
  <1>2. n + 1 \in Int /\ Len(s) \in Int
    BY LenProperties
  <1>. QED
    BY <1>1, <1>2, SubSeqProperties

\* The first n elements of a sequence.
LEMMA Taken ==
    ASSUME NEW S, NEW s \in Seq(S), NEW n \in 0..Len(s)
    PROVE  /\ SubSeq(s, 1, n) \in Seq(S)
           /\ Len(SubSeq(s, 1, n)) = n
           /\ \A i \in 1..n : SubSeq(s, 1, n)[i] = s[i]
  <1>1. \A i \in 1..n : s[i] \in S
    BY ElementOfSeq
  <1>2. n \in Int /\ Len(s) \in Nat
    BY LenProperties
  <1>. QED
    BY <1>1, <1>2, SubSeqProperties

LEMMA FunctionIsSeq ==
    ASSUME NEW S, NEW n \in Nat, NEW f \in [1..n -> S]
    PROVE  f \in Seq(S) /\ Len(f) = n
  OBVIOUS

\* A sequence followed by n more elements.
LEMMA Extended ==
    ASSUME NEW S, NEW s \in Seq(S), NEW n \in Nat, NEW f \in [1..n -> S]
    PROVE  /\ s \o f \in Seq(S)
           /\ Len(s \o f) = Len(s) + n
           /\ \A i \in 1..Len(s) : (s \o f)[i] = s[i]
           /\ \A i \in 1..n : (s \o f)[Len(s) + i] = f[i]
  <1>1. f \in Seq(S) /\ Len(f) = n /\ Len(s) \in Nat
    BY FunctionIsSeq, LenProperties
  <1>2. /\ s \o f \in Seq(S)
        /\ Len(s \o f) = Len(s) + Len(f)
        /\ \A i \in 1..Len(s) + Len(f) :
              (s \o f)[i] = IF i <= Len(s) THEN s[i] ELSE f[i - Len(s)]
    BY <1>1, ConcatProperties
  <1>3. ASSUME NEW i \in 1..n
        PROVE  (s \o f)[Len(s) + i] = f[i]
    <2>1. Len(s) + i \in 1..Len(s) + Len(f) /\ ~(Len(s) + i <= Len(s))
             /\ (Len(s) + i) - Len(s) = i
      BY <1>1
    <2>. QED
      BY <1>2, <2>1
  <1>. QED
    BY <1>1, <1>2, <1>3

\* The same for the sequences of KcpArq.
LEMMA ExtendedFragments ==
    \A s \in Seq(Fragment) : \A n \in Nat : \A f \in [1..n -> Fragment] :
       /\ s \o f \in Seq(Fragment)
       /\ Len(s \o f) = Len(s) + n
       /\ \A i \in 1..Len(s) : (s \o f)[i] = s[i]
       /\ \A i \in 1..n : (s \o f)[Len(s) + i] = f[i]
  <1>. TAKE s \in Seq(Fragment)
  <1>. TAKE n \in Nat
  <1>. TAKE f \in [1..n -> Fragment]
  <1>. QED
    BY Extended

\* What FillQueue makes of the receive side, given well-typed arguments.
LEMMA FillQueueType ==
    ASSUME TypeOK, NEW e \in Ends, NEW buf, NEW queue \in Seq(Fragment), NEW k,
           DOMAIN buf \subseteq Nat,
           \A sn \in DOMAIN buf : buf[sn] \in Fragment,
           FillQueue(e, buf, queue, k)
    PROVE  /\ rcv_queue' \in [Ends -> Seq(Fragment)]
           /\ rcv_nxt' \in [Ends -> Nat]
           /\ DOMAIN rcv_buf' = Ends
           /\ \A f \in Ends :
                 /\ DOMAIN rcv_buf'[f] \subseteq Nat
                 /\ \A sn \in DOMAIN rcv_buf'[f] : rcv_buf'[f][sn] \in Fragment
  <1>. DEFINE moved == [i \in 1..k |-> buf[rcv_nxt[e] + i - 1]]
  <1>0. Len(queue) \in Nat
    BY LenProperties
  <1>1. k \in Nat
    BY <1>0, ArqAssumption DEF FillQueue, Moves
  <1>2. \A i \in 1..k : buf[rcv_nxt[e] + i - 1] \in Fragment
    <2>. TAKE i \in 1..k
    <2>1. rcv_nxt[e] + (i - 1) \in DOMAIN buf
      BY <1>1 DEF FillQueue, Moves
    <2>. QED
      BY <1>1, <2>1 DEF TypeOK
  <1>3. moved \in Seq(Fragment)
    BY <1>1, <1>2
  <1>4. queue \o moved \in Seq(Fragment)
    BY <1>3, ConcatProperties
  <1>5. rcv_queue' \in [Ends -> Seq(Fragment)]
    BY <1>4 DEF FillQueue, TypeOK
  <1>6. rcv_nxt' \in [Ends -> Nat]
    BY <1>1 DEF FillQueue, TypeOK
  <1>7. /\ DOMAIN rcv_buf' = Ends
        /\ \A f \in Ends :
              /\ DOMAIN rcv_buf'[f] \subseteq Nat
              /\ \A sn \in DOMAIN rcv_buf'[f] : rcv_buf'[f][sn] \in Fragment
    BY DEF FillQueue, TypeOK
  <1>. QED
    BY <1>5, <1>6, <1>7

LEMMA InitType == Init => TypeOK
  BY EmptySeq, ArqAssumption DEF Init, TypeOK

LEMMA SendType == TypeOK /\ (\E e \in Senders : Send(e)) => TypeOK'
  <1>. SUFFICES ASSUME TypeOK, NEW e \in Senders, Send(e)
                PROVE  TypeOK'
    OBVIOUS
  <1>1. e \in Ends
    BY ArqAssumption
  <1>2. Len(sent[e]) \in Nat
    BY <1>1, LenProperties DEF TypeOK
  <1>. PICK n \in 1..(MaxSent - Len(sent[e])) :
          LET frags == [i \in 1..n |-> [msg |-> Len(sent[e]), frg |-> n - i]]
          IN  /\ sent' = [sent EXCEPT ![e] = @ \o frags]
              /\ snd_queue' = [snd_queue EXCEPT ![e] = @ \o frags]
    BY DEF Send
  <1>. DEFINE frags == [i \in 1..n |-> [msg |-> Len(sent[e]), frg |-> n - i]]
  <1>3. n \in Nat
    BY <1>2, ArqAssumption
  <1>4. \A i \in 1..n : [msg |-> Len(sent[e]), frg |-> n - i] \in Fragment
    BY <1>2, <1>3 DEF Fragment
  <1>5. frags \in Seq(Fragment)
    <2>1. frags \in [1..n -> Fragment]
      BY <1>4
    <2>. QED
      BY <1>3, <2>1, FunctionIsSeq
  <1>6. sent[e] \o frags \in Seq(Fragment) /\ snd_queue[e] \o frags \in Seq(Fragment)
    BY <1>1, <1>5, ConcatProperties DEF TypeOK
  <1>7. sent' \in [Ends -> Seq(Fragment)] /\ snd_queue' \in [Ends -> Seq(Fragment)]
    BY <1>6 DEF TypeOK
  <1>. QED
    BY <1>7 DEF Send, TypeOK, rcvVars

LEMMA RecvType == TypeOK /\ (\E e \in Ends : Recv(e)) => TypeOK'
  <1>. SUFFICES ASSUME TypeOK, NEW e \in Ends, Recv(e)
                PROVE  TypeOK'
    OBVIOUS
  <1>. DEFINE rest(n) == SubSeq(rcv_queue[e], n + 1, Len(rcv_queue[e]))
  <1>. PICK n \in 1..Len(rcv_queue[e]) :
          /\ delivered' = [delivered EXCEPT ![e] = @ \o SubSeq(rcv_queue[e], 1, n)]
          /\ \E k \in 0..RcvWnd :
                /\ FillQueue(e, rcv_buf[e], rest(n), k)
                /\ probe' = [probe EXCEPT ![e] =
                               IF Len(rest(n)) + k < RcvWnd
                                      /\ Len(rcv_queue[e]) >= RcvWnd
                               THEN @ \cup {"ASK_TELL"} ELSE @]
    BY DEF Recv
  <1>0. rcv_queue[e] \in Seq(Fragment) /\ delivered[e] \in Seq(Fragment)
    BY DEF TypeOK
  <1>1. n \in 0..Len(rcv_queue[e])
    BY <1>0, LenProperties
  <1>2. rest(n) \in Seq(Fragment)
    BY <1>0, <1>1, Dropped
  <1>3. SubSeq(rcv_queue[e], 1, n) \in Seq(Fragment)
    BY <1>0, <1>1, Taken
  <1>4. delivered' \in [Ends -> Seq(Fragment)]
    <2>1. delivered[e] \o SubSeq(rcv_queue[e], 1, n) \in Seq(Fragment)
      BY <1>0, <1>3, ConcatProperties
    <2>. QED
      BY <2>1 DEF TypeOK
  <1>5. PICK k \in 0..RcvWnd :
          /\ FillQueue(e, rcv_buf[e], rest(n), k)
          /\ probe' = [probe EXCEPT ![e] =
                         IF Len(rest(n)) + k < RcvWnd
                                /\ Len(rcv_queue[e]) >= RcvWnd
                         THEN @ \cup {"ASK_TELL"} ELSE @]
    OBVIOUS
  <1>6. probe' \in [Ends -> SUBSET {"ASK_SEND", "ASK_TELL"}]
    BY <1>5 DEF TypeOK
  <1>7. /\ rcv_queue' \in [Ends -> Seq(Fragment)]
        /\ rcv_nxt' \in [Ends -> Nat]
        /\ DOMAIN rcv_buf' = Ends
        /\ \A f \in Ends :
              /\ DOMAIN rcv_buf'[f] \subseteq Nat
              /\ \A sn \in DOMAIN rcv_buf'[f] : rcv_buf'[f][sn] \in Fragment
    <2>1. DOMAIN rcv_buf[e] \subseteq Nat
             /\ \A sn \in DOMAIN rcv_buf[e] : rcv_buf[e][sn] \in Fragment
      BY DEF TypeOK
    <2>. QED
      BY <1>2, <1>5, <2>1, FillQueueType
  <1>. QED
    BY <1>4, <1>6, <1>7 DEF Recv, TypeOK, sndVars

LEMMA InputType == TypeOK /\ (\E m \in net : Input(m)) => TypeOK'
  <1>. SUFFICES ASSUME TypeOK, NEW m \in net, Input(m)
                PROVE  TypeOK'
    OBVIOUS
  <1>. DEFINE e == m.to
  <1>1. m \in Segment /\ e \in Ends /\ m.sn \in Nat /\ m.wnd \in Nat
    BY DEF TypeOK, Segment
  <1>2. m.cmd = "PUSH" => m.data \in Fragment
    BY <1>1 DEF Segment
  <1>3. net' \subseteq Segment
    BY DEF Input, TypeOK
  <1>4. /\ rmt_wnd' \in [Ends -> Nat]
        /\ snd_una' \in [Ends -> Nat]
        /\ DOMAIN snd_buf' = Ends
        /\ \A f \in Ends :
              /\ DOMAIN snd_buf'[f] \subseteq Nat
              /\ \A sn \in DOMAIN snd_buf'[f] : snd_buf'[f][sn] \in Fragment
    <2>1. AcceptAcks(e, m)
      BY DEF Input
    <2>2. rmt_wnd' \in [Ends -> Nat]
      BY <1>1, <2>1 DEF AcceptAcks, TypeOK
    <2>3. Unacked(e, m) \subseteq DOMAIN snd_buf[e]
      BY DEF Unacked
    <2>4. snd_una' \in [Ends -> Nat]
      BY <1>1, <2>1, <2>3 DEF AcceptAcks, TypeOK
    <2>5. /\ DOMAIN snd_buf' = Ends
          /\ \A f \in Ends :
                /\ DOMAIN snd_buf'[f] \subseteq Nat
                /\ \A sn \in DOMAIN snd_buf'[f] : snd_buf'[f][sn] \in Fragment
      BY <1>1, <2>1, <2>3 DEF AcceptAcks, TypeOK
    <2>. QED
      BY <2>2, <2>4, <2>5
  <1>5. /\ rcv_queue' \in [Ends -> Seq(Fragment)]
        /\ rcv_nxt' \in [Ends -> Nat]
        /\ DOMAIN rcv_buf' = Ends
        /\ DOMAIN acklist' = Ends
        /\ \A f \in Ends :
              /\ DOMAIN rcv_buf'[f] \subseteq Nat
              /\ \A sn \in DOMAIN rcv_buf'[f] : rcv_buf'[f][sn] \in Fragment
              /\ acklist'[f] \subseteq Nat
    <2>1. CASE m.cmd = "PUSH"
      <3>1. AcceptData(e, m)
        BY <2>1 DEF Input
      <3>2. DOMAIN acklist' = Ends /\ \A f \in Ends : acklist'[f] \subseteq Nat
        BY <1>1, <3>1 DEF AcceptData, TypeOK
      <3>3. CASE Acceptable(e, m) /\ m.sn >= rcv_nxt[e]
        <4>. DEFINE buf == [sn \in DOMAIN rcv_buf[e] \cup {m.sn} |->
                              IF sn \in DOMAIN rcv_buf[e]
                              THEN rcv_buf[e][sn] ELSE m.data]
        <4>1. PICK k \in 0..RcvWnd : FillQueue(e, buf, rcv_queue[e], k)
          BY <3>1, <3>3 DEF AcceptData
        <4>2. DOMAIN buf \subseteq Nat /\ \A sn \in DOMAIN buf : buf[sn] \in Fragment
          BY <1>1, <1>2, <2>1 DEF TypeOK
        <4>3. rcv_queue[e] \in Seq(Fragment)
          BY <1>1 DEF TypeOK
        <4>. QED
          BY <1>1, <3>2, <4>1, <4>2, <4>3, FillQueueType
      <3>4. CASE ~(Acceptable(e, m) /\ m.sn >= rcv_nxt[e])
        BY <3>1, <3>2, <3>4 DEF AcceptData, rcvVars, TypeOK
      <3>. QED
        BY <3>3, <3>4
    <2>2. CASE m.cmd # "PUSH"
      BY <2>2 DEF Input, rcvVars, TypeOK
    <2>. QED
      BY <2>1, <2>2
  <1>6. probe' \in [Ends -> SUBSET {"ASK_SEND", "ASK_TELL"}]
    BY <1>1 DEF Input, TypeOK
  <1>. QED
    BY <1>3, <1>4, <1>5, <1>6 DEF Input, TypeOK


LEMMA FlushType == TypeOK /\ (\E e \in Ends : Flush(e)) => TypeOK'
  <1>. SUFFICES ASSUME TypeOK, NEW e \in Ends, Flush(e)
                PROVE  TypeOK'
    OBVIOUS
  <1>. PICK n \in 0..Len(snd_queue[e]), expired \in Expires(e) :
          /\ snd_buf' = [snd_buf EXCEPT ![e] = Appended(e, n)]
          /\ snd_nxt' = [snd_nxt EXCEPT ![e] = @ + n]
          /\ snd_queue' = [snd_queue EXCEPT ![e] = SubSeq(@, n + 1, Len(@))]
          /\ \E kept \in SUBSET (Output(e, n, expired) \ net) : net' = net \cup kept
    BY DEF Flush
  <1>0. /\ snd_queue[e] \in Seq(Fragment) /\ Len(snd_queue[e]) \in Nat
        /\ n \in Nat /\ snd_nxt[e] \in Nat /\ Peer(e) \in Ends
    BY LenProperties, PeerEnds DEF TypeOK
  <1>1. /\ DOMAIN Appended(e, n) \subseteq Nat
        /\ \A sn \in DOMAIN Appended(e, n) : Appended(e, n)[sn] \in Fragment
    <2>1. ASSUME NEW sn \in snd_nxt[e]..(snd_nxt[e] + n - 1)
          PROVE  snd_queue[e][sn - snd_nxt[e] + 1] \in Fragment
      <3>1. sn - snd_nxt[e] + 1 \in 1..Len(snd_queue[e])
        BY <1>0
      <3>. QED
        BY <1>0, <3>1, ElementOfSeq
    <2>2. DOMAIN Appended(e, n) = DOMAIN snd_buf[e] \cup snd_nxt[e]..(snd_nxt[e] + n - 1)
      BY DEF Appended
    <2>3. DOMAIN Appended(e, n) \subseteq Nat
      <3>1. snd_nxt[e]..(snd_nxt[e] + n - 1) \subseteq Nat
        BY <1>0
      <3>2. DOMAIN snd_buf[e] \subseteq Nat
        BY DEF TypeOK
      <3>. QED
        BY <2>2, <3>1, <3>2
    <2>4. ASSUME NEW sn \in DOMAIN Appended(e, n)
          PROVE  Appended(e, n)[sn] \in Fragment
      <3>1. CASE sn \in DOMAIN snd_buf[e]
        BY <3>1 DEF Appended, TypeOK
      <3>2. CASE sn \notin DOMAIN snd_buf[e]
        BY <2>1, <2>2, <3>2 DEF Appended
      <3>. QED
        BY <3>1, <3>2
    <2>. QED
      BY <2>3, <2>4
  <1>2. snd_queue' \in [Ends -> Seq(Fragment)]
    <2>1. SubSeq(snd_queue[e], n + 1, Len(snd_queue[e])) \in Seq(Fragment)
      BY <1>0, Dropped
    <2>. QED
      BY <2>1 DEF TypeOK
  <1>3. snd_nxt' \in [Ends -> Nat]
    <2>1. snd_nxt[e] + n \in Nat
      BY <1>0
    <2>. QED
      BY <2>1 DEF TypeOK
  <1>4. /\ DOMAIN snd_buf' = Ends
        /\ \A f \in Ends :
              /\ DOMAIN snd_buf'[f] \subseteq Nat
              /\ \A sn \in DOMAIN snd_buf'[f] : snd_buf'[f][sn] \in Fragment
    BY <1>1 DEF TypeOK
  <1>5. net' \subseteq Segment
    <2>1. WndUnused(e) \in Nat /\ rcv_nxt[e] \in Nat
      <3>1. Len(rcv_queue[e]) \in Nat
        BY LenProperties DEF TypeOK
      <3>. QED
        BY <3>1, ArqAssumption DEF WndUnused, TypeOK
    <2>2. ASSUME NEW sn \in acklist[e]
          PROVE  Seg(e, "ACK", sn, NoData) \in Segment
      <3>1. sn \in Nat
        BY DEF TypeOK
      <3>. QED
        BY <1>0, <2>1, <3>1 DEF Seg, Segment
    <2>3. Seg(e, "WASK", 0, NoData) \in Segment /\ Seg(e, "WINS", 0, NoData) \in Segment
      BY <1>0, <2>1 DEF Seg, Segment
    <2>4. ASSUME NEW sn \in DOMAIN Appended(e, n)
          PROVE  Seg(e, "PUSH", sn, Appended(e, n)[sn]) \in Segment
      <3>1. sn \in Nat /\ Appended(e, n)[sn] \in Fragment
        BY <1>1
      <3>. HIDE DEF Appended
      <3>. QED
        BY <1>0, <2>1, <3>1 DEF Seg, Segment
    <2>5. Output(e, n, expired) \subseteq Segment
      BY <2>2, <2>3, <2>4 DEF Output
    <2>. QED
      BY <2>5 DEF TypeOK
  <1>6. DOMAIN acklist' = Ends /\ \A f \in Ends : acklist'[f] \subseteq Nat
    BY DEF Flush, TypeOK
  <1>7. /\ probe' \in [Ends -> SUBSET {"ASK_SEND", "ASK_TELL"}]
        /\ probing' \in [Ends -> BOOLEAN]
    BY DEF Flush, TypeOK
  <1>. QED
    BY <1>2, <1>3, <1>4, <1>5, <1>6, <1>7 DEF Flush, TypeOK, rcvVars

LEMMA LoseType == TypeOK /\ (\E m \in net : Lose(m)) => TypeOK'
  BY DEF Lose, TypeOK, sndVars, rcvVars

\* Every variable keeps its type, in every behaviour, for every choice of the
\* windows and of the bounds.
THEOREM TypeCorrect == Spec => []TypeOK
  <1>1. TypeOK /\ [Next]_vars => TypeOK'
    <2>1. TypeOK /\ UNCHANGED vars => TypeOK'
      BY DEF TypeOK, vars, sndVars, rcvVars
    <2>. QED
      BY <2>1, SendType, RecvType, InputType, FlushType, LoseType DEF Next
  <1>. QED
    BY InitType, <1>1, PTL DEF Spec


-----------------------------------------------------------------------------
(***************************************************************************)
(* The inductive invariant.  sent is a history, so what is said of its     *)
(* elements stays true as it grows; Received only grows; what is left to   *)
(* do is to follow the fragments through the buffers of the acting end.    *)
(***************************************************************************)

\* The d fragments of the stream delivered so far are followed by those in
\* queue, and buf holds some of the fragments that come after those.
Feeds(e, d, queue, buf) ==
    /\ queue \in Seq(Fragment)
    /\ d \in Nat
    /\ rcv_nxt[e] <= snd_nxt[Peer(e)]
    /\ d + Len(queue) = rcv_nxt[e]
    /\ Len(queue) <= RcvWnd
    /\ \A i \in 1..Len(queue) : queue[i] = sent[Peer(e)][d + i]
    /\ DOMAIN buf \subseteq Nat
    /\ \A sn \in DOMAIN buf :
          /\ buf[sn] \in Fragment
          /\ rcv_nxt[e] <= sn /\ sn < rcv_nxt[e] + RcvWnd
          /\ sn < snd_nxt[Peer(e)] /\ buf[sn] = sent[Peer(e)][sn + 1]

\* FillQueue moves fragments from buf to queue and loses none of them.
LEMMA FillQueueKeeps ==
    ASSUME TypeOK, NEW e \in Ends, NEW d, NEW queue, NEW buf, NEW k,
           Feeds(e, d, queue, buf), FillQueue(e, buf, queue, k)
    PROVE  /\ rcv_nxt'[e] = rcv_nxt[e] + k /\ k \in Nat
           /\ rcv_nxt'[e] <= snd_nxt[Peer(e)]
           /\ d + Len(rcv_queue'[e]) = rcv_nxt'[e]
           /\ Len(rcv_queue'[e]) <= RcvWnd
           /\ \A i \in 1..Len(rcv_queue'[e]) :
                 rcv_queue'[e][i] = sent[Peer(e)][d + i]
           /\ \A sn \in DOMAIN rcv_buf'[e] :
                 /\ rcv_nxt'[e] <= sn /\ sn < rcv_nxt'[e] + RcvWnd
                 /\ sn < snd_nxt[Peer(e)]
                 /\ rcv_buf'[e][sn] = sent[Peer(e)][sn + 1]
           /\ rcv_nxt'[e] \in DOMAIN rcv_buf'[e] => Len(rcv_queue'[e]) = RcvWnd
           /\ \A sn \in Nat : sn < rcv_nxt[e] \/ sn \in DOMAIN buf
                                 => Received(e, sn)'
           /\ \A f \in Ends \ {e} : /\ rcv_nxt'[f] = rcv_nxt[f]
                                    /\ rcv_queue'[f] = rcv_queue[f]
                                    /\ rcv_buf'[f] = rcv_buf[f]
  <1>a. PICK nxt, P : nxt = rcv_nxt[e] /\ P = Peer(e)
    OBVIOUS
  <1>. DEFINE moved == [i \in 1..k |-> buf[nxt + i - 1]]
  <1>f. /\ queue \in Seq(Fragment)
        /\ d \in Nat
        /\ nxt <= snd_nxt[P]
        /\ d + Len(queue) = nxt
        /\ Len(queue) <= RcvWnd
        /\ \A i \in 1..Len(queue) : queue[i] = sent[P][d + i]
        /\ DOMAIN buf \subseteq Nat
        /\ \A sn \in DOMAIN buf :
              /\ buf[sn] \in Fragment
              /\ nxt <= sn /\ sn < nxt + RcvWnd
              /\ sn < snd_nxt[P] /\ buf[sn] = sent[P][sn + 1]
    BY <1>a DEF Feeds
  <1>m. /\ k \in 0..(RcvWnd - Len(queue))
        /\ \A i \in 0..(k - 1) : nxt + i \in DOMAIN buf
        /\ k = RcvWnd - Len(queue) \/ nxt + k \notin DOMAIN buf
    BY <1>a DEF FillQueue, Moves
  <1>0. Len(queue) \in Nat /\ nxt \in Nat /\ RcvWnd \in Nat /\ snd_nxt[P] \in Nat
    BY <1>a, <1>f, LenProperties, ArqAssumption, PeerEnds DEF TypeOK
  <1>1. k \in Nat /\ k <= RcvWnd - Len(queue)
    BY <1>0, <1>m
  <1>2. \A i \in 1..k : nxt + i - 1 \in DOMAIN buf
    <2>. TAKE i \in 1..k
    <2>1. i - 1 \in 0..(k - 1) /\ nxt + (i - 1) = nxt + i - 1
      BY <1>0, <1>1
    <2>. QED
      BY <1>m, <2>1
  <1>3. /\ rcv_queue'[e] = queue \o moved
        /\ rcv_nxt'[e] = nxt + k
        /\ rcv_buf'[e] = [sn \in DOMAIN buf \ (nxt..(nxt + k - 1)) |-> buf[sn]]
        /\ \A f \in Ends \ {e} : /\ rcv_nxt'[f] = rcv_nxt[f]
                                 /\ rcv_queue'[f] = rcv_queue[f]
                                 /\ rcv_buf'[f] = rcv_buf[f]
    BY <1>a DEF FillQueue, TypeOK
  <1>4. moved \in [1..k -> Fragment] /\ \A i \in 1..k : moved[i] = buf[nxt + i - 1]
    BY <1>2, <1>f
  <1>5. /\ Len(rcv_queue'[e]) = Len(queue) + k
        /\ \A i \in 1..Len(queue) : rcv_queue'[e][i] = queue[i]
        /\ \A i \in 1..k : rcv_queue'[e][Len(queue) + i] = buf[nxt + i - 1]
    <2>. HIDE DEF moved
    <2>1. /\ Len(queue \o moved) = Len(queue) + k
          /\ \A i \in 1..Len(queue) : (queue \o moved)[i] = queue[i]
          /\ \A i \in 1..k : (queue \o moved)[Len(queue) + i] = moved[i]
      BY <1>1, <1>4, <1>f, ExtendedFragments
    <2>. QED
      BY <1>3, <1>4, <2>1
  <1>6. \A i \in 1..Len(rcv_queue'[e]) : rcv_queue'[e][i] = sent[P][d + i]
    <2>. TAKE i \in 1..Len(rcv_queue'[e])
    <2>1. CASE i <= Len(queue)
      <3>1. i \in 1..Len(queue)
        BY <1>0, <1>1, <1>5, <2>1
      <3>. QED
        BY <1>5, <1>f, <3>1
    <2>2. CASE i > Len(queue)
      <3>1. PICK j \in 1..k : i = Len(queue) + j
        <4>1. i - Len(queue) \in 1..k /\ i = Len(queue) + (i - Len(queue))
          BY <1>0, <1>1, <1>5, <2>2
        <4>. QED
          BY <4>1
      <3>2. rcv_queue'[e][i] = buf[nxt + j - 1]
        BY <1>5, <3>1
      <3>3. buf[nxt + j - 1] = sent[P][nxt + j - 1 + 1]
        BY <1>2, <1>f, <3>1
      <3>4. nxt + j - 1 + 1 = d + i
        <4>1. d \in Nat /\ d + Len(queue) = nxt
          BY <1>f
        <4>. QED
          BY <1>0, <1>1, <3>1, <4>1
      <3>. QED
        BY <3>2, <3>3, <3>4
    <2>. QED
      BY <1>0, <1>1, <1>5, <2>1, <2>2
  <1>7. nxt + k <= snd_nxt[P]
    <2>1. CASE k = 0
      BY <1>0, <1>f, <2>1
    <2>2. CASE k # 0
      <3>1. k \in 1..k
        BY <1>1, <2>2
      <3>2. nxt + k - 1 < snd_nxt[P]
        BY <1>2, <1>f, <3>1
      <3>. QED
        BY <1>0, <1>1, <3>2
    <2>. QED
      BY <2>1, <2>2
  <1>8. \A sn \in DOMAIN rcv_buf'[e] :
           /\ nxt + k <= sn /\ sn < nxt + k + RcvWnd
           /\ sn < snd_nxt[P] /\ rcv_buf'[e][sn] = sent[P][sn + 1]
    <2>. TAKE sn \in DOMAIN rcv_buf'[e]
    <2>1. sn \in DOMAIN buf /\ sn \in Nat /\ sn \notin nxt..(nxt + k - 1)
             /\ rcv_buf'[e][sn] = buf[sn]
      BY <1>3, <1>f
    <2>a. nxt <= sn /\ sn < nxt + RcvWnd
      BY <1>f, <2>1
    <2>2. nxt + k <= sn /\ sn < nxt + k + RcvWnd
      BY <1>0, <1>1, <2>1, <2>a
    <2>. QED
      BY <1>f, <2>1, <2>2
  <1>9. nxt + k \in DOMAIN rcv_buf'[e] => Len(rcv_queue'[e]) = RcvWnd
    <2>1. nxt + k \in DOMAIN rcv_buf'[e] => nxt + k \in DOMAIN buf
      BY <1>3
    <2>2. k = RcvWnd - Len(queue) \/ nxt + k \notin DOMAIN buf
      BY <1>m
    <2>. QED
      BY <1>0, <1>1, <1>5, <2>1, <2>2
  <1>10. \A sn \in Nat : sn < nxt \/ sn \in DOMAIN buf => Received(e, sn)'
    <2>. TAKE sn \in Nat
    <2>1. CASE sn < nxt + k
      BY <1>3, <2>1 DEF Received
    <2>2. CASE ~(sn < nxt + k) /\ sn \in DOMAIN buf
      BY <1>0, <1>1, <1>3, <1>f, <2>2 DEF Received
    <2>. QED
      BY <1>0, <1>1, <2>1, <2>2
  <1>11. d + Len(rcv_queue'[e]) = nxt + k /\ Len(rcv_queue'[e]) <= RcvWnd
    BY <1>0, <1>1, <1>5, <1>f
  <1>. QED
    BY <1>1, <1>a, <1>3, <1>6, <1>7, <1>8, <1>9, <1>10, <1>11

\* Every variable but net is indexed by the ends.
LEMMA Domains ==
    ASSUME TypeOK
    PROVE  /\ DOMAIN sent = Ends /\ DOMAIN delivered = Ends
           /\ DOMAIN snd_queue = Ends /\ DOMAIN snd_buf = Ends
           /\ DOMAIN snd_una = Ends /\ DOMAIN snd_nxt = Ends
           /\ DOMAIN rcv_buf = Ends /\ DOMAIN rcv_queue = Ends
           /\ DOMAIN rcv_nxt = Ends /\ DOMAIN acklist = Ends
  BY DEF TypeOK

\* The lengths and numbers an end is made of are naturals.
LEMMA Numbers ==
    ASSUME TypeOK
    PROVE  \A e \in Ends :
              /\ Len(sent[e]) \in Nat /\ Len(delivered[e]) \in Nat
              /\ Len(snd_queue[e]) \in Nat /\ Len(rcv_queue[e]) \in Nat
              /\ snd_una[e] \in Nat /\ snd_nxt[e] \in Nat /\ rcv_nxt[e] \in Nat
              /\ \A i \in 1..Len(sent[e]) :
                    sent[e][i].frg \in Nat /\ sent[e][i] \in Fragment
              /\ DOMAIN snd_buf[e] \subseteq Nat /\ DOMAIN rcv_buf[e] \subseteq Nat
              /\ acklist[e] \subseteq Nat
  <1>. TAKE e \in Ends
  <1>1. \A i \in 1..Len(sent[e]) : sent[e][i] \in Fragment
    BY ElementOfSeq DEF TypeOK
  <1>2. \A i \in 1..Len(sent[e]) : sent[e][i].frg \in Nat
    BY <1>1 DEF Fragment
  <1>. QED
    BY <1>1, <1>2, LenProperties DEF TypeOK

LEMMA InitInv == Init => IInv
  <1>. SUFFICES ASSUME Init
                PROVE  IInv
    OBVIOUS
  <1>1. TypeOK
    BY InitType
  <1>2. \A e \in Ends : /\ sent[e] = <<>> /\ delivered[e] = <<>>
                        /\ snd_queue[e] = <<>> /\ rcv_queue[e] = <<>>
                        /\ DOMAIN snd_buf[e] = {} /\ DOMAIN rcv_buf[e] = {}
                        /\ snd_una[e] = 0 /\ snd_nxt[e] = 0 /\ rcv_nxt[e] = 0
                        /\ acklist[e] = {}
    BY DEF Init
  <1>3. Len(<<>>) = 0
    OBVIOUS
  <1>4. \A e \in Ends : StreamShape(e)
    BY <1>2, <1>3 DEF StreamShape
  <1>5. \A e \in Ends : SendSide(e)
    BY <1>2, <1>3, ArqAssumption DEF SendSide
  <1>6. \A e \in Ends : ReceiveSide(e)
    <2>. TAKE e \in Ends
    <2>1. snd_nxt[Peer(e)] = 0
      BY <1>2, PeerEnds
    <2>. QED
      BY <1>1, <1>2, <1>3, <2>1, ArqAssumption, Domains DEF ReceiveSide
  <1>7. (\A m \in net : Truthful(m)) /\ WholeMessages /\ NothingStranded
    BY <1>2 DEF Init, WholeMessages, NothingStranded
  <1>. QED
    BY <1>1, <1>4, <1>5, <1>6, <1>7 DEF IInv

\* ikcp_send appends one message to the stream and to snd_queue; the rest of
\* the invariant speaks of parts of the stream that were there before.
LEMMA SendInv == IInv /\ (\E e \in Senders : Send(e)) => IInv'
  <1>. SUFFICES ASSUME IInv, NEW e \in Senders, Send(e)
                PROVE  IInv'
    OBVIOUS
  <1>0. TypeOK /\ TypeOK' /\ e \in Ends
    BY SendType, ArqAssumption DEF IInv
  <1>d. /\ DOMAIN sent = Ends /\ DOMAIN snd_queue = Ends /\ DOMAIN snd_nxt = Ends
        /\ DOMAIN rcv_queue = Ends /\ DOMAIN rcv_nxt = Ends
        /\ DOMAIN delivered = Ends
        /\ DOMAIN sent' = Ends /\ DOMAIN snd_queue' = Ends
    BY <1>0, Domains DEF TypeOK
  <1>p. PICK n \in 1..(MaxSent - Len(sent[e])) :
          LET frags == [i \in 1..n |-> [msg |-> Len(sent[e]), frg |-> n - i]]
          IN  /\ n < WndRcv
              /\ sent' = [sent EXCEPT ![e] = @ \o frags]
              /\ snd_queue' = [snd_queue EXCEPT ![e] = @ \o frags]
    BY DEF Send, Accepted
  <1>. DEFINE old == Len(sent[e])
              frags == [i \in 1..n |-> [msg |-> old, frg |-> n - i]]
  <1>1. old \in Nat /\ n \in Nat /\ n < WndRcv /\ WndRcv \in Nat
    BY <1>0, <1>p, Numbers, ArqAssumption
  <1>2. frags \in [1..n -> Fragment] /\ \A i \in 1..n : frags[i].frg = n - i
    BY <1>1 DEF Fragment
  <1>3. /\ Len(sent'[e]) = Len(sent[e]) + n
        /\ \A i \in 1..Len(sent[e]) : sent'[e][i] = sent[e][i]
        /\ \A i \in 1..n : sent'[e][Len(sent[e]) + i] = frags[i]
        /\ Len(snd_queue'[e]) = Len(snd_queue[e]) + n
        /\ \A i \in 1..Len(snd_queue[e]) : snd_queue'[e][i] = snd_queue[e][i]
        /\ \A i \in 1..n : snd_queue'[e][Len(snd_queue[e]) + i] = frags[i]
    <2>1. /\ sent'[e] = sent[e] \o frags /\ snd_queue'[e] = snd_queue[e] \o frags
          /\ sent[e] \in Seq(Fragment) /\ snd_queue[e] \in Seq(Fragment)
      BY <1>0, <1>p DEF TypeOK
    <2>h. n \in Nat /\ frags \in [1..n -> Fragment]
      BY <1>1, <1>2
    <2>. HIDE DEF frags, old
    <2>2. /\ Len(sent[e] \o frags) = Len(sent[e]) + n
          /\ \A i \in 1..Len(sent[e]) : (sent[e] \o frags)[i] = sent[e][i]
          /\ \A i \in 1..n : (sent[e] \o frags)[Len(sent[e]) + i] = frags[i]
      BY <2>1, <2>h, ExtendedFragments
    <2>3. /\ Len(snd_queue[e] \o frags) = Len(snd_queue[e]) + n
          /\ \A i \in 1..Len(snd_queue[e]) :
                (snd_queue[e] \o frags)[i] = snd_queue[e][i]
          /\ \A i \in 1..n :
                (snd_queue[e] \o frags)[Len(snd_queue[e]) + i] = frags[i]
      BY <2>1, <2>h, ExtendedFragments
    <2>. QED
      BY <2>1, <2>2, <2>3
  <1>4. \A f \in Ends \ {e} : sent'[f] = sent[f] /\ snd_queue'[f] = snd_queue[f]
    BY <1>0, <1>p DEF TypeOK
  <1>5. \A f \in Ends : /\ Len(sent[f]) <= Len(sent'[f])
                        /\ \A i \in 1..Len(sent[f]) : sent'[f][i] = sent[f][i]
    <2>1. \A f \in Ends : Len(sent[f]) \in Nat
      BY <1>0, Numbers
    <2>2. Len(sent[e]) <= Len(sent'[e])
      BY <1>1, <1>3, <2>1
    <2>. QED
      BY <1>3, <1>4, <2>1, <2>2
  <1>6. /\ snd_buf' = snd_buf /\ snd_una' = snd_una /\ snd_nxt' = snd_nxt
        /\ rcv_buf' = rcv_buf /\ rcv_queue' = rcv_queue /\ rcv_nxt' = rcv_nxt
        /\ delivered' = delivered /\ acklist' = acklist /\ net' = net
    BY DEF Send, rcvVars
  <1>. HIDE DEF frags
  <1>7. ASSUME NEW f \in Ends
        PROVE  StreamShape(f)'
    <2>1. CASE f # e
      BY <1>4, <2>1 DEF IInv, StreamShape
    <2>2. CASE f = e
      <3>. SUFFICES ASSUME NEW i \in 1..Len(sent'[e])
                    PROVE  LET g == sent'[e][i].frg
                           IN  /\ g + 1 < WndRcv
                               /\ i + g <= Len(sent'[e])
                               /\ \A j \in 0..g : sent'[e][i + j].frg = g - j
        BY <2>2 DEF StreamShape
      <3>1. CASE i <= old
        <4>. DEFINE g == sent[e][i].frg
        <4>0. i \in 1..old
          BY <1>1, <1>3, <3>1
        <4>1. sent'[e][i] = sent[e][i] /\ g \in Nat
          BY <1>0, <1>3, <4>0, Numbers
        <4>2. /\ g + 1 < WndRcv /\ i + g <= old
              /\ \A j \in 0..g : sent[e][i + j].frg = g - j
          BY <1>0, <4>0 DEF IInv, StreamShape
        <4>3. ASSUME NEW j \in 0..g
              PROVE  sent'[e][i + j] = sent[e][i + j]
          <5>1. i + j \in 1..old
            BY <1>1, <4>0, <4>1, <4>2
          <5>. QED
            BY <1>3, <5>1
        <4>. QED
          <5>1. i + g <= Len(sent'[e])
            BY <1>1, <1>3, <4>0, <4>1, <4>2
          <5>. QED
            BY <4>1, <4>2, <4>3, <5>1
      <3>2. CASE i > old
        <4>1. PICK p \in 1..n : i = old + p
          <5>1. i - old \in 1..n /\ i = old + (i - old)
            BY <1>1, <1>3, <3>2
          <5>. QED
            BY <5>1
        <4>2. sent'[e][i].frg = n - p
          BY <1>2, <1>3, <4>1
        <4>3. ASSUME NEW j \in 0..(n - p)
              PROVE  sent'[e][i + j].frg = n - p - j
          <5>1. p \in Nat /\ j \in Nat /\ p + j \in 1..n
            BY <1>1
          <5>2. i + j = old + (p + j)
            BY <1>0, <1>1, <1>d, <4>1, <5>1
          <5>3. sent'[e][i + j].frg = n - (p + j)
            BY <1>2, <1>3, <5>1, <5>2
          <5>. QED
            BY <1>1, <5>1, <5>3
        <4>4. n - p \in Nat /\ n - p + 1 < WndRcv /\ i + (n - p) <= Len(sent'[e])
          <5>1. p \in Nat /\ 1 <= p /\ p <= n
            BY <1>1
          <5>2. n - p \in Nat /\ n - p + 1 < WndRcv
            BY <1>1, <5>1
          <5>3. i + (n - p) = old + n
            BY <1>0, <1>1, <1>d, <4>1, <5>1
          <5>. QED
            BY <1>0, <1>1, <1>3, <1>d, <5>2, <5>3
        <4>. DEFINE g == sent'[e][i].frg
        <4>5. g + 1 < WndRcv /\ i + g <= Len(sent'[e])
          BY <4>2, <4>4
        <4>6. \A j \in 0..g : sent'[e][i + j].frg = g - j
          BY <4>2, <4>3
        <4>. QED
          BY <4>5, <4>6
      <3>3. i <= old \/ i > old
        BY <1>1, <1>3
      <3>. QED
        BY <3>1, <3>2, <3>3
    <2>. QED
      BY <2>1, <2>2
  <1>8. \A f \in Ends, sn \in Nat : Received(f, sn)' <=> Received(f, sn)
    BY <1>6 DEF Received
  <1>9. ASSUME NEW f \in Ends
        PROVE  SendSide(f)'
    <2>1. SendSide(f)
      BY DEF IInv
    <2>0. /\ snd_nxt[f] \in Nat /\ Len(snd_queue[f]) \in Nat
          /\ snd_nxt[f] + Len(snd_queue[f]) = Len(sent[f])
      BY <1>0, <2>1, Numbers DEF SendSide
    <2>2. snd_nxt'[f] + Len(snd_queue'[f]) = Len(sent'[f])
      <3>1. CASE f # e
        BY <1>4, <1>6, <1>d, <2>0, <3>1
      <3>2. CASE f = e
        BY <1>0, <1>1, <1>3, <1>6, <1>d, <2>0, <3>2
      <3>. QED
        BY <3>1, <3>2
    <2>3. \A i \in 1..Len(snd_queue'[f]) :
             snd_queue'[f][i] = sent'[f][snd_nxt'[f] + i]
      <3>1. CASE f # e
        BY <1>4, <1>6, <2>1, <3>1 DEF SendSide
      <3>2. CASE f = e
        <4>. TAKE i \in 1..Len(snd_queue'[f])
        <4>1. CASE i <= Len(snd_queue[e])
          <5>1. i \in 1..Len(snd_queue[e]) /\ snd_nxt[e] + i \in 1..old
            BY <1>0, <1>1, <1>3, <1>d, <2>0, <3>2, <4>1
          <5>. QED
            BY <1>3, <1>6, <2>1, <3>2, <5>1 DEF SendSide
        <4>2. CASE i > Len(snd_queue[e])
          <5>1. PICK p \in 1..n : i = Len(snd_queue[e]) + p
            <6>1. /\ i - Len(snd_queue[e]) \in 1..n
                  /\ i = Len(snd_queue[e]) + (i - Len(snd_queue[e]))
              BY <1>0, <1>1, <1>3, <3>2, <4>2, Numbers
            <6>. QED
              BY <6>1
          <5>2. snd_nxt[e] + i = old + p
            BY <1>0, <1>d, <2>0, <3>2, <5>1
          <5>3. snd_queue'[e][i] = frags[p] /\ sent'[e][old + p] = frags[p]
            BY <1>3, <5>1
          <5>. QED
            BY <1>6, <3>2, <5>2, <5>3
        <4>. QED
          BY <1>0, <1>1, <1>3, <3>2, <4>1, <4>2, Numbers
      <3>. QED
        BY <3>1, <3>2
    <2>4. \A sn \in DOMAIN snd_buf'[f] :
             /\ snd_una'[f] <= sn /\ sn < snd_nxt'[f]
             /\ snd_buf'[f][sn] = sent'[f][sn + 1]
      <3>. TAKE sn \in DOMAIN snd_buf'[f]
      <3>1. /\ sn \in Nat /\ snd_una[f] <= sn /\ sn < snd_nxt[f]
            /\ snd_buf[f][sn] = sent[f][sn + 1]
        BY <1>0, <1>6, <2>1, Numbers DEF SendSide
      <3>2. sn + 1 \in 1..Len(sent[f])
        BY <1>0, <2>1, <3>1, Numbers DEF SendSide
      <3>. QED
        BY <1>5, <1>6, <3>1, <3>2
    <2>. QED
      BY <1>0, <1>6, <1>8, <2>1, <2>2, <2>3, <2>4, PeerEnds DEF SendSide, Received
  <1>10. ASSUME NEW f \in Ends
         PROVE  ReceiveSide(f)'
    <2>1. ReceiveSide(f) /\ SendSide(Peer(f)) /\ Peer(f) \in Ends
      BY PeerEnds DEF IInv
    <2>2. rcv_nxt[f] <= Len(sent[Peer(f)]) /\ snd_nxt[Peer(f)] <= Len(sent[Peer(f)])
      BY <1>0, <2>1, Numbers DEF ReceiveSide, SendSide
    <2>3. \A i \in 1..Len(sent[Peer(f)]) : sent'[Peer(f)][i] = sent[Peer(f)][i]
      BY <1>5, <2>1
    <2>0. /\ Len(delivered[f]) \in Nat /\ Len(rcv_queue[f]) \in Nat
          /\ rcv_nxt[f] \in Nat /\ Len(sent[Peer(f)]) \in Nat
          /\ Len(delivered[f]) + Len(rcv_queue[f]) = rcv_nxt[f]
      BY <1>0, <2>1, Numbers DEF ReceiveSide
    <2>4. \A i \in 1..Len(delivered[f]) : delivered'[f][i] = sent'[Peer(f)][i]
      <3>. TAKE i \in 1..Len(delivered[f])
      <3>1. i \in 1..Len(sent[Peer(f)])
        BY <1>d, <2>0, <2>1, <2>2
      <3>. QED
        BY <1>6, <2>1, <2>3, <3>1 DEF ReceiveSide
    <2>5. \A i \in 1..Len(rcv_queue[f]) :
             rcv_queue'[f][i] = sent'[Peer(f)][Len(delivered[f]) + i]
      <3>. TAKE i \in 1..Len(rcv_queue[f])
      <3>1. Len(delivered[f]) + i \in 1..Len(sent[Peer(f)])
        BY <1>d, <2>0, <2>1, <2>2
      <3>. QED
        BY <1>6, <2>1, <2>3, <3>1 DEF ReceiveSide
    <2>6. \A sn \in DOMAIN rcv_buf[f] : rcv_buf'[f][sn] = sent'[Peer(f)][sn + 1]
      <3>. TAKE sn \in DOMAIN rcv_buf[f]
      <3>1. sn + 1 \in 1..Len(sent[Peer(f)])
        BY <1>0, <2>1, <2>2, Numbers DEF ReceiveSide
      <3>. QED
        BY <1>6, <2>1, <2>3, <3>1 DEF ReceiveSide
    <2>7. \A sn \in acklist[f] : Received(f, sn)'
      BY <1>0, <1>8, <2>1, Numbers DEF ReceiveSide
    <2>. QED
      BY <1>6, <2>1, <2>4, <2>5, <2>6, <2>7 DEF ReceiveSide
  <1>11. ASSUME NEW m \in net'
         PROVE  Truthful(m)'
    <2>. DEFINE P == Peer(m.to)
    <2>1. m \in net /\ Truthful(m) /\ m.to \in Ends /\ P \in Ends /\ m.sn \in Nat
      BY <1>0, <1>6, PeerEnds DEF IInv, TypeOK, Segment
    <2>2. m.cmd = "PUSH" => m.sn + 1 \in 1..Len(sent[P])
      <3>1. /\ snd_nxt[P] \in Nat /\ Len(snd_queue[P]) \in Nat
            /\ snd_nxt[P] + Len(snd_queue[P]) = Len(sent[P])
        BY <1>0, <2>1, Numbers DEF IInv, SendSide
      <3>2. m.cmd = "PUSH" => m.sn < snd_nxt[P]
        BY <2>1 DEF Truthful
      <3>. QED
        BY <2>1, <3>1, <3>2
    <2>3. m.cmd = "PUSH" => m.data = sent'[P][m.sn + 1]
      BY <1>5, <2>1, <2>2 DEF Truthful
    <2>4. m.cmd = "ACK" => Received(P, m.sn)'
      BY <1>8, <2>1 DEF Truthful
    <2>. QED
      BY <1>6, <2>1, <2>3, <2>4 DEF Truthful
  <1>12. WholeMessages' /\ NothingStranded'
    BY <1>6 DEF IInv, WholeMessages, NothingStranded
  <1>. QED
    BY <1>0, <1>7, <1>9, <1>10, <1>11, <1>12 DEF IInv

\* Received facts stay true: what is in flight stays truthful, and so does what
\* is on its way to be acknowledged.
LEMMA StaysTruthful ==
    ASSUME IInv, sent' = sent, snd_nxt' = snd_nxt, net' \subseteq net,
           \A f \in Ends : rcv_nxt[f] <= rcv_nxt'[f] /\ rcv_nxt'[f] \in Nat,
           \A f \in Ends, sn \in Nat : Received(f, sn) => Received(f, sn)'
    PROVE  \A m \in net' : Truthful(m)'
  <1>. TAKE m \in net'
  <1>1. /\ m \in net /\ Truthful(m) /\ m.to \in Ends /\ Peer(m.to) \in Ends
        /\ m.sn \in Nat /\ m.una \in Nat /\ rcv_nxt[Peer(m.to)] \in Nat
    BY PeerEnds DEF IInv, TypeOK, Segment
  <1>2. m.una <= rcv_nxt'[Peer(m.to)]
    <2>1. m.una <= rcv_nxt[Peer(m.to)]
      BY <1>1 DEF Truthful
    <2>2. /\ rcv_nxt[Peer(m.to)] <= rcv_nxt'[Peer(m.to)]
          /\ rcv_nxt'[Peer(m.to)] \in Nat
      BY <1>1
    <2>. QED
      BY <1>1, <2>1, <2>2
  <1>. QED
    BY <1>1, <1>2 DEF Truthful

\* The send side of an end that does nothing to it: the other end may only
\* have received more.
LEMMA StaysSendSide ==
    ASSUME NEW f \in Ends, SendSide(f), TypeOK,
           sent' = sent, snd_queue'[f] = snd_queue[f], snd_buf'[f] = snd_buf[f],
           snd_una'[f] = snd_una[f], snd_nxt'[f] = snd_nxt[f],
           \A g \in Ends, sn \in Nat : Received(g, sn) => Received(g, sn)'
    PROVE  SendSide(f)'
  <1>1. \A sn \in 0..(snd_nxt[f] - 1) : sn \in Nat
    BY DEF TypeOK
  <1>2. \A sn \in 0..(snd_nxt[f] - 1) :
           Received(Peer(f), sn) => Received(Peer(f), sn)'
    BY <1>1, PeerEnds
  <1>. QED
    BY <1>2 DEF SendSide, Received

\* ikcp_recv: the merged fragments go from rcv_queue to delivered, then rcv_buf
\* refills rcv_queue.
LEMMA RecvInv == IInv /\ (\E e \in Ends : Recv(e)) => IInv'
  <1>. SUFFICES ASSUME IInv, NEW e \in Ends, Recv(e)
                PROVE  IInv'
    OBVIOUS
  <1>a. PICK q, d, P : q = rcv_queue[e] /\ d = Len(delivered[e]) /\ P = Peer(e)
    OBVIOUS
  <1>. DEFINE rest(n) == SubSeq(q, n + 1, Len(q))
  <1>0. TypeOK /\ TypeOK' /\ P \in Ends /\ P # e
    BY <1>a, RecvType, PeerEnds DEF IInv
  <1>p. PICK n \in 1..Len(q) :
          /\ MergeLen(q, n)
          /\ delivered' = [delivered EXCEPT ![e] = @ \o SubSeq(q, 1, n)]
          /\ \E k \in 0..RcvWnd : FillQueue(e, rcv_buf[e], rest(n), k)
    BY <1>a DEF Recv
  <1>k. PICK k \in 0..RcvWnd : FillQueue(e, rcv_buf[e], rest(n), k)
    BY <1>p
  <1>u. /\ sent' = sent /\ snd_queue' = snd_queue /\ snd_buf' = snd_buf
        /\ snd_una' = snd_una /\ snd_nxt' = snd_nxt /\ acklist' = acklist
        /\ net' = net
    BY DEF Recv, sndVars
  <1>1. /\ q \in Seq(Fragment) /\ delivered[e] \in Seq(Fragment)
        /\ Len(q) \in Nat /\ d \in Nat /\ rcv_nxt[e] \in Nat /\ n \in Nat
        /\ n <= Len(q) /\ 1 <= n
    <2>1. q \in Seq(Fragment) /\ delivered[e] \in Seq(Fragment)
      BY <1>0, <1>a DEF TypeOK
    <2>2. Len(q) \in Nat /\ d \in Nat /\ rcv_nxt[e] \in Nat
      BY <1>0, <1>a, Numbers
    <2>. QED
      BY <2>1, <2>2
  <1>r. /\ ReceiveSide(e) /\ SendSide(P) /\ StreamShape(P)
        /\ d + Len(q) = rcv_nxt[e] /\ Len(q) <= RcvWnd
        /\ \A i \in 1..Len(q) : q[i] = sent[P][d + i]
    <2>1. ReceiveSide(e) /\ SendSide(P) /\ StreamShape(P)
      BY <1>0 DEF IInv
    <2>. QED
      BY <1>a, <2>1 DEF ReceiveSide
  <1>2. /\ rest(n) \in Seq(Fragment) /\ Len(rest(n)) = Len(q) - n
        /\ \A i \in 1..(Len(q) - n) : rest(n)[i] = q[n + i]
    <2>1. n \in 0..Len(q)
      BY <1>1
    <2>. QED
      BY <1>1, <2>1, Dropped
  <1>3. /\ SubSeq(q, 1, n) \in Seq(Fragment) /\ Len(SubSeq(q, 1, n)) = n
        /\ \A i \in 1..n : SubSeq(q, 1, n)[i] = q[i]
    <2>1. n \in 0..Len(q)
      BY <1>1
    <2>. QED
      BY <1>1, <2>1, Taken
  <1>4. /\ Len(delivered'[e]) = d + n
        /\ \A i \in 1..d : delivered'[e][i] = delivered[e][i]
        /\ \A i \in 1..n : delivered'[e][d + i] = q[i]
    <2>1. delivered'[e] = delivered[e] \o SubSeq(q, 1, n)
      BY <1>0, <1>p DEF TypeOK
    <2>2. SubSeq(q, 1, n) \in [1..n -> Fragment]
      BY <1>1, <1>3, LenProperties, ElementOfSeq
    <2>3. /\ Len(delivered[e] \o SubSeq(q, 1, n)) = Len(delivered[e]) + n
          /\ \A i \in 1..Len(delivered[e]) :
                (delivered[e] \o SubSeq(q, 1, n))[i] = delivered[e][i]
          /\ \A i \in 1..n :
                (delivered[e] \o SubSeq(q, 1, n))[Len(delivered[e]) + i]
                   = SubSeq(q, 1, n)[i]
      BY <1>1, <2>2, ExtendedFragments
    <2>. QED
      BY <1>a, <1>3, <2>1, <2>3
  <1>5. /\ rcv_nxt'[e] = rcv_nxt[e] + k
        /\ rcv_nxt'[e] <= snd_nxt[P]
        /\ d + n + Len(rcv_queue'[e]) = rcv_nxt'[e]
        /\ Len(rcv_queue'[e]) <= RcvWnd
        /\ \A i \in 1..Len(rcv_queue'[e]) : rcv_queue'[e][i] = sent[P][d + n + i]
        /\ \A sn \in DOMAIN rcv_buf'[e] :
              /\ rcv_nxt'[e] <= sn /\ sn < rcv_nxt'[e] + RcvWnd
              /\ sn < snd_nxt[P] /\ rcv_buf'[e][sn] = sent[P][sn + 1]
        /\ rcv_nxt'[e] \in DOMAIN rcv_buf'[e] => Len(rcv_queue'[e]) = RcvWnd
        /\ \A sn \in Nat : sn < rcv_nxt[e] \/ sn \in DOMAIN rcv_buf[e]
                              => Received(e, sn)'
        /\ \A f \in Ends \ {e} : /\ rcv_nxt'[f] = rcv_nxt[f]
                                 /\ rcv_queue'[f] = rcv_queue[f]
                                 /\ rcv_buf'[f] = rcv_buf[f]
    <2>1. /\ DOMAIN rcv_buf[e] \subseteq Nat
          /\ \A sn \in DOMAIN rcv_buf[e] : rcv_buf[e][sn] \in Fragment
      BY <1>0 DEF TypeOK
    <2>2. /\ rcv_nxt[e] <= snd_nxt[P]
          /\ \A sn \in DOMAIN rcv_buf[e] :
                /\ rcv_nxt[e] <= sn /\ sn < rcv_nxt[e] + RcvWnd
                /\ sn < snd_nxt[P] /\ rcv_buf[e][sn] = sent[P][sn + 1]
      BY <1>a, <1>r DEF ReceiveSide
    <2>3. d + n \in Nat /\ d + n + Len(rest(n)) = rcv_nxt[e] /\ Len(rest(n)) <= RcvWnd
      <3>1. d + Len(q) = rcv_nxt[e] /\ Len(q) <= RcvWnd /\ Len(rest(n)) = Len(q) - n
        BY <1>2, <1>r
      <3>2. RcvWnd \in Nat
        BY ArqAssumption
      <3>. HIDE DEF rest
      <3>. QED
        BY <1>1, <3>1, <3>2
    <2>4. \A i \in 1..Len(rest(n)) : rest(n)[i] = sent[P][d + n + i]
      <3>. TAKE i \in 1..Len(rest(n))
      <3>1. n + i \in 1..Len(q) /\ i \in 1..(Len(q) - n) /\ d + (n + i) = d + n + i
        BY <1>1, <1>2
      <3>. QED
        BY <1>2, <1>r, <3>1
    <2>5. PICK c : c = d + n
      OBVIOUS
    <2>. HIDE DEF rest
    <2>6. Feeds(e, c, rest(n), rcv_buf[e])
      BY <1>a, <1>2, <2>1, <2>2, <2>3, <2>4, <2>5 DEF Feeds
    <2>7. /\ rcv_nxt'[e] = rcv_nxt[e] + k
          /\ rcv_nxt'[e] <= snd_nxt[Peer(e)]
          /\ c + Len(rcv_queue'[e]) = rcv_nxt'[e]
          /\ Len(rcv_queue'[e]) <= RcvWnd
          /\ \A i \in 1..Len(rcv_queue'[e]) :
                rcv_queue'[e][i] = sent[Peer(e)][c + i]
          /\ \A sn \in DOMAIN rcv_buf'[e] :
                /\ rcv_nxt'[e] <= sn /\ sn < rcv_nxt'[e] + RcvWnd
                /\ sn < snd_nxt[Peer(e)]
                /\ rcv_buf'[e][sn] = sent[Peer(e)][sn + 1]
          /\ rcv_nxt'[e] \in DOMAIN rcv_buf'[e] => Len(rcv_queue'[e]) = RcvWnd
          /\ \A sn \in Nat : sn < rcv_nxt[e] \/ sn \in DOMAIN rcv_buf[e]
                                => Received(e, sn)'
          /\ \A f \in Ends \ {e} : /\ rcv_nxt'[f] = rcv_nxt[f]
                                   /\ rcv_queue'[f] = rcv_queue[f]
                                   /\ rcv_buf'[f] = rcv_buf[f]
      BY <1>0, <1>k, <2>6, FillQueueKeeps
    <2>. QED
      BY <1>a, <2>5, <2>7
  <1>6. \A f \in Ends, sn \in Nat : Received(f, sn) => Received(f, sn)'
    <2>. SUFFICES ASSUME NEW f \in Ends, NEW sn \in Nat, Received(f, sn)
                  PROVE  Received(f, sn)'
      OBVIOUS
    <2>1. CASE f = e
      BY <1>5, <2>1 DEF Received
    <2>2. CASE f # e
      BY <1>5, <2>2 DEF Received
    <2>. QED
      BY <2>1, <2>2
  <1>7. \A f \in Ends : StreamShape(f)'
    BY <1>u DEF IInv, StreamShape
  <1>8. \A f \in Ends : SendSide(f)'
    BY <1>0, <1>6, <1>u, StaysSendSide DEF IInv
  <1>9. ASSUME NEW f \in Ends
        PROVE  ReceiveSide(f)'
    <2>1. ReceiveSide(f)
      BY DEF IInv
    <2>2. \A sn \in acklist'[f] : Received(f, sn)'
      BY <1>0, <1>6, <1>u, <2>1, Numbers DEF ReceiveSide
    <2>3. CASE f # e
      <3>1. delivered'[f] = delivered[f]
        BY <1>0, <1>p, <2>3 DEF TypeOK
      <3>. QED
        BY <1>5, <1>u, <2>1, <2>2, <2>3, <3>1 DEF ReceiveSide
    <2>4. CASE f = e
      <3>1. /\ rcv_nxt'[e] <= snd_nxt'[P]
            /\ Len(delivered'[e]) + Len(rcv_queue'[e]) = rcv_nxt'[e]
            /\ Len(rcv_queue'[e]) <= RcvWnd
        BY <1>4, <1>5, <1>u
      <3>2. \A i \in 1..Len(delivered'[e]) : delivered'[e][i] = sent[P][i]
        <4>. TAKE i \in 1..Len(delivered'[e])
        <4>1. CASE i <= d
          <5>1. i \in 1..d
            BY <1>1, <1>4, <4>1
          <5>. QED
            BY <1>4, <1>a, <1>r, <5>1 DEF ReceiveSide
        <4>2. CASE i > d
          <5>1. PICK j \in 1..n : i = d + j
            <6>1. i - d \in 1..n /\ i = d + (i - d)
              BY <1>1, <1>4, <4>2
            <6>. QED
              BY <6>1
          <5>2. j \in 1..Len(q)
            BY <1>1
          <5>. QED
            BY <1>4, <1>r, <5>1, <5>2
        <4>3. i <= d \/ i > d
          BY <1>1, <1>4
        <4>. QED
          BY <4>1, <4>2, <4>3
      <3>3. \A i \in 1..Len(rcv_queue'[e]) :
               rcv_queue'[e][i] = sent'[P][Len(delivered'[e]) + i]
        BY <1>4, <1>5, <1>u
      <3>4. \A sn \in DOMAIN rcv_buf'[e] :
               /\ rcv_nxt'[e] <= sn /\ sn < rcv_nxt'[e] + RcvWnd
               /\ sn < snd_nxt'[P] /\ rcv_buf'[e][sn] = sent'[P][sn + 1]
        BY <1>5, <1>u
      <3>. QED
        BY <1>a, <1>u, <2>2, <2>4, <3>1, <3>2, <3>3, <3>4 DEF ReceiveSide
    <2>. QED
      BY <2>3, <2>4
  <1>10. \A m \in net' : Truthful(m)'
    <2>1. \A f \in Ends : rcv_nxt[f] <= rcv_nxt'[f] /\ rcv_nxt'[f] \in Nat
      <3>. TAKE f \in Ends
      <3>1. CASE f # e
        BY <1>0, <1>5, <3>1, Numbers
      <3>2. CASE f = e
        <4>1. k \in Nat
          BY ArqAssumption
        <4>. QED
          BY <1>1, <1>5, <3>2, <4>1
      <3>. QED
        BY <3>1, <3>2
    <2>. QED
      BY <1>6, <1>u, <2>1, StaysTruthful
  <1>11. WholeMessages'
    <2>1. ASSUME NEW f \in Ends \ {e}
          PROVE  delivered'[f] # <<>> => delivered'[f][Len(delivered'[f])].frg = 0
      BY <1>0, <1>p DEF IInv, WholeMessages, TypeOK
    <2>2. q[n].frg = 0
      <3>1. /\ \A i \in 1..(n - 1) : q[i].frg # 0
            /\ n = Len(q) \/ q[n].frg = 0
            /\ q[1].frg = 0 \/ Len(q) >= q[1].frg + 1
        BY <1>a, <1>p DEF MergeLen, Recv, Peekable
      <3>2. CASE q[1].frg = 0
        <4>1. n = 1
          BY <1>1, <3>1, <3>2
        <4>. QED
          BY <3>2, <4>1
      <3>3. CASE q[1].frg # 0
        <4>1. PICK g : g = q[1].frg
          OBVIOUS
        <4>2. 1 \in 1..Len(q) /\ q[1] = sent[P][d + 1]
          BY <1>1, <1>r
        <4>3. d + 1 \in 1..Len(sent[P])
          <5>1. /\ rcv_nxt[e] <= snd_nxt[P] /\ snd_nxt[P] \in Nat
                /\ snd_nxt[P] + Len(snd_queue[P]) = Len(sent[P])
                /\ Len(snd_queue[P]) \in Nat /\ Len(sent[P]) \in Nat
            BY <1>0, <1>a, <1>r, Numbers DEF ReceiveSide, SendSide
          <5>2. d + 1 <= rcv_nxt[e]
            BY <1>1, <1>r
          <5>3. d + 1 <= Len(sent[P])
            BY <1>1, <5>1, <5>2
          <5>. QED
            BY <1>1, <5>1, <5>3
        <4>4. g \in Nat /\ sent[P][d + 1 + g].frg = 0
          <5>1. g \in Nat
            BY <1>0, <4>1, <4>2, <4>3, Numbers
          <5>2. \A j \in 0..g : sent[P][d + 1 + j].frg = g - j
            BY <1>r, <4>1, <4>2, <4>3 DEF StreamShape
          <5>. QED
            BY <5>1, <5>2
        <4>5. 1 + g \in 1..Len(q) /\ d + (1 + g) = d + 1 + g
          <5>1. Len(q) >= g + 1
            BY <3>1, <3>3, <4>1
          <5>. QED
            BY <1>1, <4>4, <5>1
        <4>6. q[1 + g].frg = 0
          BY <1>r, <4>4, <4>5
        <4>7. n <= 1 + g
          <5>1. 1 + g \notin 1..(n - 1)
            BY <3>1, <4>6
          <5>. QED
            BY <1>1, <4>4, <5>1
        <4>. QED
          <5>1. n = Len(q) => n = 1 + g
            BY <1>1, <4>5, <4>7
          <5>. QED
            BY <3>1, <4>6, <5>1
      <3>. QED
        BY <3>2, <3>3
    <2>3. delivered'[e][Len(delivered'[e])].frg = 0
      <3>1. n \in 1..n
        BY <1>1
      <3>. QED
        BY <1>4, <2>2, <3>1
    <2>. QED
      BY <2>1, <2>3 DEF WholeMessages
  <1>12. NothingStranded'
    BY <1>5 DEF IInv, NothingStranded
  <1>. QED
    BY <1>0, <1>7, <1>8, <1>9, <1>10, <1>11, <1>12 DEF IInv

\* ikcp_input: una and ack discard only what the other end has, because what is
\* in flight is truthful; data enters rcv_buf as it was sent.
LEMMA InputInv == IInv /\ (\E m \in net : Input(m)) => IInv'
  <1>. SUFFICES ASSUME IInv, NEW m \in net, Input(m)
                PROVE  IInv'
    OBVIOUS
  <1>a. PICK e, P : e = m.to /\ P = Peer(e)
    OBVIOUS
  <1>0. /\ TypeOK /\ TypeOK' /\ e \in Ends /\ P \in Ends /\ P # e /\ Peer(P) = e
        /\ m \in Segment /\ m.sn \in Nat /\ m.una \in Nat /\ Truthful(m)
    BY <1>a, InputType, PeerEnds DEF IInv, TypeOK, Segment
  <1>u. /\ sent' = sent /\ delivered' = delivered /\ snd_queue' = snd_queue
        /\ snd_nxt' = snd_nxt /\ net' \subseteq net
    BY DEF Input
  <1>r. /\ rcv_nxt[e] <= snd_nxt[P]
        /\ Len(delivered[e]) + Len(rcv_queue[e]) = rcv_nxt[e]
        /\ Len(rcv_queue[e]) <= RcvWnd
        /\ \A i \in 1..Len(rcv_queue[e]) :
              rcv_queue[e][i] = sent[P][Len(delivered[e]) + i]
        /\ \A sn \in DOMAIN rcv_buf[e] :
              /\ rcv_nxt[e] <= sn /\ sn < rcv_nxt[e] + RcvWnd
              /\ sn < snd_nxt[P] /\ rcv_buf[e][sn] = sent[P][sn + 1]
        /\ rcv_nxt[e] \in DOMAIN rcv_buf[e] => Len(rcv_queue[e]) = RcvWnd
        /\ \A sn \in acklist[e] : Received(e, sn)
    <2>1. ReceiveSide(e)
      BY <1>0 DEF IInv
    <2>2. rcv_nxt[e] \in DOMAIN rcv_buf[e] => Len(rcv_queue[e]) = RcvWnd
      BY <1>0 DEF IInv, NothingStranded
    <2>. QED
      BY <1>a, <2>1, <2>2 DEF ReceiveSide
  <1>n. /\ rcv_nxt[e] \in Nat /\ Len(delivered[e]) \in Nat
        /\ Len(rcv_queue[e]) \in Nat /\ rcv_queue[e] \in Seq(Fragment)
        /\ DOMAIN rcv_buf[e] \subseteq Nat /\ acklist[e] \subseteq Nat
        /\ \A sn \in DOMAIN rcv_buf[e] : rcv_buf[e][sn] \in Fragment
        /\ DOMAIN acklist = Ends
    BY <1>0, Numbers DEF TypeOK
  <1>1. /\ rcv_nxt[e] <= rcv_nxt'[e]
        /\ rcv_nxt'[e] <= snd_nxt[P]
        /\ Len(delivered[e]) + Len(rcv_queue'[e]) = rcv_nxt'[e]
        /\ Len(rcv_queue'[e]) <= RcvWnd
        /\ \A i \in 1..Len(rcv_queue'[e]) :
              rcv_queue'[e][i] = sent[P][Len(delivered[e]) + i]
        /\ \A sn \in DOMAIN rcv_buf'[e] :
              /\ rcv_nxt'[e] <= sn /\ sn < rcv_nxt'[e] + RcvWnd
              /\ sn < snd_nxt[P] /\ rcv_buf'[e][sn] = sent[P][sn + 1]
        /\ rcv_nxt'[e] \in DOMAIN rcv_buf'[e] => Len(rcv_queue'[e]) = RcvWnd
        /\ \A sn \in Nat : Received(e, sn) => Received(e, sn)'
        /\ \A sn \in acklist'[e] : Received(e, sn)'
        /\ \A f \in Ends \ {e} : /\ rcv_nxt'[f] = rcv_nxt[f]
                                 /\ rcv_queue'[f] = rcv_queue[f]
                                 /\ rcv_buf'[f] = rcv_buf[f]
    <2>1. CASE m.cmd # "PUSH"
      <3>1. rcv_nxt' = rcv_nxt /\ rcv_queue' = rcv_queue /\ rcv_buf' = rcv_buf
               /\ acklist' = acklist
        BY <2>1 DEF Input, rcvVars
      <3>2. rcv_nxt[e] <= rcv_nxt'[e]
        BY <1>n, <3>1
      <3>. QED
        BY <1>r, <3>1, <3>2 DEF Received
    <2>2. CASE m.cmd = "PUSH" /\ ~(Acceptable(e, m) /\ m.sn >= rcv_nxt[e])
      <3>1. /\ rcv_nxt' = rcv_nxt /\ rcv_queue' = rcv_queue /\ rcv_buf' = rcv_buf
            /\ acklist' = acklist \/ acklist' = [acklist EXCEPT ![e] = @ \cup {m.sn}]
            /\ acklist' # acklist => Acceptable(e, m)
        BY <1>a, <2>2 DEF Input, AcceptData, rcvVars
      <3>2. \A sn \in acklist'[e] : sn \in acklist[e] \/ sn < rcv_nxt[e]
        BY <1>0, <1>n, <2>2, <3>1
      <3>3. rcv_nxt[e] <= rcv_nxt'[e]
        BY <1>n, <3>1
      <3>4. \A sn \in acklist'[e] : Received(e, sn)'
        BY <1>r, <3>1, <3>2 DEF Received
      <3>. QED
        BY <1>r, <3>1, <3>3, <3>4 DEF Received
    <2>3. CASE m.cmd = "PUSH" /\ Acceptable(e, m) /\ m.sn >= rcv_nxt[e]
      <3>. DEFINE buf == [sn \in DOMAIN rcv_buf[e] \cup {m.sn} |->
                            IF sn \in DOMAIN rcv_buf[e]
                            THEN rcv_buf[e][sn] ELSE m.data]
      <3>1. PICK k \in 0..RcvWnd : FillQueue(e, buf, rcv_queue[e], k)
        BY <1>a, <2>3 DEF Input, AcceptData
      <3>2. acklist' = [acklist EXCEPT ![e] = @ \cup {m.sn}]
        BY <1>a, <2>3 DEF Input, AcceptData
      <3>3. Feeds(e, Len(delivered[e]), rcv_queue[e], buf)
        <4>1. /\ m.sn < rcv_nxt[e] + RcvWnd /\ m.sn < snd_nxt[P]
              /\ m.data = sent[P][m.sn + 1] /\ m.data \in Fragment
          BY <1>0, <1>a, <2>3 DEF Truthful, Acceptable, Segment
        <4>2. \A sn \in DOMAIN buf :
                 /\ buf[sn] \in Fragment
                 /\ rcv_nxt[e] <= sn /\ sn < rcv_nxt[e] + RcvWnd
                 /\ sn < snd_nxt[P] /\ buf[sn] = sent[P][sn + 1]
          BY <1>n, <1>r, <2>3, <4>1
        <4>3. DOMAIN buf \subseteq Nat
          BY <1>0, <1>n
        <4>. HIDE DEF buf
        <4>. QED
          BY <1>a, <1>n, <1>r, <4>2, <4>3 DEF Feeds
      <3>4. DOMAIN buf = DOMAIN rcv_buf[e] \cup {m.sn}
        OBVIOUS
      <3>. HIDE DEF buf
      <3>5. /\ rcv_nxt'[e] = rcv_nxt[e] + k /\ k \in Nat
            /\ rcv_nxt'[e] <= snd_nxt[Peer(e)]
            /\ Len(delivered[e]) + Len(rcv_queue'[e]) = rcv_nxt'[e]
            /\ Len(rcv_queue'[e]) <= RcvWnd
            /\ \A i \in 1..Len(rcv_queue'[e]) :
                  rcv_queue'[e][i] = sent[Peer(e)][Len(delivered[e]) + i]
            /\ \A sn \in DOMAIN rcv_buf'[e] :
                  /\ rcv_nxt'[e] <= sn /\ sn < rcv_nxt'[e] + RcvWnd
                  /\ sn < snd_nxt[Peer(e)]
                  /\ rcv_buf'[e][sn] = sent[Peer(e)][sn + 1]
            /\ rcv_nxt'[e] \in DOMAIN rcv_buf'[e] => Len(rcv_queue'[e]) = RcvWnd
            /\ \A sn \in Nat : sn < rcv_nxt[e] \/ sn \in DOMAIN buf
                                  => Received(e, sn)'
            /\ \A f \in Ends \ {e} : /\ rcv_nxt'[f] = rcv_nxt[f]
                                     /\ rcv_queue'[f] = rcv_queue[f]
                                     /\ rcv_buf'[f] = rcv_buf[f]
        BY <1>0, <3>1, <3>3, FillQueueKeeps
      <3>6. rcv_nxt[e] <= rcv_nxt'[e]
        BY <1>n, <3>5
      <3>7. \A sn \in Nat : Received(e, sn) => Received(e, sn)'
        <4>1. \A sn \in Nat : Received(e, sn) => sn < rcv_nxt[e] \/ sn \in DOMAIN buf
          BY <3>4 DEF Received
        <4>. QED
          BY <3>5, <4>1
      <3>8. \A sn \in acklist'[e] : Received(e, sn)'
        <4>1. acklist'[e] = acklist[e] \cup {m.sn}
          BY <1>0, <1>n, <3>2
        <4>2. Received(e, m.sn)'
          BY <1>0, <3>4, <3>5
        <4>. QED
          BY <1>n, <1>r, <3>7, <4>1, <4>2
      <3>. QED
        BY <1>a, <3>5, <3>6, <3>7, <3>8
    <2>. QED
      BY <2>1, <2>2, <2>3
  <1>2. \A f \in Ends \ {e} : acklist'[f] = acklist[f]
    BY <1>0, <1>a, <1>n DEF Input, AcceptData
  <1>3. \A f \in Ends, sn \in Nat : Received(f, sn) => Received(f, sn)'
    <2>. SUFFICES ASSUME NEW f \in Ends, NEW sn \in Nat, Received(f, sn)
                  PROVE  Received(f, sn)'
      OBVIOUS
    <2>1. CASE f = e
      BY <1>1, <2>1
    <2>2. CASE f # e
      BY <1>1, <2>2 DEF Received
    <2>. QED
      BY <2>1, <2>2
  <1>4. \A f \in Ends : StreamShape(f)'
    BY <1>u DEF IInv, StreamShape
  <1>5. ASSUME NEW f \in Ends
        PROVE  ReceiveSide(f)'
    <2>1. ReceiveSide(f)
      BY DEF IInv
    <2>2. CASE f = e
      BY <1>1, <1>a, <1>u, <2>1, <2>2 DEF ReceiveSide
    <2>3. CASE f # e
      <3>1. \A sn \in acklist'[f] : Received(f, sn)'
        BY <1>0, <1>2, <1>3, <2>1, <2>3, Numbers DEF ReceiveSide
      <3>. QED
        BY <1>1, <1>2, <1>u, <2>1, <2>3, <3>1 DEF ReceiveSide
    <2>. QED
      BY <2>2, <2>3
  <1>6. ASSUME NEW f \in Ends
        PROVE  SendSide(f)'
    <2>1. SendSide(f)
      BY DEF IInv
    <2>u. AcceptAcks(e, m)
      BY <1>a DEF Input
    <2>2. CASE f # e
      <3>1. snd_buf'[f] = snd_buf[f] /\ snd_una'[f] = snd_una[f]
        BY <1>0, <2>2, <2>u DEF AcceptAcks, TypeOK
      <3>. QED
        BY <1>0, <1>3, <1>u, <2>1, <3>1, StaysSendSide
    <2>3. CASE f = e
      <3>n. /\ snd_nxt[e] \in Nat /\ snd_una[e] \in Nat /\ DOMAIN snd_buf[e] \subseteq Nat
            /\ snd_una[e] <= snd_nxt[e] /\ snd_nxt[e] <= snd_una[e] + SndWnd
            /\ SndWnd \in Nat
            /\ \A sn \in DOMAIN snd_buf[e] :
                  /\ snd_una[e] <= sn /\ sn < snd_nxt[e]
                  /\ snd_buf[e][sn] = sent[e][sn + 1]
            /\ \A sn \in 0..(snd_nxt[e] - 1) :
                  sn \notin DOMAIN snd_buf[e] => Received(P, sn)
        BY <1>0, <1>a, <2>1, <2>3, Numbers, ArqAssumption DEF SendSide
      <3>1. /\ DOMAIN snd_buf'[e] = Unacked(e, m)
            /\ \A sn \in Unacked(e, m) : snd_buf'[e][sn] = snd_buf[e][sn]
            /\ snd_una'[e] \in Unacked(e, m) \cup {snd_nxt[e]}
            /\ \A sn \in Unacked(e, m) \cup {snd_nxt[e]} : snd_una'[e] <= sn
        BY <1>0, <2>u DEF AcceptAcks, TypeOK
      <3>2. Unacked(e, m) \subseteq DOMAIN snd_buf[e]
        BY DEF Unacked
      <3>3. /\ snd_una[e] <= snd_una'[e] /\ snd_una'[e] <= snd_nxt[e]
            /\ snd_una'[e] \in Nat
        BY <3>n, <3>1, <3>2
      <3>4. snd_nxt[e] <= snd_una'[e] + SndWnd
        BY <3>n, <3>3
      <3>5. ASSUME NEW sn \in 0..(snd_nxt[e] - 1), sn \notin Unacked(e, m)
            PROVE  Received(P, sn)'
        <4>1. sn \in Nat
          BY <3>n
        <4>2. Received(P, sn)
          <5>1. CASE sn \notin DOMAIN snd_buf[e]
            BY <3>n, <5>1
          <5>2. CASE sn \in DOMAIN snd_buf[e] /\ sn < m.una
            <6>1. m.una <= rcv_nxt[P] /\ rcv_nxt[P] \in Nat
              BY <1>0, <1>a, Numbers DEF Truthful
            <6>2. sn < rcv_nxt[P]
              BY <1>0, <4>1, <5>2, <6>1
            <6>. QED
              BY <6>2 DEF Received
          <5>3. CASE m.cmd = "ACK" /\ sn = m.sn
            BY <1>0, <1>a, <5>3 DEF Truthful
          <5>4. \/ sn \notin DOMAIN snd_buf[e]
                \/ sn \in DOMAIN snd_buf[e] /\ sn < m.una
                \/ m.cmd = "ACK" /\ sn = m.sn
            BY <1>0, <3>5, <4>1 DEF Unacked
          <5>. QED
            BY <5>1, <5>2, <5>3, <5>4
        <4>. QED
          BY <1>0, <1>3, <4>1, <4>2
      <3>6. \A sn \in DOMAIN snd_buf'[e] :
               /\ snd_una'[e] <= sn /\ sn < snd_nxt[e]
               /\ snd_buf'[e][sn] = sent[e][sn + 1]
        BY <3>n, <3>1, <3>2
      <3>7. /\ snd_nxt[e] + Len(snd_queue[e]) = Len(sent[e])
            /\ \A i \in 1..Len(snd_queue[e]) :
                  snd_queue[e][i] = sent[e][snd_nxt[e] + i]
        BY <2>1, <2>3 DEF SendSide
      <3>. QED
        BY <1>a, <1>u, <2>3, <3>1, <3>3, <3>4, <3>5, <3>6, <3>7 DEF SendSide, Received
    <2>. QED
      BY <2>2, <2>3
  <1>7. \A f \in Ends : rcv_nxt[f] <= rcv_nxt'[f] /\ rcv_nxt'[f] \in Nat
    <2>. TAKE f \in Ends
    <2>1. rcv_nxt'[f] \in Nat /\ rcv_nxt[f] \in Nat
      BY <1>0 DEF TypeOK
    <2>2. f # e => rcv_nxt'[f] = rcv_nxt[f]
      BY <1>1
    <2>. QED
      BY <1>1, <2>1, <2>2
  <1>8. \A n \in net' : Truthful(n)'
    BY <1>3, <1>7, <1>u, StaysTruthful
  <1>9. WholeMessages' /\ NothingStranded'
    BY <1>1, <1>u DEF IInv, WholeMessages, NothingStranded
  <1>. QED
    BY <1>0, <1>4, <1>5, <1>6, <1>8, <1>9 DEF IInv

\* A datagram that is lost takes nothing else with it.
LEMMA LoseInv == IInv /\ (\E m \in net : Lose(m)) => IInv'
  <1>. SUFFICES ASSUME IInv, NEW m \in net, Lose(m)
                PROVE  IInv'
    OBVIOUS
  <1>1. TypeOK'
    BY LoseType DEF IInv
  <1>u. /\ sent' = sent /\ delivered' = delivered /\ snd_queue' = snd_queue
        /\ snd_buf' = snd_buf /\ snd_una' = snd_una /\ snd_nxt' = snd_nxt
        /\ rcv_buf' = rcv_buf /\ rcv_queue' = rcv_queue /\ rcv_nxt' = rcv_nxt
        /\ acklist' = acklist /\ net' \subseteq net
    BY DEF Lose, sndVars, rcvVars
  <1>2. \A f, sn : Received(f, sn)' <=> Received(f, sn)
    BY <1>u DEF Received
  <1>3. \A e \in Ends : StreamShape(e)'
    BY <1>u DEF IInv, StreamShape
  <1>4. \A e \in Ends : SendSide(e)'
    BY <1>2, <1>u, StaysSendSide DEF IInv
  <1>5. ASSUME NEW e \in Ends
        PROVE  ReceiveSide(e)'
    <2>1. ReceiveSide(e)
      BY DEF IInv
    <2>. QED
      BY <1>2, <1>u, <2>1 DEF ReceiveSide
  <1>6. \A n \in net' : Truthful(n)'
    BY <1>2, <1>u DEF IInv, Truthful
  <1>7. WholeMessages' /\ NothingStranded'
    BY <1>u DEF IInv, WholeMessages, NothingStranded
  <1>. QED
    BY <1>1, <1>3, <1>4, <1>5, <1>6, <1>7 DEF IInv

\* ikcp_flush: fragments go from snd_queue to snd_buf as far as the windows
\* admit, and what is put on the network is true when it is sent.
LEMMA FlushInv == IInv /\ (\E e \in Ends : Flush(e)) => IInv'
  <1>. SUFFICES ASSUME IInv, NEW e \in Ends, Flush(e)
                PROVE  IInv'
    OBVIOUS
  <1>p. PICK n \in 0..Len(snd_queue[e]), expired \in Expires(e) :
          /\ Admits(e, n)
          /\ snd_buf' = [snd_buf EXCEPT ![e] = Appended(e, n)]
          /\ snd_nxt' = [snd_nxt EXCEPT ![e] = @ + n]
          /\ snd_queue' = [snd_queue EXCEPT ![e] = SubSeq(@, n + 1, Len(@))]
          /\ \E kept \in SUBSET (Output(e, n, expired) \ net) : net' = net \cup kept
    BY DEF Flush
  <1>a. PICK q, nxt, una, P : /\ q = snd_queue[e] /\ nxt = snd_nxt[e]
                              /\ una = snd_una[e] /\ P = Peer(e)
    OBVIOUS
  <1>0. TypeOK /\ TypeOK' /\ P \in Ends /\ P # e /\ Peer(P) = e
    BY <1>a, FlushType, PeerEnds DEF IInv
  <1>u. /\ sent' = sent /\ delivered' = delivered /\ snd_una' = snd_una
        /\ rcv_buf' = rcv_buf /\ rcv_queue' = rcv_queue /\ rcv_nxt' = rcv_nxt
        /\ acklist' = [acklist EXCEPT ![e] = {}]
    BY DEF Flush, rcvVars
  <1>n. /\ nxt \in Nat /\ una \in Nat /\ n \in Nat /\ n <= Len(q) /\ Len(q) \in Nat
        /\ q \in Seq(Fragment) /\ DOMAIN snd_buf[e] \subseteq Nat /\ SndWnd \in Nat
        /\ rmt_wnd[e] \in Nat /\ Len(sent[e]) \in Nat
    <2>1. /\ nxt \in Nat /\ una \in Nat /\ Len(q) \in Nat /\ q \in Seq(Fragment)
          /\ DOMAIN snd_buf[e] \subseteq Nat /\ SndWnd \in Nat
          /\ rmt_wnd[e] \in Nat /\ Len(sent[e]) \in Nat
      BY <1>0, <1>a, Numbers, ArqAssumption DEF TypeOK
    <2>2. n \in 0..Len(q)
      BY <1>a
    <2>. QED
      BY <2>1, <2>2
  <1>s. /\ nxt + Len(q) = Len(sent[e])
        /\ \A i \in 1..Len(q) : q[i] = sent[e][nxt + i]
        /\ una <= nxt /\ nxt <= una + SndWnd
        /\ \A sn \in DOMAIN snd_buf[e] :
              una <= sn /\ sn < nxt /\ snd_buf[e][sn] = sent[e][sn + 1]
        /\ \A sn \in 0..(nxt - 1) : sn \notin DOMAIN snd_buf[e] => Received(P, sn)
    BY <1>0, <1>a DEF IInv, SendSide
  <1>1. /\ snd_nxt'[e] = nxt + n
        /\ snd_buf'[e] = Appended(e, n)
        /\ snd_queue'[e] = SubSeq(q, n + 1, Len(q))
        /\ \A f \in Ends \ {e} : /\ snd_nxt'[f] = snd_nxt[f]
                                 /\ snd_buf'[f] = snd_buf[f]
                                 /\ snd_queue'[f] = snd_queue[f]
    BY <1>0, <1>a, <1>p DEF TypeOK
  <1>2. /\ Len(snd_queue'[e]) = Len(q) - n
        /\ \A i \in 1..(Len(q) - n) : snd_queue'[e][i] = q[n + i]
    BY <1>1, <1>n, Dropped
  <1>3. nxt + n <= una + SndWnd
    <2>1. PICK cwnd : cwnd = IF SndWnd < rmt_wnd[e] THEN SndWnd ELSE rmt_wnd[e]
      OBVIOUS
    <2>2. n = 0 \/ n <= una + cwnd - nxt
      BY <1>a, <1>p, <2>1 DEF Admits
    <2>3. cwnd \in Nat /\ cwnd <= SndWnd
      BY <1>n, <2>1
    <2>. QED
      BY <1>n, <1>s, <2>2, <2>3
  <1>4. /\ DOMAIN Appended(e, n) = DOMAIN snd_buf[e] \cup nxt..(nxt + n - 1)
        /\ \A sn \in DOMAIN Appended(e, n) :
              /\ sn \in Nat /\ una <= sn /\ sn < nxt + n
              /\ Appended(e, n)[sn] = sent[e][sn + 1]
    <2>1. DOMAIN Appended(e, n) = DOMAIN snd_buf[e] \cup nxt..(nxt + n - 1)
      BY <1>a DEF Appended
    <2>. SUFFICES ASSUME NEW sn \in DOMAIN Appended(e, n)
                  PROVE  /\ sn \in Nat /\ una <= sn /\ sn < nxt + n
                         /\ Appended(e, n)[sn] = sent[e][sn + 1]
      BY <2>1
    <2>2. CASE sn \in DOMAIN snd_buf[e]
      <3>1. Appended(e, n)[sn] = snd_buf[e][sn]
        BY <2>2 DEF Appended
      <3>2. sn \in Nat /\ una <= sn /\ sn < nxt /\ snd_buf[e][sn] = sent[e][sn + 1]
        BY <1>n, <1>s, <2>2
      <3>. QED
        BY <1>n, <3>1, <3>2
    <2>3. CASE sn \notin DOMAIN snd_buf[e]
      <3>1. sn \in nxt..(nxt + n - 1)
        BY <2>1, <2>3
      <3>2. Appended(e, n)[sn] = q[sn - nxt + 1]
        BY <1>a, <2>3, <3>1 DEF Appended
      <3>3. sn - nxt + 1 \in 1..Len(q) /\ nxt + (sn - nxt + 1) = sn + 1
        BY <1>n, <3>1
      <3>4. q[sn - nxt + 1] = sent[e][sn + 1]
        BY <1>s, <3>3
      <3>5. una <= nxt
        BY <1>s
      <3>6. sn \in Nat /\ una <= sn /\ sn < nxt + n
        BY <1>n, <3>1, <3>5
      <3>. QED
        BY <1>n, <3>2, <3>4, <3>6
    <2>. QED
      BY <2>2, <2>3
  <1>5. \A f, sn : Received(f, sn)' <=> Received(f, sn)
    BY <1>u DEF Received
  <1>6. \A f \in Ends : StreamShape(f)'
    BY <1>u DEF IInv, StreamShape
  <1>7. ASSUME NEW f \in Ends
        PROVE  SendSide(f)'
    <2>1. SendSide(f)
      BY DEF IInv
    <2>2. CASE f # e
      BY <1>0, <1>1, <1>5, <1>u, <2>1, <2>2, StaysSendSide
    <2>3. CASE f = e
      <3>1. snd_nxt'[e] + Len(snd_queue'[e]) = Len(sent'[e])
        <4>1. PICK len : len = Len(sent[e])
          OBVIOUS
        <4>2. nxt + Len(q) = len
          BY <1>s, <4>1
        <4>3. nxt + n + (Len(q) - n) = len
          BY <1>n, <4>2
        <4>. QED
          BY <1>1, <1>2, <1>u, <4>1, <4>3
      <3>2. \A i \in 1..Len(snd_queue'[e]) :
               snd_queue'[e][i] = sent'[e][snd_nxt'[e] + i]
        <4>. TAKE i \in 1..Len(snd_queue'[e])
        <4>1. /\ i \in 1..(Len(q) - n) /\ n + i \in 1..Len(q)
              /\ nxt + (n + i) = nxt + n + i
          BY <1>2, <1>n
        <4>. QED
          BY <1>1, <1>2, <1>s, <1>u, <4>1
      <3>3. una <= nxt + n
        BY <1>n, <1>s
      <3>4. ASSUME NEW sn \in 0..(nxt + n - 1), sn \notin DOMAIN Appended(e, n)
            PROVE  Received(P, sn)'
        <4>1. sn \in 0..(nxt - 1) /\ sn \notin DOMAIN snd_buf[e]
          BY <1>4, <1>n, <3>4
        <4>. QED
          BY <1>5, <1>s, <4>1
      <3>5. \A sn \in DOMAIN snd_buf'[e] :
               /\ snd_una'[e] <= sn /\ sn < snd_nxt'[e]
               /\ snd_buf'[e][sn] = sent'[e][sn + 1]
        BY <1>1, <1>4, <1>a, <1>u
      <3>6. \A sn \in 0..(snd_nxt'[e] - 1) :
               sn \notin DOMAIN snd_buf'[e] => Received(P, sn)'
        <4>. TAKE sn \in 0..(snd_nxt'[e] - 1)
        <4>h. HAVE sn \notin DOMAIN snd_buf'[e]
        <4>1. snd_nxt'[e] - 1 = nxt + n - 1
          BY <1>1, <1>n
        <4>2. sn \in 0..(nxt + n - 1)
          BY <4>1
        <4>3. sn \notin DOMAIN Appended(e, n)
          BY <1>1, <4>h
        <4>. QED
          BY <3>4, <4>2, <4>3
      <3>7. snd_una'[e] <= snd_nxt'[e] /\ snd_nxt'[e] <= snd_una'[e] + SndWnd
        BY <1>1, <1>3, <1>a, <1>u, <3>3
      <3>. QED
        BY <1>a, <2>3, <3>1, <3>2, <3>5, <3>6, <3>7 DEF SendSide, Received
    <2>. QED
      BY <2>2, <2>3
  <1>8. \A f \in Ends : /\ snd_nxt[f] <= snd_nxt'[f]
                        /\ snd_nxt[f] \in Nat /\ snd_nxt'[f] \in Nat
    <2>. TAKE f \in Ends
    <2>1. snd_nxt[f] \in Nat /\ snd_nxt'[f] \in Nat
      BY <1>0 DEF TypeOK
    <2>2. nxt <= nxt + n
      BY <1>n
    <2>. QED
      BY <1>1, <1>a, <2>1, <2>2
  <1>9. ASSUME NEW f \in Ends
        PROVE  ReceiveSide(f)'
    <2>1. ReceiveSide(f) /\ Peer(f) \in Ends
      BY PeerEnds DEF IInv
    <2>2. acklist'[f] \subseteq acklist[f]
      BY <1>0, <1>u DEF TypeOK
    <2>3. rcv_nxt'[f] <= snd_nxt'[Peer(f)]
      <3>1. rcv_nxt[f] \in Nat /\ rcv_nxt[f] <= snd_nxt[Peer(f)]
        BY <1>0, <2>1, Numbers DEF ReceiveSide
      <3>2. /\ snd_nxt[Peer(f)] <= snd_nxt'[Peer(f)]
            /\ snd_nxt[Peer(f)] \in Nat /\ snd_nxt'[Peer(f)] \in Nat
        BY <1>8, <2>1
      <3>. QED
        BY <1>u, <3>1, <3>2
    <2>4. \A sn \in DOMAIN rcv_buf'[f] : sn < snd_nxt'[Peer(f)]
      <3>. TAKE sn \in DOMAIN rcv_buf'[f]
      <3>1. sn \in Nat /\ sn < snd_nxt[Peer(f)]
        BY <1>0, <1>u, <2>1, Numbers DEF ReceiveSide
      <3>2. /\ snd_nxt[Peer(f)] <= snd_nxt'[Peer(f)]
            /\ snd_nxt[Peer(f)] \in Nat /\ snd_nxt'[Peer(f)] \in Nat
        BY <1>8, <2>1
      <3>. QED
        BY <3>1, <3>2
    <2>. QED
      BY <1>5, <1>u, <2>1, <2>2, <2>3, <2>4 DEF ReceiveSide
  <1>10. ASSUME NEW m \in net'
         PROVE  Truthful(m)'
    <2>1. CASE m \in net
      <3>1. Truthful(m) /\ m.to \in Ends /\ Peer(m.to) \in Ends /\ m.sn \in Nat
        BY <1>0, <2>1, PeerEnds DEF IInv, TypeOK, Segment
      <3>2. m.cmd = "PUSH" => m.sn < snd_nxt'[Peer(m.to)]
        <4>1. m.cmd = "PUSH" => m.sn < snd_nxt[Peer(m.to)]
          BY <3>1 DEF Truthful
        <4>2. /\ snd_nxt[Peer(m.to)] <= snd_nxt'[Peer(m.to)]
              /\ snd_nxt[Peer(m.to)] \in Nat /\ snd_nxt'[Peer(m.to)] \in Nat
          BY <1>8, <3>1
        <4>. QED
          BY <3>1, <4>1, <4>2
      <3>. QED
        BY <1>5, <1>u, <3>1, <3>2 DEF Truthful
    <2>2. CASE m \in Output(e, n, expired)
      <3>1. /\ m.to = P /\ m.una = rcv_nxt[e]
            /\ m.cmd = "ACK" => m.sn \in acklist[e]
            /\ m.cmd = "PUSH" => /\ m.sn \in DOMAIN Appended(e, n)
                                 /\ m.data = Appended(e, n)[m.sn]
        <4>. HIDE DEF Appended
        <4>. QED
          BY <1>a, <2>2 DEF Output, Seg
      <3>2. m.una <= rcv_nxt'[e]
        BY <1>0, <1>u, <3>1, Numbers
      <3>3. m.cmd = "ACK" => Received(e, m.sn)'
        BY <1>5, <3>1 DEF IInv, ReceiveSide
      <3>4. m.cmd = "PUSH" => m.sn < snd_nxt'[e] /\ m.data = sent'[e][m.sn + 1]
        BY <1>1, <1>4, <1>u, <3>1
      <3>. QED
        BY <1>0, <3>1, <3>2, <3>3, <3>4 DEF Truthful
    <2>. QED
      BY <1>p, <2>1, <2>2
  <1>11. WholeMessages' /\ NothingStranded'
    BY <1>u DEF IInv, WholeMessages, NothingStranded
  <1>. QED
    BY <1>0, <1>6, <1>7, <1>9, <1>10, <1>11 DEF IInv

\* The inductive invariant holds in every reachable state.
THEOREM Inductive == Spec => []IInv
  <1>1. IInv /\ [Next]_vars => IInv'
    <2>1. IInv /\ UNCHANGED vars => IInv'
      BY DEF vars, sndVars, rcvVars, IInv, TypeOK, StreamShape, SendSide,
             ReceiveSide, Received, Truthful, WholeMessages, NothingStranded
    <2>. QED
      BY <2>1, SendInv, RecvInv, InputInv, FlushInv, LoseInv DEF Next
  <1>. QED
    BY InitInv, <1>1, PTL DEF Spec

-----------------------------------------------------------------------------
(* What the inductive invariant says of the properties the runs check. *)

LEMMA InvInOrder == IInv => InOrder
  <1>. SUFFICES ASSUME IInv, NEW e \in Ends
                PROVE  /\ Len(delivered[e]) <= Len(sent[Peer(e)])
                       /\ \A i \in 1..Len(delivered[e]) :
                             delivered[e][i] = sent[Peer(e)][i]
    BY DEF InOrder
  <1>1. PICK P, d, q, len : /\ P = Peer(e) /\ d = Len(delivered[e])
                            /\ q = Len(rcv_queue[e]) /\ len = Len(sent[P])
    OBVIOUS
  <1>2. ReceiveSide(e) /\ SendSide(P) /\ P \in Ends /\ TypeOK
    BY <1>1, PeerEnds DEF IInv
  <1>3. PICK nxt, left : nxt = snd_nxt[P] /\ left = Len(snd_queue[P])
    OBVIOUS
  <1>4. /\ d \in Nat /\ q \in Nat /\ len \in Nat /\ nxt \in Nat /\ left \in Nat
        /\ rcv_nxt[e] \in Nat
    BY <1>1, <1>2, <1>3, Numbers
  <1>5. rcv_nxt[e] <= nxt /\ d + q = rcv_nxt[e] /\ nxt + left = len
    BY <1>1, <1>2, <1>3 DEF ReceiveSide, SendSide
  <1>6. d <= len
    BY <1>4, <1>5
  <1>. QED
    BY <1>1, <1>2, <1>6 DEF ReceiveSide

LEMMA InvBounded == IInv => Bounded
  <1>. SUFFICES ASSUME IInv, NEW e \in Ends
                PROVE  /\ DOMAIN snd_buf[e] \subseteq snd_una[e]..(snd_nxt[e] - 1)
                       /\ snd_nxt[e] <= snd_una[e] + SndWnd
                       /\ Len(rcv_queue[e]) <= RcvWnd
                       /\ DOMAIN rcv_buf[e] \subseteq
                             rcv_nxt[e]..(rcv_nxt[e] + RcvWnd - 1)
    BY DEF Bounded
  <1>1. SendSide(e) /\ ReceiveSide(e) /\ TypeOK
    BY DEF IInv
  <1>2. /\ snd_una[e] \in Nat /\ snd_nxt[e] \in Nat /\ rcv_nxt[e] \in Nat
        /\ RcvWnd \in Nat /\ DOMAIN snd_buf[e] \subseteq Nat
        /\ DOMAIN rcv_buf[e] \subseteq Nat
    BY <1>1, Numbers, ArqAssumption
  <1>3. DOMAIN snd_buf[e] \subseteq snd_una[e]..(snd_nxt[e] - 1)
    BY <1>1, <1>2 DEF SendSide
  <1>4. DOMAIN rcv_buf[e] \subseteq rcv_nxt[e]..(rcv_nxt[e] + RcvWnd - 1)
    BY <1>1, <1>2 DEF ReceiveSide
  <1>. QED
    BY <1>1, <1>3, <1>4 DEF SendSide, ReceiveSide

LEMMA InvNeverWedged == IInv => NeverWedged
  <1>. SUFFICES ASSUME IInv, NEW e \in Ends, Len(rcv_queue[e]) >= RcvWnd
                PROVE  Peekable(rcv_queue[e])
    BY DEF NeverWedged
  <1>1. PICK q, d, P : q = rcv_queue[e] /\ d = Len(delivered[e]) /\ P = Peer(e)
    OBVIOUS
  <1>2. ReceiveSide(e) /\ SendSide(P) /\ StreamShape(P) /\ P \in Ends /\ TypeOK
    BY <1>1, PeerEnds DEF IInv
  <1>3. /\ q \in Seq(Fragment) /\ Len(q) \in Nat /\ d \in Nat /\ 1 \in 1..Len(q)
        /\ Len(q) >= RcvWnd /\ RcvWnd >= WndRcv /\ RcvWnd \in Nat /\ WndRcv \in Nat
    <2>1. q \in Seq(Fragment) /\ Len(q) \in Nat /\ d \in Nat
      BY <1>1, <1>2, Numbers DEF TypeOK
    <2>2. /\ Len(q) >= RcvWnd /\ RcvWnd >= WndRcv /\ RcvWnd \in Nat
          /\ WndRcv \in Nat /\ WndRcv # 0
      BY <1>1, ArqAssumption
    <2>. QED
      BY <2>1, <2>2
  <1>4. q[1] = sent[P][d + 1]
    BY <1>1, <1>2, <1>3 DEF ReceiveSide
  <1>5. d + 1 \in 1..Len(sent[P])
    <2>1. PICK nxt, left, len : /\ nxt = snd_nxt[P] /\ left = Len(snd_queue[P])
                                /\ len = Len(sent[P])
      OBVIOUS
    <2>2. nxt \in Nat /\ left \in Nat /\ len \in Nat /\ rcv_nxt[e] \in Nat
      BY <1>2, <2>1, Numbers
    <2>3. rcv_nxt[e] <= nxt /\ d + Len(q) = rcv_nxt[e] /\ nxt + left = len
      BY <1>1, <1>2, <2>1 DEF ReceiveSide, SendSide
    <2>4. d + 1 \in 1..len
      BY <1>3, <2>2, <2>3
    <2>. QED
      BY <2>1, <2>4
  <1>6. PICK g : g = q[1].frg
    OBVIOUS
  <1>7. g \in Nat /\ g + 1 < WndRcv
    BY <1>2, <1>4, <1>5, <1>6, Numbers DEF StreamShape
  <1>8. Len(q) >= g + 1
    BY <1>3, <1>7
  <1>9. q # <<>>
    BY <1>3
  <1>. QED
    BY <1>1, <1>6, <1>8, <1>9 DEF Peekable

LEMMA InvDiscarded == IInv => DiscardedIsReceived
  BY DEF IInv, SendSide, DiscardedIsReceived

\* Nothing is lost, repeated, reordered or mixed up between the two users,
\* whatever the network loses, repeats and reorders.
THEOREM DeliveredInOrder == Spec => []InOrder
  BY Inductive, InvInOrder, PTL

\* Users obtain whole messages only.
THEOREM DeliveredWhole == Spec => []WholeMessages
  <1>1. IInv => WholeMessages
    BY DEF IInv
  <1>. QED
    BY Inductive, <1>1, PTL

\* An acknowledgement never discards a segment the other end does not have.
THEOREM DiscardsWhatArrived == Spec => []DiscardedIsReceived
  BY Inductive, InvDiscarded, PTL

\* Stale and reordered window advertisements never overrun a buffer.
THEOREM WindowsHold == Spec => []Bounded
  BY Inductive, InvBounded, PTL

\* Whatever the other end sends, the receive side moves on as far as it can.
THEOREM InSequenceMoves == Spec => []NothingStranded
  <1>1. IInv => NothingStranded
    BY DEF IInv
  <1>. QED
    BY Inductive, <1>1, PTL

\* ikcp_send refuses every message that could fill the receive window without
\* being complete.
THEOREM NeverStuckFull == Spec => []NeverWedged
  BY Inductive, InvNeverWedged, PTL

-----------------------------------------------------------------------------
(* The conversation implements the reliable stream. *)

\* ikcp_send hands one message over.
LEMMA SendStep == IInv /\ (\E e \in Senders : Send(e)) => Stream!Next
  <1>. SUFFICES ASSUME IInv, NEW e \in Senders, Send(e)
                PROVE  Stream!Send(e) /\ e \in Stream!Ends
    BY DEF Stream!Next
  <1>1. e \in Ends /\ e \in Stream!Ends /\ TypeOK
    BY ArqAssumption DEF Ends, Stream!Ends, IInv
  <1>2. PICK n \in 1..(MaxSent - Len(sent[e])) :
           /\ n < WndRcv
           /\ sent' = [sent EXCEPT ![e] = @ \o [i \in 1..n |->
                          [msg |-> Len(sent[e]), frg |-> n - i]]]
    BY DEF Send, Accepted
  <1>3. n \in 1..(WndRcv - 1)
    <2>1. Len(sent[e]) \in Nat
      BY <1>1, Numbers
    <2>. QED
      BY <1>2, <2>1, ArqAssumption
  <1>4. sent' = [sent EXCEPT ![e] = @ \o Stream!Message(Len(@), n)]
    BY <1>2 DEF Stream!Message
  <1>5. delivered' = delivered
    BY DEF Send
  <1>. QED
    BY <1>1, <1>3, <1>4, <1>5 DEF Stream!Send

\* ikcp_recv delivers the next message of the other user.
LEMMA RecvStep == IInv /\ (\E e \in Ends : Recv(e)) => Stream!Next
  <1>. SUFFICES ASSUME IInv, NEW e \in Ends, Recv(e)
                PROVE  Stream!Deliver(e) /\ e \in Stream!Ends
    BY DEF Stream!Next
  <1>a. PICK q, d, P, s : /\ q = rcv_queue[e] /\ d = Len(delivered[e])
                          /\ P = Peer(e) /\ s = sent[P]
    OBVIOUS
  <1>1. PICK n \in 1..Len(q) :
           /\ \A i \in 1..(n - 1) : q[i].frg # 0
           /\ delivered' = [delivered EXCEPT ![e] = @ \o SubSeq(q, 1, n)]
    BY <1>a DEF Recv, MergeLen
  <1>2. /\ TypeOK /\ TypeOK' /\ P \in Ends /\ P = Stream!Peer(e) /\ e \in Stream!Ends
        /\ q \in Seq(Fragment) /\ s \in Seq(Fragment) /\ delivered[e] \in Seq(Fragment)
        /\ sent' = sent
    BY <1>a, RecvType, PeerEnds
    DEF IInv, TypeOK, Recv, Peer, Stream!Peer, Ends, Stream!Ends
  <1>3. Len(q) \in Nat /\ Len(s) \in Nat /\ d \in Nat /\ n \in Nat /\ 1 <= n /\ n <= Len(q)
    BY <1>2, <1>a, Numbers
  <1>4. PICK t : t = delivered'[e]
    OBVIOUS
  <1>5. t \in Seq(Fragment) /\ Len(t) = d + n
    <2>1. t = delivered[e] \o SubSeq(q, 1, n)
      BY <1>1, <1>2, <1>4 DEF TypeOK
    <2>2. n \in 0..Len(q)
      BY <1>3
    <2>3. SubSeq(q, 1, n) \in Seq(Fragment) /\ Len(SubSeq(q, 1, n)) = n
      BY <1>2, <2>2, Taken
    <2>. QED
      BY <1>2, <1>a, <2>1, <2>3, ConcatProperties
  <1>6. IInv'
    BY RecvInv
  <1>7. Len(t) <= Len(s) /\ \A i \in 1..Len(t) : t[i] = s[i]
    <2>1. InOrder'
      BY <1>6, InvInOrder, PTL
    <2>. QED
      BY <1>2, <1>4, <1>a, <2>1 DEF InOrder
  <1>8. s[d + n].frg = 0
    <2>1. t # <<>> /\ Len(t) \in 1..Len(t)
      BY <1>3, <1>5
    <2>2. t[Len(t)].frg = 0
      BY <1>4, <1>6, <2>1 DEF IInv, WholeMessages
    <2>. QED
      BY <1>5, <1>7, <2>1, <2>2
  <1>9. \A i \in (d + 1)..(d + n - 1) : s[i].frg # 0
    <2>. TAKE i \in (d + 1)..(d + n - 1)
    <2>1. i - d \in 1..(n - 1) /\ i - d \in 1..Len(q) /\ d + (i - d) = i
      BY <1>3
    <2>2. q[i - d] = s[d + (i - d)]
      BY <1>a, <2>1 DEF IInv, ReceiveSide
    <2>. QED
      BY <1>1, <2>1, <2>2
  <1>10. t = SubSeq(s, 1, d + n)
    <2>1. d + n \in 0..Len(s)
      BY <1>3, <1>5, <1>7
    <2>2. PICK c : c = d + n
      OBVIOUS
    <2>3. /\ SubSeq(s, 1, c) \in Seq(Fragment) /\ Len(SubSeq(s, 1, c)) = c
          /\ \A i \in 1..c : SubSeq(s, 1, c)[i] = s[i]
      BY <1>2, <2>1, <2>2, Taken
    <2>4. Len(t) = c
      BY <1>5, <2>2
    <2>5. \A i \in 1..Len(t) : t[i] = SubSeq(s, 1, c)[i]
      BY <1>7, <2>3, <2>4
    <2>. QED
      BY <1>5, <2>2, <2>3, <2>4, <2>5, SeqEqual
  <1>11. d + n \in (d + 1)..Len(s)
    BY <1>3, <1>5, <1>7
  <1>12. delivered' = [delivered EXCEPT ![e] = SubSeq(s, 1, d + n)]
    BY <1>1, <1>2, <1>4, <1>10 DEF TypeOK
  <1>13. PICK last : last = d + n
    OBVIOUS
  <1>14. /\ last \in (Len(delivered[e]) + 1)..Len(sent[Stream!Peer(e)])
         /\ sent[Stream!Peer(e)][last].frg = 0
         /\ \A i \in (Len(delivered[e]) + 1)..(last - 1) :
               sent[Stream!Peer(e)][i].frg # 0
         /\ delivered' = [delivered EXCEPT
                            ![e] = SubSeq(sent[Stream!Peer(e)], 1, last)]
    BY <1>2, <1>8, <1>9, <1>11, <1>12, <1>13, <1>a
  <1>. QED
    BY <1>2, <1>14 DEF Stream!Deliver

\* Every behaviour of two control blocks on an unreliable network is, to their
\* users, a behaviour of a reliable message stream.
THEOREM ImplementsStream == Spec => StreamSpec
  <1>1. Init => Stream!Init
    BY DEF Init, Stream!Init, Ends, Stream!Ends
  <1>2. IInv /\ [Next]_vars => [Stream!Next]_<<sent, delivered>>
    <2>. SUFFICES ASSUME IInv, [Next]_vars
                  PROVE  [Stream!Next]_<<sent, delivered>>
      OBVIOUS
    <2>1. CASE UNCHANGED vars
      BY <2>1 DEF vars
    <2>2. CASE (\E e \in Ends : Flush(e)) \/ (\E m \in net : Input(m) \/ Lose(m))
      BY <2>2 DEF Flush, Input, Lose
    <2>3. CASE (\E e \in Senders : Send(e)) \/ (\E e \in Ends : Recv(e))
      BY <2>3, SendStep, RecvStep
    <2>. QED
      BY <2>1, <2>2, <2>3 DEF Next
  <1>. QED
    BY Inductive, <1>1, <1>2, PTL DEF Spec, StreamSpec, Stream!Spec, Stream!vars
=============================================================================
