--------------------------- MODULE KcpChannelProofs ---------------------------
(***************************************************************************)
(* Machine-checked facts about KcpChannel, and the LibStream and           *)
(* ProtocolStack it uses: for any windows, headers, bodies, users and      *)
(* numbers of messages, what one end handles is what the other sent.       *)
(*                                                                         *)
(* The loops of the code are recursive functions of the model; what they   *)
(* compute is proved by induction over the rounds (RoundsInduction), with  *)
(* a loop shown to have a value after every round (LoopExists).            *)
(***************************************************************************)
EXTENDS KcpChannel, SequenceTheorems, WellFoundedInduction, TLAPS

-----------------------------------------------------------------------------
(* Induction and loops. *)

\* A set of numbers has a least one.
LEMMA Least ==
    ASSUME NEW T, T \subseteq Nat, T # {}
    PROVE  \E x \in T : \A y \in T : x <= y
  <1>1. PICK x \in T : \A y \in T : <<y, x>> \notin OpToRel(<, Nat)
    BY NatLessThanWellFounded, WFMin
  <1>2. \A y \in T : ~(y < x)
    BY <1>1 DEF OpToRel
  <1>. QED
    BY <1>2

\* What holds at the start and is kept by every round holds after every round: the
\* least round after which it did not would have a round before it.
LEMMA RoundsInduction ==
    ASSUME NEW n \in Nat, NEW P, 0 \in P,
           \A i \in 1..n : i - 1 \in P => i \in P
    PROVE  0..n \subseteq P
  <1>1. SUFFICES ASSUME NEW bad \in 0..n, bad \notin P PROVE FALSE
    OBVIOUS
  <1>. DEFINE T == {i \in 0..n : i \notin P}
  <1>2. PICK x \in T : \A y \in T : x <= y
    <2>1. T \subseteq Nat /\ T # {}
      BY <1>1
    <2>. HIDE DEF T
    <2>. QED
      BY <2>1, Least
  <1>3. x \in 1..n /\ x \notin P
    <2>1. x # 0 /\ x \in 0..n
      OBVIOUS
    <2>. QED
      BY <2>1
  <1>4. x - 1 \in Nat /\ x - 1 < x /\ x - 1 \in 0..n
    BY <1>3
  <1>5. x - 1 \in P
    BY <1>2, <1>4
  <1>. QED
    BY <1>3, <1>5

\* What the n rounds of a loop do to its state, and the states after each of them.
Rounds(n, S) == [1..n -> [S -> S]]

LoopStates(n, S, s0, step, f) ==
    /\ f \in [0..n -> S]
    /\ f[0] = s0
    /\ \A i \in 1..n : f[i] = step[i][f[i - 1]]

\* A loop has a state after every round.
LEMMA LoopExists ==
    ASSUME NEW n \in Nat, NEW S, NEW s0 \in S, NEW step \in Rounds(n, S)
    PROVE  \E f : LoopStates(n, S, s0, step, f)
  <1>0. step \in [1..n -> [S -> S]]
    BY DEF Rounds
  <1>. DEFINE Good(k, f) == /\ f \in [0..n -> S] /\ f[0] = s0
                            /\ \A i \in 1..n : i <= k => f[i] = step[i][f[i - 1]]
              P == {k \in 0..n : \E f : Good(k, f)}
  <1>1. 0 \in P
    <2>1. Good(0, [i \in 0..n |-> s0])
      OBVIOUS
    <2>. QED
      BY <2>1
  <1>2. ASSUME NEW k \in 1..n, k - 1 \in P
        PROVE  k \in P
    <2>1. PICK f : Good(k - 1, f)
      BY <1>2
    <2>. DEFINE g == [f EXCEPT ![k] = step[k][f[k - 1]]]
    <2>2. k \in 0..n /\ k - 1 \in 0..n
      OBVIOUS
    <2>3. step[k][f[k - 1]] \in S
      BY <1>0, <2>1, <2>2
    <2>4. g \in [0..n -> S] /\ g[0] = s0
      BY <2>1, <2>2, <2>3
    <2>5. ASSUME NEW i \in 1..n, i <= k
          PROVE  g[i] = step[i][g[i - 1]]
      <3>1. i - 1 \in 0..n /\ i - 1 # k
        BY <2>5
      <3>2. g[i - 1] = f[i - 1]
        BY <2>1, <3>1
      <3>3. CASE i = k
        BY <2>1, <2>2, <3>2, <3>3
      <3>4. CASE i # k
        <4>1. i <= k - 1 /\ g[i] = f[i]
          BY <2>1, <2>5, <3>4
        <4>. QED
          BY <2>1, <3>2, <4>1
      <3>. QED
        BY <3>3, <3>4
    <2>. QED
      BY <2>2, <2>4, <2>5
  <1>3. 0..n \subseteq P
    <2>. HIDE DEF P
    <2>. QED
      BY <1>1, <1>2, RoundsInduction
  <1>4. PICK f : Good(n, f)
    <2>1. n \in P
      BY <1>3
    <2>. QED
      BY <2>1
  <1>. QED
    BY <1>4 DEF LoopStates

\* A loop stays among the states its rounds keep to.
LEMMA LoopStays ==
    ASSUME NEW n \in Nat, NEW S, NEW s0 \in S, NEW step \in Rounds(n, S), NEW g,
           g[0] = s0, \A i \in 1..n : g[i - 1] \in S => g[i] = step[i][g[i - 1]]
    PROVE  g[n] \in S
  <1>. DEFINE P == {i \in 0..n : g[i] \in S}
  <1>1. 0 \in P
    OBVIOUS
  <1>2. \A i \in 1..n : i - 1 \in P => i \in P
    BY DEF Rounds
  <1>3. 0..n \subseteq P
    <2>. HIDE DEF P
    <2>. QED
      BY <1>1, <1>2, RoundsInduction
  <1>. QED
    BY <1>3

-----------------------------------------------------------------------------
(* Sequences. *)

\* Both parts of a sequence that is cut.
LEMMA Cut ==
    ASSUME NEW S, NEW s \in Seq(S), NEW n \in 0..Len(s)
    PROVE  /\ SubSeq(s, 1, n) \in Seq(S) /\ Len(SubSeq(s, 1, n)) = n
           /\ SubSeq(s, n + 1, Len(s)) \in Seq(S) /\ Len(SubSeq(s, n + 1, Len(s))) = Len(s) - n
           /\ SubSeq(s, 1, n) \o SubSeq(s, n + 1, Len(s)) = s
           /\ \A i \in 1..n : SubSeq(s, 1, n)[i] = s[i]
           /\ \A i \in 1..(Len(s) - n) : SubSeq(s, n + 1, Len(s))[i] = s[n + i]
  <1>1. Len(s) \in Nat /\ n \in Nat
    BY LenProperties
  <1>2. \A i \in 1..Len(s) : s[i] \in S
    BY ElementOfSeq
  <1>3. \A i \in 1..n : s[i] \in S
    BY <1>1, <1>2
  <1>4. \A i \in (n + 1)..Len(s) : s[i] \in S
    BY <1>1, <1>2
  <1>5. /\ SubSeq(s, 1, n) \in Seq(S) /\ Len(SubSeq(s, 1, n)) = n
        /\ \A i \in 1..n : SubSeq(s, 1, n)[i] = s[i]
    <2>1. /\ SubSeq(s, 1, n) \in Seq(S)
          /\ Len(SubSeq(s, 1, n)) = IF 1 <= n THEN n - 1 + 1 ELSE 0
          /\ \A i \in 1..(n - 1 + 1) : SubSeq(s, 1, n)[i] = s[1 + i - 1]
      BY <1>1, <1>3, SubSeqProperties
    <2>. QED
      BY <1>1, <2>1
  <1>6. /\ SubSeq(s, n + 1, Len(s)) \in Seq(S) /\ Len(SubSeq(s, n + 1, Len(s))) = Len(s) - n
        /\ \A i \in 1..(Len(s) - n) : SubSeq(s, n + 1, Len(s))[i] = s[n + i]
    <2>1. n + 1 \in Int /\ Len(s) \in Int
      BY <1>1
    <2>2. /\ SubSeq(s, n + 1, Len(s)) \in Seq(S)
          /\ Len(SubSeq(s, n + 1, Len(s))) = IF n + 1 <= Len(s) THEN Len(s) - (n + 1) + 1 ELSE 0
          /\ \A i \in 1..(Len(s) - (n + 1) + 1) : SubSeq(s, n + 1, Len(s))[i] = s[n + 1 + i - 1]
      BY <1>4, <2>1, SubSeqProperties
    <2>. QED
      BY <1>1, <2>2
  <1>7. SubSeq(s, 1, n) \o SubSeq(s, n + 1, Len(s)) = s
    <2>1. 1 \in 1..(Len(s) + 1) /\ n \in (1 - 1)..Len(s) /\ Len(s) \in n..Len(s)
      BY <1>1
    <2>2. SubSeq(s, 1, n) \o SubSeq(s, n + 1, Len(s)) = SubSeq(s, 1, Len(s))
      BY <2>1, ConcatAdjacentSubSeq
    <2>. QED
      BY <2>2, SubSeqFull
  <1>. QED
    BY <1>5, <1>6, <1>7

\* Two ways to cut one sequence: what is shorter in front is longer behind.
LEMMA Overlap ==
    ASSUME NEW S, NEW a \in Seq(S), NEW b \in Seq(S), NEW c \in Seq(S), NEW d \in Seq(S),
           a \o b = c \o d, Len(c) <= Len(a)
    PROVE  /\ SubSeq(a, 1, Len(c)) = c
           /\ d = SubSeq(a, Len(c) + 1, Len(a)) \o b
  <1>1. Len(a) \in Nat /\ Len(c) \in Nat /\ Len(c) \in 0..Len(a)
    BY LenProperties
  <1>2. SubSeq(a, 1, Len(c)) = c
    <2>1. CASE Len(c) = 0
      <3>1. c = <<>>
        BY <2>1, EmptySeq
      <3>. QED
        BY <2>1, <3>1, SubSeqEmpty
    <2>2. CASE Len(c) # 0
      <3>1. 1 \in 1..Len(a) /\ Len(c) \in 1..Len(a) /\ 1 \in 1..Len(c) /\ Len(c) \in 1..Len(c)
        BY <1>1, <2>2
      <3>2. SubSeq(a \o b, 1, Len(c)) = SubSeq(a, 1, Len(c))
        BY <3>1, SubSeqOfConcat1
      <3>3. SubSeq(c \o d, 1, Len(c)) = SubSeq(c, 1, Len(c))
        BY <3>1, SubSeqOfConcat1
      <3>4. SubSeq(c, 1, Len(c)) = c
        BY SubSeqFull
      <3>. QED
        BY <3>2, <3>3, <3>4
    <2>. QED
      BY <2>1, <2>2
  <1>. DEFINE y == SubSeq(a, Len(c) + 1, Len(a))
  <1>3. y \in Seq(S) /\ c \o y = a
    BY <1>1, <1>2, Cut
  <1>. HIDE DEF y
  <1>4. y \o b \in Seq(S)
    BY <1>3, ConcatProperties
  <1>5. c \o (y \o b) = c \o d
    <2>1. (c \o y) \o b = c \o (y \o b)
      <3>1. y \in Seq(S)
        BY <1>3
      <3>. QED
        BY <3>1, ConcatAssociative, SMTT(60)
    <2>. QED
      BY <1>3, <2>1
  <1>6. y \o b = d
    <2>1. \A r, t, v \in Seq(S) : r \o t = r \o v => t = v
      BY ConcatSimplifications, Zenon
    <2>. QED
      BY <1>4, <1>5, <2>1
  <1>. QED
    BY <1>2, <1>6 DEF y

-----------------------------------------------------------------------------
(* What the streams carry. *)

Msg == [id : Nat, body : Bodies, kind : Kinds]

Cell == [msg : Msg, pos : Nat]

MCell == [cell : Cell, last : BOOLEAN]

\* Sequences of cells under concatenation.
LEMMA CellConcat ==
    \A a, b \in Seq(Cell) : /\ a \o b \in Seq(Cell) /\ Len(a \o b) = Len(a) + Len(b)
                            /\ Len(a) \in Nat /\ Len(b) \in Nat
  BY ConcatProperties, LenProperties

LEMMA CellAssoc ==
    \A a, b, c \in Seq(Cell) : (a \o b) \o c = a \o (b \o c)
  BY ConcatAssociative

\* The same, behind a name that the provers find instances for.
Regrouped(a, b, c) == (a \o b) \o c = a \o (b \o c)

LEMMA CellRegrouped ==
    \A a, b, c \in Seq(Cell) : Regrouped(a, b, c)
  BY CellAssoc DEF Regrouped

LEMMA CellCancel ==
    \A a, b, c \in Seq(Cell) : a \o b = a \o c => b = c
  <1>1. \A S : \A r, t, v \in Seq(S) : r \o t = r \o v => t = v
    BY ConcatSimplifications, Zenon
  <1>. QED
    BY <1>1

LEMMA CellEmpty ==
    /\ <<>> \in Seq(Cell) /\ Len(<<>>) = 0
    /\ \A a \in Seq(Cell) : a \o <<>> = a /\ <<>> \o a = a /\ (Len(a) = 0 => a = <<>>)
  <1>1. <<>> \in Seq(Cell) /\ Len(<<>>) = 0
    BY EmptySeq
  <1>2. \A a \in Seq(Cell) : a \o <<>> = a /\ <<>> \o a = a
    BY ConcatEmptySeq
  <1>3. \A a \in Seq(Cell) : Len(a) = 0 => a = <<>>
    BY EmptySeq
  <1>. QED
    BY <1>1, <1>2, <1>3

LEMMA CellCut ==
    \A s \in Seq(Cell) : \A n \in 0..Len(s) :
       /\ SubSeq(s, 1, n) \in Seq(Cell) /\ Len(SubSeq(s, 1, n)) = n
       /\ SubSeq(s, n + 1, Len(s)) \in Seq(Cell)
       /\ Len(SubSeq(s, n + 1, Len(s))) = Len(s) - n
       /\ SubSeq(s, 1, n) \o SubSeq(s, n + 1, Len(s)) = s
  BY Cut

LEMMA CellOverlap ==
    ASSUME NEW a \in Seq(Cell), NEW b \in Seq(Cell), NEW c \in Seq(Cell), NEW d \in Seq(Cell),
           a \o b = c \o d, Len(c) <= Len(a)
    PROVE  d = SubSeq(a, Len(c) + 1, Len(a)) \o b
  BY Overlap, Zenon

\* A packet is at least one cell, and every cell tells which message it is of.
LEMMA PacketCells ==
    ASSUME NEW m \in Msg
    PROVE  /\ PacketLen(m) \in Nat \ {0}
           /\ Packet(m) \in Seq(Cell) /\ Len(Packet(m)) = PacketLen(m)
           /\ Packet(m)[1].msg = m
           /\ HeaderSize \in 0..PacketLen(m)
  <1>1. m.body \in Nat
    BY ChannelAssumption DEF Msg
  <1>2. PacketLen(m) \in Nat \ {0} /\ HeaderSize \in 0..PacketLen(m)
    BY <1>1, StackAssumption DEF PacketLen
  <1>3. \A i \in 1..PacketLen(m) : [msg |-> m, pos |-> i] \in Cell
    BY <1>2 DEF Cell
  <1>4. Packet(m) \in [1..PacketLen(m) -> Cell]
    BY <1>3 DEF Packet
  <1>5. Packet(m) \in Seq(Cell)
    BY <1>2, <1>4, SeqDef
  <1>6. DOMAIN Packet(m) = 1..Len(Packet(m)) /\ DOMAIN Packet(m) = 1..PacketLen(m)
    BY <1>4, <1>5, LenProperties
  <1>7. Len(Packet(m)) = PacketLen(m)
    BY <1>2, <1>5, <1>6, LenProperties
  <1>8. Packet(m)[1].msg = m
    BY <1>2 DEF Packet
  <1>. QED
    BY <1>2, <1>5, <1>7, <1>8

-----------------------------------------------------------------------------
(* Flat: the packets of a sequence of messages, one after the other. *)

\* f holds what the first i packets make, for every i.
FlatRounds(ms, f) ==
    /\ f \in [0..Len(ms) -> Seq(Cell)]
    /\ f[0] = <<>>
    /\ \A i \in 1..Len(ms) : f[i] = f[i - 1] \o Packet(ms[i])

LEMMA FlatExists ==
    ASSUME NEW ms \in Seq(Msg)
    PROVE  \E f : FlatRounds(ms, f)
  <1>. DEFINE n == Len(ms)
              step == [i \in 1..n |-> [s \in Seq(Cell) |-> s \o Packet(ms[i])]]
  <1>1. n \in Nat /\ \A i \in 1..n : ms[i] \in Msg
    BY LenProperties, ElementOfSeq
  <1>2. \A i \in 1..n : \A s \in Seq(Cell) : s \o Packet(ms[i]) \in Seq(Cell)
    BY <1>1, PacketCells, CellConcat
  <1>3. step \in Rounds(n, Seq(Cell))
    BY <1>2 DEF Rounds
  <1>4. \A i \in 1..n : \A s \in Seq(Cell) : step[i][s] = s \o Packet(ms[i])
    OBVIOUS
  <1>. HIDE DEF step, n
  <1>5. PICK f : LoopStates(n, Seq(Cell), <<>>, step, f)
    BY <1>1, <1>3, CellEmpty, LoopExists
  <1>6. /\ f \in [0..n -> Seq(Cell)] /\ f[0] = <<>>
        /\ \A i \in 1..n : f[i] = step[i][f[i - 1]]
    BY <1>5 DEF LoopStates
  <1>7. ASSUME NEW i \in 1..n
        PROVE  f[i] = f[i - 1] \o Packet(ms[i])
    <2>1. i \in 0..n /\ i # 0 /\ i - 1 \in 0..n
      BY <1>1
    <2>2. f[i - 1] \in Seq(Cell)
      BY <1>6, <2>1
    <2>. QED
      BY <1>4, <1>6, <2>1, <2>2
  <1>. QED
    BY <1>6, <1>7 DEF FlatRounds, n

LEMMA FlatIs ==
    ASSUME NEW ms \in Seq(Msg), NEW f, FlatRounds(ms, f)
    PROVE  Flat(ms) = f[Len(ms)]
  <1>. DEFINE n == Len(ms)
              seqs == [i \in 1..n |-> Packet(ms[i])]
              Loop(g) == g = [i \in 1..Len(seqs) |->
                                IF i = 1 THEN seqs[i] ELSE g[i - 1] \o seqs[i]]
  <1>1. n \in Nat /\ \A i \in 1..n : ms[i] \in Msg
    BY LenProperties, ElementOfSeq
  <1>2. seqs \in Seq(Seq(Cell)) /\ Len(seqs) = n
    <2>1. \A i \in 1..n : Packet(ms[i]) \in Seq(Cell)
      BY <1>1, PacketCells
    <2>2. seqs \in [1..n -> Seq(Cell)]
      BY <2>1
    <2>3. seqs \in Seq(Seq(Cell))
      BY <1>1, <2>2, SeqDef
    <2>4. DOMAIN seqs = 1..Len(seqs) /\ Len(seqs) \in Nat
      BY <2>3, LenProperties
    <2>. QED
      BY <1>1, <2>2, <2>3, <2>4
  <1>3. CASE n = 0
    <2>1. seqs = <<>>
      BY <1>2, <1>3, EmptySeq
    <2>. QED
      BY <1>2, <1>3, <2>1 DEF Flat, FlattenSeq, FlatRounds
  <1>4. CASE n # 0
    <2>. DEFINE h == [i \in 1..n |-> f[i]]
    <2>1. ASSUME NEW i \in 1..n
          PROVE  h[i] = IF i = 1 THEN seqs[i] ELSE h[i - 1] \o seqs[i]
      <3>1. f[i] = f[i - 1] \o Packet(ms[i])
        BY DEF FlatRounds
      <3>2. CASE i = 1
        <4>1. Packet(ms[i]) \in Seq(Cell)
          BY <1>1, PacketCells
        <4>2. f[i - 1] = <<>>
          BY <3>2 DEF FlatRounds
        <4>3. f[i - 1] \o Packet(ms[i]) = Packet(ms[i])
          BY <4>1, <4>2, CellEmpty
        <4>. QED
          BY <3>1, <3>2, <4>3
      <3>3. CASE i # 1
        <4>1. i - 1 \in 1..n
          BY <1>1, <3>3
        <4>. QED
          BY <3>1, <3>3, <4>1
      <3>. QED
        BY <3>2, <3>3
    <2>2. Loop(h)
      BY <1>2, <2>1
    <2>. DEFINE flatten == CHOOSE g : Loop(g)
    <2>3. Loop(flatten)
      <3>. HIDE DEF Loop
      <3>. QED
        BY <2>2
    <2>4. Flat(ms) = flatten[n]
      BY <1>2, <1>4 DEF Flat, FlattenSeq
    <2>5. \A i \in 1..n : flatten[i] = IF i = 1 THEN seqs[i] ELSE flatten[i - 1] \o seqs[i]
      <3>. HIDE DEF flatten
      <3>. QED
        BY <1>2, <2>3
    <2>. DEFINE P == {i \in 0..n : i = 0 \/ flatten[i] = h[i]}
    <2>. HIDE DEF flatten, h
    <2>6. ASSUME NEW i \in 1..n, i - 1 \in P
          PROVE  i \in P
      <3>1. CASE i = 1
        BY <2>1, <2>5, <3>1
      <3>2. CASE i # 1
        BY <2>1, <2>5, <2>6, <3>2
      <3>. QED
        BY <3>1, <3>2
    <2>7. n \in P
      <3>1. 0 \in P
        BY <1>1
      <3>2. \A i \in 1..n : i - 1 \in P => i \in P
        BY <2>6
      <3>3. 0..n \subseteq P
        <4>. HIDE DEF P
        <4>. QED
          BY <1>1, <3>1, <3>2, RoundsInduction
      <3>. HIDE DEF P
      <3>. QED
        BY <1>1, <3>3
    <2>. QED
      BY <1>1, <1>4, <2>4, <2>7 DEF h
  <1>. QED
    BY <1>3, <1>4

LEMMA FlatEmpty ==
    Flat(<<>>) = <<>>
  <1>1. <<>> \in Seq(Msg) /\ Len(<<>>) = 0
    BY EmptySeq
  <1>2. PICK f : FlatRounds(<<>>, f)
    BY <1>1, FlatExists
  <1>. QED
    BY <1>1, <1>2, FlatIs DEF FlatRounds

LEMMA FlatType ==
    ASSUME NEW ms \in Seq(Msg)
    PROVE  Flat(ms) \in Seq(Cell)
  <1>1. PICK f : FlatRounds(ms, f)
    BY FlatExists
  <1>2. Len(ms) \in 0..Len(ms)
    BY LenProperties
  <1>. QED
    BY <1>1, <1>2, FlatIs DEF FlatRounds

\* The packets of one message.
LEMMA FlatOne ==
    ASSUME NEW m \in Msg
    PROVE  Flat(<<m>>) = Packet(m)
  <1>1. <<m>> \in Seq(Msg) /\ Len(<<m>>) = 1 /\ <<m>>[1] = m
    OBVIOUS
  <1>2. PICK f : FlatRounds(<<m>>, f)
    BY <1>1, FlatExists
  <1>3. f[0] = <<>> /\ \A i \in 1..1 : f[i] = f[i - 1] \o Packet(<<m>>[i])
    BY <1>1, <1>2 DEF FlatRounds
  <1>4. f[1] = f[0] \o Packet(<<m>>[1])
    <2>1. 1 \in 1..1 /\ 1 - 1 = 0
      OBVIOUS
    <2>2. f[1] = f[1 - 1] \o Packet(<<m>>[1])
      BY <1>3, <2>1, Zenon
    <2>. QED
      BY <2>1, <2>2, Zenon
  <1>5. Packet(<<m>>[1]) = Packet(m)
    BY <1>1
  <1>6. <<>> \o Packet(m) = Packet(m)
    BY PacketCells, CellEmpty
  <1>7. f[1] = Packet(m)
    BY <1>3, <1>4, <1>5, <1>6
  <1>8. Flat(<<m>>) = f[Len(<<m>>)]
    BY ONLY <1>1, <1>2, FlatIs
  <1>. QED
    BY <1>1, <1>7, <1>8

\* The packets of two sequences, one after the other.
LEMMA FlatConcat ==
    ASSUME NEW a \in Seq(Msg), NEW b \in Seq(Msg)
    PROVE  Flat(a \o b) = Flat(a) \o Flat(b)
  <1>1. PICK f : FlatRounds(a, f)
    BY FlatExists
  <1>2. PICK g : FlatRounds(b, g)
    BY FlatExists
  <1>3. /\ Len(a) \in Nat /\ Len(b) \in Nat
        /\ a \o b \in Seq(Msg) /\ Len(a \o b) = Len(a) + Len(b)
    BY LenProperties, ConcatProperties
  <1>4. \A i \in 1..(Len(a) + Len(b)) : (a \o b)[i] = IF i <= Len(a) THEN a[i] ELSE b[i - Len(a)]
    BY ConcatProperties
  <1>5. /\ Flat(a) \in Seq(Cell) /\ Flat(b) \in Seq(Cell)
        /\ Flat(a) = f[Len(a)] /\ Flat(b) = g[Len(b)]
    BY <1>1, <1>2, FlatIs, FlatType
  <1>. DEFINE n == Len(a) + Len(b)
              h == [i \in 0..n |-> IF i <= Len(a) THEN f[i] ELSE Flat(a) \o g[i - Len(a)]]
  <1>6. h \in [0..n -> Seq(Cell)]
    <2>1. ASSUME NEW i \in 0..n
          PROVE  (IF i <= Len(a) THEN f[i] ELSE Flat(a) \o g[i - Len(a)]) \in Seq(Cell)
      <3>1. CASE i <= Len(a)
        <4>1. i \in 0..Len(a)
          BY <1>3, <3>1
        <4>. QED
          BY <1>1, <3>1, <4>1 DEF FlatRounds
      <3>2. CASE i > Len(a)
        <4>1. i - Len(a) \in 0..Len(b) /\ ~(i <= Len(a))
          BY <1>3, <3>2
        <4>2. g[i - Len(a)] \in Seq(Cell)
          BY <1>2, <4>1 DEF FlatRounds
        <4>. QED
          BY <1>5, <4>1, <4>2, CellConcat
      <3>. QED
        BY <1>3, <3>1, <3>2
    <2>. QED
      BY <2>1
  <1>7. ASSUME NEW i \in 1..n
        PROVE  h[i] = h[i - 1] \o Packet((a \o b)[i])
    <2>1. i \in 0..n /\ i - 1 \in 0..n
      BY <1>3
    <2>2. CASE i <= Len(a)
      <3>1. i \in 1..Len(a) /\ i - 1 <= Len(a)
        BY <1>3, <2>2
      <3>2. f[i] = f[i - 1] \o Packet(a[i])
        BY <1>1, <3>1 DEF FlatRounds
      <3>3. h[i] = f[i] /\ h[i - 1] = f[i - 1]
        BY <2>1, <2>2, <3>1
      <3>. QED
        BY <1>4, <2>2, <3>2, <3>3
    <2>3. CASE i > Len(a)
      <3>1. i - Len(a) \in 1..Len(b) /\ ~(i <= Len(a)) /\ (i - Len(a)) - 1 \in 0..Len(b)
        BY <1>3, <2>3
      <3>2. g[i - Len(a)] = g[(i - Len(a)) - 1] \o Packet(b[i - Len(a)])
        BY <1>2, <3>1 DEF FlatRounds
      <3>3. g[(i - Len(a)) - 1] \in Seq(Cell)
        BY <1>2, <3>1 DEF FlatRounds
      <3>4. Packet(b[i - Len(a)]) \in Seq(Cell)
        <4>1. b[i - Len(a)] \in Msg
          BY <3>1, ElementOfSeq
        <4>. QED
          BY <4>1, PacketCells
      <3>5. h[i] = Flat(a) \o (g[(i - Len(a)) - 1] \o Packet(b[i - Len(a)]))
        BY <2>1, <3>1, <3>2
      <3>6. h[i] = (Flat(a) \o g[(i - Len(a)) - 1]) \o Packet(b[i - Len(a)])
        BY <1>5, <3>3, <3>4, <3>5, CellAssoc
      <3>7. h[i - 1] = Flat(a) \o g[(i - Len(a)) - 1]
        <4>1. CASE i - 1 <= Len(a)
          <5>1. i - 1 = Len(a) /\ (i - Len(a)) - 1 = 0
            BY <1>3, <2>3, <4>1
          <5>2. h[i - 1] = Flat(a)
            BY <1>5, <2>1, <4>1, <5>1
          <5>3. g[(i - Len(a)) - 1] = <<>>
            BY <1>2, <5>1 DEF FlatRounds
          <5>. QED
            BY <1>5, <5>2, <5>3, CellEmpty
        <4>2. CASE ~(i - 1 <= Len(a))
          <5>1. (i - 1) - Len(a) = (i - Len(a)) - 1
            BY <1>3
          <5>. QED
            BY <2>1, <4>2, <5>1
        <4>. QED
          BY <4>1, <4>2
      <3>8. (a \o b)[i] = b[i - Len(a)]
        BY <1>4, <3>1
      <3>. QED
        BY <3>6, <3>7, <3>8
    <2>4. i <= Len(a) \/ i > Len(a)
      BY <1>3
    <2>. HIDE DEF h
    <2>. QED
      BY <2>2, <2>3, <2>4
  <1>8. h[0] = <<>>
    BY <1>1, <1>3 DEF FlatRounds
  <1>9. FlatRounds(a \o b, h)
    <2>. HIDE DEF h
    <2>. QED
      BY <1>3, <1>6, <1>7, <1>8 DEF FlatRounds
  <1>10. Flat(a \o b) = h[n]
    <2>. HIDE DEF h
    <2>. QED
      BY <1>3, <1>9, FlatIs
  <1>11. h[n] = Flat(a) \o Flat(b)
    <2>1. CASE Len(b) = 0
      <3>1. h[n] = Flat(a)
        BY <1>3, <1>5, <2>1
      <3>2. Flat(b) = <<>>
        BY <1>2, <1>5, <2>1 DEF FlatRounds
      <3>. QED
        BY <1>5, <3>1, <3>2, CellEmpty
    <2>2. CASE Len(b) # 0
      <3>1. n \in 0..n /\ ~(n <= Len(a)) /\ n - Len(a) = Len(b)
        BY <1>3, <2>2
      <3>. QED
        BY <1>5, <3>1
    <2>. QED
      BY <2>1, <2>2
  <1>. QED
    BY <1>10, <1>11

\* The first packet, then the others.
LEMMA FlatFirst ==
    ASSUME NEW ms \in Seq(Msg), ms # <<>>
    PROVE  /\ ms[1] \in Msg /\ Tail(ms) \in Seq(Msg)
           /\ ms = <<ms[1]>> \o Tail(ms)
           /\ Flat(ms) = Packet(ms[1]) \o Flat(Tail(ms))
  <1>1. Len(ms) \in Nat \ {0}
    BY EmptySeq
  <1>2. ms[1] \in Msg /\ Tail(ms) \in Seq(Msg)
    BY <1>1, ElementOfSeq, HeadTailProperties
  <1>3. <<ms[1]>> \in Seq(Msg)
    BY <1>2
  <1>4. ms = <<ms[1]>> \o Tail(ms)
    <2>1. 1 \in 1..Len(ms) /\ Len(ms) \in 1..Len(ms)
      BY <1>1
    <2>2. SubSeq(ms, 1, Len(ms)) = <<ms[1]>> \o SubSeq(ms, 1 + 1, Len(ms))
      BY <2>1, SubSeqRecursiveFirst
    <2>3. Tail(ms) = SubSeq(ms, 2, Len(ms))
      BY TailIsSubSeq
    <2>4. SubSeq(ms, 1, Len(ms)) = ms
      BY SubSeqFull
    <2>. QED
      BY <2>2, <2>3, <2>4
  <1>. QED
    BY <1>2, <1>3, <1>4, FlatConcat, FlatOne

-----------------------------------------------------------------------------
(* LibStream: what an operation leaves readable. *)

\* Streams of cells with memory of their own: attach is FALSE.
Own == FALSE

Buffers == [mem : Seq(Cell), rd : Nat, cap : Nat, attach : {Own}]

Streams == {s \in Buffers : s.rd <= Len(s.mem) /\ Len(s.mem) <= s.cap}

LEMMA StreamFields ==
    ASSUME NEW s \in Streams
    PROVE  /\ s \in Buffers
           /\ s.mem \in Seq(Cell) /\ Len(s.mem) \in Nat
           /\ s.rd \in 0..Len(s.mem) /\ s.cap \in Nat /\ Len(s.mem) <= s.cap
           /\ s.attach = FALSE
  <1>1. s \in Buffers /\ s.rd <= Len(s.mem) /\ Len(s.mem) <= s.cap
    BY DEF Streams
  <1>2. s.mem \in Seq(Cell) /\ s.rd \in Nat /\ s.cap \in Nat /\ s.attach = Own
    BY <1>1 DEF Buffers
  <1>3. Len(s.mem) \in Nat
    BY <1>2, LenProperties
  <1>. QED
    BY <1>1, <1>2, <1>3 DEF Own

\* A stream is well-formed, and open to writing, in the sense of LibStream.
LEMMA StreamsAre ==
    ASSUME NEW s \in Streams
    PROVE  IsStream(s) /\ ~s.attach
  BY StreamFields DEF IsStream

LEMMA ReadableOf ==
    ASSUME NEW s \in Streams
    PROVE  /\ Readable(s) \in Seq(Cell)
           /\ Len(Readable(s)) = ReadableBytes(s)
           /\ ReadableBytes(s) \in Nat
           /\ ReadableBytes(s) = 0 <=> Readable(s) = <<>>
  <1>1. s.mem \in Seq(Cell) /\ Len(s.mem) \in Nat /\ s.rd \in 0..Len(s.mem)
    BY StreamFields
  <1>2. /\ Readable(s) \in Seq(Cell) /\ Len(Readable(s)) = ReadableBytes(s)
        /\ ReadableBytes(s) \in Nat
    BY <1>1, CellCut DEF Readable, ReadableBytes
  <1>. QED
    BY <1>2, CellEmpty

\* The constructor, and a buffer that is new.
LEMMA NewStreams ==
    /\ Null \in Streams /\ Readable(Null) = <<>>
    /\ \A n \in Nat : InitBuffer(n) \in Streams /\ Readable(InitBuffer(n)) = <<>>
  <1>1. <<>> \in Seq(Cell) /\ Len(<<>>) = 0 /\ SubSeq(<<>>, 0 + 1, 0) = <<>>
    BY CellEmpty, SubSeqEmpty
  <1>2. ASSUME NEW n \in Nat
        PROVE  InitBuffer(n) \in Streams /\ Readable(InitBuffer(n)) = <<>>
    <2>1. /\ InitBuffer(n) \in Buffers
          /\ InitBuffer(n).mem = <<>> /\ InitBuffer(n).rd = 0 /\ InitBuffer(n).cap = n
      BY <1>1 DEF InitBuffer, Buffers, Own
    <2>. QED
      BY <1>1, <2>1 DEF Streams, Readable
  <1>3. Null = InitBuffer(0)
    BY DEF Null, InitBuffer
  <1>. QED
    BY <1>2, <1>3

\* A buffer that is longer by some cells.
LEMMA Extends ==
    ASSUME NEW s \in Streams, NEW data \in Seq(Cell), NEW t \in Buffers,
           t.mem = s.mem \o data, t.rd = s.rd, Len(s.mem) + Len(data) <= t.cap
    PROVE  t \in Streams /\ Readable(t) = Readable(s) \o data
  <1>1. /\ s.mem \in Seq(Cell) /\ Len(s.mem) \in Nat /\ s.rd \in 0..Len(s.mem)
        /\ Len(data) \in Nat
    BY StreamFields, LenProperties
  <1>2. s.mem \o data \in Seq(Cell) /\ Len(s.mem \o data) = Len(s.mem) + Len(data)
    BY <1>1, CellConcat
  <1>3. t \in Streams
    <2>1. t.rd <= Len(t.mem) /\ Len(t.mem) <= t.cap
      BY <1>1, <1>2
    <2>. QED
      BY <2>1 DEF Streams
  <1>. DEFINE read == SubSeq(s.mem, 1, s.rd)
  <1>4. /\ read \in Seq(Cell) /\ Readable(s) \in Seq(Cell) /\ Len(read) = s.rd
        /\ read \o Readable(s) = s.mem
    BY <1>1, CellCut DEF Readable
  <1>5. Len(read) <= Len(s.mem \o data) /\ s.rd \in 0..Len(s.mem \o data)
    BY <1>1, <1>2, <1>4
  <1>6. /\ SubSeq(s.mem \o data, 1, s.rd) \in Seq(Cell)
        /\ Readable(t) \in Seq(Cell)
        /\ SubSeq(s.mem \o data, 1, s.rd) \o Readable(t) = s.mem \o data
    BY <1>2, <1>5, CellCut DEF Readable
  <1>. HIDE DEF read
  <1>7. s.mem \o data = read \o (Readable(s) \o data)
    <2>1. (read \o Readable(s)) \o data = read \o (Readable(s) \o data)
      BY <1>4, CellAssoc
    <2>. QED
      BY <1>4, <2>1
  <1>8. Readable(s) \o data \in Seq(Cell)
    BY <1>4, CellConcat
  <1>9. SubSeq(s.mem \o data, 1, Len(read)) = read
    <2>1. (s.mem \o data) \o <<>> = read \o (Readable(s) \o data) /\ <<>> \in Seq(Cell)
      BY <1>2, <1>7, CellEmpty
    <2>. QED
      BY <1>2, <1>4, <1>5, <1>8, <2>1, Overlap
  <1>10. read \o Readable(t) = read \o (Readable(s) \o data)
    BY <1>4, <1>6, <1>7, <1>9
  <1>. QED
    BY <1>3, <1>4, <1>6, <1>8, <1>10, CellCancel

\* Write appends.
LEMMA Writes ==
    ASSUME NEW s \in Streams, NEW data \in Seq(Cell)
    PROVE  Write(s, data) \in Streams /\ Readable(Write(s, data)) = Readable(s) \o data
  <1>1. /\ s \in Buffers /\ s.mem \in Seq(Cell) /\ Len(s.mem) \in Nat /\ s.cap \in Nat
        /\ Len(s.mem) <= s.cap /\ s.attach = FALSE /\ Len(data) \in Nat
    BY StreamFields, LenProperties
  <1>2. s.mem \o data \in Seq(Cell)
    BY <1>1, CellConcat
  <1>. DEFINE t == Write(s, data)
  <1>3. /\ t \in Buffers /\ t.mem = s.mem \o data /\ t.rd = s.rd
        /\ Len(s.mem) + Len(data) <= t.cap
    <2>1. CASE Len(data) <= WritableBytes(s)
      <3>1. t = [s EXCEPT !.mem = @ \o data]
        BY <2>1 DEF Write
      <3>2. t \in Buffers /\ t.mem = s.mem \o data /\ t.rd = s.rd /\ t.cap = s.cap
        BY <1>1, <1>2, <3>1 DEF Buffers
      <3>. QED
        BY <1>1, <2>1, <3>2 DEF WritableBytes
    <2>2. CASE ~(Len(data) <= WritableBytes(s))
      <3>. DEFINE more == AtLeast(Len(data), s.cap)
      <3>1. more \in Nat /\ Len(data) <= more /\ s.cap + more \in Nat
        BY <1>1 DEF AtLeast
      <3>2. t = [s EXCEPT !.mem = @ \o data, !.cap = @ + more]
        BY <1>1, <2>2 DEF Write
      <3>. HIDE DEF more
      <3>3. t \in Buffers /\ t.mem = s.mem \o data /\ t.rd = s.rd /\ t.cap = s.cap + more
        BY <1>1, <1>2, <3>1, <3>2 DEF Buffers
      <3>. QED
        BY <1>1, <3>1, <3>3
    <2>. QED
      BY <2>1, <2>2
  <1>. QED
    BY <1>3, Extends

\* Compress drops what has been read.
LEMMA Compresses ==
    ASSUME NEW s \in Streams
    PROVE  Compress(s) \in Streams /\ Readable(Compress(s)) = Readable(s)
  <1>1. /\ Readable(s) \in Seq(Cell) /\ Len(Readable(s)) = ReadableBytes(s)
        /\ ReadableBytes(s) \in Nat
    BY ReadableOf
  <1>2. s \in Buffers /\ s.attach = FALSE
    BY StreamFields
  <1>3. Compress(s) = [s EXCEPT !.mem = Readable(s), !.rd = 0, !.cap = ReadableBytes(s)]
    BY <1>2 DEF Compress
  <1>4. /\ Compress(s) \in Buffers /\ Compress(s).mem = Readable(s) /\ Compress(s).rd = 0
        /\ Compress(s).cap = ReadableBytes(s)
    <2>. DEFINE t == [s EXCEPT !.mem = Readable(s), !.rd = 0, !.cap = ReadableBytes(s)]
    <2>1. t \in Buffers /\ t.mem = Readable(s) /\ t.rd = 0 /\ t.cap = ReadableBytes(s)
      <3>1. s \in Buffers /\ Readable(s) \in Seq(Cell) /\ ReadableBytes(s) \in Nat
        BY <1>1, <1>2
      <3>. QED
        BY ONLY <3>1 DEF Buffers
    <2>2. Compress(s) = t
      BY <1>3
    <2>. HIDE DEF t
    <2>. QED
      BY <2>1, <2>2
  <1>5. SubSeq(Readable(s), 1, Len(Readable(s))) = Readable(s)
    BY <1>1, SubSeqFull
  <1>6. Readable(Compress(s)) = SubSeq(Readable(s), 0 + 1, Len(Readable(s)))
    BY <1>4 DEF Readable
  <1>. QED
    BY <1>1, <1>4, <1>5, <1>6 DEF Streams

\* ShiftReadPos takes the first n cells.
LEMMA Shifts ==
    ASSUME NEW s \in Streams, NEW n \in 0..ReadableBytes(s)
    PROVE  /\ ShiftReadPos(s, n) \in Streams
           /\ Readable(ShiftReadPos(s, n)) = SubSeq(Readable(s), n + 1, ReadableBytes(s))
           /\ ReadableBytes(ShiftReadPos(s, n)) = ReadableBytes(s) - n
           /\ Readable(s) = SubSeq(Readable(s), 1, n) \o Readable(ShiftReadPos(s, n))
  <1>. DEFINE t == ShiftReadPos(s, n)
  <1>1. /\ Readable(s) \in Seq(Cell) /\ Len(Readable(s)) = ReadableBytes(s)
        /\ ReadableBytes(s) \in Nat
    BY ReadableOf
  <1>2. /\ s \in Buffers /\ s.mem \in Seq(Cell) /\ Len(s.mem) \in Nat
        /\ s.rd \in 0..Len(s.mem) /\ s.cap \in Nat /\ Len(s.mem) <= s.cap
        /\ ReadableBytes(s) = Len(s.mem) - s.rd
    BY StreamFields DEF ReadableBytes
  <1>3. AtMost(n, ReadableBytes(s)) = n
    BY <1>1 DEF AtMost
  <1>4. t \in Buffers /\ t.mem = s.mem /\ t.rd = s.rd + n /\ t.cap = s.cap
    <2>1. t = [s EXCEPT !.rd = @ + n]
      BY <1>3 DEF ShiftReadPos
    <2>2. s.rd + n \in Nat
      BY <1>2
    <2>. QED
      BY <1>2, <2>1, <2>2 DEF Buffers
  <1>5. t \in Streams
    BY <1>2, <1>4 DEF Streams
  <1>6. ReadableBytes(t) = ReadableBytes(s) - n
    BY <1>2, <1>4 DEF ReadableBytes
  <1>. HIDE DEF t
  <1>7. Readable(t) = SubSeq(Readable(s), n + 1, ReadableBytes(s))
    <2>1. Readable(t) \in Seq(Cell) /\ Len(Readable(t)) = ReadableBytes(s) - n
      BY <1>5, <1>6, ReadableOf
    <2>2. /\ SubSeq(Readable(s), n + 1, ReadableBytes(s)) \in Seq(Cell)
          /\ Len(SubSeq(Readable(s), n + 1, ReadableBytes(s))) = ReadableBytes(s) - n
          /\ \A i \in 1..(ReadableBytes(s) - n) :
                SubSeq(Readable(s), n + 1, ReadableBytes(s))[i] = Readable(s)[n + i]
      BY <1>1, Cut
    <2>3. \A i \in 1..(Len(s.mem) - s.rd) : Readable(s)[i] = s.mem[s.rd + i]
      BY <1>2, Cut DEF Readable
    <2>4. \A i \in 1..(Len(s.mem) - (s.rd + n)) : Readable(t)[i] = s.mem[(s.rd + n) + i]
      <3>. DEFINE k == s.rd + n
      <3>1. k \in 0..Len(s.mem)
        BY <1>2
      <3>2. Readable(t) = SubSeq(s.mem, k + 1, Len(s.mem))
        BY <1>4 DEF Readable
      <3>. HIDE DEF k
      <3>3. \A i \in 1..(Len(s.mem) - k) : Readable(t)[i] = s.mem[k + i]
        BY <1>2, <3>1, <3>2, Cut
      <3>. QED
        BY <3>3 DEF k
    <2>5. ASSUME NEW i \in 1..(ReadableBytes(s) - n)
          PROVE  Readable(t)[i] = SubSeq(Readable(s), n + 1, ReadableBytes(s))[i]
      <3>1. /\ n + i \in 1..(Len(s.mem) - s.rd) /\ i \in 1..(Len(s.mem) - (s.rd + n))
            /\ s.rd + (n + i) = (s.rd + n) + i
        BY <1>2
      <3>. QED
        BY <2>2, <2>3, <2>4, <3>1
    <2>. QED
      BY <2>1, <2>2, <2>5, SeqEqual
  <1>8. Readable(s) = SubSeq(Readable(s), 1, n) \o Readable(t)
    BY <1>1, <1>7, CellCut
  <1>. QED
    BY <1>5, <1>6, <1>7, <1>8 DEF t

\* Encode appends the packet.
LEMMA Encodes ==
    ASSUME NEW s \in Streams, NEW m \in Msg
    PROVE  Encode(s, m) \in Streams /\ Readable(Encode(s, m)) = Readable(s) \o Packet(m)
  <1>. DEFINE s0 == IF s.cap = 0 THEN AppendCapacity(s, HeaderSize) ELSE s
              header == SubSeq(Packet(m), 1, HeaderSize)
              body == SubSeq(Packet(m), HeaderSize + 1, PacketLen(m))
  <1>1. s0 \in Streams /\ Readable(s0) = Readable(s)
    <2>. DEFINE t == AppendCapacity(s, HeaderSize)
    <2>1. /\ s \in Buffers /\ s.cap \in Nat /\ HeaderSize \in Nat
          /\ s.rd \in 0..Len(s.mem) /\ Len(s.mem) \in Nat /\ Len(s.mem) <= s.cap
      BY StreamFields, StackAssumption
    <2>2. s.cap + HeaderSize \in Nat /\ Len(s.mem) <= s.cap + HeaderSize
      BY <2>1
    <2>3. t \in Buffers /\ t.mem = s.mem /\ t.rd = s.rd /\ t.cap = s.cap + HeaderSize
      BY <2>1, <2>2 DEF AppendCapacity, Buffers
    <2>. HIDE DEF t
    <2>4. t \in Streams /\ Readable(t) = Readable(s)
      BY <2>1, <2>2, <2>3 DEF Streams, Readable
    <2>. QED
      BY <2>4 DEF t
  <1>2. header \in Seq(Cell) /\ body \in Seq(Cell) /\ header \o body = Packet(m)
    BY PacketCells, CellCut
  <1>3. Encode(s, m) = Write(Write(s0, header), body)
    BY DEF Encode
  <1>. HIDE DEF s0, header, body
  <1>4. Write(s0, header) \in Streams /\ Readable(Write(s0, header)) = Readable(s) \o header
    BY <1>1, <1>2, Writes
  <1>5. /\ Encode(s, m) \in Streams
        /\ Readable(Encode(s, m)) = (Readable(s) \o header) \o body
    BY <1>2, <1>3, <1>4, Writes
  <1>6. (Readable(s) \o header) \o body = Readable(s) \o (header \o body)
    BY <1>2, ReadableOf, CellAssoc
  <1>. QED
    BY <1>2, <1>5, <1>6

-----------------------------------------------------------------------------
(* Pieces, and the sending half of a channel. *)

LEMMA CellsOf ==
    ASSUME NEW a \in Seq(MCell)
    PROVE  /\ Cells(a) \in Seq(Cell) /\ Len(Cells(a)) = Len(a) /\ Len(a) \in Nat
           /\ \A i \in 1..Len(a) : Cells(a)[i] = a[i].cell
  <1>1. Len(a) \in Nat /\ \A i \in 1..Len(a) : a[i] \in MCell
    BY LenProperties, ElementOfSeq
  <1>2. \A i \in 1..Len(a) : a[i].cell \in Cell
    BY <1>1 DEF MCell
  <1>3. Cells(a) \in [1..Len(a) -> Cell] /\ \A i \in 1..Len(a) : Cells(a)[i] = a[i].cell
    BY <1>2 DEF Cells
  <1>4. Cells(a) \in Seq(Cell)
    BY <1>1, <1>3, SeqDef
  <1>5. 1..Len(Cells(a)) = 1..Len(a) /\ Len(Cells(a)) \in Nat
    BY <1>3, <1>4, LenProperties
  <1>. QED
    BY <1>1, <1>3, <1>4, <1>5

LEMMA CellsConcat ==
    ASSUME NEW a \in Seq(MCell), NEW b \in Seq(MCell)
    PROVE  a \o b \in Seq(MCell) /\ Cells(a \o b) = Cells(a) \o Cells(b)
  <1>1. /\ a \o b \in Seq(MCell) /\ Len(a \o b) = Len(a) + Len(b)
        /\ \A i \in 1..(Len(a) + Len(b)) :
              (a \o b)[i] = IF i <= Len(a) THEN a[i] ELSE b[i - Len(a)]
    BY ConcatProperties
  <1>2. /\ Cells(a \o b) \in Seq(Cell) /\ Len(Cells(a \o b)) = Len(a) + Len(b)
        /\ \A i \in 1..(Len(a) + Len(b)) : Cells(a \o b)[i] = (a \o b)[i].cell
    BY <1>1, CellsOf
  <1>3. /\ Cells(a) \in Seq(Cell) /\ Len(Cells(a)) = Len(a) /\ Len(a) \in Nat
        /\ \A i \in 1..Len(a) : Cells(a)[i] = a[i].cell
    BY CellsOf
  <1>4. /\ Cells(b) \in Seq(Cell) /\ Len(Cells(b)) = Len(b) /\ Len(b) \in Nat
        /\ \A i \in 1..Len(b) : Cells(b)[i] = b[i].cell
    BY CellsOf
  <1>. DEFINE x == Cells(a)
              y == Cells(b)
  <1>5. /\ x \o y \in Seq(Cell) /\ Len(x \o y) = Len(a) + Len(b)
        /\ \A i \in 1..(Len(a) + Len(b)) :
              (x \o y)[i] = IF i <= Len(a) THEN x[i] ELSE y[i - Len(a)]
    <2>1. x \in Seq(Cell) /\ y \in Seq(Cell) /\ Len(x) = Len(a) /\ Len(y) = Len(b)
      BY <1>3, <1>4
    <2>. HIDE DEF x, y
    <2>2. /\ x \o y \in Seq(Cell) /\ Len(x \o y) = Len(x) + Len(y)
          /\ \A i \in 1..(Len(x) + Len(y)) :
                (x \o y)[i] = IF i <= Len(x) THEN x[i] ELSE y[i - Len(x)]
      BY <2>1, ConcatProperties
    <2>. QED
      BY <2>1, <2>2
  <1>6. ASSUME NEW i \in 1..(Len(a) + Len(b))
        PROVE  Cells(a \o b)[i] = (x \o y)[i]
    <2>1. CASE i <= Len(a)
      <3>1. i \in 1..Len(a)
        BY <1>3, <2>1
      <3>. QED
        BY <1>1, <1>2, <1>3, <1>5, <2>1, <3>1
    <2>2. CASE ~(i <= Len(a))
      <3>1. i - Len(a) \in 1..Len(b)
        BY <1>3, <1>4, <2>2
      <3>. QED
        BY <1>1, <1>2, <1>4, <1>5, <2>2, <3>1
    <2>. QED
      BY <2>1, <2>2
  <1>7. Cells(a \o b) = x \o y
    <2>. HIDE DEF x, y
    <2>. QED
      BY <1>2, <1>5, <1>6, SeqEqual
  <1>. QED
    BY <1>1, <1>7

LEMMA MarkedCells ==
    ASSUME NEW c \in Seq(Cell)
    PROVE  Marked(c) \in Seq(MCell) /\ Cells(Marked(c)) = c
  <1>1. Len(c) \in Nat /\ \A i \in 1..Len(c) : c[i] \in Cell
    BY LenProperties, ElementOfSeq
  <1>2. \A i \in 1..Len(c) : [cell |-> c[i], last |-> i = Len(c)] \in MCell
    BY <1>1 DEF MCell
  <1>3. Marked(c) \in [1..Len(c) -> MCell]
    BY <1>2 DEF Marked
  <1>4. \A i \in 1..Len(c) : Marked(c)[i].cell = c[i]
    BY DEF Marked
  <1>5. Marked(c) \in Seq(MCell)
    BY <1>1, <1>3, SeqDef
  <1>6. 1..Len(Marked(c)) = 1..Len(c) /\ Len(Marked(c)) \in Nat
    BY <1>3, <1>5, LenProperties
  <1>7. Len(Marked(c)) = Len(c)
    BY <1>1, <1>6
  <1>8. /\ Cells(Marked(c)) \in Seq(Cell) /\ Len(Cells(Marked(c))) = Len(c)
        /\ \A i \in 1..Len(c) : Cells(Marked(c))[i] = c[i]
    BY <1>4, <1>5, <1>7, CellsOf
  <1>9. Cells(Marked(c)) = c
    <2>. HIDE DEF Cells
    <2>. QED
      BY <1>8, SeqEqual
  <1>. QED
    BY <1>5, <1>9

\* The sending half of a channel.
Outs == [waiting : Streams, write : BOOLEAN, flying : Seq(MCell), unacked : Nat]

\* What it carries: the pieces in flight, then what waits.
Carried(o) == Cells(o.flying) \o Readable(o.waiting)

\* The states of _SendStream: bytes move from the stream to ikcp_send, in order.
Sending(o, stream) ==
    {r \in [out : Outs, stream : Streams] :
        /\ r.out.waiting = o.waiting
        /\ r.out.write = o.write
        /\ Cells(r.out.flying) \o Readable(r.stream) = Cells(o.flying) \o Readable(stream)}

SendRound(was) ==
    LET cells == Readable(was.stream)
        piece == SubSeq(cells, 1, AtMost(MaxSendLen, Len(cells)))
    IN  IF cells = <<>> \/ WaitSnd(was.out) >= 2 * SndWnd THEN was
        ELSE [out |-> IF KcpTakes(Len(piece))
                      THEN [was.out EXCEPT !.flying = @ \o Marked(piece)]
                      ELSE was.out,
              stream |-> ShiftReadPos(was.stream, Len(piece))]

\* One piece: ikcp_send takes it, because it is shorter than IKCP_WND_RCV segments.
LEMMA SendRoundKeeps ==
    ASSUME NEW o \in Outs, NEW stream \in Streams, NEW was \in Sending(o, stream)
    PROVE  SendRound(was) \in Sending(o, stream)
  <1>. DEFINE cells == Readable(was.stream)
              piece == SubSeq(cells, 1, AtMost(MaxSendLen, Len(cells)))
              sent2 == [was.out EXCEPT !.flying = @ \o Marked(piece)]
              stream2 == ShiftReadPos(was.stream, Len(piece))
  <1>1. /\ was \in [out : Outs, stream : Streams] /\ was.out \in Outs /\ was.stream \in Streams
        /\ was.out.waiting = o.waiting /\ was.out.write = o.write
        /\ Cells(was.out.flying) \o cells = Cells(o.flying) \o Readable(stream)
    BY DEF Sending
  <1>2. cells \in Seq(Cell) /\ Len(cells) = ReadableBytes(was.stream) /\ Len(cells) \in Nat
    BY <1>1, ReadableOf
  <1>3. CASE cells = <<>> \/ WaitSnd(was.out) >= 2 * SndWnd
    BY <1>3 DEF SendRound
  <1>4. CASE ~(cells = <<>> \/ WaitSnd(was.out) >= 2 * SndWnd)
    <2>1. /\ AtMost(MaxSendLen, Len(cells)) \in 0..Len(cells)
          /\ AtMost(MaxSendLen, Len(cells)) < WndRcv
      BY <1>2, ChannelAssumption DEF AtMost, MaxSendLen
    <2>2. piece \in Seq(Cell) /\ Len(piece) = AtMost(MaxSendLen, Len(cells))
      <3>. HIDE DEF cells
      <3>. QED
        BY <1>2, <2>1, CellCut
    <2>3. KcpTakes(Len(piece))
      BY <2>1, <2>2 DEF KcpTakes
    <2>4. SendRound(was) = [out |-> sent2, stream |-> stream2]
      BY <1>4, <2>3 DEF SendRound
    <2>5. /\ stream2 \in Streams
          /\ cells = SubSeq(cells, 1, Len(piece)) \o Readable(stream2)
      <3>1. Len(piece) \in 0..ReadableBytes(was.stream)
        BY <1>2, <2>1, <2>2
      <3>. HIDE DEF piece
      <3>. QED
        BY <1>1, <3>1, Shifts
    <2>6. SubSeq(cells, 1, Len(piece)) = piece
      <3>1. Len(piece) = AtMost(MaxSendLen, Len(cells))
        BY <2>2
      <3>. QED
        BY ONLY <3>1
    <2>. HIDE DEF cells, piece, stream2
    <2>7. Marked(piece) \in Seq(MCell) /\ Cells(Marked(piece)) = piece
      BY <2>2, MarkedCells
    <2>8. was.out.flying \in Seq(MCell)
      BY <1>1 DEF Outs
    <2>9. /\ was.out.flying \o Marked(piece) \in Seq(MCell)
          /\ Cells(was.out.flying \o Marked(piece)) = Cells(was.out.flying) \o piece
      BY <2>7, <2>8, CellsConcat
    <2>10. /\ sent2 \in Outs /\ sent2.waiting = o.waiting /\ sent2.write = o.write
           /\ sent2.flying = was.out.flying \o Marked(piece)
      BY <1>1, <2>9 DEF Outs
    <2>. HIDE DEF sent2
    <2>11. Readable(stream2) \in Seq(Cell) /\ Cells(was.out.flying) \in Seq(Cell)
      BY <2>5, <2>8, ReadableOf, CellsOf
    <2>12. (Cells(was.out.flying) \o piece) \o Readable(stream2)
              = Cells(was.out.flying) \o cells
      <3>1. (Cells(was.out.flying) \o piece) \o Readable(stream2)
              = Cells(was.out.flying) \o (piece \o Readable(stream2))
        BY <2>2, <2>11, CellAssoc
      <3>. QED
        BY <2>5, <2>6, <3>1
    <2>13. Cells(sent2.flying) \o Readable(stream2) = Cells(o.flying) \o Readable(stream)
      BY <1>1, <2>9, <2>10, <2>12
    <2>14. /\ SendRound(was) \in [out : Outs, stream : Streams]
           /\ SendRound(was).out = sent2 /\ SendRound(was).stream = stream2
      BY <2>4, <2>5, <2>10
    <2>. QED
      BY <2>10, <2>13, <2>14 DEF Sending
  <1>. QED
    BY <1>3, <1>4

\* All of _SendStream.
LEMMA SendStreamKeeps ==
    ASSUME NEW o \in Outs, NEW stream \in Streams
    PROVE  SendStream(o, stream) \in Sending(o, stream)
  <1>. DEFINE n == ReadableBytes(stream)
              s0 == [out |-> o, stream |-> stream]
              S == Sending(o, stream)
              step == [i \in 1..n |-> [was \in S |-> SendRound(was)]]
              Loop(g) == g = [i \in 0..n |-> IF i = 0 THEN s0 ELSE SendRound(g[i - 1])]
              after == CHOOSE g : Loop(g)
  <1>1. n \in Nat
    BY ReadableOf
  <1>2. s0 \in S
    BY DEF Sending
  <1>3. step \in Rounds(n, S)
    BY SendRoundKeeps DEF Rounds
  <1>4. \A i \in 1..n : \A was \in S : step[i][was] = SendRound(was)
    OBVIOUS
  <1>5. SendStream(o, stream) = after[n]
    BY DEF SendStream, SendRound
  <1>6. \E g : Loop(g)
    <2>. HIDE DEF S, step, s0, n
    <2>1. PICK f : LoopStates(n, S, s0, step, f)
      BY <1>1, <1>2, <1>3, LoopExists
    <2>2. f \in [0..n -> S] /\ f[0] = s0 /\ \A i \in 1..n : f[i] = step[i][f[i - 1]]
      BY <2>1 DEF LoopStates
    <2>3. ASSUME NEW i \in 0..n
          PROVE  f[i] = IF i = 0 THEN s0 ELSE SendRound(f[i - 1])
      <3>1. CASE i # 0
        <4>1. i \in 1..n /\ i - 1 \in 0..n
          BY <1>1, <3>1
        <4>2. f[i - 1] \in S
          BY <2>2, <4>1
        <4>. QED
          BY <1>4, <2>2, <3>1, <4>1, <4>2
      <3>. QED
        BY <2>2, <3>1
    <2>4. Loop(f)
      BY <2>2, <2>3
    <2>. QED
      BY <2>4
  <1>7. Loop(after)
    <2>. HIDE DEF Loop
    <2>. QED
      BY <1>6
  <1>. HIDE DEF after
  <1>8. \A i \in 0..n : after[i] = IF i = 0 THEN s0 ELSE SendRound(after[i - 1])
    BY <1>7
  <1>9. after[n] \in S
    <2>. HIDE DEF S, step, s0, n
    <2>1. after[0] = s0
      BY <1>1, <1>8
    <2>2. ASSUME NEW i \in 1..n, after[i - 1] \in S
          PROVE  after[i] = step[i][after[i - 1]]
      <3>1. i \in 0..n /\ i # 0
        BY <1>1
      <3>. QED
        BY <1>4, <1>8, <2>2, <3>1
    <2>. QED
      BY <1>1, <1>2, <1>3, <2>1, <2>2, LoopStays
  <1>. QED
    BY <1>5, <1>9

LEMMA OutFields ==
    ASSUME NEW o \in Outs
    PROVE  /\ o.waiting \in Streams /\ o.write \in BOOLEAN /\ o.flying \in Seq(MCell)
           /\ o.unacked \in Nat
           /\ Cells(o.flying) \in Seq(Cell) /\ Readable(o.waiting) \in Seq(Cell)
           /\ Carried(o) \in Seq(Cell)
  <1>1. /\ o.waiting \in Streams /\ o.write \in BOOLEAN /\ o.flying \in Seq(MCell)
        /\ o.unacked \in Nat
    BY DEF Outs
  <1>2. Cells(o.flying) \in Seq(Cell) /\ Readable(o.waiting) \in Seq(Cell)
    BY <1>1, CellsOf, ReadableOf
  <1>. QED
    BY <1>1, <1>2, CellConcat DEF Carried

\* What the WRITE flag is for: whatever waits gets its turn.
Flagged(o) == ReadableBytes(o.waiting) # 0 => o.write

\* What ikcp_send did not take waits, if nothing else does.
LEMMA KeepBackKeeps ==
    ASSUME NEW o \in Outs, NEW stream \in Streams, Readable(o.waiting) = <<>>
    PROVE  /\ KeepBack(o, stream) \in Outs
           /\ Carried(KeepBack(o, stream)) = Cells(o.flying) \o Readable(stream)
           /\ Flagged(KeepBack(o, stream))
  <1>. DEFINE buffer == IF o.waiting.cap = 0
                        THEN InitBuffer(ReadableBytes(stream)) ELSE o.waiting
              kept == IF ReadableBytes(stream) = 0 THEN o.waiting
                      ELSE Write(buffer, Readable(stream))
              flag == o.write \/ ReadableBytes(kept) # 0
  <1>1. buffer \in Streams /\ Readable(buffer) = <<>>
    BY OutFields, ReadableOf, NewStreams
  <1>2. kept \in Streams /\ Readable(kept) = Readable(stream)
    <2>1. CASE ReadableBytes(stream) = 0
      BY <2>1, OutFields, ReadableOf
    <2>2. CASE ReadableBytes(stream) # 0
      <3>. HIDE DEF buffer
      <3>1. /\ Write(buffer, Readable(stream)) \in Streams
            /\ Readable(Write(buffer, Readable(stream))) = <<>> \o Readable(stream)
        BY <1>1, ReadableOf, Writes
      <3>. QED
        BY <2>2, <3>1, ReadableOf, CellEmpty
    <2>. QED
      BY <2>1, <2>2
  <1>3. KeepBack(o, stream) = [o EXCEPT !.waiting = Compress(kept), !.write = flag]
    BY DEF KeepBack
  <1>4. flag \in BOOLEAN
    OBVIOUS
  <1>. HIDE DEF kept
  <1>5. /\ Compress(kept) \in Streams /\ Readable(Compress(kept)) = Readable(kept)
        /\ ReadableBytes(Compress(kept)) = ReadableBytes(kept)
    BY <1>2, Compresses, ReadableOf
  <1>6. ReadableBytes(kept) # 0 => flag
    OBVIOUS
  <1>. DEFINE w == Compress(kept)
  <1>. HIDE DEF flag, w
  <1>7. /\ KeepBack(o, stream) \in Outs
        /\ KeepBack(o, stream).waiting = w /\ KeepBack(o, stream).write = flag
        /\ KeepBack(o, stream).flying = o.flying
    <2>1. o \in Outs /\ w \in Streams /\ flag \in BOOLEAN
      BY <1>4, <1>5 DEF w
    <2>2. KeepBack(o, stream) = [o EXCEPT !.waiting = w, !.write = flag]
      BY <1>3 DEF w
    <2>. QED
      BY ONLY <2>1, <2>2 DEF Outs
  <1>. QED
    BY <1>2, <1>5, <1>6, <1>7 DEF Carried, Flagged, w

\* KcpChannel::Send: the new packet comes after everything the channel carries.
LEMMA SendToKeeps ==
    ASSUME NEW o \in Outs, NEW m \in Msg
    PROVE  /\ SendTo(o, m) \in Outs
           /\ Carried(SendTo(o, m)) = Carried(o) \o Packet(m)
           /\ Flagged(SendTo(o, m))
  <1>. DEFINE older == IF ReadableBytes(o.waiting) = 0 THEN Null
                       ELSE Write(InitBuffer(ReadableBytes(o.waiting)), Readable(o.waiting))
              waiting == IF ReadableBytes(o.waiting) = 0 THEN o.waiting ELSE Destroy(o.waiting)
              o1 == [o EXCEPT !.waiting = waiting]
              s1 == Encode(older, m)
              r == SendStream(o1, s1)
  <1>1. /\ o.waiting \in Streams /\ Readable(o.waiting) \in Seq(Cell)
        /\ ReadableBytes(o.waiting) \in Nat
        /\ ReadableBytes(o.waiting) = 0 <=> Readable(o.waiting) = <<>>
    BY OutFields, ReadableOf
  <1>2. older \in Streams /\ Readable(older) = Readable(o.waiting)
    <2>1. CASE ReadableBytes(o.waiting) = 0
      BY <1>1, <2>1, NewStreams
    <2>2. CASE ReadableBytes(o.waiting) # 0
      <3>. DEFINE new == InitBuffer(ReadableBytes(o.waiting))
      <3>1. new \in Streams /\ Readable(new) = <<>>
        BY <1>1, NewStreams
      <3>. HIDE DEF new
      <3>2. /\ Write(new, Readable(o.waiting)) \in Streams
            /\ Readable(Write(new, Readable(o.waiting))) = <<>> \o Readable(o.waiting)
        BY <1>1, <3>1, Writes
      <3>. QED
        BY <1>1, <2>2, <3>2, CellEmpty DEF new
    <2>. QED
      BY <2>1, <2>2
  <1>3. waiting \in Streams /\ Readable(waiting) = <<>>
    BY <1>1, NewStreams DEF Destroy
  <1>4. SendTo(o, m) = KeepBack(r.out, r.stream)
    BY DEF SendTo
  <1>. HIDE DEF older, waiting
  <1>5. o1 \in Outs /\ o1.waiting = waiting /\ o1.flying = o.flying
    BY <1>3 DEF Outs
  <1>6. s1 \in Streams /\ Readable(s1) = Readable(o.waiting) \o Packet(m)
    BY <1>2, Encodes
  <1>. HIDE DEF o1, s1
  <1>7. r \in Sending(o1, s1)
    BY <1>5, <1>6, SendStreamKeeps
  <1>. HIDE DEF r
  <1>8. /\ r.out \in Outs /\ r.stream \in Streams /\ r.out.waiting = waiting
        /\ Cells(r.out.flying) \o Readable(r.stream)
               = Cells(o.flying) \o (Readable(o.waiting) \o Packet(m))
    BY <1>5, <1>6, <1>7 DEF Sending
  <1>9. Cells(o.flying) \o (Readable(o.waiting) \o Packet(m)) = Carried(o) \o Packet(m)
    <2>1. /\ Cells(o.flying) \in Seq(Cell) /\ Readable(o.waiting) \in Seq(Cell)
          /\ Packet(m) \in Seq(Cell)
      BY OutFields, PacketCells
    <2>2. Regrouped(Cells(o.flying), Readable(o.waiting), Packet(m))
      BY <2>1, CellRegrouped
    <2>. QED
      BY <2>2 DEF Carried, Regrouped
  <1>. QED
    BY <1>3, <1>4, <1>8, <1>9, KeepBackKeeps

\* _ContinueSend sends what waits, and nothing else.
LEMMA ContinueSendKeeps ==
    ASSUME NEW o \in Outs
    PROVE  /\ ContinueSend(o) \in Outs
           /\ Carried(ContinueSend(o)) = Carried(o)
           /\ Flagged(ContinueSend(o))
  <1>. DEFINE r == SendStream(o, o.waiting)
              flag == r.out.write \/ ReadableBytes(r.stream) # 0
              w == Compress(r.stream)
  <1>1. r \in Sending(o, o.waiting)
    BY OutFields, SendStreamKeeps
  <1>2. ContinueSend(o) = [r.out EXCEPT !.waiting = w, !.write = flag]
    BY DEF ContinueSend
  <1>. HIDE DEF r
  <1>3. /\ r.out \in Outs /\ r.stream \in Streams
        /\ Cells(r.out.flying) \o Readable(r.stream) = Carried(o)
    BY <1>1 DEF Sending, Carried
  <1>4. /\ w \in Streams /\ Readable(w) = Readable(r.stream)
        /\ ReadableBytes(w) = ReadableBytes(r.stream)
    BY <1>3, Compresses, ReadableOf
  <1>5. flag \in BOOLEAN /\ (ReadableBytes(r.stream) # 0 => flag)
    OBVIOUS
  <1>. HIDE DEF flag, w
  <1>6. /\ ContinueSend(o) \in Outs /\ ContinueSend(o).waiting = w
        /\ ContinueSend(o).write = flag /\ ContinueSend(o).flying = r.out.flying
    <2>. DEFINE o2 == r.out
    <2>1. o2 \in Outs /\ w \in Streams /\ flag \in BOOLEAN
      BY <1>3, <1>4, <1>5
    <2>2. ContinueSend(o) = [o2 EXCEPT !.waiting = w, !.write = flag]
      BY <1>2
    <2>. HIDE DEF o2
    <2>3. /\ ContinueSend(o) \in Outs /\ ContinueSend(o).waiting = w
          /\ ContinueSend(o).write = flag /\ ContinueSend(o).flying = o2.flying
      BY ONLY <2>1, <2>2 DEF Outs
    <2>. QED
      BY <2>3 DEF o2
  <1>. QED
    BY <1>3, <1>4, <1>5, <1>6 DEF Carried, Flagged

-----------------------------------------------------------------------------
(* The receiving half of a channel. *)

\* ikcp_recv appends a piece to _leftMsgStream.
LEMMA ReceivedKeeps ==
    ASSUME NEW s \in Streams, NEW piece \in Seq(MCell)
    PROVE  /\ Received(s, piece) \in Streams
           /\ Readable(Received(s, piece)) = Readable(s) \o Cells(piece)
  <1>. DEFINE n == Len(piece)
              data == Cells(piece)
  <1>1. data \in Seq(Cell) /\ Len(data) = n /\ n \in Nat
    BY CellsOf
  <1>2. CASE piece = <<>>
    <2>1. data = <<>>
      BY <1>1, <1>2, EmptySeq, CellEmpty
    <2>. QED
      BY <1>2, <2>1, ReadableOf, CellEmpty DEF Received
  <1>3. CASE piece # <<>>
    <2>. DEFINE room == Room(s, n)
    <2>1. /\ s \in Buffers /\ s.mem \in Seq(Cell) /\ Len(s.mem) \in Nat
          /\ s.rd \in 0..Len(s.mem) /\ s.cap \in Nat /\ Len(s.mem) <= s.cap
      BY StreamFields
    <2>2. room \in Streams /\ Readable(room) = Readable(s) /\ n <= WritableBytes(room)
      <3>1. CASE s.cap = 0
        <4>1. Len(s.mem) = 0 /\ ReadableBytes(s) = 0
          BY <2>1, <3>1 DEF ReadableBytes
        <4>2. room = InitBuffer(n) /\ Readable(s) = <<>>
          BY <3>1, <4>1, ReadableOf DEF Room
        <4>3. WritableBytes(InitBuffer(n)) = n
          BY <1>1, EmptySeq DEF WritableBytes, InitBuffer
        <4>. QED
          BY <1>1, <4>2, <4>3, NewStreams
      <3>2. CASE s.cap # 0 /\ WritableBytes(s) < n
        <4>. DEFINE more == n - WritableBytes(s)
                    t == AppendCapacity(s, more)
        <4>1. more \in Nat /\ s.cap + more \in Nat /\ s.cap + more = n + Len(s.mem)
          <5>1. WritableBytes(s) = s.cap - Len(s.mem)
            BY DEF WritableBytes
          <5>. HIDE DEF n
          <5>. QED
            BY <1>1, <2>1, <3>2, <5>1
        <4>2. room = t
          BY <3>2 DEF Room
        <4>. HIDE DEF more
        <4>3. t \in Buffers /\ t.mem = s.mem /\ t.rd = s.rd /\ t.cap = s.cap + more
          BY <2>1, <4>1 DEF AppendCapacity, Buffers
        <4>. HIDE DEF t, room
        <4>. QED
          BY <1>1, <2>1, <4>1, <4>2, <4>3 DEF Streams, Readable, WritableBytes
      <3>3. CASE s.cap # 0 /\ ~(WritableBytes(s) < n)
        <4>1. room = s /\ n <= WritableBytes(s)
          BY <1>1, <2>1, <3>3 DEF Room, WritableBytes
        <4>. QED
          BY <4>1
      <3>. QED
        BY <3>1, <3>2, <3>3
    <2>3. Received(s, piece) = ShiftWritePos(room, data)
      BY <1>3 DEF Received
    <2>. HIDE DEF room, data
    <2>. DEFINE t == ShiftWritePos(room, data)
    <2>4. /\ room \in Buffers /\ room.mem \in Seq(Cell) /\ Len(room.mem) \in Nat
          /\ room.cap \in Nat
      BY <2>2, StreamFields
    <2>5. SubSeq(data, 1, AtMost(Len(data), WritableBytes(room))) = data
      <3>1. AtMost(Len(data), WritableBytes(room)) = Len(data)
        BY <1>1, <2>2, <2>4 DEF AtMost, WritableBytes
      <3>. QED
        BY <1>1, <3>1, SubSeqFull
    <2>6. t = [room EXCEPT !.mem = @ \o data]
      BY <2>5 DEF ShiftWritePos
    <2>7. room.mem \o data \in Seq(Cell)
      BY <1>1, <2>4, CellConcat
    <2>8. t \in Buffers /\ t.mem = room.mem \o data /\ t.rd = room.rd /\ t.cap = room.cap
      BY <2>4, <2>6, <2>7 DEF Buffers
    <2>9. Len(room.mem) + Len(data) <= t.cap
      BY <1>1, <2>2, <2>4, <2>8 DEF WritableBytes
    <2>. HIDE DEF t
    <2>10. t \in Streams /\ Readable(t) = Readable(room) \o data
      BY <1>1, <2>2, <2>8, <2>9, Extends
    <2>. QED
      BY <2>2, <2>3, <2>10 DEF t, data
  <1>. QED
    BY <1>2, <1>3

\* The first piece, and the rest.
LEMMA FirstPieceCuts ==
    ASSUME NEW a \in Seq(MCell)
    PROVE  LET piece == FirstPiece(a)
               rest == SubSeq(a, Len(piece) + 1, Len(a))
           IN  piece \in Seq(MCell) /\ rest \in Seq(MCell) /\ piece \o rest = a
  <1>. DEFINE ends == {i \in 1..Len(a) : a[i].last}
              piece == FirstPiece(a)
              rest == SubSeq(a, Len(piece) + 1, Len(a))
  <1>1. Len(a) \in Nat
    BY LenProperties
  <1>2. \E n \in 0..Len(a) : piece = SubSeq(a, 1, n)
    <2>1. CASE ends = {}
      <3>1. piece = <<>>
        BY <2>1 DEF FirstPiece
      <3>2. piece = SubSeq(a, 1, 0)
        BY <3>1, SubSeqEmpty
      <3>. QED
        BY <1>1, <3>2
    <2>2. CASE ends # {}
      <3>. DEFINE n == CHOOSE i \in ends : \A j \in ends : i <= j
      <3>1. piece = SubSeq(a, 1, n)
        BY <2>2 DEF FirstPiece
      <3>2. ends \subseteq Nat
        OBVIOUS
      <3>3. n \in ends
        <4>. HIDE DEF ends
        <4>1. \E i \in ends : \A j \in ends : i <= j
          BY <2>2, <3>2, Least
        <4>. QED
          BY <4>1
      <3>. HIDE DEF n
      <3>4. n \in 0..Len(a)
        BY <1>1, <3>3
      <3>. QED
        BY <3>1, <3>4
    <2>. QED
      BY <2>1, <2>2
  <1>3. PICK n \in 0..Len(a) : piece = SubSeq(a, 1, n)
    BY <1>2
  <1>. HIDE DEF piece
  <1>4. piece \in Seq(MCell) /\ Len(piece) = n
    BY <1>3, Cut
  <1>5. /\ SubSeq(a, n + 1, Len(a)) \in Seq(MCell)
        /\ SubSeq(a, 1, n) \o SubSeq(a, n + 1, Len(a)) = a
    BY Cut
  <1>. QED
    BY <1>3, <1>4, <1>5 DEF piece

\* The states of the loop of Decode, if the stream and then t hold the packets of
\* the messages more: the packets so far are the first of them, and the stream and
\* then t hold the others.
Decoding(more, t) ==
    {r \in [packets : Seq(Msg), stream : Streams] :
        \E more2 \in Seq(Msg) : /\ more = r.packets \o more2
                                /\ Flat(more2) = Readable(r.stream) \o t}

DecodeRound(was) ==
    LET cells == Readable(was.stream)
    IN  IF Complete(cells)
        THEN [packets |-> Append(was.packets, cells[1].msg),
              stream |-> ShiftReadPos(was.stream, PacketLen(cells[1].msg))]
        ELSE was

\* One packet: the reader stands where a packet begins, and takes all of it.
LEMMA DecodeRoundKeeps ==
    ASSUME NEW more \in Seq(Msg), NEW t \in Seq(Cell), NEW was \in Decoding(more, t)
    PROVE  DecodeRound(was) \in Decoding(more, t)
  <1>. DEFINE cells == Readable(was.stream)
  <1>1. /\ was \in [packets : Seq(Msg), stream : Streams]
        /\ was.packets \in Seq(Msg) /\ was.stream \in Streams
    BY DEF Decoding
  <1>2. PICK rest \in Seq(Msg) : more = was.packets \o rest /\ Flat(rest) = cells \o t
    BY DEF Decoding
  <1>3. cells \in Seq(Cell) /\ Len(cells) = ReadableBytes(was.stream) /\ Len(cells) \in Nat
    BY <1>1, ReadableOf
  <1>4. CASE ~Complete(cells)
    BY <1>4 DEF DecodeRound
  <1>5. CASE Complete(cells)
    <2>1. Len(cells) # 0 /\ Len(cells) >= PacketLen(cells[1].msg)
      BY <1>3, <1>5, StackAssumption DEF Complete, HasHeader, HasBody
    <2>2. rest # <<>>
      <3>. SUFFICES ASSUME rest = <<>> PROVE FALSE
        OBVIOUS
      <3>1. cells \o t = <<>> /\ Len(cells \o t) = Len(cells) + Len(t) /\ Len(t) \in Nat
        BY <1>2, <1>3, FlatEmpty, CellConcat
      <3>2. Len(cells \o t) = 0
        BY <3>1, CellEmpty
      <3>. QED
        BY <1>3, <2>1, <3>1, <3>2
    <2>. DEFINE m == rest[1]
                others == Tail(rest)
    <2>3. /\ m \in Msg /\ others \in Seq(Msg) /\ rest = <<m>> \o others
          /\ Flat(rest) = Packet(m) \o Flat(others)
      BY <2>2, FlatFirst
    <2>. HIDE DEF cells, m, others
    <2>4. /\ Packet(m) \in Seq(Cell) /\ Len(Packet(m)) = PacketLen(m)
          /\ PacketLen(m) \in Nat \ {0} /\ Packet(m)[1].msg = m
          /\ Flat(others) \in Seq(Cell)
      BY <2>3, PacketCells, FlatType
    <2>5. cells[1].msg = m
      <3>1. /\ (cells \o t)[1] = cells[1]
            /\ (Packet(m) \o Flat(others))[1] = Packet(m)[1]
        <4>1. /\ \A i \in 1..(Len(cells) + Len(t)) :
                    (cells \o t)[i] = IF i <= Len(cells) THEN cells[i] ELSE t[i - Len(cells)]
              /\ 1 \in 1..(Len(cells) + Len(t)) /\ 1 <= Len(cells)
          BY <1>3, <2>1, CellConcat, ConcatProperties
        <4>2. /\ \A i \in 1..(Len(Packet(m)) + Len(Flat(others))) :
                    (Packet(m) \o Flat(others))[i]
                        = IF i <= Len(Packet(m)) THEN Packet(m)[i]
                          ELSE Flat(others)[i - Len(Packet(m))]
              /\ 1 \in 1..(Len(Packet(m)) + Len(Flat(others))) /\ 1 <= Len(Packet(m))
          BY <2>4, CellConcat, ConcatProperties
        <4>. QED
          BY <4>1, <4>2
      <3>. QED
        BY <1>2, <2>3, <2>4, <3>1
    <2>6. Len(Packet(m)) <= Len(cells)
      BY <2>1, <2>4, <2>5
    <2>7. Flat(others) = SubSeq(cells, PacketLen(m) + 1, Len(cells)) \o t
      <3>1. /\ cells \o t = Packet(m) \o Flat(others)
            /\ cells \in Seq(Cell) /\ Packet(m) \in Seq(Cell) /\ Flat(others) \in Seq(Cell)
        BY <1>2, <1>3, <2>3, <2>4
      <3>. DEFINE q == Packet(m)
                  v == Flat(others)
      <3>2. /\ q \in Seq(Cell) /\ v \in Seq(Cell) /\ cells \o t = q \o v
            /\ cells \in Seq(Cell) /\ t \in Seq(Cell)
            /\ Len(q) <= Len(cells) /\ Len(q) = PacketLen(m)
        BY <2>4, <2>6, <3>1
      <3>. HIDE DEF q, v
      <3>3. v = SubSeq(cells, Len(q) + 1, Len(cells)) \o t
        BY <3>2, CellOverlap
      <3>. QED
        BY <3>2, <3>3 DEF v
    <2>. DEFINE s == ShiftReadPos(was.stream, PacketLen(m))
                p == Append(was.packets, m)
    <2>8. s \in Streams /\ Readable(s) = SubSeq(cells, PacketLen(m) + 1, Len(cells))
      <3>1. PacketLen(m) \in 0..ReadableBytes(was.stream)
        BY <1>3, <2>4, <2>6
      <3>. QED
        BY <1>1, <1>3, <3>1, Shifts DEF cells
    <2>9. p \in Seq(Msg) /\ more = p \o others
      <3>1. p = was.packets \o <<m>> /\ p \in Seq(Msg) /\ <<m>> \in Seq(Msg)
        BY <1>1, <2>3, AppendIsConcat, AppendProperties
      <3>2. (was.packets \o <<m>>) \o others = was.packets \o (<<m>> \o others)
        BY <1>1, <2>3, <3>1, ConcatAssociative
      <3>. QED
        BY <1>2, <2>3, <3>1, <3>2
    <2>10. DecodeRound(was) = [packets |-> p, stream |-> s]
      BY <1>5, <2>5 DEF DecodeRound, cells
    <2>. HIDE DEF p, s
    <2>11. /\ DecodeRound(was) \in [packets : Seq(Msg), stream : Streams]
           /\ DecodeRound(was).packets = p /\ DecodeRound(was).stream = s
      BY <2>8, <2>9, <2>10
    <2>12. Flat(others) = Readable(s) \o t
      BY <2>7, <2>8
    <2>. QED
      BY <2>3, <2>9, <2>11, <2>12 DEF Decoding
  <1>. QED
    BY <1>4, <1>5

\* All of Decode.
LEMMA DecodeKeeps ==
    ASSUME NEW more \in Seq(Msg), NEW t \in Seq(Cell), NEW stream \in Streams,
           Flat(more) = Readable(stream) \o t
    PROVE  /\ Decode(stream).packets \in Seq(Msg) /\ Decode(stream).stream \in Streams
           /\ \E more2 \in Seq(Msg) : /\ more = Decode(stream).packets \o more2
                                      /\ Flat(more2) = Readable(Decode(stream).stream) \o t
  <1>. DEFINE n == ReadableBytes(stream)
              s0 == [packets |-> <<>>, stream |-> stream]
              S == Decoding(more, t)
              step == [i \in 1..n |-> [was \in S |-> DecodeRound(was)]]
              Loop(g) == g = [i \in 0..n |-> IF i = 0 THEN s0 ELSE DecodeRound(g[i - 1])]
              after == CHOOSE g : Loop(g)
  <1>1. n \in Nat
    BY ReadableOf
  <1>2. s0 \in S
    <2>1. <<>> \in Seq(Msg) /\ <<>> \o more = more
      BY EmptySeq, ConcatEmptySeq
    <2>. QED
      BY <2>1 DEF Decoding
  <1>3. step \in Rounds(n, S)
    BY DecodeRoundKeeps DEF Rounds
  <1>4. \A i \in 1..n : \A was \in S : step[i][was] = DecodeRound(was)
    OBVIOUS
  <1>5. /\ Decode(stream).packets = after[n].packets
        /\ Decode(stream).stream = after[n].stream
    BY DEF Decode, DecodeRound
  <1>6. \E g : Loop(g)
    <2>. HIDE DEF S, step, s0, n
    <2>1. PICK f : LoopStates(n, S, s0, step, f)
      BY <1>1, <1>2, <1>3, LoopExists
    <2>2. f \in [0..n -> S] /\ f[0] = s0 /\ \A i \in 1..n : f[i] = step[i][f[i - 1]]
      BY <2>1 DEF LoopStates
    <2>3. ASSUME NEW i \in 0..n
          PROVE  f[i] = IF i = 0 THEN s0 ELSE DecodeRound(f[i - 1])
      <3>1. CASE i # 0
        <4>1. i \in 1..n /\ i - 1 \in 0..n
          BY <1>1, <3>1
        <4>2. f[i - 1] \in S
          BY <2>2, <4>1
        <4>. QED
          BY <1>4, <2>2, <3>1, <4>1, <4>2
      <3>. QED
        BY <2>2, <3>1
    <2>4. Loop(f)
      BY <2>2, <2>3
    <2>. QED
      BY <2>4
  <1>7. Loop(after)
    <2>. HIDE DEF Loop
    <2>. QED
      BY <1>6
  <1>. HIDE DEF after
  <1>8. \A i \in 0..n : after[i] = IF i = 0 THEN s0 ELSE DecodeRound(after[i - 1])
    BY <1>7
  <1>9. after[n] \in S
    <2>. HIDE DEF S, step, s0, n
    <2>1. after[0] = s0
      BY <1>1, <1>8
    <2>2. ASSUME NEW i \in 1..n, after[i - 1] \in S
          PROVE  after[i] = step[i][after[i - 1]]
      <3>1. i \in 0..n /\ i # 0
        BY <1>1
      <3>. QED
        BY <1>4, <1>8, <2>2, <3>1
    <2>. QED
      BY <1>1, <1>2, <1>3, <2>1, <2>2, LoopStays
  <1>. QED
    BY <1>5, <1>9 DEF Decoding

-----------------------------------------------------------------------------
(* Answering. *)

\* The states of the loop of _OnRcvMsg: each answer is sent, and carried.
Answering(s0, o) ==
    {r \in [sent : Seq(Msg), out : Outs] :
        /\ \E answers \in Seq(Msg) : /\ r.sent = s0 \o answers
                                     /\ Carried(r.out) = Carried(o) \o Flat(answers)
        /\ Flagged(o) => Flagged(r.out)}

AnswerRound(m, was) ==
    LET answer == Answer(Len(was.sent) + 1, m)
    IN  IF m.kind = "req"
        THEN [sent |-> Append(was.sent, answer), out |-> SendTo(was.out, answer)]
        ELSE was

LEMMA AnswerRoundKeeps ==
    ASSUME NEW s0 \in Seq(Msg), NEW o \in Outs, NEW m \in Msg, NEW was \in Answering(s0, o)
    PROVE  AnswerRound(m, was) \in Answering(s0, o)
  <1>. DEFINE answer == Answer(Len(was.sent) + 1, m)
  <1>1. was.sent \in Seq(Msg) /\ was.out \in Outs /\ Len(was.sent) \in Nat
    BY LenProperties DEF Answering
  <1>2. PICK answers \in Seq(Msg) : /\ was.sent = s0 \o answers
                                    /\ Carried(was.out) = Carried(o) \o Flat(answers)
    BY DEF Answering
  <1>3. CASE m.kind # "req"
    BY <1>3 DEF AnswerRound
  <1>4. CASE m.kind = "req"
    <2>1. answer \in Msg
      <3>1. m.body \in Bodies /\ Len(was.sent) + 1 \in Nat
        BY <1>1 DEF Msg
      <3>. QED
        BY <3>1 DEF Msg, Answer, Kinds
    <2>. HIDE DEF answer
    <2>. DEFINE sent2 == Append(was.sent, answer)
                out2 == SendTo(was.out, answer)
    <2>2. AnswerRound(m, was) = [sent |-> sent2, out |-> out2]
      BY <1>4 DEF AnswerRound, answer
    <2>3. <<answer>> \in Seq(Msg) /\ answers \o <<answer>> \in Seq(Msg)
      BY <2>1, ConcatProperties
    <2>4. sent2 \in Seq(Msg) /\ sent2 = s0 \o (answers \o <<answer>>)
      <3>1. sent2 \in Seq(Msg) /\ sent2 = was.sent \o <<answer>>
        BY <1>1, <2>1, AppendProperties, AppendIsConcat
      <3>2. (s0 \o answers) \o <<answer>> = s0 \o (answers \o <<answer>>)
        BY <2>3, ConcatAssociative
      <3>. QED
        BY <1>2, <3>1, <3>2
    <2>5. /\ out2 \in Outs /\ Flagged(out2)
          /\ Carried(out2) = Carried(was.out) \o Packet(answer)
      BY <1>1, <2>1, SendToKeeps
    <2>. HIDE DEF sent2, out2
    <2>6. Carried(out2) = Carried(o) \o Flat(answers \o <<answer>>)
      <3>1. Flat(answers \o <<answer>>) = Flat(answers) \o Packet(answer)
        BY <2>1, <2>3, FlatConcat, FlatOne
      <3>2. /\ Carried(o) \in Seq(Cell) /\ Flat(answers) \in Seq(Cell)
            /\ Packet(answer) \in Seq(Cell)
        BY <2>1, OutFields, FlatType, PacketCells
      <3>3. (Carried(o) \o Flat(answers)) \o Packet(answer)
                = Carried(o) \o (Flat(answers) \o Packet(answer))
        BY <3>2, CellAssoc
      <3>. QED
        BY <1>2, <2>5, <3>1, <3>3
    <2>7. /\ AnswerRound(m, was) \in [sent : Seq(Msg), out : Outs]
          /\ AnswerRound(m, was).sent = sent2 /\ AnswerRound(m, was).out = out2
      BY <2>2, <2>4, <2>5
    <2>. QED
      BY <2>3, <2>4, <2>5, <2>6, <2>7 DEF Answering
  <1>. QED
    BY <1>3, <1>4

\* All of _OnRcvMsg.
LEMMA AnsweredKeeps ==
    ASSUME sent \in [Ends -> Seq(Msg)], NEW e \in Ends, NEW o \in Outs,
           NEW packets \in Seq(Msg)
    PROVE  Answered(e, o, packets) \in Answering(sent[e], o)
  <1>. DEFINE n == Len(packets)
              s0 == [sent |-> sent[e], out |-> o]
              S == Answering(sent[e], o)
              step == [i \in 1..n |-> [was \in S |-> AnswerRound(packets[i], was)]]
              Loop(g) == g = [i \in 0..n |-> IF i = 0 THEN s0
                                             ELSE AnswerRound(packets[i], g[i - 1])]
              after == CHOOSE g : Loop(g)
  <1>1. n \in Nat /\ sent[e] \in Seq(Msg) /\ \A i \in 1..n : packets[i] \in Msg
    BY LenProperties, ElementOfSeq
  <1>2. s0 \in S
    <2>1. /\ <<>> \in Seq(Msg) /\ sent[e] \o <<>> = sent[e] /\ Flat(<<>>) = <<>>
          /\ Carried(o) \o <<>> = Carried(o)
      BY <1>1, EmptySeq, ConcatEmptySeq, FlatEmpty, OutFields, CellEmpty
    <2>2. sent[e] = sent[e] \o <<>> /\ Carried(o) = Carried(o) \o Flat(<<>>)
      BY <2>1
    <2>. QED
      BY <1>1, <2>1, <2>2 DEF Answering
  <1>3. step \in Rounds(n, S)
    BY <1>1, AnswerRoundKeeps DEF Rounds
  <1>4. \A i \in 1..n : \A was \in S : step[i][was] = AnswerRound(packets[i], was)
    OBVIOUS
  <1>5. Answered(e, o, packets) = after[n]
    BY DEF Answered, AnswerRound
  <1>6. \E g : Loop(g)
    <2>. HIDE DEF S, step, s0, n
    <2>1. PICK f : LoopStates(n, S, s0, step, f)
      BY <1>1, <1>2, <1>3, LoopExists
    <2>2. f \in [0..n -> S] /\ f[0] = s0 /\ \A i \in 1..n : f[i] = step[i][f[i - 1]]
      BY <2>1 DEF LoopStates
    <2>3. ASSUME NEW i \in 0..n
          PROVE  f[i] = IF i = 0 THEN s0 ELSE AnswerRound(packets[i], f[i - 1])
      <3>1. CASE i # 0
        <4>1. i \in 1..n /\ i - 1 \in 0..n
          BY <1>1, <3>1
        <4>2. f[i - 1] \in S
          BY <2>2, <4>1
        <4>. QED
          BY <1>4, <2>2, <3>1, <4>1, <4>2
      <3>. QED
        BY <2>2, <3>1
    <2>4. Loop(f)
      BY <2>2, <2>3
    <2>. QED
      BY <2>4
  <1>7. Loop(after)
    <2>. HIDE DEF Loop
    <2>. QED
      BY <1>6
  <1>. HIDE DEF after
  <1>8. \A i \in 0..n : after[i] = IF i = 0 THEN s0 ELSE AnswerRound(packets[i], after[i - 1])
    BY <1>7
  <1>9. after[n] \in S
    <2>. HIDE DEF S, step, s0, n
    <2>1. after[0] = s0
      BY <1>1, <1>8
    <2>2. ASSUME NEW i \in 1..n, after[i - 1] \in S
          PROVE  after[i] = step[i][after[i - 1]]
      <3>1. i \in 0..n /\ i # 0
        BY <1>1
      <3>. QED
        BY <1>4, <1>8, <2>2, <3>1
    <2>. QED
      BY <1>1, <1>2, <1>3, <2>1, <2>2, LoopStays
  <1>. QED
    BY <1>5, <1>9

-----------------------------------------------------------------------------
(* The invariant. *)

\* A sender has sent s and a receiver has handled h of it; l is the receiver's
\* _leftMsgStream, r what waits for ikcp_recv, f what is in flight, w what waits to
\* be sent, c the sender's control block.  The messages that are not handled yet are
\* on the way, in order, and without gaps; what follows the bytes in flight is what
\* waits, as long as the control block lives.
OnTheWay(s, h, l, r, f, w, c) ==
    \E more \in Seq(Msg), rest \in Seq(Cell) :
       /\ s = h \o more
       /\ Flat(more) = Readable(l) \o (Cells(r) \o (Cells(f) \o rest))
       /\ c # "released" => rest = Readable(w)

\* What was received and what was in flight, cut anew: L is readable, R has arrived, F1
\* arrives now, F2 later; a piece P is taken of R and F1, and Q stays.
Recut(L, R, F1, F2, P, Q, B) ==
    L \o (R \o ((F1 \o F2) \o B)) = (L \o P) \o (Q \o (F2 \o B))

LEMMA CellRecut ==
    ASSUME NEW L \in Seq(Cell), NEW R \in Seq(Cell), NEW F1 \in Seq(Cell), NEW F2 \in Seq(Cell),
           NEW P \in Seq(Cell), NEW Q \in Seq(Cell), NEW B \in Seq(Cell),
           R \o F1 = P \o Q
    PROVE  Recut(L, R, F1, F2, P, Q, B)
  <1>1. F2 \o B \in Seq(Cell) /\ Q \o (F2 \o B) \in Seq(Cell)
    <2>1. F2 \o B \in Seq(Cell)
      BY CellConcat
    <2>. QED
      BY <2>1, CellConcat
  <1>2. Regrouped(F1, F2, B) /\ Regrouped(R, F1, F2 \o B)
    BY <1>1, CellRegrouped
  <1>3. Regrouped(P, Q, F2 \o B) /\ Regrouped(L, P, Q \o (F2 \o B))
    BY <1>1, CellRegrouped
  <1>4. R \o ((F1 \o F2) \o B) = (P \o Q) \o (F2 \o B)
    BY <1>2 DEF Regrouped
  <1>. QED
    BY <1>3, <1>4 DEF Regrouped, Recut

LEMMA MsgRegrouped ==
    ASSUME NEW a \in Seq(Msg), NEW b \in Seq(Msg), NEW c \in Seq(Msg)
    PROVE  a \o b \in Seq(Msg) /\ Regrouped(a, b, c)
  <1>1. a \o b \in Seq(Msg)
    BY ConcatProperties
  <1>2. (a \o b) \o c = a \o (b \o c)
    BY ConcatAssociative
  <1>. QED
    BY <1>1, <1>2 DEF Regrouped

\* Send, and answers: the packets follow what the channel carries.
LEMMA Sends ==
    ASSUME NEW s \in Seq(Msg), NEW h \in Seq(Msg), NEW l \in Streams, NEW r \in Seq(MCell),
           NEW o \in Outs, NEW o2 \in Outs, NEW added \in Seq(Msg), NEW c,
           OnTheWay(s, h, l, r, o.flying, o.waiting, c), c # "released",
           Carried(o2) = Carried(o) \o Flat(added)
    PROVE  OnTheWay(s \o added, h, l, r, o2.flying, o2.waiting, c)
  <1>1. PICK more \in Seq(Msg), rest \in Seq(Cell) :
           /\ s = h \o more
           /\ Flat(more) = Readable(l) \o (Cells(r) \o (Cells(o.flying) \o rest))
           /\ rest = Readable(o.waiting)
    BY DEF OnTheWay
  <1>2. more \o added \in Seq(Msg) /\ s \o added = h \o (more \o added)
    <2>1. more \o added \in Seq(Msg) /\ Regrouped(h, more, added)
      BY MsgRegrouped
    <2>. QED
      BY <1>1, <2>1 DEF Regrouped
  <1>3. Flat(more) = Readable(l) \o (Cells(r) \o Carried(o))
    BY <1>1 DEF Carried
  <1>4. /\ Readable(l) \in Seq(Cell) /\ Cells(r) \in Seq(Cell) /\ Carried(o) \in Seq(Cell)
        /\ Flat(added) \in Seq(Cell) /\ Readable(o2.waiting) \in Seq(Cell)
    BY ReadableOf, CellsOf, OutFields, FlatType
  <1>5. Flat(more \o added) = Readable(l) \o (Cells(r) \o Carried(o2))
    <2>1. Flat(more \o added) = (Readable(l) \o (Cells(r) \o Carried(o))) \o Flat(added)
      BY <1>1, <1>3, FlatConcat
    <2>2. Cells(r) \o Carried(o) \in Seq(Cell)
      BY <1>4, CellConcat
    <2>3. /\ Regrouped(Readable(l), Cells(r) \o Carried(o), Flat(added))
          /\ Regrouped(Cells(r), Carried(o), Flat(added))
      BY <1>4, <2>2, CellRegrouped
    <2>. QED
      BY <2>1, <2>3 DEF Regrouped
  <1>6. Flat(more \o added)
            = Readable(l) \o (Cells(r) \o (Cells(o2.flying) \o Readable(o2.waiting)))
    BY <1>5 DEF Carried
  <1>. QED
    BY <1>2, <1>4, <1>6 DEF OnTheWay

\* OnReadable: k more cells arrive, a piece is taken and what is complete decoded.
LEMMA Receives ==
    ASSUME NEW s \in Seq(Msg), NEW h \in Seq(Msg), NEW l \in Streams, NEW r \in Seq(MCell),
           NEW f \in Seq(MCell), NEW w, NEW c, NEW k \in 0..Len(f),
           OnTheWay(s, h, l, r, f, w, c)
    PROVE  LET arrived == r \o SubSeq(f, 1, k)
               piece == FirstPiece(arrived)
               rest == SubSeq(arrived, Len(piece) + 1, Len(arrived))
               d == Decode(Received(l, piece))
           IN  /\ d.packets \in Seq(Msg) /\ d.stream \in Streams
               /\ rest \in Seq(MCell) /\ SubSeq(f, k + 1, Len(f)) \in Seq(MCell)
               /\ OnTheWay(s, h \o d.packets, Compress(d.stream), rest,
                           SubSeq(f, k + 1, Len(f)), w, c)
  <1>. DEFINE f1 == SubSeq(f, 1, k)
              f2 == SubSeq(f, k + 1, Len(f))
              arrived == r \o f1
              piece == FirstPiece(arrived)
              rest == SubSeq(arrived, Len(piece) + 1, Len(arrived))
              l2 == Received(l, piece)
              d == Decode(l2)
  <1>1. PICK more \in Seq(Msg), behind \in Seq(Cell) :
           /\ s = h \o more
           /\ Flat(more) = Readable(l) \o (Cells(r) \o (Cells(f) \o behind))
           /\ c # "released" => behind = Readable(w)
    BY DEF OnTheWay
  <1>2. f1 \in Seq(MCell) /\ f2 \in Seq(MCell) /\ f1 \o f2 = f
    BY Cut
  <1>. HIDE DEF f1, f2
  <1>3. arrived \in Seq(MCell)
    BY <1>2, CellsConcat
  <1>. HIDE DEF arrived
  <1>4. piece \in Seq(MCell) /\ rest \in Seq(MCell) /\ piece \o rest = arrived
    BY <1>3, FirstPieceCuts
  <1>. HIDE DEF piece, rest
  <1>5. l2 \in Streams /\ Readable(l2) = Readable(l) \o Cells(piece)
    BY <1>4, ReceivedKeeps
  <1>. HIDE DEF l2
  <1>. DEFINE t == Cells(rest) \o (Cells(f2) \o behind)
  <1>6. /\ Cells(piece) \in Seq(Cell) /\ Cells(rest) \in Seq(Cell) /\ Cells(f1) \in Seq(Cell)
        /\ Cells(f2) \in Seq(Cell) /\ Cells(r) \in Seq(Cell) /\ Readable(l) \in Seq(Cell)
        /\ Cells(f2) \o behind \in Seq(Cell) /\ t \in Seq(Cell)
    <2>1. /\ Cells(piece) \in Seq(Cell) /\ Cells(rest) \in Seq(Cell) /\ Cells(f1) \in Seq(Cell)
          /\ Cells(f2) \in Seq(Cell) /\ Cells(r) \in Seq(Cell) /\ Readable(l) \in Seq(Cell)
      BY <1>2, <1>4, CellsOf, ReadableOf
    <2>2. Cells(f2) \o behind \in Seq(Cell)
      BY <2>1, CellConcat
    <2>. QED
      BY <2>1, <2>2, CellConcat
  <1>7. Flat(more) = Readable(l2) \o t
    <2>1. Cells(f) = Cells(f1) \o Cells(f2)
      BY <1>2, CellsConcat
    <2>2. Cells(r) \o Cells(f1) = Cells(piece) \o Cells(rest)
      <3>1. Cells(arrived) = Cells(r) \o Cells(f1)
        BY <1>2, CellsConcat DEF arrived
      <3>2. Cells(arrived) = Cells(piece) \o Cells(rest)
        BY <1>4, CellsConcat
      <3>. QED
        BY <3>1, <3>2
    <2>3. Recut(Readable(l), Cells(r), Cells(f1), Cells(f2), Cells(piece), Cells(rest), behind)
      BY <1>6, <2>2, CellRecut
    <2>4. Readable(l) \o (Cells(r) \o ((Cells(f1) \o Cells(f2)) \o behind))
              = (Readable(l) \o Cells(piece)) \o t
      BY <2>3 DEF Recut
    <2>. HIDE DEF t
    <2>. QED
      BY <1>1, <1>5, <2>1, <2>4
  <1>8. /\ d.packets \in Seq(Msg) /\ d.stream \in Streams
        /\ \E more2 \in Seq(Msg) : more = d.packets \o more2 /\ Flat(more2) = Readable(d.stream) \o t
    <2>. HIDE DEF t
    <2>. QED
      BY <1>5, <1>6, <1>7, DecodeKeeps
  <1>. HIDE DEF d
  <1>9. PICK more2 \in Seq(Msg) : more = d.packets \o more2 /\ Flat(more2) = Readable(d.stream) \o t
    BY <1>8
  <1>10. s = (h \o d.packets) \o more2
    <2>1. d.packets \in Seq(Msg) /\ more2 \in Seq(Msg)
      BY <1>8
    <2>2. Regrouped(h, d.packets, more2)
      BY <2>1, MsgRegrouped
    <2>. QED
      BY <1>1, <1>9, <2>2 DEF Regrouped
  <1>11. Flat(more2) = Readable(Compress(d.stream)) \o (Cells(rest) \o (Cells(f2) \o behind))
    BY <1>8, <1>9, Compresses
  <1>12. OnTheWay(s, h \o d.packets, Compress(d.stream), rest, f2, w, c)
    BY <1>1, <1>10, <1>11 DEF OnTheWay
  <1>. QED
    BY <1>2, <1>4, <1>8, <1>12 DEF d, l2, rest, piece, arrived, f1, f2

\* Close: the end of what is in flight is lost, and what waits.
LEMMA Loses ==
    ASSUME NEW s, NEW h, NEW l, NEW r, NEW f \in Seq(MCell), NEW w, NEW c, NEW w2,
           NEW k \in 0..Len(f), OnTheWay(s, h, l, r, f, w, c)
    PROVE  /\ SubSeq(f, 1, k) \in Seq(MCell)
           /\ OnTheWay(s, h, l, r, SubSeq(f, 1, k), w2, "released")
  <1>. DEFINE f1 == SubSeq(f, 1, k)
              f2 == SubSeq(f, k + 1, Len(f))
  <1>1. PICK more \in Seq(Msg), behind \in Seq(Cell) :
           /\ s = h \o more
           /\ Flat(more) = Readable(l) \o (Cells(r) \o (Cells(f) \o behind))
    BY DEF OnTheWay
  <1>2. f1 \in Seq(MCell) /\ f2 \in Seq(MCell) /\ f1 \o f2 = f
    BY Cut
  <1>. HIDE DEF f1, f2
  <1>3. Cells(f1) \in Seq(Cell) /\ Cells(f2) \in Seq(Cell) /\ Cells(f) = Cells(f1) \o Cells(f2)
    BY <1>2, CellsOf, CellsConcat
  <1>4. Cells(f2) \o behind \in Seq(Cell)
    BY <1>3, CellConcat
  <1>5. Cells(f) \o behind = Cells(f1) \o (Cells(f2) \o behind)
    <2>1. Regrouped(Cells(f1), Cells(f2), behind)
      BY <1>3, CellRegrouped
    <2>. QED
      BY <1>3, <2>1 DEF Regrouped
  <1>6. OnTheWay(s, h, l, r, f1, w2, "released")
    BY <1>1, <1>4, <1>5 DEF OnTheWay
  <1>. QED
    BY <1>2, <1>6 DEF f1

Types ==
    /\ sent \in [Ends -> Seq(Msg)]
    /\ handled \in [Ends -> Seq(Msg)]
    /\ out \in [Ends -> Outs]
    /\ rcv \in [Ends -> Seq(MCell)]
    /\ left \in [Ends -> Streams]
    /\ ctrl \in [Ends -> SUBSET Flags]
    /\ cb \in [Ends -> {"none", "created", "released"}]

\* What e has sent and its peer has handled.
InOrder(e) ==
    OnTheWay(sent[e], handled[Peer(e)], left[Peer(e)], rcv[Peer(e)],
             out[e].flying, out[e].waiting, cb[e])

ChannelInv == Types /\ \A e \in Ends : InOrder(e) /\ Flagged(out[e])

LEMMA Peers ==
    \A e \in Ends : Peer(e) \in Ends /\ Peer(e) # e /\ Peer(Peer(e)) = e
  BY ChannelAssumption DEF Ends, Peer

\* A step that does not touch what e sends, but for the creation of its control block.
LEMMA Untouched ==
    ASSUME NEW e \in Ends, InOrder(e), Flagged(out[e]),
           sent'[e] = sent[e], handled'[Peer(e)] = handled[Peer(e)],
           left'[Peer(e)] = left[Peer(e)], rcv'[Peer(e)] = rcv[Peer(e)],
           out'[e].flying = out[e].flying, out'[e].waiting = out[e].waiting,
           out'[e].write = out[e].write, cb[e] = "released" => cb'[e] = "released"
    PROVE  InOrder(e)' /\ Flagged(out[e])'
  <1>1. InOrder(e)'
    BY DEF InOrder, OnTheWay
  <1>2. Flagged(out[e])'
    BY DEF Flagged
  <1>. QED
    BY <1>1, <1>2

LEMMA InitOk == Init => ChannelInv
  <1>. SUFFICES ASSUME Init PROVE ChannelInv
    OBVIOUS
  <1>. DEFINE none == [waiting |-> Null, write |-> FALSE, flying |-> <<>>, unacked |-> 0]
  <1>1. /\ <<>> \in Seq(Msg) /\ <<>> \in Seq(MCell) /\ <<>> \in Seq(Cell)
        /\ Null \in Streams /\ Readable(Null) = <<>>
    BY EmptySeq, NewStreams
  <1>2. none \in Outs
    <2>1. FALSE \in BOOLEAN /\ 0 \in Nat
      OBVIOUS
    <2>. QED
      BY <1>1, <2>1 DEF Outs
  <1>3. /\ none.waiting = Null /\ none.flying = <<>>
    OBVIOUS
  <1>. HIDE DEF none
  <1>4. /\ sent = [e \in Ends |-> <<>>] /\ handled = [e \in Ends |-> <<>>]
        /\ out = [e \in Ends |-> none] /\ rcv = [e \in Ends |-> <<>>]
        /\ left = [e \in Ends |-> Null] /\ ctrl = [e \in Ends |-> {}]
        /\ cb = [e \in Ends |-> IF e = Server THEN "created" ELSE "none"]
    BY DEF Init, none
  <1>5. Types
    BY <1>1, <1>2, <1>4 DEF Types
  <1>6. Cells(<<>>) = <<>> /\ Flat(<<>>) = <<>>
    <2>1. Len(<<>>) = 0 /\ Len(Cells(<<>>)) = 0 /\ Cells(<<>>) \in Seq(Cell)
      BY <1>1, CellsOf, CellEmpty
    <2>. QED
      BY <2>1, CellEmpty, FlatEmpty
  <1>7. OnTheWay(<<>>, <<>>, Null, <<>>, <<>>, Null, "none")
        /\ OnTheWay(<<>>, <<>>, Null, <<>>, <<>>, Null, "created")
    <2>1. <<>> \o <<>> = <<>>
      BY <1>1, CellEmpty
    <2>. QED
      BY <1>1, <1>6, <2>1 DEF OnTheWay
  <1>8. ReadableBytes(Null) = 0
    BY <1>1, ReadableOf, CellEmpty
  <1>9. ASSUME NEW e \in Ends
        PROVE  InOrder(e) /\ Flagged(out[e])
    <2>1. /\ sent[e] = <<>> /\ handled[Peer(e)] = <<>> /\ left[Peer(e)] = Null
          /\ rcv[Peer(e)] = <<>> /\ out[e] = none /\ cb[e] \in {"none", "created"}
      BY <1>4, Peers
    <2>2. InOrder(e)
      BY <1>3, <1>7, <2>1 DEF InOrder
    <2>3. Flagged(out[e])
      BY <1>3, <1>8, <2>1 DEF Flagged
    <2>. QED
      BY <2>2, <2>3
  <1>. QED
    BY <1>5, <1>9 DEF ChannelInv

\* An end sends: the packets of added follow what it has sent.
LEMMA SendsOn ==
    ASSUME ChannelInv, NEW e \in Ends, cb[e] # "released",
           NEW added \in Seq(Msg), NEW o \in Outs, Flagged(o),
           Carried(o) = Carried(out[e]) \o Flat(added),
           sent'[e] = sent[e] \o added, out'[e] = o, handled'[Peer(e)] = handled[Peer(e)],
           left'[Peer(e)] = left[Peer(e)], rcv'[Peer(e)] = rcv[Peer(e)], cb'[e] = cb[e]
    PROVE  InOrder(e)' /\ Flagged(out[e])'
  <1>1. /\ sent[e] \in Seq(Msg) /\ handled[Peer(e)] \in Seq(Msg) /\ left[Peer(e)] \in Streams
        /\ rcv[Peer(e)] \in Seq(MCell) /\ out[e] \in Outs
    BY Peers DEF ChannelInv, Types
  <1>2. OnTheWay(sent[e], handled[Peer(e)], left[Peer(e)], rcv[Peer(e)],
                 out[e].flying, out[e].waiting, cb[e])
    BY DEF ChannelInv, InOrder
  <1>3. OnTheWay(sent[e] \o added, handled[Peer(e)], left[Peer(e)], rcv[Peer(e)],
                 o.flying, o.waiting, cb[e])
    BY <1>1, <1>2, Sends
  <1>4. InOrder(e)'
    BY <1>3 DEF InOrder
  <1>. QED
    BY <1>4

LEMMA SendOk ==
    ASSUME ChannelInv, NEW e \in Ends, Send(e)
    PROVE  ChannelInv'
  <1>1. PICK body \in Bodies, kind \in Kinds :
          LET m == [id |-> Len(sent[e]) + 1, body |-> body, kind |-> kind]
          IN  /\ sent' = [sent EXCEPT ![e] = Append(@, m)]
              /\ out' = [out EXCEPT ![e] = SendTo(@, m)]
    BY DEF Send
  <1>. DEFINE m == [id |-> Len(sent[e]) + 1, body |-> body, kind |-> kind]
              o == SendTo(out[e], m)
  <1>2. cb[e] = "created" /\ UNCHANGED <<handled, rcv, left, ctrl, cb>>
    BY DEF Send
  <1>3. Types
    BY DEF ChannelInv
  <1>4. sent[e] \in Seq(Msg) /\ out[e] \in Outs
    BY <1>3 DEF Types
  <1>5. m \in Msg
    <2>1. Len(sent[e]) + 1 \in Nat
      BY <1>4, LenProperties
    <2>. QED
      BY <2>1 DEF Msg
  <1>6. sent' = [sent EXCEPT ![e] = Append(@, m)] /\ out' = [out EXCEPT ![e] = o]
    BY <1>1
  <1>. HIDE DEF m
  <1>7. /\ o \in Outs /\ Flagged(o) /\ <<m>> \in Seq(Msg)
        /\ Carried(o) = Carried(out[e]) \o Flat(<<m>>)
    <2>1. <<m>> \in Seq(Msg)
      BY <1>5
    <2>2. Flat(<<m>>) = Packet(m)
      BY <1>5, FlatOne
    <2>3. o \in Outs /\ Flagged(o) /\ Carried(o) = Carried(out[e]) \o Packet(m)
      BY <1>4, <1>5, SendToKeeps
    <2>. QED
      BY <2>1, <2>2, <2>3
  <1>. HIDE DEF o
  <1>8. Append(sent[e], m) \in Seq(Msg) /\ Append(sent[e], m) = sent[e] \o <<m>>
    BY <1>4, <1>5, AppendIsConcat, AppendProperties
  <1>9. Types'
    BY <1>2, <1>3, <1>6, <1>7, <1>8 DEF Types
  <1>10. ASSUME NEW x \in Ends
         PROVE  InOrder(x)' /\ Flagged(out[x])'
    <2>1. CASE x = e
      <3>1. sent'[e] = sent[e] \o <<m>> /\ out'[e] = o
        BY <1>3, <1>6, <1>8 DEF Types
      <3>. QED
        BY <1>2, <1>7, <2>1, <3>1, SendsOn
    <2>2. CASE x # e
      <3>1. sent'[x] = sent[x] /\ out'[x] = out[x]
        BY <1>3, <1>6, <2>2 DEF Types
      <3>2. InOrder(x) /\ Flagged(out[x])
        BY DEF ChannelInv
      <3>. QED
        BY <1>2, <3>1, <3>2, Untouched
    <2>. QED
      BY <2>1, <2>2
  <1>. QED
    BY <1>9, <1>10 DEF ChannelInv

LEMMA UpdateOk ==
    ASSUME ChannelInv, NEW e \in Ends, Update(e)
    PROVE  ChannelInv'
  <1>. DEFINE o == ContinueSend(out[e])
  <1>1. /\ cb[e] = "created" /\ UNCHANGED <<sent, handled, rcv, left, cb>>
        /\ out' = IF out[e].write THEN [out EXCEPT ![e] = o] ELSE out
        /\ ctrl' \in {ctrl, [ctrl EXCEPT ![e] = @ \cup {"LAZY_CLOSE"}]}
    BY DEF Update
  <1>2. Types
    BY DEF ChannelInv
  <1>3. sent[e] \in Seq(Msg) /\ out[e] \in Outs
    BY <1>2 DEF Types
  <1>4. o \in Outs /\ Flagged(o) /\ Carried(o) = Carried(out[e])
    BY <1>3, ContinueSendKeeps
  <1>. HIDE DEF o
  <1>5. ctrl' \in [Ends -> SUBSET Flags]
    <2>1. ctrl \in [Ends -> SUBSET Flags]
      BY <1>2 DEF Types
    <2>2. ctrl[e] \cup {"LAZY_CLOSE"} \in SUBSET Flags
      BY <2>1 DEF Flags
    <2>3. [ctrl EXCEPT ![e] = @ \cup {"LAZY_CLOSE"}] \in [Ends -> SUBSET Flags]
      BY <2>1, <2>2
    <2>. QED
      BY <1>1, <2>1, <2>3
  <1>6. out' \in [Ends -> Outs]
    BY <1>1, <1>2, <1>4 DEF Types
  <1>7. Types'
    BY <1>1, <1>2, <1>5, <1>6 DEF Types
  <1>8. ASSUME NEW x \in Ends
        PROVE  InOrder(x)' /\ Flagged(out[x])'
    <2>1. CASE x = e /\ out[e].write
      <3>1. out'[e] = o
        BY <1>1, <1>2, <2>1 DEF Types
      <3>2. <<>> \in Seq(Msg) /\ sent'[e] = sent[e] \o <<>>
        BY <1>1, <1>3, EmptySeq, ConcatEmptySeq
      <3>3. Carried(o) = Carried(out[e]) \o Flat(<<>>)
        <4>1. Carried(out[e]) \in Seq(Cell)
          BY <1>3, OutFields
        <4>. QED
          BY <1>4, <4>1, FlatEmpty, CellEmpty
      <3>. QED
        BY <1>1, <1>4, <2>1, <3>1, <3>2, <3>3, SendsOn
    <2>2. CASE ~(x = e /\ out[e].write)
      <3>1. out'[x] = out[x]
        BY <1>1, <1>2, <2>2 DEF Types
      <3>2. InOrder(x) /\ Flagged(out[x])
        BY DEF ChannelInv
      <3>. QED
        BY <1>1, <3>1, <3>2, Untouched
    <2>. QED
      BY <2>1, <2>2
  <1>. QED
    BY <1>7, <1>8 DEF ChannelInv

\* What a datagram leaves of the peer's sending half.
LEMMA Arrived ==
    ASSUME NEW o \in Outs, NEW k \in 0..Len(o.flying)
    PROVE  /\ [o EXCEPT !.flying = SubSeq(@, k + 1, Len(@)), !.unacked = @ + k] \in Outs
           /\ SubSeq(o.flying, k + 1, Len(o.flying)) \in Seq(MCell)
  <1>1. SubSeq(o.flying, 1, k) \in Seq(MCell) /\ SubSeq(o.flying, k + 1, Len(o.flying)) \in Seq(MCell)
    BY OutFields, Cut
  <1>2. Len(o.flying) \in Nat /\ o.unacked \in Nat
    BY OutFields, LenProperties
  <1>3. o.unacked + k \in Nat
    BY <1>2
  <1>. DEFINE f == SubSeq(o.flying, k + 1, Len(o.flying))
              u == o.unacked + k
  <1>4. f \in Seq(MCell) /\ u \in Nat
    BY <1>1, <1>3
  <1>. HIDE DEF f, u
  <1>5. [o EXCEPT !.flying = f, !.unacked = u] \in Outs
    BY ONLY <1>4, o \in Outs DEF Outs
  <1>. QED
    BY <1>4, <1>5 DEF f, u

LEMMA DatagramOk ==
    ASSUME ChannelInv, NEW e \in Ends, NEW k \in 0..Len(out[Peer(e)].flying),
           NEW a \in 0..out[e].unacked, Datagram(e, k, a)
    PROVE  ChannelInv'
  <1>. DEFINE p == Peer(e)
              arrived == rcv[e] \o SubSeq(out[p].flying, 1, k)
              piece == FirstPiece(arrived)
              rest == SubSeq(arrived, Len(piece) + 1, Len(arrived))
              d == Decode(Received(left[e], piece))
              o1 == [out[e] EXCEPT !.unacked = @ - a]
              done == Answered(e, o1, d.packets)
              o2 == [out[p] EXCEPT !.flying = SubSeq(@, k + 1, Len(@)), !.unacked = @ + k]
              l2 == Compress(d.stream)
              h2 == handled[e] \o d.packets
  <1>1. /\ cb[e] = "created" /\ cb' = cb
        /\ left' = [left EXCEPT ![e] = l2]
        /\ handled' = [handled EXCEPT ![e] = @ \o d.packets]
        /\ sent' = [sent EXCEPT ![e] = done.sent]
        /\ out' = [out EXCEPT ![p].flying = SubSeq(@, k + 1, Len(@)),
                              ![p].unacked = @ + k,
                              ![e] = done.out]
        /\ ctrl' = IF d.hasBadMsg THEN [ctrl EXCEPT ![e] = Flags] ELSE ctrl
        /\ rcv' = [rcv EXCEPT ![e] = rest]
    BY DEF Datagram
  <1>2. Types
    BY DEF ChannelInv
  <1>3. p \in Ends /\ p # e /\ Peer(p) = e
    BY Peers
  <1>4. /\ sent[e] \in Seq(Msg) /\ sent[p] \in Seq(Msg) /\ handled[e] \in Seq(Msg)
        /\ out[e] \in Outs /\ out[p] \in Outs /\ rcv[e] \in Seq(MCell) /\ left[e] \in Streams
    BY <1>2, <1>3 DEF Types
  <1>5. out' = [out EXCEPT ![p] = o2, ![e] = done.out]
    <2>1. DOMAIN out = Ends
      BY <1>2 DEF Types
    <2>. HIDE DEF d, done
    <2>. QED
      BY <1>1, <1>3, <2>1
  <1>6. o2 \in Outs
    BY <1>4, Arrived
  <1>7. o2.flying = SubSeq(out[p].flying, k + 1, Len(out[p].flying))
        /\ o2.waiting = out[p].waiting /\ o2.write = out[p].write
    BY ONLY <1>4 DEF Outs
  <1>8. o1 \in Outs /\ Carried(o1) = Carried(out[e]) /\ (Flagged(out[e]) => Flagged(o1))
    <2>1. out[e].unacked - a \in Nat
      <3>1. out[e].unacked \in Nat
        BY <1>4, OutFields
      <3>. QED
        BY <3>1
    <2>2. o1 \in Outs /\ o1.flying = out[e].flying /\ o1.waiting = out[e].waiting
          /\ o1.write = out[e].write
      BY ONLY <1>4, <2>1 DEF Outs
    <2>. HIDE DEF o1
    <2>. QED
      BY <2>2 DEF Carried, Flagged
  <1>9. /\ d.packets \in Seq(Msg) /\ d.stream \in Streams /\ rest \in Seq(MCell)
        /\ SubSeq(out[p].flying, k + 1, Len(out[p].flying)) \in Seq(MCell)
        /\ OnTheWay(sent[p], h2, l2, rest, SubSeq(out[p].flying, k + 1, Len(out[p].flying)),
                    out[p].waiting, cb[p])
    <2>1. OnTheWay(sent[p], handled[e], left[e], rcv[e], out[p].flying, out[p].waiting, cb[p])
      BY <1>3 DEF ChannelInv, InOrder
    <2>2. out[p].flying \in Seq(MCell)
      BY <1>4, OutFields
    <2>3. /\ sent[p] \in Seq(Msg) /\ handled[e] \in Seq(Msg) /\ left[e] \in Streams
          /\ rcv[e] \in Seq(MCell) /\ k \in 0..Len(out[p].flying)
      BY <1>4
    <2>. QED
      BY ONLY <2>1, <2>2, <2>3, Receives
  <1>. HIDE DEF o1, o2, rest, d
  <1>10. l2 \in Streams /\ h2 \in Seq(Msg)
    BY <1>4, <1>9, Compresses, ConcatProperties
  <1>11. done \in Answering(sent[e], o1)
    <2>1. sent \in [Ends -> Seq(Msg)]
      BY <1>2 DEF Types
    <2>. QED
      BY <1>8, <1>9, <2>1, AnsweredKeeps
  <1>. HIDE DEF l2, h2, done
  <1>12. PICK answers \in Seq(Msg) : /\ done.sent = sent[e] \o answers
                                     /\ Carried(done.out) = Carried(o1) \o Flat(answers)
    BY <1>11 DEF Answering
  <1>13. done.sent \in Seq(Msg) /\ done.out \in Outs /\ (Flagged(o1) => Flagged(done.out))
    BY <1>11 DEF Answering
  <1>14. /\ sent'[e] = done.sent /\ sent'[p] = sent[p]
         /\ out'[e] = done.out /\ out'[p] = o2
         /\ handled'[e] = h2 /\ handled'[p] = handled[p]
         /\ left'[e] = l2 /\ left'[p] = left[p]
         /\ rcv'[e] = rest /\ rcv'[p] = rcv[p]
    BY <1>1, <1>2, <1>3, <1>5 DEF Types, h2
  <1>15. Types'
    <2>1. ctrl' \in [Ends -> SUBSET Flags]
      BY <1>1, <1>2 DEF Types
    <2>2. out' \in [Ends -> Outs]
      BY <1>2, <1>5, <1>6, <1>13 DEF Types
    <2>3. handled' \in [Ends -> Seq(Msg)]
      BY <1>1, <1>2, <1>10 DEF Types, h2
    <2>4. sent' \in [Ends -> Seq(Msg)] /\ rcv' \in [Ends -> Seq(MCell)]
          /\ left' \in [Ends -> Streams]
      BY <1>1, <1>2, <1>9, <1>10, <1>13 DEF Types
    <2>5. cb' \in [Ends -> {"none", "created", "released"}]
      BY <1>1, <1>2 DEF Types
    <2>. QED
      BY <2>1, <2>2, <2>3, <2>4, <2>5 DEF Types
  <1>16. InOrder(p)' /\ Flagged(out[p])'
    <2>1. InOrder(p)'
      BY <1>1, <1>3, <1>7, <1>9, <1>14 DEF InOrder
    <2>2. Flagged(out[p])
      BY <1>3 DEF ChannelInv
    <2>. QED
      BY <1>7, <1>14, <2>1, <2>2 DEF Flagged
  <1>17. InOrder(e)' /\ Flagged(out[e])'
    <2>1. Flagged(done.out)
      BY <1>8, <1>13 DEF ChannelInv
    <2>2. Carried(done.out) = Carried(out[e]) \o Flat(answers)
      BY <1>8, <1>12
    <2>. QED
      BY <1>1, <1>12, <1>13, <1>14, <2>1, <2>2, SendsOn
  <1>18. \A x \in Ends : x = e \/ x = p
    BY <1>3 DEF Ends
  <1>. QED
    BY <1>15, <1>16, <1>17, <1>18 DEF ChannelInv

LEMMA ConnectedOk ==
    ASSUME ChannelInv, Connected
    PROVE  ChannelInv'
  <1>1. /\ cb[Client] = "none" /\ cb' = [cb EXCEPT ![Client] = "created"]
        /\ UNCHANGED <<sent, handled, out, rcv, left, ctrl>>
    BY DEF Connected
  <1>2. Types'
    BY <1>1 DEF ChannelInv, Types
  <1>3. ASSUME NEW x \in Ends
        PROVE  InOrder(x)' /\ Flagged(out[x])'
    <2>1. cb[x] = "released" => cb'[x] = "released"
      BY <1>1 DEF ChannelInv, Types
    <2>2. InOrder(x) /\ Flagged(out[x])
      BY DEF ChannelInv
    <2>. QED
      BY <1>1, <2>1, <2>2, Untouched
  <1>. QED
    BY <1>2, <1>3 DEF ChannelInv

LEMMA ShutOk ==
    ASSUME ChannelInv, NEW e \in Ends, Shut(e)
    PROVE  ChannelInv'
  <1>1. /\ ctrl' = [ctrl EXCEPT ![e] = Flags]
        /\ UNCHANGED <<sent, handled, out, rcv, left, cb>>
    BY DEF Shut
  <1>2. Types'
    BY <1>1 DEF ChannelInv, Types
  <1>3. ASSUME NEW x \in Ends
        PROVE  InOrder(x)' /\ Flagged(out[x])'
    <2>1. InOrder(x) /\ Flagged(out[x])
      BY DEF ChannelInv
    <2>. QED
      BY <1>1, <2>1, Untouched
  <1>. QED
    BY <1>2, <1>3 DEF ChannelInv

LEMMA CloseOk ==
    ASSUME ChannelInv, NEW e \in Ends, Close(e)
    PROVE  ChannelInv'
  <1>1. PICK k \in 0..Len(out[e].flying) : out' = [out EXCEPT ![e].flying = SubSeq(@, 1, k)]
    BY DEF Close
  <1>. DEFINE f == SubSeq(out[e].flying, 1, k)
              o == [out[e] EXCEPT !.flying = f]
  <1>2. cb' = [cb EXCEPT ![e] = "released"] /\ UNCHANGED <<sent, handled, rcv, left, ctrl>>
    BY DEF Close
  <1>3. Types
    BY DEF ChannelInv
  <1>4. out[e] \in Outs /\ out[e].flying \in Seq(MCell)
    BY <1>3, OutFields DEF Types
  <1>5. out' = [out EXCEPT ![e] = o]
    BY <1>1, <1>3 DEF Types
  <1>6. /\ f \in Seq(MCell)
        /\ OnTheWay(sent[e], handled[Peer(e)], left[Peer(e)], rcv[Peer(e)], f,
                    out[e].waiting, "released")
    <2>1. OnTheWay(sent[e], handled[Peer(e)], left[Peer(e)], rcv[Peer(e)],
                   out[e].flying, out[e].waiting, cb[e])
      BY DEF ChannelInv, InOrder
    <2>. QED
      BY <1>4, <2>1, Loses
  <1>. HIDE DEF f
  <1>7. /\ o \in Outs /\ o.flying = f /\ o.waiting = out[e].waiting
        /\ o.write = out[e].write
    BY ONLY <1>4, <1>6 DEF Outs
  <1>. HIDE DEF o
  <1>8. out' \in [Ends -> Outs] /\ out'[e] = o
    BY <1>3, <1>5, <1>7 DEF Types
  <1>9. Types'
    BY <1>2, <1>3, <1>8 DEF Types
  <1>10. ASSUME NEW x \in Ends
         PROVE  InOrder(x)' /\ Flagged(out[x])'
    <2>1. InOrder(x) /\ Flagged(out[x])
      BY DEF ChannelInv
    <2>2. CASE x = e
      <3>1. cb'[e] = "released"
        BY <1>2, <1>3 DEF Types
      <3>2. InOrder(e)'
        BY <1>2, <1>6, <1>7, <1>8, <3>1 DEF InOrder
      <3>3. Flagged(out[e])'
        BY <1>7, <1>8, <2>1, <2>2 DEF Flagged
      <3>. QED
        BY <2>2, <3>2, <3>3
    <2>3. CASE x # e
      <3>1. out'[x] = out[x] /\ cb'[x] = cb[x]
        BY <1>2, <1>3, <1>5, <2>3 DEF Types
      <3>. QED
        BY <1>2, <2>1, <3>1, Untouched
    <2>. QED
      BY <2>2, <2>3
  <1>. QED
    BY <1>9, <1>10 DEF ChannelInv

-----------------------------------------------------------------------------
(* Theorems. *)

\* The invariant: every end's messages are on the way to its peer, in order and
\* without gaps; what waits is flagged.
THEOREM Inductive == Spec => []ChannelInv
  <1>1. Init => ChannelInv
    BY InitOk
  <1>2. ChannelInv /\ [Next]_vars => ChannelInv'
    <2>. SUFFICES ASSUME ChannelInv, [Next]_vars PROVE ChannelInv'
      OBVIOUS
    <2>1. CASE UNCHANGED vars
      <3>1. UNCHANGED <<sent, handled, out, rcv, left, ctrl, cb>>
        BY <2>1 DEF vars
      <3>2. Types'
        BY <3>1 DEF ChannelInv, Types
      <3>3. ASSUME NEW x \in Ends
            PROVE  InOrder(x)' /\ Flagged(out[x])'
        <4>1. InOrder(x) /\ Flagged(out[x])
          BY DEF ChannelInv
        <4>. QED
          BY <3>1, <4>1, Untouched
      <3>. QED
        BY <3>2, <3>3 DEF ChannelInv
    <2>2. ASSUME NEW e \in Users, Send(e) PROVE ChannelInv'
      <3>1. e \in Ends
        BY ChannelAssumption
      <3>. QED
        BY <2>2, <3>1, SendOk
    <2>3. ASSUME NEW e \in Ends, Update(e) PROVE ChannelInv'
      BY <2>3, UpdateOk
    <2>4. ASSUME NEW e \in Ends, OnReadable(e) PROVE ChannelInv'
      <3>1. PICK k \in 0..Len(out[Peer(e)].flying), a \in 0..out[e].unacked : Datagram(e, k, a)
        BY <2>4 DEF OnReadable
      <3>. QED
        BY <3>1, DatagramOk
    <2>5. ASSUME NEW e \in Ends, Shut(e) PROVE ChannelInv'
      BY <2>5, ShutOk
    <2>6. ASSUME NEW e \in Ends, Close(e) PROVE ChannelInv'
      BY <2>6, CloseOk
    <2>7. CASE Connected
      BY <2>7, ConnectedOk
    <2>. QED
      BY <2>1, <2>2, <2>3, <2>4, <2>5, <2>6, <2>7 DEF Next
  <1>. QED
    BY <1>1, <1>2, PTL DEF Spec

\* Every stream of a channel is a well-formed LibStream of its own memory, whatever is
\* cut, kept back, received, joined, decoded and compressed; an end has handled no more
\* messages than the other has sent.
THEOREM TypeCorrect == Spec => []TypeOK
  <1>1. ChannelInv => TypeOK
    <2>. SUFFICES ASSUME ChannelInv PROVE TypeOK
      OBVIOUS
    <2>1. Types
      BY DEF ChannelInv
    <2>2. ASSUME NEW e \in Ends
          PROVE  /\ IsStream(out[e].waiting)
                 /\ ~out[e].waiting.attach
                 /\ out[e].write \in BOOLEAN
                 /\ out[e].unacked \in Nat
                 /\ IsStream(left[e])
                 /\ ~left[e].attach
                 /\ Len(handled[e]) <= Len(sent[Peer(e)])
                 /\ ctrl[e] \in SUBSET Flags
      <3>1. out[e] \in Outs /\ left[e] \in Streams /\ ctrl[e] \in SUBSET Flags
        BY <2>1 DEF Types
      <3>2. /\ out[e].waiting \in Streams /\ out[e].write \in BOOLEAN
            /\ out[e].unacked \in Nat
        BY <3>1, OutFields
      <3>3. /\ IsStream(out[e].waiting) /\ ~out[e].waiting.attach
            /\ IsStream(left[e]) /\ ~left[e].attach
        BY <3>1, <3>2, StreamsAre
      <3>4. InOrder(Peer(e)) /\ Peer(Peer(e)) = e /\ handled[e] \in Seq(Msg)
        BY <2>1, Peers DEF ChannelInv, Types
      <3>5. PICK more \in Seq(Msg) : sent[Peer(e)] = handled[e] \o more
        BY <3>4 DEF InOrder, OnTheWay
      <3>6. Len(sent[Peer(e)]) = Len(handled[e]) + Len(more)
        BY <3>4, <3>5, ConcatProperties
      <3>7. Len(handled[e]) \in Nat /\ Len(more) \in Nat
        BY <3>4, LenProperties
      <3>8. Len(handled[e]) <= Len(sent[Peer(e)])
        BY <3>6, <3>7
      <3>. QED
        BY <3>1, <3>2, <3>3, <3>8
    <2>3. cb \in [Ends -> {"none", "created", "released"}]
      BY <2>1 DEF Types
    <2>. QED
      BY <2>2, <2>3 DEF TypeOK
  <1>. QED
    BY <1>1, Inductive, PTL

\* KcpChannel::Send, _SendStream, _ContinueSend and _OnRcvMsg together: between two
\* channels no byte is lost, repeated or moved, for any message lengths, header size,
\* windows and number of messages, whoever sends them.
THEOREM NoByteLost == Spec => []BytesConserved
  <1>1. ChannelInv => BytesConserved
    <2>. SUFFICES ASSUME ChannelInv, NEW e \in Ends, cb[e] # "released"
                  PROVE  Flat(sent[e]) = Flat(handled[Peer(e)])
                                             \o Readable(left[Peer(e)])
                                             \o Cells(rcv[Peer(e)])
                                             \o Cells(out[e].flying)
                                             \o Readable(out[e].waiting)
      BY DEF BytesConserved
    <2>. DEFINE h == handled[Peer(e)]
                L == Readable(left[Peer(e)])
                R == Cells(rcv[Peer(e)])
                F == Cells(out[e].flying)
                W == Readable(out[e].waiting)
    <2>1. Types /\ InOrder(e) /\ Peer(e) \in Ends
      BY Peers DEF ChannelInv
    <2>2. PICK more \in Seq(Msg) : /\ sent[e] = h \o more
                                   /\ Flat(more) = L \o (R \o (F \o W))
      BY <2>1 DEF InOrder, OnTheWay
    <2>3. h \in Seq(Msg)
      BY <2>1 DEF Types
    <2>4. L \in Seq(Cell) /\ R \in Seq(Cell) /\ F \in Seq(Cell) /\ W \in Seq(Cell)
      <3>1. /\ left[Peer(e)] \in Streams /\ rcv[Peer(e)] \in Seq(MCell)
            /\ out[e] \in Outs
        BY <2>1 DEF Types
      <3>. QED
        BY <3>1, ReadableOf, CellsOf, OutFields
    <2>5. Flat(sent[e]) = Flat(h) \o (L \o (R \o (F \o W)))
      BY <2>2, <2>3, FlatConcat
    <2>6. Flat(h) \in Seq(Cell)
      BY <2>3, FlatType
    <2>. HIDE DEF h, L, R, F, W
    <2>. DEFINE H == Flat(h)
    <2>. HIDE DEF H
    <2>7. H \in Seq(Cell) /\ Flat(sent[e]) = H \o (L \o (R \o (F \o W)))
      BY <2>5, <2>6 DEF H
    <2>8. F \o W \in Seq(Cell) /\ H \o L \in Seq(Cell)
      BY <2>4, <2>7, CellConcat
    <2>9. R \o (F \o W) \in Seq(Cell) /\ (H \o L) \o R \in Seq(Cell)
      BY <2>4, <2>8, CellConcat
    <2>10. /\ Regrouped(H, L, R \o (F \o W)) /\ Regrouped(H \o L, R, F \o W)
           /\ Regrouped((H \o L) \o R, F, W)
      BY <2>4, <2>7, <2>8, <2>9, CellRegrouped
    <2>11. Flat(sent[e]) = (((H \o L) \o R) \o F) \o W
      BY <2>7, <2>10 DEF Regrouped
    <2>. QED
      BY <2>11 DEF H, h, L, R, F, W
  <1>. QED
    BY <1>1, Inductive, PTL

\* What an end has handled is a prefix of what the other has sent: no message is
\* handled twice, out of turn or without having been sent, also when the sender's
\* channel has been closed meanwhile.
HandledInOrder ==
    \A e \in Ends : \E more \in Seq(Msg) : sent[e] = handled[Peer(e)] \o more

THEOREM OnceAndInTurn == Spec => []HandledInOrder
  <1>1. ChannelInv => HandledInOrder
    BY DEF ChannelInv, InOrder, OnTheWay, HandledInOrder
  <1>. QED
    BY <1>1, Inductive, PTL

\* Bytes that wait in _waitingSendMsgStream are always flagged, so OnUpdate continues
\* to send them.
WaitingFlagged ==
    \A e \in Ends : ReadableBytes(out[e].waiting) # 0 => out[e].write

THEOREM NoWaitForgotten == Spec => []WaitingFlagged
  <1>1. ChannelInv => WaitingFlagged
    BY DEF ChannelInv, Flagged, WaitingFlagged
  <1>. QED
    BY <1>1, Inductive, PTL

=============================================================================
