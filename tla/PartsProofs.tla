----------------------------- MODULE PartsProofs -----------------------------
(***************************************************************************)
(* Machine-checked facts about four parts that run on their own            *)
(* (MCParts).  KcpFlush: the timers of a control block keep their promises *)
(* across the wrap of the 32-bit clock, for any intervals, timeouts and    *)
(* lengths of a run.  LibSocket: an answer goes back to the sender, for    *)
(* any number of sockets, hosts and datagrams waiting.  LogIniCfgMgr:      *)
(* levels, files and threads name each other, for any configuration.       *)
(* LibTime: texts, days and months agree with the calendar, for any units, *)
(* zone and day.                                                           *)
(***************************************************************************)
EXTENDS KcpFlush, LibTime, LibSocket, LogIniCfgMgr, FiniteSetTheorems, SequenceTheorems, WellFoundedInduction, TLAPS

-----------------------------------------------------------------------------
(* KcpFlush. *)

\* What the 32 bits must hold: the longest of the waits that are compared, so that
\* a difference is not taken for one of the other sign (24 days), and the wall clock
\* is never set back to where its 64 bits are less than 32.
ClockFits ==
    /\ Interval + Reset + Gap <= W \div 2
    /\ \A back \in SetBack : back <= Epoch - W

-----------------------------------------------------------------------------
(* Arithmetic of the clock. *)

LEMMA Positive ==
    /\ W \in Nat /\ W > 0 /\ Epoch \in Nat /\ Epoch >= W
    /\ Interval \in Nat /\ Interval > 0
    /\ Reset \in Nat /\ Reset > 0 /\ Gap \in Nat /\ Gap > 0
    /\ ProbeInit \in Nat /\ ProbeInit > 0 /\ ProbeLimit \in Nat /\ ProbeInit <= ProbeLimit
    /\ MinRto \in Nat /\ MinRto > 0 /\ DefRto \in Nat /\ MinRto <= DefRto
    /\ MaxRto \in Nat /\ DefRto <= MaxRto
    /\ FastResend \in Nat /\ FastResend > 0 /\ SndWnd \in Nat /\ SndWnd > 0
    /\ MaxSegs \in Nat
  BY FlushAssumption DEF Interval, Bound, Bigger, Smaller

\* Rounds of the clock.
Rounds(k) == W * k

\* What division and remainder are.
LEMMA Modulo ==
    \A x \in Int : /\ x % W \in 0..(W - 1) /\ x \div W \in Int
                   /\ x % W = x - Rounds(x \div W)
  <1>. TAKE x \in Int
  <1>1. x % W \in 0..(W - 1) /\ x \div W \in Int
    BY Positive
  <1>2. x % W = x - W * (x \div W)
    BY Positive
  <1>. QED
    BY <1>1, <1>2 DEF Rounds

LEMMA RoundsAdd ==
    /\ \A k \in Int : Rounds(k) \in Int
    /\ \A j, k \in Int : Rounds(j + k) = Rounds(j) + Rounds(k)
    /\ \A j, k \in Int : Rounds(j - k) = Rounds(j) - Rounds(k)
    /\ \A k \in Int : k >= 1 => Rounds(k) >= W
    /\ \A k \in Int : k <= -1 => Rounds(k) <= -W
    /\ Rounds(0) = 0 /\ Rounds(1) = W /\ Rounds(-1) = -W
  <1>1. \A j, k \in Int : W * (j + k) = W * j + W * k
    BY Positive
  <1>2. \A j, k \in Int : W * (j - k) = W * j - W * k
    BY Positive
  <1>3. \A k \in Int : k >= 1 => W * k >= W
    BY Positive
  <1>4. \A k \in Int : k <= -1 => W * k <= -W
    BY Positive
  <1>5. W * 0 = 0 /\ W * 1 = W /\ W * (-1) = -W /\ \A k \in Int : W * k \in Int
    BY Positive
  <1>. QED
    BY <1>1, <1>2, <1>3, <1>4, <1>5 DEF Rounds

\* Numbers that differ by rounds have the same remainder.
LEMMA SameRemainder ==
    ASSUME NEW x \in Int, NEW y \in Int, NEW k \in Int, x = y + Rounds(k)
    PROVE  x % W = y % W
  <1>. DEFINE p == x \div W
              q == y \div W
              d == (k - p) + q
              r == x % W
              s == y % W
  <1>1. /\ p \in Int /\ r \in 0..(W - 1) /\ r = x - Rounds(p)
        /\ q \in Int /\ s \in 0..(W - 1) /\ s = y - Rounds(q)
    BY Modulo
  <1>. HIDE DEF p, q, r, s
  <1>2. d \in Int /\ Rounds(d) = Rounds(k) - Rounds(p) + Rounds(q)
    BY <1>1, RoundsAdd
  <1>3. Rounds(k) \in Int /\ Rounds(p) \in Int /\ Rounds(q) \in Int
    BY <1>1, RoundsAdd
  <1>. HIDE DEF d
  <1>4. r - s = Rounds(d)
    BY <1>1, <1>2, <1>3
  <1>5. -W < Rounds(d) /\ Rounds(d) < W
    BY <1>1, <1>4, Positive
  <1>6. (d >= 1 => Rounds(d) >= W) /\ (d <= -1 => Rounds(d) <= -W) /\ Rounds(0) = 0
    BY <1>2, RoundsAdd
  <1>7. r = s
    <2>1. ~(d >= 1) /\ ~(d <= -1)
      <3>1. W \in Nat /\ Rounds(d) \in Int
        BY <1>2, RoundsAdd, Positive
      <3>. QED
        BY <1>5, <1>6, <3>1
    <2>2. d = 0
      BY <1>2, <2>1
    <2>. QED
      BY <1>1, <1>4, <1>6, <2>2
  <1>. QED
    BY <1>7 DEF r, s

\* A number below W is its own remainder.
LEMMA SmallRemainder == \A x \in 0..(W - 1) : x % W = x
  BY Positive

\* The difference of two remainders.
LEMMA RemainderOfDifference ==
    ASSUME NEW a \in Int, NEW b \in Int
    PROVE  ((a % W) - (b % W)) % W = (a - b) % W
  <1>. DEFINE p == a \div W
              q == b \div W
              r == a % W
              s == b % W
  <1>1. /\ p \in Int /\ r \in Int /\ r = a - Rounds(p)
        /\ q \in Int /\ s \in Int /\ s = b - Rounds(q)
    BY Modulo
  <1>. HIDE DEF p, q, r, s
  <1>2. q - p \in Int /\ Rounds(q - p) = Rounds(q) - Rounds(p)
        /\ Rounds(p) \in Int /\ Rounds(q) \in Int
    BY <1>1, RoundsAdd
  <1>3. r - s = (a - b) + Rounds(q - p)
    BY <1>1, <1>2
  <1>4. (r - s) % W = (a - b) % W
    BY <1>1, <1>2, <1>3, SameRemainder
  <1>. QED
    BY <1>4 DEF r, s

\* Two moments less than half the range apart are told apart on 32 bits.
LEMMA DiffIs ==
    ASSUME NEW a \in Int, NEW b \in Int,
           -(W \div 2) <= a - b, a - b < W \div 2
    PROVE  Diff(a % W, b % W) = a - b
  <1>. DEFINE d == ((a % W) - (b % W)) % W
  <1>1. d = (a - b) % W
    BY RemainderOfDifference
  <1>2. W \div 2 \in Nat /\ 2 * (W \div 2) <= W
    BY Positive
  <1>3. CASE a - b >= 0
    <2>1. (a - b) % W = a - b
      BY <1>2, <1>3, SmallRemainder, Positive
    <2>. QED
      BY <1>1, <2>1 DEF Diff
  <1>4. CASE a - b < 0
    <2>1. a - b + W \in 0..(W - 1) /\ a - b = (a - b + W) + Rounds(-1)
      BY <1>2, <1>4, Positive, RoundsAdd
    <2>2. (a - b) % W = (a - b + W) % W
      BY <2>1, SameRemainder
    <2>3. d = a - b + W
      BY <1>1, <2>1, <2>2, SmallRemainder
    <2>4. ~(d < W \div 2)
      BY <1>2, <2>3, Positive
    <2>5. Diff(a % W, b % W) = d - W
      BY <2>4 DEF Diff
    <2>. HIDE DEF d
    <2>. QED
      BY <2>3, <2>5, Positive
  <1>. QED
    BY <1>3, <1>4

\* Whatever the difference says, it leads back from one to the other.
LEMMA DiffBack ==
    ASSUME NEW a \in Int, NEW ts \in 0..(W - 1)
    PROVE  /\ Diff(a % W, ts) \in Int
           /\ ts = (a - Diff(a % W, ts)) % W
  <1>. DEFINE r == a % W
              d == (r - ts) % W
              v == Diff(r, ts)
              p == a \div W
              q == (r - ts) \div W
  <1>1. p \in Int /\ r \in Int /\ r = a - Rounds(p)
    BY Modulo
  <1>2. r - ts \in Int
    BY <1>1
  <1>3. q \in Int /\ d \in Int /\ d = r - ts - Rounds(q)
    BY <1>2, Modulo
  <1>4. v = d \/ v = d - W
    BY DEF Diff
  <1>. HIDE DEF d, v, p, q, r
  <1>5. /\ p + q \in Int /\ Rounds(p + q) = Rounds(p) + Rounds(q)
        /\ p + q + 1 \in Int /\ Rounds(p + q + 1) = Rounds(p) + Rounds(q) + W
        /\ Rounds(p) \in Int /\ Rounds(q) \in Int
    BY <1>1, <1>3, RoundsAdd
  <1>6. v \in Int
    BY <1>3, <1>4, Positive
  <1>7. a - v = ts + Rounds(p + q) \/ a - v = ts + Rounds(p + q + 1)
    BY <1>1, <1>3, <1>4, <1>5, Positive
  <1>8. (a - v) % W = ts % W
    BY <1>5, <1>6, <1>7, SameRemainder
  <1>9. ts % W = ts
    BY SmallRemainder
  <1>. QED
    BY <1>6, <1>8, <1>9 DEF v, r

\* A time in the future.
LEMMA AfterIs ==
    ASSUME NEW a \in Int, NEW k \in Int
    PROVE  After(a % W, k) = (a + k) % W /\ After(a % W, k) \in 0..(W - 1)
  <1>. DEFINE p == a \div W
              r == a % W
  <1>1. p \in Int /\ r \in Int /\ r = a - Rounds(p)
    BY Modulo
  <1>. HIDE DEF p, r
  <1>2. Rounds(p) \in Int
    BY <1>1, RoundsAdd
  <1>3. (a + k) % W = (r + k) % W
    <2>1. a + k = (r + k) + Rounds(p)
      BY <1>1, <1>2
    <2>. QED
      BY <1>1, <2>1, SameRemainder
  <1>4. (r + k) % W \in 0..(W - 1)
    BY <1>1, Modulo
  <1>. QED
    BY <1>3, <1>4 DEF After, r

-----------------------------------------------------------------------------
(* The inductive invariant. *)

Segment == [ts : 0..(W - 1), resendts : 0..(W - 1), rto : Nat \ {0}, fastack : Nat,
            xmit : Nat \ {0}]

Transmission == [sn : Nat, ts : 0..(W - 1), at : Nat, copies : Nat]

\* What else the variables are; the loop passes in time, and what was sent was sent
\* by a flush.
Moments ==
    /\ time \in Nat /\ behind \in {0} \cup SetBack
    /\ pass \in Nat /\ flushed \in Nat /\ probedAt \in Nat
    /\ flushed <= pass /\ pass <= time /\ time <= pass + Gap
    /\ probedAt <= flushed
    /\ queued \in Nat /\ snd_una \in Nat /\ snd_nxt \in Nat /\ snd_una <= snd_nxt
    /\ \A sn \in DOMAIN snd_buf :
          snd_buf[sn] \in Segment /\ sentAt[sn] \in Nat /\ sentAt[sn] <= flushed
    /\ net \subseteq Transmission /\ got \subseteq Nat

\* Nothing is sent before the first flush.
Quiet == ~updated => DOMAIN snd_buf = {} /\ probe_wait = 0

\* A segment has been passed over only by one that the other end has received.
Passed == \A sn \in DOMAIN snd_buf :
              snd_buf[sn].fastack > 0 => \E later \in got : later > sn

Types == TypeOK /\ Moments /\ Quiet /\ Passed

\* The real time that ts_flush stands for lies after the last pass of the loop,
\* and not too late; only once the clock was set back it may stand for anything
\* until the next pass.
DueAt(due) ==
    /\ pass < due
    /\ due <= flushed + Interval + (IF behind = 0 THEN 0 ELSE Reset + Gap - 1)
    /\ ts_flush = (Epoch + due - behind) % W

NextFlushSet ==
    updated => \/ \E due \in Nat : DueAt(due)
               \/ behind # 0 /\ pass < flushed + Interval

\* At the last flush no timeout of a segment that stayed had run out, and the
\* control block knows when it does.
ResendSet ==
    behind = 0 =>
        \A sn \in DOMAIN snd_buf :
            /\ flushed < sentAt[sn] + snd_buf[sn].rto
            /\ snd_buf[sn].resendts = (Epoch + sentAt[sn] + snd_buf[sn].rto) % W

\* The same of the probe timer.
ProbeSet ==
    behind = 0 /\ probe_wait # 0 =>
        /\ flushed < probedAt + probe_wait
        /\ ts_probe = (Epoch + probedAt + probe_wait) % W

Timing == NextFlushSet /\ ResendSet /\ ProbeSet

-----------------------------------------------------------------------------
(* What the operators do. *)

\* A set of numbers has a least one.
LEMMA LeastOf ==
    ASSUME NEW S \in SUBSET Nat, S # {}
    PROVE  \E x \in S : \A y \in S : x <= y
  <1>1. PICK x \in S : \A y \in S : ~(<<y, x>> \in OpToRel(<, Nat))
    BY NatLessThanWellFounded, WFMin
  <1>2. ASSUME NEW y \in S
        PROVE  x <= y
    <2>1. y \in Nat /\ x \in Nat
      OBVIOUS
    <2>2. y < x => <<y, x>> \in OpToRel(<, Nat)
      BY <2>1 DEF OpToRel
    <2>3. ~(y < x)
      BY <1>1, <2>2
    <2>. QED
      BY <2>1, <2>3
  <1>. QED
    BY <1>2

LEMMA AdmittedSome == Types => Admitted \in 0..queued
  BY Positive DEF Types, TypeOK, Moments, Admitted, Bound, Bigger, Smaller

\* Every round trip leaves the estimate a positive one.
LEMMA MeasuredType ==
    ASSUME NEW r, r \in [srtt : Nat, rttval : Nat, rto : MinRto..MaxRto],
           NEW m, Diff(current, m.ts) \in Int
    PROVE  Measured(r, m) \in [srtt : Nat, rttval : Nat, rto : MinRto..MaxRto]
  <1>. DEFINE rtt == Diff(current, m.ts)
              delta == IF rtt > r.srtt THEN rtt - r.srtt ELSE r.srtt - rtt
              srtt == IF r.srtt = 0 THEN rtt ELSE Smoothed(r.srtt, rtt)
              rttval == IF r.srtt = 0 THEN rtt \div 2 ELSE (3 * r.rttval + delta) \div 4
              rto == Bound(MinRto, srtt + Bigger(Interval, 4 * rttval), MaxRto)
  <1>1. CASE rtt >= 0
    <2>1. Measured(r, m) = [srtt |-> srtt, rttval |-> rttval, rto |-> rto]
      BY <1>1 DEF Measured, UpdateAck
    <2>2. rtt \in Nat /\ r.srtt \in Nat /\ r.rttval \in Nat
      BY <1>1
    <2>. HIDE DEF rtt
    <2>3. srtt \in Nat /\ delta \in Nat
      BY <2>2 DEF Smoothed, Bigger
    <2>. HIDE DEF srtt, delta
    <2>4. rttval \in Nat
      BY <2>2, <2>3
    <2>. HIDE DEF rttval
    <2>5. rto \in MinRto..MaxRto
      BY <2>3, <2>4, Positive DEF Bound, Bigger, Smaller
    <2>. HIDE DEF rto
    <2>. QED
      BY <2>1, <2>3, <2>4, <2>5
  <1>2. CASE ~(rtt >= 0)
    BY <1>2 DEF Measured
  <1>. QED
    BY <1>1, <1>2

LEMMA AfterType == \A a \in 0..(W - 1), k \in Int : After(a, k) \in 0..(W - 1)
  BY Modulo DEF After

LEMMA DiffType == \A a, b \in 0..(W - 1) : Diff(a, b) \in Int
  <1>. SUFFICES ASSUME NEW a \in 0..(W - 1), NEW b \in 0..(W - 1) PROVE Diff(a, b) \in Int
    OBVIOUS
  <1>1. (a - b) % W \in Int
    BY Modulo
  <1>. QED
    BY <1>1, Positive DEF Diff

\* What ikcp_check returns fits in 32 bits.
LEMMA CheckFits ==
    ASSUME Types, NEW cur \in 0..(W - 1)
    PROVE  Check(cur) \in 0..(W - 1)
  <1>. DEFINE base == IF Diff(cur, ts_flush) < Reset /\ Diff(cur, ts_flush) >= -Reset
                      THEN ts_flush ELSE cur
              waits == {Diff(base, cur), Interval}
                          \cup {Diff(snd_buf[sn].resendts, cur) : sn \in DOMAIN snd_buf}
  <1>1. base \in 0..(W - 1)
    BY DEF Types, TypeOK
  <1>2. \A sn \in DOMAIN snd_buf : snd_buf[sn].resendts \in 0..(W - 1)
    BY DEF Types, Moments, Segment
  <1>3. waits \subseteq Int
    BY <1>1, <1>2, DiffType, Positive
  <1>4. \A k \in Int : After(cur, k) \in 0..(W - 1)
    BY Modulo DEF After
  <1>5. Check(cur) = cur
        \/ /\ \A w \in waits : ~(w <= 0)
           /\ Check(cur) = After(cur, CHOOSE w \in waits : \A v \in waits : w <= v)
    BY DEF Check
  <1>. HIDE DEF waits
  <1>6. waits # {}
    BY DEF waits
  <1>7. ASSUME \A w \in waits : ~(w <= 0)
        PROVE  (CHOOSE w \in waits : \A v \in waits : w <= v) \in Int
    <2>1. waits \in SUBSET Nat
      BY <1>3, <1>7
    <2>2. \E w \in waits : \A v \in waits : w <= v
      BY <1>6, <2>1, LeastOf
    <2>. DEFINE least == CHOOSE w \in waits : \A v \in waits : w <= v
    <2>3. least \in waits
      BY <2>2
    <2>. HIDE DEF least
    <2>4. least \in Int
      BY <1>3, <2>3
    <2>. QED
      BY <2>4 DEF least
  <1>. QED
    BY <1>4, <1>5, <1>7

\* A flush sends a segment and sets its timer, or leaves it as it was.
LEMMA FlushedIs ==
    ASSUME Types, NEW cur \in 0..(W - 1), NEW sn \in DOMAIN Filled
    PROVE  \/ /\ Sends(Filled[sn], cur)
              /\ Flushed(Filled[sn], cur) \in Segment
              /\ Flushed(Filled[sn], cur).resendts = After(cur, Flushed(Filled[sn], cur).rto)
              /\ Flushed(Filled[sn], cur).fastack > 0 =>
                     sn \in DOMAIN snd_buf /\ snd_buf[sn].fastack > 0
           \/ /\ ~Sends(Filled[sn], cur)
              /\ sn \in DOMAIN snd_buf
              /\ Flushed(Filled[sn], cur) = snd_buf[sn]
              /\ ~TimesOut(snd_buf[sn], cur)
  <1>. DEFINE seg == Filled[sn]
              rto == IF seg.xmit = 0 THEN rx.rto
                     ELSE IF TimesOut(seg, cur) THEN seg.rto + seg.rto \div 2 ELSE seg.rto
              fastack == IF seg.xmit # 0 /\ ~TimesOut(seg, cur) THEN 0 ELSE seg.fastack
  <1>1. \/ sn \in DOMAIN snd_buf /\ seg = snd_buf[sn] /\ seg \in Segment
        \/ sn \notin DOMAIN snd_buf
           /\ seg = [ts |-> 0, resendts |-> 0, rto |-> rx.rto, fastack |-> 0, xmit |-> 0]
    BY DEF Filled, Types, Moments
  <1>2. rx.rto \in Nat \ {0}
    BY Positive DEF Types, TypeOK
  <1>3. seg.rto \in Nat \ {0} /\ seg.fastack \in Nat /\ seg.xmit \in Nat
    BY <1>1, <1>2 DEF Segment
  <1>4. seg.fastack > 0 => sn \in DOMAIN snd_buf /\ snd_buf[sn].fastack > 0
    BY <1>1
  <1>5. CASE Sends(seg, cur)
    <2>1. Flushed(seg, cur) = [ts |-> cur, resendts |-> After(cur, rto), rto |-> rto,
                               fastack |-> fastack, xmit |-> seg.xmit + 1]
      BY <1>5 DEF Flushed
    <2>. HIDE DEF seg
    <2>2. rto \in Nat \ {0} /\ fastack \in Nat /\ (fastack > 0 => seg.fastack > 0)
      BY <1>2, <1>3
    <2>3. After(cur, rto) \in 0..(W - 1)
      BY <2>2, Modulo DEF After
    <2>. HIDE DEF rto, fastack
    <2>4. Flushed(seg, cur) \in Segment
      BY <1>3, <2>1, <2>2, <2>3 DEF Segment
    <2>5. /\ Flushed(seg, cur).resendts = After(cur, Flushed(seg, cur).rto)
          /\ Flushed(seg, cur).fastack > 0 => sn \in DOMAIN snd_buf /\ snd_buf[sn].fastack > 0
      BY <1>4, <2>1, <2>2
    <2>. QED
      BY <1>5, <2>4, <2>5 DEF seg
  <1>6. CASE ~Sends(seg, cur)
    <2>1. Flushed(seg, cur) = seg
      BY <1>6 DEF Flushed
    <2>2. seg.xmit # 0 /\ ~TimesOut(seg, cur)
      BY <1>6 DEF Sends
    <2>3. sn \in DOMAIN snd_buf /\ seg = snd_buf[sn]
      BY <1>1, <2>2
    <2>. QED
      BY <1>6, <2>1, <2>2, <2>3
  <1>. QED
    BY <1>5, <1>6

\* The probe timer is always set to some positive wait.
LEMMA ProbeWaits ==
    ASSUME Types, NEW cur \in 0..(W - 1)
    PROVE  /\ ProbeWait(cur) \in {0} \cup ProbeInit..ProbeLimit
           /\ rmt_wnd # 0 <=> ProbeWait(cur) = 0
  <1>1. probe_wait \in {0} \cup ProbeInit..ProbeLimit
    BY DEF Types, TypeOK
  <1>2. Bigger(probe_wait, ProbeInit) \in ProbeInit..ProbeLimit
    BY <1>1, Positive DEF Bigger
  <1>3. \A p \in ProbeInit..ProbeLimit :
           Smaller(ProbeLimit, p + p \div 2) \in ProbeInit..ProbeLimit
    BY Positive DEF Smaller
  <1>. QED
    BY <1>1, <1>2, <1>3, Positive DEF ProbeWait, ProbeExpired

-----------------------------------------------------------------------------
(* The types, and what a segment was passed over by. *)

LEMMA InitTypes == Init => Types
  <1>. SUFFICES ASSUME Init PROVE Types
    OBVIOUS
  <1>1. Interval \in 0..(W - 1)
    BY FlushAssumption DEF Interval, Bound, Bigger, Smaller
  <1>2. DOMAIN snd_buf = {} /\ DOMAIN sentAt = {}
    BY DEF Init
  <1>3. TypeOK
    <2>1. rx \in [srtt : Nat, rttval : Nat, rto : MinRto..MaxRto]
      BY Positive DEF Init
    <2>2. {current, ts_flush, ts_probe} \subseteq 0..(W - 1) /\ updated \in BOOLEAN
      <3>1. current = 0 /\ ts_flush = Interval /\ ts_probe = 0 /\ updated = FALSE
        BY DEF Init
      <3>2. 0 \in 0..(W - 1)
        BY Positive
      <3>. QED
        BY <1>1, <3>1, <3>2
    <2>3. rmt_wnd \in {0, SndWnd} /\ probe_wait = 0 /\ snd_nxt + queued <= MaxSegs
      BY Positive DEF Init
    <2>. QED
      BY <1>2, <2>1, <2>2, <2>3 DEF TypeOK
  <1>4. Moments
    BY <1>2, Positive DEF Init, Moments
  <1>5. Quiet /\ Passed
    BY <1>2 DEF Init, Quiet, Passed
  <1>. QED
    BY <1>3, <1>4, <1>5 DEF Types

LEMMA WallType == Types => Wall \in Int /\ Wall % W \in 0..(W - 1)
  <1>. SUFFICES ASSUME Types PROVE Wall \in Int
    BY Modulo
  <1>1. behind \in Nat /\ time \in Nat
    BY FlushAssumption DEF Types, Moments
  <1>. QED
    BY <1>1, Positive DEF Wall

LEMMA FlushBaseType ==
    ASSUME Types, NEW cur \in 0..(W - 1)
    PROVE  FlushBase(cur) \in 0..(W - 1) /\ NextFlush(cur) \in 0..(W - 1)
  <1>1. FlushBase(cur) \in 0..(W - 1)
    BY DEF Types, TypeOK, FlushBase
  <1>2. \A a \in 0..(W - 1) : After(a, Interval) \in 0..(W - 1)
    BY Modulo, Positive DEF After
  <1>. QED
    BY <1>1, <1>2 DEF NextFlush

\* The segments after a flush.
LEMMA FlushSegments ==
    ASSUME Types, NEW cur \in 0..(W - 1), Flush(cur)
    PROVE  /\ DOMAIN snd_buf' = DOMAIN snd_buf \cup snd_nxt..(snd_nxt + Admitted - 1)
           /\ DOMAIN sentAt' = DOMAIN snd_buf'
           /\ \A sn \in DOMAIN snd_buf' :
                 \/ /\ snd_buf'[sn] \in Segment /\ sentAt'[sn] = time
                    /\ snd_buf'[sn].resendts = After(cur, snd_buf'[sn].rto)
                    /\ snd_buf'[sn].fastack > 0 =>
                           sn \in DOMAIN snd_buf /\ snd_buf[sn].fastack > 0
                 \/ /\ sn \in DOMAIN snd_buf
                    /\ snd_buf'[sn] = snd_buf[sn] /\ sentAt'[sn] = sentAt[sn]
                    /\ ~TimesOut(snd_buf[sn], cur)
  <1>1. /\ snd_buf' = [sn \in DOMAIN Filled |-> Flushed(Filled[sn], cur)]
        /\ sentAt' = [sn \in DOMAIN Filled |->
                         IF sn \in {n \in DOMAIN Filled : Sends(Filled[n], cur)}
                         THEN time ELSE sentAt[sn]]
    BY DEF Flush
  <1>2. DOMAIN Filled = DOMAIN snd_buf \cup snd_nxt..(snd_nxt + Admitted - 1)
    BY DEF Filled
  <1>3. ASSUME NEW sn \in DOMAIN Filled
        PROVE  /\ snd_buf'[sn] = Flushed(Filled[sn], cur)
               /\ sentAt'[sn] = IF Sends(Filled[sn], cur) THEN time ELSE sentAt[sn]
    BY <1>1
  <1>. QED
    BY <1>1, <1>2, <1>3, FlushedIs

\* Everything but the clock's comparisons.
LEMMA FlushTypes ==
    ASSUME Types, NEW cur \in 0..(W - 1), Flush(cur),
           current' = cur, updated' = TRUE, pass' = time, ts_flush' \in 0..(W - 1),
           UNCHANGED <<time, behind, snd_una, rx, rmt_wnd, got>>
    PROVE  Types'
  <1>1. /\ DOMAIN snd_buf' = DOMAIN snd_buf \cup snd_nxt..(snd_nxt + Admitted - 1)
        /\ DOMAIN sentAt' = DOMAIN snd_buf'
        /\ \A sn \in DOMAIN snd_buf' :
              \/ /\ snd_buf'[sn] \in Segment /\ sentAt'[sn] = time
                 /\ snd_buf'[sn].fastack > 0 =>
                        sn \in DOMAIN snd_buf /\ snd_buf[sn].fastack > 0
              \/ /\ sn \in DOMAIN snd_buf
                 /\ snd_buf'[sn] = snd_buf[sn] /\ sentAt'[sn] = sentAt[sn]
    BY FlushSegments
  <1>2. Admitted \in 0..queued
    BY AdmittedSome
  <1>3. /\ queued' = queued - Admitted /\ snd_nxt' = snd_nxt + Admitted /\ flushed' = time
    BY DEF Flush
  <1>. HIDE DEF Admitted
  <1>4. /\ \A sn \in DOMAIN snd_buf : /\ snd_buf[sn] \in Segment /\ sentAt[sn] \in Nat
                                      /\ sentAt[sn] <= flushed
        /\ flushed \in Nat /\ time \in Nat /\ flushed <= time
    BY DEF Types, Moments
  <1>5. \A sn \in DOMAIN snd_buf' :
           snd_buf'[sn] \in Segment /\ sentAt'[sn] \in Nat /\ sentAt'[sn] <= time
    BY <1>1, <1>4
  <1>6. probe_wait' = ProbeWait(cur) /\ probe_wait' \in {0} \cup ProbeInit..ProbeLimit
    BY ProbeWaits DEF Flush, Probe
  <1>7. ts_probe' \in 0..(W - 1) /\ probedAt' \in Nat /\ probedAt' <= time
    <2>1. ts_probe' \in {After(cur, ProbeWait(cur)), ts_probe, 0} /\ probedAt' \in {time, probedAt}
      BY DEF Flush, Probe
    <2>2. After(cur, ProbeWait(cur)) \in 0..(W - 1)
      <3>1. ProbeWait(cur) \in Int
        BY <1>6, Positive
      <3>. QED
        BY <3>1, AfterType
    <2>. QED
      BY <1>4, <2>1, <2>2, Positive DEF Types, TypeOK, Moments
  <1>8. DOMAIN snd_buf' \subseteq snd_una'..(snd_nxt' - 1)
    <2>1. /\ DOMAIN snd_buf \subseteq snd_una..(snd_nxt - 1)
          /\ snd_una \in Nat /\ snd_nxt \in Nat /\ queued \in Nat /\ snd_una <= snd_nxt
      BY DEF Types, TypeOK, Moments
    <2>. QED
      BY <1>1, <1>2, <1>3, <2>1
  <1>9. net' \subseteq Transmission
    <2>1. PICK sending : /\ sending \subseteq DOMAIN Filled
                         /\ net' = net \cup {[sn |-> sn, ts |-> cur, at |-> time,
                                               copies |-> Copies] : sn \in sending}
      BY DEF Flush
    <2>2. DOMAIN Filled \subseteq Nat
      BY <1>1, <1>2 DEF Filled, Types, TypeOK, Moments
    <2>3. Copies \in Nat
      BY FlushAssumption
    <2>. QED
      BY <1>4, <2>1, <2>2, <2>3 DEF Types, Moments, Transmission
  <1>10. TypeOK'
    <2>1. \A sn \in DOMAIN snd_buf' :
             /\ {snd_buf'[sn].ts, snd_buf'[sn].resendts} \subseteq 0..(W - 1)
             /\ {snd_buf'[sn].rto, snd_buf'[sn].xmit} \subseteq Nat \ {0}
             /\ snd_buf'[sn].fastack \in Nat
      BY <1>5 DEF Segment
    <2>2. snd_nxt' + queued' <= MaxSegs
      BY <1>2, <1>3, Positive DEF Types, TypeOK, Moments
    <2>. QED
      BY <1>1, <1>6, <1>7, <1>8, <2>1, <2>2 DEF Types, TypeOK
  <1>11. Moments'
    BY <1>2, <1>3, <1>4, <1>5, <1>7, <1>9, Positive DEF Types, Moments
  <1>12. Quiet'
    BY DEF Quiet
  <1>13. Passed'
    BY <1>1 DEF Types, Passed
  <1>. QED
    BY <1>10, <1>11, <1>12, <1>13 DEF Types

LEMMA OnUpdateTypes == Types /\ OnUpdate => Types'
  <1>. SUFFICES ASSUME Types, OnUpdate PROVE Types'
    OBVIOUS
  <1>. DEFINE cur == Wall % W
  <1>1. cur \in 0..(W - 1)
    BY WallType
  <1>2. pass' = time /\ UNCHANGED <<time, behind, snd_una, rx, rmt_wnd, got>>
    BY DEF OnUpdate
  <1>3. \/ Update(cur)
        \/ UNCHANGED <<timers, queued, snd_nxt, net, ghosts>>
    BY DEF OnUpdate
  <1>. HIDE DEF cur
  <1>4. CASE Update(cur) /\ FlushDue(cur)
    BY <1>1, <1>2, <1>4, FlushTypes, FlushBaseType DEF Update
  <1>5. CASE \/ Update(cur) /\ ~FlushDue(cur)
             \/ UNCHANGED <<timers, queued, snd_nxt, net, ghosts>>
    <2>1. UNCHANGED <<queued, snd_nxt, snd_buf, net, probe_wait, ts_probe, flushed, sentAt,
                      probedAt>>
      BY <1>5 DEF Update, timers, ghosts
    <2>2. /\ ts_flush' \in 0..(W - 1) /\ current' \in 0..(W - 1) /\ updated' \in BOOLEAN
          /\ updated => updated'
      BY <1>1, <1>5, FlushBaseType DEF Update, timers, Types, TypeOK
    <2>3. TypeOK'
      BY <1>2, <2>1, <2>2 DEF Types, TypeOK
    <2>4. Moments'
      BY <1>2, <2>1, Positive DEF Types, Moments
    <2>5. Quiet' /\ Passed'
      BY <1>2, <2>1, <2>2 DEF Types, Quiet, Passed
    <2>. QED
      BY <2>3, <2>4, <2>5 DEF Types
  <1>. QED
    BY <1>3, <1>4, <1>5

LEMMA AnswerTypes == Types /\ Answer => Types'
  <1>. SUFFICES ASSUME Types, Answer PROVE Types'
    OBVIOUS
  <1>1. PICK acks \in Acks, wnd \in {0, SndWnd}, una \in snd_una..Missing :
           /\ Len(acks) = 2 => acks[1].sn < acks[2].sn
           /\ got' = got \cup {acks[i].sn : i \in 1..Len(acks)}
           /\ net' = Answered(acks)
           /\ Input(acks, una, wnd)
    BY DEF Answer
  <1>2. UNCHANGED <<time, behind, pass, current, updated, ts_flush, queued,
                    snd_nxt, probe_wait, ts_probe, flushed, probedAt>>
    BY DEF Answer
  <1>3. net \subseteq Transmission /\ got \subseteq Nat
    BY DEF Types, Moments
  <1>4. /\ Len(acks) \in 0..2
        /\ \A i \in 1..Len(acks) : acks[i] \in net
    BY DEF Acks
  <1>5. \A i \in 1..Len(acks) : acks[i].sn \in Nat /\ Diff(current, acks[i].ts) \in Int
    BY <1>3, <1>4, DiffType DEF Transmission, Types, TypeOK
  <1>. DEFINE numbers == {acks[i].sn : i \in 1..Len(acks)}
              left == {sn \in DOMAIN snd_buf : sn >= una} \ numbers
              maxack == CHOOSE sn \in numbers : \A other \in numbers : other <= sn
              counts == numbers # {} /\ maxack >= snd_una' /\ maxack < snd_nxt
  <1>6. /\ snd_una' = CHOOSE sn \in left \cup {snd_nxt} :
                          \A other \in left \cup {snd_nxt} : sn <= other
        /\ snd_buf' = [sn \in left |->
                         [snd_buf[sn] EXCEPT
                            !.fastack = IF counts /\ PassedOver(sn, maxack)
                                        THEN @ + 1 ELSE @]]
        /\ sentAt' = [sn \in left |-> sentAt[sn]]
        /\ rmt_wnd' = wnd
        /\ rx' = MeasuredAll(rx, acks)
    BY <1>1 DEF Input
  <1>7. numbers # {} => maxack \in numbers
    <2>. SUFFICES ASSUME numbers # {}
                  PROVE  \E sn \in numbers : \A other \in numbers : other <= sn
      OBVIOUS
    <2>1. Len(acks) = 1 \/ Len(acks) = 2
      BY <1>4
    <2>2. CASE Len(acks) = 1
      BY <1>5, <2>2
    <2>3. CASE Len(acks) = 2
      BY <1>1, <1>5, <2>3
    <2>. QED
      BY <2>1, <2>2, <2>3
  <1>8. numbers \subseteq Nat /\ got' = got \cup numbers
    BY <1>1, <1>5
  <1>9. left \subseteq DOMAIN snd_buf
    OBVIOUS
  <1>10. /\ DOMAIN snd_buf \subseteq snd_una..(snd_nxt - 1) /\ DOMAIN snd_buf = DOMAIN sentAt
         /\ snd_una \in Nat /\ snd_nxt \in Nat /\ snd_una <= snd_nxt
         /\ \A sn \in DOMAIN snd_buf : /\ snd_buf[sn] \in Segment /\ sentAt[sn] \in Nat
                                       /\ sentAt[sn] <= flushed
    BY DEF Types, TypeOK, Moments
  <1>. HIDE DEF left, numbers, maxack, counts
  <1>11. ASSUME NEW sn \in left
         PROVE  /\ snd_buf'[sn] \in Segment
                /\ snd_buf'[sn].fastack > 0 =>
                       snd_buf[sn].fastack > 0 \/ (counts /\ PassedOver(sn, maxack))
    <2>1. snd_buf'[sn] = [snd_buf[sn] EXCEPT
                            !.fastack = IF counts /\ PassedOver(sn, maxack)
                                        THEN snd_buf[sn].fastack + 1 ELSE snd_buf[sn].fastack]
      BY <1>6
    <2>2. snd_buf[sn] \in Segment
      BY <1>9, <1>10
    <2>. QED
      BY <2>1, <2>2 DEF Segment
  <1>12. DOMAIN snd_buf' = left /\ DOMAIN sentAt' = left
         /\ \A sn \in left : sentAt'[sn] = sentAt[sn]
    BY <1>6
  <1>13. snd_una' \in Nat /\ snd_una' <= snd_nxt /\ left \subseteq snd_una'..(snd_nxt - 1)
    <2>. DEFINE S == left \cup {snd_nxt}
                least == CHOOSE sn \in S : \A other \in S : sn <= other
    <2>1. S \in SUBSET Nat /\ S # {}
      BY <1>9, <1>10
    <2>2. \E sn \in S : \A other \in S : sn <= other
      BY <2>1, LeastOf
    <2>3. least \in S /\ \A other \in S : least <= other
      BY <2>2
    <2>4. snd_una' = least
      BY <1>6
    <2>. HIDE DEF least
    <2>5. snd_una' \in Nat /\ \A other \in left : snd_una' <= other
      BY <2>1, <2>3, <2>4
    <2>6. snd_una' <= snd_nxt
      BY <2>3, <2>4
    <2>. QED
      BY <1>9, <1>10, <2>5, <2>6
  <1>14. rx' \in [srtt : Nat, rttval : Nat, rto : MinRto..MaxRto]
    <2>. DEFINE R == [srtt : Nat, rttval : Nat, rto : MinRto..MaxRto]
    <2>1. rx \in R
      BY DEF Types, TypeOK
    <2>2. \A r \in R : \A i \in 1..Len(acks) : Measured(r, acks[i]) \in R
      BY <1>5, MeasuredType
    <2>. HIDE DEF R
    <2>3. Len(acks) = 0 => rx' = rx
      BY <1>6 DEF MeasuredAll
    <2>4. Len(acks) = 1 => rx' = Measured(rx, acks[1])
      BY <1>6 DEF MeasuredAll
    <2>5. Len(acks) = 2 => rx' = Measured(Measured(rx, acks[1]), acks[2])
      BY <1>6 DEF MeasuredAll
    <2>6. Len(acks) = 2 => Measured(rx, acks[1]) \in R
      BY <2>1, <2>2
    <2>7. rx' \in R
      BY <1>4, <2>1, <2>2, <2>3, <2>4, <2>5, <2>6
    <2>. QED
      BY <2>7 DEF R
  <1>15. net' \subseteq Transmission
    <2>. DEFINE ms == {acks[i] : i \in 1..Len(acks)}
    <2>1. ms \subseteq net
      BY <1>4
    <2>2. net' = (net \ ms) \cup {[m EXCEPT !.copies = m.copies - 1] :
                                      m \in {n \in ms : n.copies > 1}}
      BY <1>1 DEF Answered
    <2>. HIDE DEF ms
    <2>3. ASSUME NEW m \in ms, m.copies > 1
          PROVE  [m EXCEPT !.copies = m.copies - 1] \in Transmission
      <3>1. m \in Transmission
        BY <1>3, <2>1
      <3>2. m.copies - 1 \in Nat
        BY <2>3, <3>1 DEF Transmission
      <3>. QED
        BY <3>1, <3>2 DEF Transmission
    <2>. QED
      BY <1>3, <2>1, <2>2, <2>3
  <1>16. TypeOK'
    <2>1. \A sn \in left : /\ {snd_buf'[sn].ts, snd_buf'[sn].resendts} \subseteq 0..(W - 1)
                           /\ {snd_buf'[sn].rto, snd_buf'[sn].xmit} \subseteq Nat \ {0}
                           /\ snd_buf'[sn].fastack \in Nat
      BY <1>11 DEF Segment
    <2>. QED
      BY <1>2, <1>6, <1>12, <1>13, <1>14, <2>1 DEF Types, TypeOK
  <1>17. Moments'
    <2>1. \A sn \in left :
             snd_buf'[sn] \in Segment /\ sentAt'[sn] \in Nat /\ sentAt'[sn] <= flushed
      BY <1>9, <1>10, <1>11, <1>12
    <2>. QED
      BY <1>2, <1>3, <1>8, <1>12, <1>13, <1>15, <2>1 DEF Types, Moments
  <1>18. Quiet'
    BY <1>2, <1>9, <1>12 DEF Types, Quiet
  <1>19. Passed'
    <2>1. ASSUME NEW sn \in left, snd_buf'[sn].fastack > 0
          PROVE  \E later \in got' : later > sn
      <3>1. CASE snd_buf[sn].fastack > 0
        BY <1>8, <1>9, <3>1 DEF Types, Passed
      <3>2. CASE counts /\ PassedOver(sn, maxack)
        <4>1. maxack \in numbers /\ maxack \in Nat /\ sn < maxack
          BY <1>7, <1>8, <3>2 DEF counts, PassedOver
        <4>2. sn \in Nat
          BY <1>9, <1>10
        <4>. QED
          BY <1>8, <4>1, <4>2
      <3>. QED
        BY <1>11, <2>1, <3>1, <3>2
    <2>. QED
      BY <1>12, <2>1 DEF Passed
  <1>. QED
    BY <1>16, <1>17, <1>18, <1>19 DEF Types

LEMMA NextTypes == Types /\ [Next]_vars => Types'
  <1>. SUFFICES ASSUME Types, [Next]_vars PROVE Types'
    OBVIOUS
  <1>1. CASE Send
    <2>1. /\ UNCHANGED <<time, behind, pass, timers, snd_una, snd_nxt, rx, rmt_wnd, net,
                         got, ghosts>>
          /\ snd_nxt + queued < MaxSegs /\ queued' = queued + 1
      BY <1>1 DEF Send
    <2>2. queued \in Nat /\ snd_nxt \in Nat /\ MaxSegs \in Nat
      BY Positive DEF Types, Moments
    <2>3. queued' \in Nat /\ snd_nxt' + queued' <= MaxSegs
      BY <2>1, <2>2
    <2>4. TypeOK'
      <3>1. /\ UNCHANGED <<current, updated, ts_flush, snd_buf, sentAt, probe_wait, ts_probe>>
            /\ UNCHANGED <<snd_una, snd_nxt, rx, rmt_wnd>>
        BY <2>1 DEF timers, ghosts
      <3>. QED
        BY <2>3, <3>1 DEF Types, TypeOK
    <2>5. Moments'
      BY <2>1, <2>3 DEF Types, Moments, timers, ghosts
    <2>6. Quiet' /\ Passed'
      BY <2>1 DEF Types, Quiet, Passed, timers, ghosts
    <2>. QED
      BY <2>4, <2>5, <2>6 DEF Types
  <1>2. CASE Tick
    <2>1. /\ UNCHANGED <<behind, pass, timers, queued, snd_una, snd_nxt, rx, rmt_wnd,
                         got, ghosts>>
          /\ time' = time + 1 /\ time - pass < Gap /\ net' \subseteq net
      BY <1>2 DEF Tick
    <2>2. TypeOK'
      BY <2>1 DEF Types, TypeOK, timers, ghosts
    <2>3. Moments'
      BY <2>1, Positive DEF Types, Moments, timers, ghosts
    <2>4. Quiet' /\ Passed'
      BY <2>1 DEF Types, Quiet, Passed, timers, ghosts
    <2>. QED
      BY <2>2, <2>3, <2>4 DEF Types
  <1>3. CASE SetClock
    BY <1>3, Positive DEF Types, TypeOK, Moments, Quiet, Passed, SetClock, timers, ghosts
  <1>4. CASE UNCHANGED vars
    BY <1>4 DEF Types, TypeOK, Moments, Quiet, Passed, vars, timers, ghosts
  <1>. QED
    BY <1>1, <1>2, <1>3, <1>4, OnUpdateTypes, AnswerTypes DEF Next
-----------------------------------------------------------------------------
(* The next flush. *)

\* The 64-bit clock the loop compares with is never below 32 bits: every pass of the
\* loop whose time has come calls ikcp_update.
LEMMA PassUpdates ==
    ASSUME ClockFits, Types, OnUpdate
    PROVE  Update(Wall % W) /\ Wall % W \in 0..(W - 1)
  <1>1. Wall \in Int /\ Wall % W \in 0..(W - 1)
    BY WallType
  <1>2. Wall >= W
    BY Positive, FlushAssumption DEF Types, Moments, ClockFits, Wall
  <1>3. Check(Wall % W) \in 0..(W - 1)
    BY <1>1, CheckFits
  <1>4. Check(Wall % W) <= Wall
    BY <1>1, <1>2, <1>3, Positive
  <1>. QED
    BY <1>1, <1>4 DEF OnUpdate

LEMMA AfterWall == Types => \A k \in Int : After(Wall % W, k) = (Wall + k) % W
  <1>. SUFFICES ASSUME Types, NEW k \in Int PROVE After(Wall % W, k) = (Wall + k) % W
    OBVIOUS
  <1>1. PICK a \in Int : a = Wall
    BY WallType
  <1>2. After(a % W, k) = (a + k) % W
    BY AfterIs
  <1>. QED
    BY <1>1, <1>2

\* The base of a flush is at most Reset away from the clock.
LEMMA BaseNear ==
    ASSUME ClockFits, Types
    PROVE  \E v \in Int : /\ v = Diff(Wall % W, FlushBase(Wall % W))
                          /\ -Reset <= v /\ v < Reset
                          /\ FlushBase(Wall % W) = (Wall - v) % W
                          /\ v # 0 => updated /\ FlushBase(Wall % W) = ts_flush
  <1>. DEFINE cur == Wall % W
              base == FlushBase(cur)
              v == Diff(cur, base)
  <1>1. Wall \in Int /\ cur \in 0..(W - 1)
    BY WallType
  <1>2. base \in 0..(W - 1)
    BY <1>1, FlushBaseType
  <1>3. Diff(cur, cur) = 0
    <2>1. Wall - Wall = 0 /\ -(W \div 2) <= 0 /\ 0 < W \div 2
      BY <1>1, Positive DEF ClockFits
    <2>. QED
      BY <1>1, <2>1, DiffIs
  <1>4. v \in Int /\ base = (Wall - v) % W
    BY <1>1, <1>2, DiffBack
  <1>5. \/ base = cur
        \/ base = ts_flush /\ updated /\ Diff(cur, ts_flush) < Reset
           /\ Diff(cur, ts_flush) >= -Reset
    BY DEF FlushBase
  <1>6. /\ -Reset <= v /\ v < Reset
        /\ v # 0 => updated /\ base = ts_flush
    BY <1>3, <1>4, <1>5, Positive
  <1>. QED
    BY <1>4, <1>6

\* After a flush the next one is due within an interval.
LEMMA NextFlushIs ==
    ASSUME ClockFits, Types, FlushDue(Wall % W)
    PROVE  \E k \in 1..Interval : NextFlush(Wall % W) = (Wall + k) % W
  <1>. DEFINE cur == Wall % W
              base == FlushBase(cur)
              next == After(base, Interval)
  <1>1. Wall \in Int /\ cur \in 0..(W - 1)
    BY WallType
  <1>2. PICK v \in Int : /\ v = Diff(cur, base) /\ -Reset <= v /\ v < Reset
                         /\ base = (Wall - v) % W
    BY BaseNear
  <1>3. v >= 0
    BY <1>2 DEF FlushDue
  <1>4. next = (Wall - v + Interval) % W
    <2>1. PICK a \in Int : a = Wall - v
      BY <1>1
    <2>2. PICK k \in Int : k = Interval
      BY Positive
    <2>3. After(a % W, k) = (a + k) % W
      BY AfterIs
    <2>. QED
      BY <1>2, <2>1, <2>2, <2>3
  <1>5. Diff(cur, next) = v - Interval
    <2>1. /\ Wall - v + Interval \in Int
          /\ Wall - (Wall - v + Interval) = v - Interval
      BY <1>1, <1>2, Positive
    <2>2. -(W \div 2) <= v - Interval /\ v - Interval < W \div 2
      BY <1>2, <1>3, Positive DEF ClockFits
    <2>. QED
      BY <1>1, <1>4, <2>1, <2>2, DiffIs
  <1>6. CASE v - Interval >= 0
    <2>1. NextFlush(cur) = After(cur, Interval)
      BY <1>5, <1>6 DEF NextFlush
    <2>2. NextFlush(cur) = (Wall + Interval) % W
      BY <2>1, AfterWall, Positive
    <2>. QED
      BY <2>2, Positive
  <1>7. CASE ~(v - Interval >= 0)
    <2>1. NextFlush(cur) = next
      BY <1>5, <1>7 DEF NextFlush
    <2>2. Interval - v \in 1..Interval /\ Wall + (Interval - v) = Wall - v + Interval
      BY <1>1, <1>2, <1>3, <1>7, Positive
    <2>. QED
      BY <1>4, <2>1, <2>2
  <1>. QED
    BY <1>6, <1>7

\* What a pass finds that does not flush.
LEMMA NotYet ==
    ASSUME ClockFits, Types, ~FlushDue(Wall % W)
    PROVE  /\ updated /\ FlushBase(Wall % W) = ts_flush
           /\ \E k \in 1..Reset : ts_flush = (Wall + k) % W
           /\ Diff(Wall % W, ts_flush) < 0
  <1>1. PICK v \in Int : /\ v = Diff(Wall % W, FlushBase(Wall % W))
                         /\ -Reset <= v /\ v < Reset
                         /\ FlushBase(Wall % W) = (Wall - v) % W
                         /\ v # 0 => updated /\ FlushBase(Wall % W) = ts_flush
    BY BaseNear
  <1>2. v < 0
    BY <1>1 DEF FlushDue
  <1>3. -v \in 1..Reset /\ Wall + (-v) = Wall - v
    BY <1>1, <1>2, WallType, Positive
  <1>. QED
    BY <1>1, <1>2, <1>3

LEMMA NextFlushKept ==
    ASSUME ClockFits, Types, NextFlushSet, OnUpdate
    PROVE  NextFlushSet'
  <1>. DEFINE cur == Wall % W
              slack == IF behind = 0 THEN 0 ELSE Reset + Gap - 1
  <1>1. Update(cur) /\ pass' = time /\ UNCHANGED <<time, behind>>
    BY PassUpdates DEF OnUpdate
  <1>2. /\ time \in Nat /\ behind \in Nat /\ pass \in Nat /\ flushed \in Nat /\ slack \in Nat
        /\ flushed <= pass /\ pass <= time /\ time <= pass + Gap
    BY FlushAssumption, Positive DEF Types, Moments
  <1>3. Wall = Epoch + time - behind
    BY DEF Wall
  <1>4. CASE FlushDue(cur)
    <2>1. PICK k \in 1..Interval : NextFlush(cur) = (Wall + k) % W
      BY <1>4, NextFlushIs
    <2>2. ts_flush' = NextFlush(cur) /\ flushed' = time
      BY <1>1, <1>4 DEF Update, Flush
    <2>3. PICK due \in Nat : /\ time < due /\ due <= time + Interval + slack
                             /\ Wall + k = Epoch + due - behind
      <3>1. /\ time + k \in Nat /\ time < time + k /\ time + k <= time + Interval + slack
            /\ Wall + k = Epoch + (time + k) - behind
        BY <1>2, <1>3, Positive
      <3>. QED
        BY <3>1
    <2>4. DueAt(due)'
      BY <1>1, <2>1, <2>2, <2>3 DEF DueAt
    <2>. QED
      BY <2>3, <2>4 DEF NextFlushSet
  <1>5. CASE ~FlushDue(cur)
    <2>1. /\ updated /\ FlushBase(cur) = ts_flush /\ Diff(cur, ts_flush) < 0
          /\ \E k \in 1..Reset : ts_flush = (Wall + k) % W
      BY <1>5, NotYet
    <2>2. ts_flush' = ts_flush /\ flushed' = flushed
      BY <1>1, <1>5, <2>1 DEF Update, ghosts
    <2>3. ASSUME NEW due \in Nat, DueAt(due)
          PROVE  DueAt(due)'
      <3>1. ts_flush = (Epoch + due - behind) % W /\ pass < due
            /\ due <= flushed + Interval + slack
        BY <2>3 DEF DueAt
      <3>2. Wall - (Epoch + due - behind) = time - due
            /\ Epoch + due - behind \in Int /\ Wall \in Int
        BY <1>2, <1>3, Positive
      <3>3. ASSUME time >= due
            PROVE  FALSE
        <4>1. -(W \div 2) <= time - due /\ time - due < W \div 2
          BY <1>2, <3>1, <3>3, Positive DEF ClockFits
        <4>2. Diff(cur, ts_flush) = time - due
          BY <3>1, <3>2, <4>1, DiffIs
        <4>. QED
          BY <1>2, <2>1, <3>3, <4>2
      <3>4. time < due
        BY <1>2, <3>3
      <3>. QED
        BY <1>1, <2>2, <3>1, <3>4 DEF DueAt
    <2>4. ASSUME behind # 0, pass < flushed + Interval
          PROVE  \E due \in Nat : DueAt(due)'
      <3>1. PICK k \in 1..Reset : ts_flush = (Wall + k) % W
        BY <2>1
      <3>2. PICK due \in Nat : /\ time < due
                               /\ due <= flushed + Interval + (Reset + Gap - 1)
                               /\ Wall + k = Epoch + due - behind
        <4>1. /\ time + k \in Nat /\ time < time + k
              /\ time + k <= flushed + Interval + (Reset + Gap - 1)
              /\ Wall + k = Epoch + (time + k) - behind
          BY <1>2, <1>3, <2>4, Positive
        <4>. QED
          BY <4>1
      <3>3. DueAt(due)'
        BY <1>1, <2>2, <2>4, <3>1, <3>2 DEF DueAt
      <3>. QED
        BY <3>2, <3>3
    <2>. QED
      BY <2>1, <2>3, <2>4 DEF NextFlushSet
  <1>. QED
    BY <1>4, <1>5

\* The bound that the runs check.
LEMMA SetIsOnTime == Types /\ NextFlushSet => FlushOnTime
  <1>. SUFFICES ASSUME Types, NextFlushSet, updated
                PROVE  time - flushed < Interval + Gap
                                    + (IF behind = 0 THEN 0 ELSE Reset + Gap - 1)
    BY DEF FlushOnTime
  <1>1. /\ time \in Nat /\ pass \in Nat /\ flushed \in Nat /\ time <= pass + Gap
    BY DEF Types, Moments
  <1>. QED
    BY <1>1, Positive DEF NextFlushSet, DueAt

-----------------------------------------------------------------------------
(* Resends and probes. *)

\* A moment that lay after the last flush, and that the control block takes to lie
\* ahead, does.
LEMMA StillAhead ==
    ASSUME ClockFits, Types, NextFlushSet, updated, behind = 0,
           NEW t \in Nat, flushed < t,
           Diff(Wall % W, (Epoch + t) % W) < 0
    PROVE  time < t
  <1>1. time \in Nat /\ flushed \in Nat /\ time - flushed < Interval + Gap
    BY SetIsOnTime, Positive DEF Types, Moments, FlushOnTime
  <1>2. Wall = Epoch + time /\ Wall \in Int /\ Epoch + t \in Int
    BY <1>1, Positive DEF Wall
  <1>3. ASSUME time >= t
        PROVE  FALSE
    <2>1. /\ -(W \div 2) <= Wall - (Epoch + t) /\ Wall - (Epoch + t) < W \div 2
          /\ Wall - (Epoch + t) >= 0
      BY <1>1, <1>2, <1>3, Positive DEF ClockFits
    <2>2. Diff(Wall % W, (Epoch + t) % W) = Wall - (Epoch + t)
      BY <1>2, <2>1, DiffIs
    <2>. QED
      BY <1>2, <2>1, <2>2
  <1>. QED
    BY <1>1, <1>3

LEMMA ResendKept ==
    ASSUME ClockFits, Types, NextFlushSet, ResendSet, OnUpdate
    PROVE  ResendSet'
  <1>. DEFINE cur == Wall % W
  <1>. SUFFICES ASSUME behind = 0, NEW sn \in DOMAIN snd_buf'
                PROVE  /\ flushed' < sentAt'[sn] + snd_buf'[sn].rto
                       /\ snd_buf'[sn].resendts = (Epoch + sentAt'[sn] + snd_buf'[sn].rto) % W
    BY DEF ResendSet, OnUpdate
  <1>1. Update(cur) /\ cur \in 0..(W - 1)
    BY PassUpdates
  <1>2. time \in Nat /\ Wall = Epoch + time /\ Wall \in Int
    BY Positive DEF Types, Moments, Wall
  <1>3. CASE FlushDue(cur)
    <2>1. Flush(cur) /\ flushed' = time
      BY <1>1, <1>3 DEF Update, Flush
    <2>2. CASE /\ snd_buf'[sn] \in Segment /\ sentAt'[sn] = time
               /\ snd_buf'[sn].resendts = After(cur, snd_buf'[sn].rto)
      <3>1. snd_buf'[sn].rto \in Nat /\ snd_buf'[sn].rto > 0
        BY <2>2 DEF Segment
      <3>2. After(cur, snd_buf'[sn].rto) = (Wall + snd_buf'[sn].rto) % W
        BY <3>1, AfterWall
      <3>. QED
        BY <1>2, <2>1, <2>2, <3>1, <3>2
    <2>3. CASE /\ sn \in DOMAIN snd_buf
               /\ snd_buf'[sn] = snd_buf[sn] /\ sentAt'[sn] = sentAt[sn]
               /\ ~TimesOut(snd_buf[sn], cur)
      <3>. DEFINE t == sentAt[sn] + snd_buf[sn].rto
      <3>1. /\ snd_buf[sn].resendts = (Epoch + sentAt[sn] + snd_buf[sn].rto) % W
            /\ flushed < t
        BY <2>3 DEF ResendSet
      <3>2. /\ snd_buf[sn] \in Segment /\ sentAt[sn] \in Nat /\ updated
            /\ snd_buf[sn].resendts \in 0..(W - 1)
        BY <2>3 DEF Types, Moments, Quiet, Segment
      <3>3. t \in Nat /\ Epoch + t = Epoch + sentAt[sn] + snd_buf[sn].rto
        BY <3>2, Positive DEF Segment
      <3>4. Diff(cur, snd_buf[sn].resendts) < 0
        BY <1>1, <2>3, <3>2, DiffType DEF TimesOut
      <3>. HIDE DEF t
      <3>5. time < t
        BY <3>1, <3>2, <3>3, <3>4, StillAhead
      <3>. QED
        BY <2>1, <2>3, <3>1, <3>5 DEF t
    <2>. QED
      BY <1>1, <2>1, <2>2, <2>3, FlushSegments
  <1>4. CASE ~FlushDue(cur)
    BY <1>1, <1>4 DEF Update, ghosts, ResendSet
  <1>. QED
    BY <1>3, <1>4

LEMMA ProbeKept ==
    ASSUME ClockFits, Types, NextFlushSet, ProbeSet, OnUpdate
    PROVE  ProbeSet'
  <1>. DEFINE cur == Wall % W
  <1>. SUFFICES ASSUME behind = 0, probe_wait' # 0
                PROVE  /\ flushed' < probedAt' + probe_wait'
                       /\ ts_probe' = (Epoch + probedAt' + probe_wait') % W
    BY DEF ProbeSet, OnUpdate
  <1>1. Update(cur) /\ cur \in 0..(W - 1)
    BY PassUpdates
  <1>2. time \in Nat /\ Wall = Epoch + time /\ Wall \in Int
    BY Positive DEF Types, Moments, Wall
  <1>3. CASE FlushDue(cur)
    <2>1. Probe(cur) /\ flushed' = time
      BY <1>1, <1>3 DEF Update, Flush
    <2>2. /\ probe_wait' = ProbeWait(cur) /\ rmt_wnd = 0
          /\ ProbeWait(cur) \in Nat /\ ProbeWait(cur) > 0
      BY <1>1, <2>1, ProbeWaits, Positive DEF Probe
    <2>3. CASE SetsProbe(cur)
      <3>1. probedAt' = time /\ ts_probe' = After(cur, ProbeWait(cur))
        BY <2>1, <2>3 DEF Probe
      <3>2. After(cur, ProbeWait(cur)) = (Wall + ProbeWait(cur)) % W
        BY <2>2, AfterWall
      <3>. QED
        BY <1>2, <2>1, <2>2, <3>1, <3>2
    <2>4. CASE ~SetsProbe(cur)
      <3>. DEFINE t == probedAt + probe_wait
      <3>1. probe_wait # 0 /\ ~ProbeExpired(cur)
        BY <2>2, <2>4 DEF SetsProbe
      <3>2. probe_wait' = probe_wait /\ ts_probe' = ts_probe /\ probedAt' = probedAt
        BY <2>1, <2>2, <2>4, <3>1 DEF Probe, ProbeWait
      <3>3. ts_probe = (Epoch + probedAt + probe_wait) % W /\ flushed < t
        BY <3>1 DEF ProbeSet
      <3>4. /\ probedAt \in Nat /\ probe_wait \in Nat /\ updated /\ ts_probe \in 0..(W - 1)
        <4>1. probe_wait \in {0} \cup ProbeInit..ProbeLimit /\ ts_probe \in 0..(W - 1)
          BY DEF Types, TypeOK
        <4>2. probedAt \in Nat /\ updated
          BY <3>1 DEF Types, Moments, Quiet
        <4>. QED
          BY <4>1, <4>2, Positive
      <3>5. t \in Nat /\ Epoch + t = Epoch + probedAt + probe_wait
        BY <3>4, Positive
      <3>6. Diff(cur, ts_probe) < 0
        BY <1>1, <2>2, <3>1, <3>4, DiffType DEF ProbeExpired
      <3>. HIDE DEF t
      <3>7. time < t
        BY <3>3, <3>4, <3>5, <3>6, StillAhead
      <3>. QED
        BY <2>1, <3>2, <3>3, <3>7 DEF t
    <2>. QED
      BY <2>3, <2>4
  <1>4. CASE ~FlushDue(cur)
    BY <1>1, <1>4 DEF Update, ghosts, ProbeSet
  <1>. QED
    BY <1>3, <1>4

\* An acknowledgement leaves the timers of the segments that remain alone.
LEMMA AnswerKeepsTimers ==
    ASSUME Types, Answer
    PROVE  /\ UNCHANGED <<time, behind, pass, updated, ts_flush, probe_wait, ts_probe,
                          flushed, probedAt>>
           /\ DOMAIN snd_buf' \subseteq DOMAIN snd_buf
           /\ \A sn \in DOMAIN snd_buf' : /\ snd_buf'[sn].resendts = snd_buf[sn].resendts
                                          /\ snd_buf'[sn].rto = snd_buf[sn].rto
                                          /\ snd_buf'[sn].xmit = snd_buf[sn].xmit
                                          /\ sentAt'[sn] = sentAt[sn]
  <1>1. PICK acks, una, wnd : Input(acks, una, wnd)
    BY DEF Answer
  <1>. DEFINE numbers == {acks[i].sn : i \in 1..Len(acks)}
              left == {sn \in DOMAIN snd_buf : sn >= una} \ numbers
              maxack == CHOOSE sn \in numbers : \A other \in numbers : other <= sn
              counts == numbers # {} /\ maxack >= snd_una' /\ maxack < snd_nxt
  <1>2. /\ snd_buf' = [sn \in left |->
                         [snd_buf[sn] EXCEPT
                            !.fastack = IF counts /\ PassedOver(sn, maxack)
                                        THEN @ + 1 ELSE @]]
        /\ sentAt' = [sn \in left |-> sentAt[sn]]
    BY <1>1 DEF Input
  <1>3. left \subseteq DOMAIN snd_buf
    OBVIOUS
  <1>4. \A sn \in DOMAIN snd_buf : snd_buf[sn] \in Segment
    BY DEF Types, Moments
  <1>. HIDE DEF left, numbers, maxack, counts
  <1>5. ASSUME NEW sn \in left
        PROVE  /\ snd_buf'[sn].resendts = snd_buf[sn].resendts
               /\ snd_buf'[sn].rto = snd_buf[sn].rto
               /\ snd_buf'[sn].xmit = snd_buf[sn].xmit
               /\ sentAt'[sn] = sentAt[sn]
    <2>1. snd_buf'[sn] = [snd_buf[sn] EXCEPT
                            !.fastack = IF counts /\ PassedOver(sn, maxack)
                                        THEN snd_buf[sn].fastack + 1 ELSE snd_buf[sn].fastack]
      BY <1>2
    <2>2. snd_buf[sn] \in Segment
      BY <1>3, <1>4
    <2>. QED
      BY <1>2, <2>1, <2>2 DEF Segment
  <1>. QED
    BY <1>2, <1>3, <1>5 DEF Answer

LEMMA TimingKept == ClockFits /\ Types /\ Timing /\ [Next]_vars => Timing'
  <1>. SUFFICES ASSUME ClockFits, Types, Timing, [Next]_vars PROVE Timing'
    OBVIOUS
  <1>1. CASE OnUpdate
    BY <1>1, NextFlushKept, ResendKept, ProbeKept DEF Timing
  <1>2. CASE Answer
    BY <1>2, AnswerKeepsTimers DEF Timing, NextFlushSet, DueAt, ResendSet, ProbeSet
  <1>3. CASE Send
    BY <1>3 DEF Timing, NextFlushSet, DueAt, ResendSet, ProbeSet, Send, timers, ghosts
  <1>4. CASE Tick
    BY <1>4 DEF Timing, NextFlushSet, DueAt, ResendSet, ProbeSet, Tick, timers, ghosts
  <1>5. CASE SetClock
    <2>1. /\ UNCHANGED <<pass, timers, ghosts>> /\ behind = 0
          /\ behind' # 0 \/ behind' = behind
      BY <1>5 DEF SetClock
    <2>2. CASE behind' = behind
      BY <2>1, <2>2 DEF Timing, NextFlushSet, DueAt, ResendSet, ProbeSet, timers, ghosts
    <2>3. CASE behind' # 0
      <3>1. ResendSet' /\ ProbeSet'
        BY <2>3 DEF ResendSet, ProbeSet
      <3>2. updated => pass < flushed + Interval
        BY <2>1, Positive DEF Timing, NextFlushSet, DueAt, Types, Moments
      <3>3. NextFlushSet'
        BY <2>1, <2>3, <3>2 DEF NextFlushSet, timers, ghosts
      <3>. QED
        BY <3>1, <3>3 DEF Timing
    <2>. QED
      BY <2>1, <2>2, <2>3
  <1>6. CASE UNCHANGED vars
    BY <1>6 DEF Timing, NextFlushSet, DueAt, ResendSet, ProbeSet, vars, timers, ghosts
  <1>. QED
    BY <1>1, <1>2, <1>3, <1>4, <1>5, <1>6 DEF Next

LEMMA InitTiming == Init => Timing
  BY DEF Init, Timing, NextFlushSet, ResendSet, ProbeSet

-----------------------------------------------------------------------------
(* The theorems. *)

\* The types hold in every state, with what the clocks and the timeouts promise.
THEOREM Inductive == Spec => []Types
  BY InitTypes, NextTypes, PTL DEF Spec

\* The types are what they are taken for, whatever the constants are: the two
\* clocks stay within 32 bits, the timeouts and the probe within their limits.
THEOREM TypeCorrect == Spec => []TypeOK
  <1>1. Types => TypeOK
    BY DEF Types
  <1>. QED
    BY <1>1, Inductive, PTL

\* What the two clocks say of the last flush, and each deadline of its timer, stay
\* in step for as long as the differences fit the 32 bits.
THEOREM TimingInductive == ClockFits => (Spec => []Timing)
  <1>. SUFFICES ASSUME ClockFits PROVE Spec => []Timing
    OBVIOUS
  <1>1. Init => Timing
    BY InitTiming
  <1>2. Types /\ Timing /\ [Next]_vars => Timing'
    BY TimingKept
  <1>. QED
    BY <1>1, <1>2, Inductive, PTL DEF Spec

\* ikcp_update flushes every interval, across every wrap of the 32-bit clock; after
\* the wall clock was set back it is silent for Reset longer at most.
THEOREM FlushesOnTime == ClockFits => (Spec => []FlushOnTime)
  <1>. SUFFICES ASSUME ClockFits PROVE Spec => []FlushOnTime
    OBVIOUS
  <1>1. Types /\ Timing => FlushOnTime
    BY SetIsOnTime DEF Timing
  <1>. QED
    BY <1>1, Inductive, TimingInductive, PTL

\* While the wall clock runs on, no unacknowledged segment and no closed window is
\* forgotten: each is seen to by the first flush after its timeout.
THEOREM NothingIsOverdue == ClockFits => (Spec => []NothingOverdue)
  <1>. SUFFICES ASSUME ClockFits PROVE Spec => []NothingOverdue
    OBVIOUS
  <1>1. Types /\ Timing => NothingOverdue
    <2>. SUFFICES ASSUME Types, Timing, behind = 0
                  PROVE  /\ \A sn \in DOMAIN snd_buf :
                               time - sentAt[sn] < snd_buf[sn].rto + Interval + Gap
                         /\ probe_wait # 0 => time - probedAt < probe_wait + Interval + Gap
      BY DEF NothingOverdue
    <2>1. /\ time \in Nat /\ flushed \in Nat
          /\ updated => time - flushed < Interval + Gap
      BY SetIsOnTime, Positive DEF Types, Timing, Moments, FlushOnTime
    <2>2. ASSUME NEW sn \in DOMAIN snd_buf
          PROVE  time - sentAt[sn] < snd_buf[sn].rto + Interval + Gap
      <3>1. updated /\ flushed < sentAt[sn] + snd_buf[sn].rto
        BY DEF Types, Quiet, Timing, ResendSet
      <3>2. sentAt[sn] \in Nat /\ snd_buf[sn].rto \in Nat
        BY DEF Types, Moments, Segment
      <3>. QED
        BY <2>1, <3>1, <3>2, Positive
    <2>3. ASSUME probe_wait # 0
          PROVE  time - probedAt < probe_wait + Interval + Gap
      <3>1. updated /\ flushed < probedAt + probe_wait
        BY <2>3 DEF Types, Quiet, Timing, ProbeSet
      <3>2. probedAt \in Nat /\ probe_wait \in Nat
        BY Positive DEF Types, TypeOK, Moments
      <3>. QED
        BY <2>1, <3>1, <3>2, Positive
    <2>. QED
      BY <2>2, <2>3
  <1>. QED
    BY <1>1, Inductive, TimingInductive, PTL

\* Segments are sent again early only when the other end has received a later one,
\* however late, often or out of order the acknowledgements come.
THEOREM EarlyOnlyWhenPassed == Spec => EarlyWhenPassed
  <1>. DEFINE Early == \A sn \in DOMAIN snd_buf \cap DOMAIN snd_buf' :
                  snd_buf'[sn].xmit > snd_buf[sn].xmit /\ Diff(current', snd_buf[sn].resendts) < 0
                      => \E later \in got : later > sn
  <1>1. Types /\ [Next]_vars => [Early]_vars
    <2>. SUFFICES ASSUME Types, Next,
                         NEW sn \in DOMAIN snd_buf, sn \in DOMAIN snd_buf',
                         snd_buf'[sn].xmit > snd_buf[sn].xmit,
                         Diff(current', snd_buf[sn].resendts) < 0
                  PROVE  \E later \in got : later > sn
      OBVIOUS
    <2>1. snd_buf[sn] \in Segment /\ ~(snd_buf[sn].xmit > snd_buf[sn].xmit)
      BY DEF Types, Moments, Segment
    <2>2. CASE OnUpdate
      <3>. DEFINE cur == Wall % W
      <3>1. cur \in 0..(W - 1)
        BY WallType
      <3>2. Update(cur) /\ FlushDue(cur)
        BY <2>1, <2>2 DEF OnUpdate, Update, timers
      <3>3. current' = cur /\ Flush(cur)
        BY <3>2 DEF Update
      <3>. HIDE DEF cur
      <3>4. sn \in DOMAIN Filled /\ Filled[sn] = snd_buf[sn]
        BY DEF Filled
      <3>5. snd_buf'[sn] = Flushed(snd_buf[sn], cur)
        BY <3>3, <3>4 DEF Flush
      <3>6. Sends(snd_buf[sn], cur)
        BY <2>1, <3>5 DEF Flushed
      <3>7. ~TimesOut(snd_buf[sn], cur) /\ snd_buf[sn].xmit # 0
        <4>1. snd_buf[sn].resendts \in 0..(W - 1) /\ snd_buf[sn].xmit # 0
          BY <2>1 DEF Segment
        <4>2. Diff(cur, snd_buf[sn].resendts) \in Int /\ Diff(cur, snd_buf[sn].resendts) < 0
          BY <3>1, <3>3, <4>1, DiffType
        <4>. QED
          BY <4>1, <4>2 DEF TimesOut
      <3>8. snd_buf[sn].fastack >= FastResend
        BY <3>6, <3>7 DEF Sends, PassedOften
      <3>9. snd_buf[sn].fastack > 0
        BY <2>1, <3>8, Positive DEF Segment
      <3>. QED
        BY <3>9 DEF Types, Passed
    <2>3. CASE Answer
      BY <2>1, <2>3, AnswerKeepsTimers
    <2>4. CASE Send \/ Tick \/ SetClock
      BY <2>1, <2>4 DEF Send, Tick, SetClock, timers
    <2>. QED
      BY <2>2, <2>3, <2>4 DEF Next
  <1>. QED
    BY <1>1, Inductive, PTL DEF Spec, EarlyWhenPassed

-----------------------------------------------------------------------------
(* LibSocket. *)

\* No host is called what stands for a missing or an unreadable address.
HostsNamed == "none" \notin Hosts /\ "garbled" \notin Hosts

SocketSpec == SocketInit /\ [][SocketNext]_socketVars

-----------------------------------------------------------------------------
(* The inductive invariant. *)

Texts == Addresses \cup {None, Garbled}
EndPoints == [addr : Texts, isIpv6 : BOOLEAN, addrInfo : Texts]

Object == [af : Nat, sock : BOOLEAN, local : EndPoints, remote : EndPoints, connected : BOOLEAN]
Entry == [error : BOOLEAN, from : Texts]
InKernel == [isIpv6 : BOOLEAN, bound : Texts, peer : Texts, queue : Seq(Entry)]
Context == [data : Texts, endpoint : EndPoints]

\* The types of the variables.
SocketTypes ==
    /\ socket \in [Sockets -> Object]
    /\ kernel \in [Sockets -> InKernel]
    /\ heard \in [Sockets -> Seq(Context)]

\* What the program holds of a socket is what the kernel holds: a family, an
\* address of that family once Bind has succeeded, and a peer of it.
Agreed(s) ==
    /\ ~socket[s].sock => kernel[s] = NoSocket /\ heard[s] = <<>>
                          /\ socket[s].local = EndPoint /\ ~socket[s].connected
    /\ socket[s].sock => socket[s].af = Af(kernel[s].isIpv6) /\ kernel[s].bound # Garbled
    /\ kernel[s].bound \in Addresses => kernel[s].bound.isIpv6 = kernel[s].isIpv6
    /\ \/ socket[s].local = EndPoint
       \/ kernel[s].bound \in Addresses /\ socket[s].local = UpdateAddrIn(kernel[s].bound)
    /\ IF socket[s].connected
       THEN /\ kernel[s].peer \in Addresses /\ kernel[s].peer.isIpv6 = kernel[s].isIpv6
            /\ socket[s].remote = UpdateAddrIn(kernel[s].peer)
       ELSE kernel[s].peer = None /\ socket[s].remote = EndPoint

\* A sender whose datagram socket s may hold: of its family, its peer if it has one.
MayCome(s, from) ==
    /\ kernel[s].bound \in Addresses
    /\ from \in Addresses /\ from.isIpv6 = kernel[s].isIpv6
    /\ socket[s].connected => from = kernel[s].peer

Waiting(s) ==
    \A i \in 1..Len(kernel[s].queue) :
        ~kernel[s].queue[i].error => MayCome(s, kernel[s].queue[i].from)

Heard(s) ==
    \A i \in 1..Len(heard[s]) :
        /\ MayCome(s, heard[s][i].data)
        /\ heard[s][i].endpoint =
              IF socket[s].connected THEN EndPoint
              ELSE UpdateAddrByAddrIn(heard[s][i].data, socket[s].local.isIpv6)

SocketInv == SocketTypes /\ \A s \in Sockets : Agreed(s) /\ Waiting(s) /\ Heard(s)

-----------------------------------------------------------------------------
(* Lemmas. *)

LEMMA AddressesApart ==
    HostsNamed => /\ None \notin Addresses /\ Garbled \notin Addresses
                  /\ None # Garbled /\ None \in Texts /\ Garbled \in Texts
                  /\ \A a \in Addresses : a.isIpv6 \in BOOLEAN /\ a \in Texts
  BY DEF HostsNamed, Addresses, None, Garbled, Texts

LEMMA EndPointTypes ==
    ASSUME HostsNamed
    PROVE  /\ EndPoint \in EndPoints
           /\ \A a \in Addresses : UpdateAddrIn(a) \in EndPoints /\ UpdateAddrIn(a) # EndPoint
           /\ \A a \in Addresses, b \in BOOLEAN :
                 /\ UpdateAddrByAddrIn(a, b) \in EndPoints
                 /\ a.isIpv6 = b => UpdateAddrByAddrIn(a, b) = UpdateAddrIn(a)
  <1>1. EndPoint \in EndPoints
    BY AddressesApart DEF EndPoint, EndPoints
  <1>2. ASSUME NEW a \in Addresses
        PROVE  UpdateAddrIn(a) \in EndPoints /\ UpdateAddrIn(a) # EndPoint
    BY AddressesApart DEF EndPoint, EndPoints, UpdateAddrIn
  <1>3. ASSUME NEW a \in Addresses, NEW b \in BOOLEAN
        PROVE  /\ UpdateAddrByAddrIn(a, b) \in EndPoints
               /\ a.isIpv6 = b => UpdateAddrByAddrIn(a, b) = UpdateAddrIn(a)
    BY AddressesApart DEF EndPoints, UpdateAddrIn, UpdateAddrByAddrIn
  <1> QED BY <1>1, <1>2, <1>3

LEMMA ObjectTypes ==
    ASSUME HostsNamed
    PROVE  /\ Closed \in Object /\ NoSocket \in InKernel
           /\ \A b \in BOOLEAN : Unbound(b) \in InKernel /\ Af(b) \in Nat
           /\ \A o \in Object, b \in BOOLEAN :
                 [o EXCEPT !.sock = TRUE, !.af = Af(b)] \in Object
           /\ \A o \in Object, e \in EndPoints : [o EXCEPT !.local = e] \in Object
           /\ \A o \in Object, e \in EndPoints :
                 [o EXCEPT !.connected = TRUE, !.remote = e] \in Object
           /\ \A k \in InKernel, a \in Texts : [k EXCEPT !.bound = a] \in InKernel
           /\ \A k \in InKernel, a \in Texts, b \in Texts :
                 [k EXCEPT !.peer = a, !.bound = b] \in InKernel
           /\ \A k \in InKernel, q \in Seq(Entry) : [k EXCEPT !.queue = q] \in InKernel
  <1>1. Closed \in Object
    BY EndPointTypes DEF Closed, Object
  <1>2. NoSocket \in InKernel /\ \A b \in BOOLEAN : Unbound(b) \in InKernel /\ Af(b) \in Nat
    <2>1. <<>> \in Seq(Entry)
      OBVIOUS
    <2> QED BY <2>1, AddressesApart DEF NoSocket, Unbound, InKernel, Af
  <1>3. /\ \A o \in Object, b \in BOOLEAN : [o EXCEPT !.sock = TRUE, !.af = Af(b)] \in Object
        /\ \A o \in Object, e \in EndPoints : [o EXCEPT !.local = e] \in Object
        /\ \A o \in Object, e \in EndPoints : [o EXCEPT !.connected = TRUE, !.remote = e] \in Object
    BY DEF Object, Af
  <1>4. /\ \A k \in InKernel, a \in Texts : [k EXCEPT !.bound = a] \in InKernel
        /\ \A k \in InKernel, a \in Texts, b \in Texts :
              [k EXCEPT !.peer = a, !.bound = b] \in InKernel
        /\ \A k \in InKernel, q \in Seq(Entry) : [k EXCEPT !.queue = q] \in InKernel
    BY DEF InKernel
  <1> QED BY <1>1, <1>2, <1>3, <1>4

\* The invariant of a socket is not disturbed by steps that leave it alone.
LEMMA Untouched ==
    ASSUME NEW s, Agreed(s), Waiting(s), Heard(s),
           socket'[s] = socket[s], kernel'[s] = kernel[s], heard'[s] = heard[s]
    PROVE  Agreed(s)' /\ Waiting(s)' /\ Heard(s)'
  BY DEF Agreed, Waiting, Heard, MayCome

-----------------------------------------------------------------------------
(* The invariant holds. *)

LEMMA InitInv == HostsNamed /\ SocketInit => SocketInv
  <1> SUFFICES ASSUME HostsNamed, SocketInit PROVE SocketInv
    OBVIOUS
  <1>1. SocketTypes
    <2>1. [Closed EXCEPT !.af = Af(FALSE)] \in Object
      BY EndPointTypes DEF Closed, Object, Af
    <2>2. <<>> \in Seq(Context)
      OBVIOUS
    <2> QED BY <2>1, <2>2, ObjectTypes DEF SocketInit, SocketTypes
  <1>2. ASSUME NEW s \in Sockets
        PROVE  Agreed(s) /\ Waiting(s) /\ Heard(s)
    <2>1. /\ ~socket[s].sock /\ kernel[s] = NoSocket /\ heard[s] = <<>>
          /\ socket[s].local = EndPoint /\ ~socket[s].connected
          /\ socket[s].remote = EndPoint
      BY DEF SocketInit, Closed
    <2>2. /\ NoSocket.queue = <<>> /\ NoSocket.bound = Garbled /\ NoSocket.peer = None
      BY DEF NoSocket
    <2> QED BY <2>1, <2>2, AddressesApart DEF Agreed, Waiting, Heard
  <1> QED BY <1>1, <1>2 DEF SocketInv

LEMMA CreateInv ==
    ASSUME HostsNamed, SocketInv, NEW s \in Sockets, NEW isIpv6 \in BOOLEAN, Create(s, isIpv6)
    PROVE  SocketInv'
  <1>1. SocketTypes'
    BY ObjectTypes DEF SocketInv, SocketTypes, Create
  <1>2. Agreed(s)' /\ Waiting(s)' /\ Heard(s)'
    <2>1. /\ ~socket[s].sock /\ heard[s] = <<>> /\ heard' = heard
          /\ socket[s].local = EndPoint /\ ~socket[s].connected /\ socket[s].remote = EndPoint
      BY DEF Create, SocketInv, Agreed
    <2>2. /\ socket'[s] = [socket[s] EXCEPT !.sock = TRUE, !.af = Af(isIpv6)]
          /\ kernel'[s] = Unbound(isIpv6)
      BY DEF Create, SocketInv, SocketTypes
    <2>3. /\ socket'[s].sock /\ socket'[s].af = Af(isIpv6)
          /\ socket'[s].local = EndPoint /\ ~socket'[s].connected /\ socket'[s].remote = EndPoint
      BY <2>1, <2>2 DEF SocketInv, SocketTypes, Object, InKernel
    <2>4. /\ kernel'[s].isIpv6 = isIpv6 /\ kernel'[s].bound = None /\ kernel'[s].peer = None
          /\ kernel'[s].queue = <<>>
      BY <2>2 DEF Unbound
    <2> QED BY <2>1, <2>3, <2>4, AddressesApart DEF Agreed, Waiting, Heard
  <1>3. ASSUME NEW r \in Sockets, r # s
        PROVE  Agreed(r)' /\ Waiting(r)' /\ Heard(r)'
    BY <1>3, Untouched DEF SocketInv, SocketTypes, Create
  <1> QED BY <1>1, <1>2, <1>3 DEF SocketInv

LEMMA BindInv ==
    ASSUME HostsNamed, SocketInv, NEW s \in Sockets, NEW address \in Addresses, Bind(s, address)
    PROVE  SocketInv'
  <1>0. address \in Texts /\ UpdateAddrIn(address) \in EndPoints
    BY AddressesApart, EndPointTypes
  <1>1. SocketTypes'
    BY <1>0, ObjectTypes DEF SocketInv, SocketTypes, Bind
  <1>2. Agreed(s)' /\ Waiting(s)' /\ Heard(s)'
    <2>1. /\ socket'[s] = [socket[s] EXCEPT !.local = UpdateAddrIn(address)]
          /\ kernel'[s] = [kernel[s] EXCEPT !.bound = address] /\ heard'[s] = heard[s]
          /\ socket[s].sock /\ address.isIpv6 = kernel[s].isIpv6 /\ kernel[s].bound = None
      BY DEF Bind, SocketInv, SocketTypes
    <2>2. /\ socket'[s].sock = socket[s].sock /\ socket'[s].af = socket[s].af
          /\ socket'[s].local = UpdateAddrIn(address)
          /\ socket'[s].connected = socket[s].connected /\ socket'[s].remote = socket[s].remote
          /\ kernel'[s].bound = address /\ kernel'[s].isIpv6 = kernel[s].isIpv6
          /\ kernel'[s].peer = kernel[s].peer /\ kernel'[s].queue = kernel[s].queue
      <3>1. socket[s] \in Object /\ kernel[s] \in InKernel
        BY DEF SocketInv, SocketTypes
      <3>2. PICK o \in Object : o = socket[s]
        BY <3>1
      <3>3. PICK k \in InKernel : k = kernel[s]
        BY <3>1
      <3> QED BY <2>1, <3>2, <3>3 DEF Object, InKernel
    <2>3. /\ \A i \in 1..Len(kernel[s].queue) : kernel[s].queue[i].error
          /\ ~\E i \in 1..Len(heard[s]) : TRUE
      BY <2>1, AddressesApart DEF SocketInv, Waiting, Heard, MayCome
    <2>4. Agreed(s)'
      BY <2>1, <2>2, AddressesApart DEF SocketInv, Agreed
    <2> QED BY <2>1, <2>2, <2>3, <2>4 DEF Waiting, Heard
  <1>3. ASSUME NEW r \in Sockets, r # s
        PROVE  Agreed(r)' /\ Waiting(r)' /\ Heard(r)'
    BY <1>3, Untouched DEF SocketInv, SocketTypes, Bind
  <1> QED BY <1>1, <1>2, <1>3 DEF SocketInv

LEMMA CloseInv ==
    ASSUME HostsNamed, SocketInv, NEW s \in Sockets, Close(s)
    PROVE  SocketInv'
  <1>1. SocketTypes'
    <2>1. <<>> \in Seq(Context)
      OBVIOUS
    <2> QED BY <2>1, ObjectTypes DEF SocketInv, SocketTypes, Close
  <1>2. Agreed(s)' /\ Waiting(s)' /\ Heard(s)'
    <2>1. socket'[s] = Closed /\ kernel'[s] = NoSocket /\ heard'[s] = <<>>
      BY DEF Close, SocketInv, SocketTypes
    <2>2. /\ NoSocket.queue = <<>> /\ NoSocket.bound = Garbled /\ NoSocket.peer = None
      BY DEF NoSocket
    <2>3. /\ ~Closed.sock /\ Closed.local = EndPoint /\ Closed.remote = EndPoint
          /\ ~Closed.connected
      BY DEF Closed
    <2> QED BY <2>1, <2>2, <2>3, AddressesApart DEF Agreed, Waiting, Heard
  <1>3. ASSUME NEW r \in Sockets, r # s
        PROVE  Agreed(r)' /\ Waiting(r)' /\ Heard(r)'
    BY <1>3, Untouched DEF SocketInv, SocketTypes, Close
  <1> QED BY <1>1, <1>2, <1>3 DEF SocketInv
LEMMA ConnectInv ==
    ASSUME HostsNamed, SocketInv, NEW s \in Sockets, NEW address \in Addresses,
           kernel[s].queue = <<>>, heard[s] = <<>>, Connect(s, address)
    PROVE  SocketInv'
  <1>1. PICK own \in Chosen(s) : kernel' = [kernel EXCEPT ![s].peer = address, ![s].bound = own]
    BY DEF Connect
  <1>2. PICK k \in InKernel : k = kernel[s]
    BY DEF SocketInv, SocketTypes
  <1>3. PICK o \in Object : o = socket[s]
    BY DEF SocketInv, SocketTypes
  <1>4. own \in Addresses /\ own.isIpv6 = k.isIpv6 /\ (k.bound # None => own = k.bound)
    <2>1. CASE kernel[s].bound # None
      <3>1. k.bound \in Addresses /\ k.bound.isIpv6 = k.isIpv6
        BY <1>2, <2>1, AddressesApart DEF SocketInv, Agreed, Connect, InKernel, Texts
      <3> QED BY <1>2, <2>1, <3>1 DEF Chosen
    <2>2. CASE kernel[s].bound = None
      BY <1>2, <2>2 DEF Chosen
    <2> QED BY <2>1, <2>2
  <1>5. kernel'[s] = [k EXCEPT !.peer = address, !.bound = own]
    BY <1>1, <1>2 DEF SocketInv, SocketTypes
  <1>6. /\ kernel'[s].peer = address /\ kernel'[s].bound = own
        /\ kernel'[s].isIpv6 = k.isIpv6 /\ kernel'[s].queue = k.queue
    BY <1>5 DEF InKernel
  <1>7. UpdateRemoteAddrIn(EndPoint, kernel'[s].peer) = UpdateAddrIn(address)
    BY <1>6, AddressesApart DEF UpdateRemoteAddrIn, UpdateAddrIn
  <1>8. socket'[s] = [o EXCEPT !.connected = TRUE, !.remote = UpdateAddrIn(address)]
    BY <1>3, <1>7 DEF Connect, SocketInv, SocketTypes
  <1>9. /\ socket'[s].connected /\ socket'[s].remote = UpdateAddrIn(address)
        /\ socket'[s].sock = o.sock /\ socket'[s].af = o.af /\ socket'[s].local = o.local
    BY <1>8 DEF Object
  <1>10. address \in Texts /\ own \in Texts /\ UpdateAddrIn(address) \in EndPoints
    BY <1>4, AddressesApart, EndPointTypes
  <1>11. kernel'[s] \in InKernel /\ socket'[s] \in Object
    <2>1. kernel'[s] \in InKernel
      BY <1>5, <1>10 DEF InKernel
    <2>2. socket'[s] \in Object
      BY <1>8, <1>10 DEF Object
    <2> QED BY <2>1, <2>2
  <1>12. /\ socket' \in [Sockets -> Object] /\ kernel' \in [Sockets -> InKernel]
         /\ \A r \in Sockets : r # s => socket'[r] = socket[r] /\ kernel'[r] = kernel[r]
    BY <1>1, <1>11 DEF Connect, SocketInv, SocketTypes
  <1>13. address.isIpv6 = k.isIpv6
    <2>1. address.isIpv6 \in BOOLEAN /\ k.isIpv6 \in BOOLEAN
      BY AddressesApart DEF InKernel
    <2>2. Af(address.isIpv6) = Af(k.isIpv6)
      BY <1>2 DEF Connect, SocketInv, Agreed
    <2> QED BY <2>1, <2>2 DEF Af
  <1>14. Agreed(s)'
    BY <1>2, <1>3, <1>4, <1>6, <1>9, <1>13, AddressesApart DEF Connect, SocketInv, Agreed
  <1>15. Waiting(s)' /\ Heard(s)'
    BY <1>2, <1>6 DEF Connect, Waiting, Heard
  <1>16. ASSUME NEW r \in Sockets, r # s
         PROVE  Agreed(r)' /\ Waiting(r)' /\ Heard(r)'
    BY <1>12, <1>16, Untouched DEF SocketInv, Connect
  <1> QED BY <1>12, <1>14, <1>15, <1>16 DEF SocketInv, SocketTypes, Connect

\* A datagram is queued only where one from its sender may come.
LEMMA SendInv ==
    ASSUME HostsNamed, SocketInv, NEW s \in Sockets, NEW endPoint, SocketSend(s, endPoint)
    PROVE  SocketInv'
  <1> DEFINE to == Destination(s, endPoint)
  <1>1. /\ socket[s].sock /\ to \in Addresses /\ to.isIpv6 = kernel[s].isIpv6
        /\ socket' = socket /\ heard' = heard
    BY DEF SocketSend
  <1>2. PICK own \in Chosen(s), lost \in BOOLEAN :
            kernel' = [IF lost THEN kernel ELSE Queued(own, to) EXCEPT ![s].bound = own]
    BY DEF SocketSend
  <1> HIDE DEF to
  <1>3. /\ own \in Addresses /\ own.isIpv6 = kernel[s].isIpv6
        /\ kernel[s].bound # None => own = kernel[s].bound
    <2>1. CASE kernel[s].bound # None
      <3>1. kernel[s].bound \in Texts
        BY DEF SocketInv, SocketTypes, InKernel
      <3>2. kernel[s].bound \in Addresses /\ kernel[s].bound.isIpv6 = kernel[s].isIpv6
        BY <1>1, <2>1, <3>1, AddressesApart DEF SocketInv, Agreed, Texts
      <3> QED BY <2>1, <3>2 DEF Chosen
    <2>2. CASE kernel[s].bound = None
      BY <2>2 DEF Chosen
    <2> QED BY <2>1, <2>2
  <1> DEFINE k == IF lost THEN kernel ELSE Queued(own, to)
             Came(r) == /\ kernel[r].bound = to /\ kernel[r].peer \in {None, own}
                        /\ k[r] = [kernel[r] EXCEPT !.queue = Append(kernel[r].queue, Datagram(own))]
  <1>4. Datagram(own) \in Entry
    BY <1>3, AddressesApart DEF Datagram, Entry
  <1>5. ASSUME NEW r \in Sockets
        PROVE  k[r] \in InKernel /\ (k[r] = kernel[r] \/ Came(r))
    <2>1. kernel[r] \in InKernel /\ kernel[r].queue \in Seq(Entry)
      BY DEF SocketInv, SocketTypes, InKernel
    <2>2. k[r] = kernel[r] \/ Came(r)
      BY DEF Queued
    <2>3. Append(kernel[r].queue, Datagram(own)) \in Seq(Entry)
      BY <1>4, <2>1
    <2> QED BY <2>1, <2>2, <2>3, ObjectTypes
  <1>6. k \in [Sockets -> InKernel]
    BY <1>5 DEF Queued, SocketInv, SocketTypes
  <1> HIDE DEF k
  <1>7. kernel' = [k EXCEPT ![s].bound = own]
    BY <1>2 DEF k
  <1>8. kernel' \in [Sockets -> InKernel]
    BY <1>3, <1>6, <1>7, AddressesApart, ObjectTypes
  <1>9. /\ \A r \in Sockets : r # s => kernel'[r] = k[r]
        /\ kernel'[s] = [k[s] EXCEPT !.bound = own]
    BY <1>6, <1>7
  <1>10. ASSUME NEW r \in Sockets
         PROVE  Agreed(r)' /\ Waiting(r)' /\ Heard(r)'
    <2>1. kernel[r] \in InKernel /\ kernel[r].queue \in Seq(Entry) /\ k[r] \in InKernel
      BY <1>5 DEF SocketInv, SocketTypes, InKernel
    <2>2. /\ k[r].isIpv6 = kernel[r].isIpv6 /\ k[r].bound = kernel[r].bound
          /\ k[r].peer = kernel[r].peer
          /\ \/ k[r].queue = kernel[r].queue
             \/ /\ kernel[r].bound = to /\ kernel[r].peer \in {None, own}
                /\ k[r].queue = Append(kernel[r].queue, Datagram(own))
      BY <1>5, <2>1 DEF InKernel
    <2>3. /\ kernel'[r].isIpv6 = kernel[r].isIpv6 /\ kernel'[r].peer = kernel[r].peer
          /\ kernel'[r].queue = k[r].queue
          /\ kernel'[r].bound = IF r = s THEN own ELSE kernel[r].bound
      <3>1. CASE r # s
        BY <1>9, <2>2, <3>1
      <3>2. CASE r = s
        <4>1. PICK ks \in InKernel : ks = k[s]
          BY <2>1, <3>2
        <4> QED BY <1>9, <2>2, <3>2, <4>1 DEF InKernel
      <3> QED BY <3>1, <3>2
    <2>4. kernel'[r].bound = kernel[r].bound \/ kernel[r].bound = None
      BY <1>3, <2>3
    <2>5. kernel'[r].bound \in Texts
      BY <1>8 DEF InKernel
    <2>6. Agreed(r)'
      <3>1. CASE socket[r].sock
        BY <1>1, <1>3, <2>3, <2>4, <2>5, <3>1, AddressesApart DEF SocketInv, Agreed
      <3>2. CASE ~socket[r].sock
        <4>1. kernel[r] = NoSocket /\ NoSocket.bound = Garbled
          BY <3>2 DEF SocketInv, Agreed, NoSocket
        <4>2. k[r] = kernel[r] /\ r # s
          BY <1>1, <1>5, <3>2, <4>1, AddressesApart
        <4>3. kernel'[r] = kernel[r]
          BY <1>9, <4>2
        <4> QED BY <1>1, <4>3 DEF SocketInv, Agreed
      <3> QED BY <3>1, <3>2
    <2>7. \A from : MayCome(r, from) => MayCome(r, from)'
      BY <1>1, <2>3, <2>4, AddressesApart DEF MayCome
    <2>8. Heard(r)'
      BY <1>1, <2>7 DEF SocketInv, Heard
    <2>9. CASE k[r].queue = kernel[r].queue
      <3>1. kernel'[r].queue = kernel[r].queue
        BY <2>3, <2>9
      <3> QED BY <2>6, <2>7, <2>8, <3>1 DEF SocketInv, Waiting
    <2>10. CASE /\ kernel[r].bound = to /\ kernel[r].peer \in {None, own}
                /\ k[r].queue = Append(kernel[r].queue, Datagram(own))
      <3>1. MayCome(r, own)'
        <4>1. kernel'[r].bound \in Addresses /\ own.isIpv6 = kernel'[r].isIpv6
          BY <1>1, <1>3, <2>3, <2>10, AddressesApart DEF SocketInv, Agreed
        <4>2. socket'[r].connected => own = kernel'[r].peer
          BY <1>1, <2>3, <2>10, AddressesApart DEF SocketInv, Agreed
        <4> QED BY <1>3, <4>1, <4>2 DEF MayCome
      <3>2. ASSUME NEW i \in 1..Len(kernel'[r].queue), ~kernel'[r].queue[i].error
            PROVE  MayCome(r, kernel[r].queue[i].from)'
        <4>1. CASE i \in 1..Len(kernel[r].queue)
          <5>1. kernel'[r].queue[i] = kernel[r].queue[i]
            BY <1>4, <2>1, <2>3, <2>10, <4>1
          <5>2. PICK from : from = kernel[r].queue[i].from
            OBVIOUS
          <5>3. MayCome(r, from)
            BY <3>2, <4>1, <5>1, <5>2 DEF SocketInv, Waiting
          <5>4. MayCome(r, from)' /\ from = kernel'[r].queue[i].from
            BY <2>7, <5>1, <5>2, <5>3
          <5> QED BY <5>4 DEF MayCome
        <4>2. CASE i = Len(kernel[r].queue) + 1
          <5>1. kernel'[r].queue[i] = Datagram(own)
            BY <1>4, <2>1, <2>3, <2>10, <4>2
          <5>2. kernel'[r].queue[i].from = own
            BY <5>1 DEF Datagram
          <5> QED BY <3>1, <5>2 DEF MayCome
        <4> QED BY <1>4, <2>1, <2>3, <2>10, <4>1, <4>2
      <3> QED BY <2>6, <2>8, <3>2 DEF Waiting
    <2> QED BY <2>2, <2>9, <2>10
  <1> QED BY <1>1, <1>8, <1>10 DEF SocketInv, SocketTypes

LEMMA RefusedInv ==
    ASSUME HostsNamed, SocketInv, NEW s \in Sockets, Refused(s)
    PROVE  SocketInv'
  <1>1. PICK k \in InKernel : k = kernel[s]
    BY DEF SocketInv, SocketTypes
  <1>2. ResetNotice \in Entry /\ ResetNotice.error /\ k.queue \in Seq(Entry)
    BY <1>1, AddressesApart DEF ResetNotice, Entry, InKernel
  <1>3. kernel'[s] = [k EXCEPT !.queue = Append(k.queue, ResetNotice)]
    BY <1>1 DEF Refused, SocketInv, SocketTypes
  <1>4. Append(k.queue, ResetNotice) \in Seq(Entry)
    BY <1>2
  <1>5. kernel'[s] \in InKernel
    BY <1>3, <1>4, ObjectTypes
  <1>6. /\ kernel'[s].queue = Append(k.queue, ResetNotice) /\ kernel'[s].bound = k.bound
        /\ kernel'[s].peer = k.peer /\ kernel'[s].isIpv6 = k.isIpv6
    BY <1>3 DEF InKernel
  <1>7. /\ kernel' \in [Sockets -> InKernel] /\ socket' = socket /\ heard' = heard
        /\ \A r \in Sockets : r # s => kernel'[r] = kernel[r]
    BY <1>5 DEF Refused, SocketInv, SocketTypes
  <1>8. \A from : MayCome(s, from) => MayCome(s, from)'
    BY <1>1, <1>6, <1>7 DEF MayCome
  <1>9. Agreed(s)'
    <2>1. kernel[s] = NoSocket => ~socket[s].sock /\ FALSE
      <3>1. NoSocket.bound = Garbled
        BY DEF NoSocket
      <3> QED BY <3>1, AddressesApart DEF Refused
    <2> QED BY <1>1, <1>6, <1>7, <2>1 DEF SocketInv, Agreed
  <1>10. Heard(s)'
    BY <1>7, <1>8 DEF SocketInv, Heard
  <1>11. ASSUME NEW i \in 1..Len(kernel'[s].queue), ~kernel'[s].queue[i].error
         PROVE  MayCome(s, kernel[s].queue[i].from)'
    <2>1. i \in 1..Len(k.queue) /\ kernel'[s].queue[i] = k.queue[i]
      <3>1. PICK n \in Nat : n = Len(k.queue)
        BY <1>2
      <3>2. i \in 1..(n + 1) /\ (i = n + 1 => kernel'[s].queue[i] = ResetNotice)
        BY <1>2, <1>6, <3>1
      <3>3. i \in 1..n
        BY <1>2, <1>11, <3>2
      <3> QED BY <1>2, <1>6, <3>1, <3>3
    <2>2. PICK from : from = k.queue[i].from
      OBVIOUS
    <2>3. MayCome(s, from)
      BY <1>1, <1>11, <2>1, <2>2 DEF SocketInv, Waiting
    <2>4. MayCome(s, from)' /\ from = kernel'[s].queue[i].from
      BY <1>8, <2>1, <2>2, <2>3
    <2> QED BY <2>4 DEF MayCome
  <1>12. ASSUME NEW r \in Sockets, r # s
         PROVE  Agreed(r)' /\ Waiting(r)' /\ Heard(r)'
    BY <1>7, <1>12, Untouched DEF SocketInv
  <1> QED BY <1>7, <1>9, <1>10, <1>11, <1>12 DEF SocketInv, SocketTypes, Waiting
\* Every context is made of a datagram that was waiting: no error is among them.
LEMMA OnReadableInv ==
    ASSUME HostsNamed, SocketInv, NEW s \in Sockets, OnReadable(s)
    PROVE  SocketInv'
  <1>1. PICK k \in InKernel : k = kernel[s]
    BY DEF SocketInv, SocketTypes
  <1>2. PICK o \in Object : o = socket[s]
    BY DEF SocketInv, SocketTypes
  <1> DEFINE queue == kernel[s].queue
  <1>3. queue \in Seq(Entry) /\ queue = k.queue
    BY <1>1 DEF InKernel
  <1>4. PICK good \in 0..Len(queue) :
            /\ \A i \in 1..good : ~queue[i].error
            /\ kernel' = [kernel EXCEPT ![s].queue = SubSeq(queue, good + 2, Len(queue))]
            /\ heard' = [heard EXCEPT ![s] =
                            [i \in 1..good |->
                                [data |-> queue[i].from, endpoint |-> Recv(s, queue[i])]]]
    BY DEF OnReadable
  <1> HIDE DEF queue
  <1>5. good \in Nat /\ good <= Len(queue) /\ socket' = socket
    BY <1>3, <1>4 DEF OnReadable
  <1> DEFINE rest == SubSeq(queue, good + 2, Len(queue))
             contexts == [i \in 1..good |->
                             [data |-> queue[i].from, endpoint |-> Recv(s, queue[i])]]
  <1>6. /\ rest \in Seq(Entry)
        /\ \A i \in 1..Len(rest) : i + good + 1 \in 1..Len(queue) /\ rest[i] = queue[i + good + 1]
    <2>1. \A i \in (good + 2)..Len(queue) : i \in 1..Len(queue) /\ queue[i] \in Entry
      BY <1>3, <1>5
    <2>2. rest \in Seq(Entry)
      BY <1>3, <1>5, <2>1
    <2>3. Len(rest) = IF good + 2 <= Len(queue) THEN Len(queue) - good - 1 ELSE 0
      BY <1>3, <1>5
    <2>4. ASSUME NEW i \in 1..Len(rest)
          PROVE  i + good + 1 \in 1..Len(queue) /\ rest[i] = queue[i + good + 1]
      <3>1. i \in Nat /\ i + good + 1 = good + 2 + i - 1 /\ i <= Len(queue) - good - 1
        BY <1>3, <1>5, <2>3, <2>4
      <3>2. i \in 1..(Len(queue) - (good + 2) + 1)
        BY <1>3, <1>5, <3>1, <2>4
      <3> QED BY <1>3, <1>5, <3>1, <3>2
    <2> QED BY <2>2, <2>4
  <1>7. ASSUME NEW i \in 1..good
        PROVE  /\ MayCome(s, queue[i].from)
               /\ Recv(s, queue[i]) = IF o.connected THEN EndPoint
                                      ELSE UpdateAddrByAddrIn(queue[i].from, o.local.isIpv6)
               /\ contexts[i] \in Context
    <2>1. i \in 1..Len(queue) /\ ~queue[i].error
      BY <1>3, <1>4, <1>5
    <2>2. MayCome(s, queue[i].from)
      BY <1>1, <1>3, <2>1 DEF SocketInv, Waiting
    <2>3. Recv(s, queue[i]) = IF o.connected THEN EndPoint
                              ELSE UpdateAddrByAddrIn(queue[i].from, o.local.isIpv6)
      BY <1>2 DEF Recv
    <2>4. queue[i].from \in Addresses /\ o.local.isIpv6 \in BOOLEAN
      BY <2>2 DEF MayCome, Object, EndPoints
    <2>5. Recv(s, queue[i]) \in EndPoints
      BY <2>3, <2>4, EndPointTypes
    <2> QED BY <2>2, <2>3, <2>4, <2>5, AddressesApart DEF Context
  <1>8. contexts \in Seq(Context) /\ Len(contexts) = good
    BY <1>5, <1>7
  <1> HIDE DEF rest
  <1>9. kernel'[s] = [k EXCEPT !.queue = rest]
    BY <1>1, <1>4 DEF rest, SocketInv, SocketTypes
  <1>10. /\ kernel'[s] \in InKernel
         /\ kernel'[s].queue = rest /\ kernel'[s].bound = k.bound
         /\ kernel'[s].peer = k.peer /\ kernel'[s].isIpv6 = k.isIpv6
    BY <1>6, <1>9 DEF InKernel
  <1>11. /\ heard'[s] = contexts /\ heard' \in [Sockets -> Seq(Context)]
         /\ \A r \in Sockets : r # s => heard'[r] = heard[r]
    <2>1. heard' = [heard EXCEPT ![s] = contexts]
      BY <1>4
    <2> HIDE DEF contexts
    <2> QED BY <1>8, <2>1 DEF SocketInv, SocketTypes
  <1>12. /\ kernel' \in [Sockets -> InKernel]
         /\ \A r \in Sockets : r # s => kernel'[r] = kernel[r]
    BY <1>4, <1>10 DEF SocketInv, SocketTypes
  <1>13. \A from : MayCome(s, from) => MayCome(s, from)'
    BY <1>1, <1>5, <1>10 DEF MayCome
  <1>14. socket[s].sock
    <2>1. NoSocket.queue = <<>>
      BY DEF NoSocket
    <2> QED BY <2>1 DEF OnReadable, SocketInv, Agreed
  <1>15. Agreed(s)'
    BY <1>1, <1>5, <1>10, <1>14 DEF SocketInv, Agreed
  <1>16. Waiting(s)'
    <2>1. ASSUME NEW i \in 1..Len(kernel'[s].queue), ~kernel'[s].queue[i].error
          PROVE  MayCome(s, kernel[s].queue[i].from)'
      <3>1. PICK from : from = rest[i].from
        OBVIOUS
      <3>2. MayCome(s, from)
        BY <1>1, <1>3, <1>6, <1>10, <2>1, <3>1 DEF SocketInv, Waiting
      <3>3. MayCome(s, from)' /\ from = kernel'[s].queue[i].from
        BY <1>10, <1>13, <3>1, <3>2
      <3> QED BY <3>3 DEF MayCome
    <2> QED BY <2>1 DEF Waiting
  <1>17. Heard(s)'
    <2>1. ASSUME NEW i \in 1..Len(heard'[s])
          PROVE  /\ MayCome(s, heard[s][i].data)'
                 /\ heard'[s][i].endpoint =
                       IF socket'[s].connected THEN EndPoint
                       ELSE UpdateAddrByAddrIn(heard'[s][i].data, socket'[s].local.isIpv6)
      <3>1. i \in 1..good /\ heard'[s][i] = contexts[i]
        BY <1>8, <1>11, <2>1
      <3>2. PICK from : from = queue[i].from
        OBVIOUS
      <3>3. heard'[s][i].data = from /\ heard'[s][i].endpoint = Recv(s, queue[i])
        BY <3>1, <3>2
      <3>4. MayCome(s, from)'
        BY <1>7, <1>13, <3>1, <3>2
      <3>5. MayCome(s, heard[s][i].data)'
        BY <3>3, <3>4 DEF MayCome
      <3> QED BY <1>2, <1>5, <1>7, <3>1, <3>2, <3>3, <3>5
    <2> QED BY <2>1 DEF Heard
  <1>18. ASSUME NEW r \in Sockets, r # s
         PROVE  Agreed(r)' /\ Waiting(r)' /\ Heard(r)'
    BY <1>5, <1>11, <1>12, <1>18, Untouched DEF SocketInv
  <1> QED BY <1>5, <1>11, <1>12, <1>15, <1>16, <1>17, <1>18 DEF SocketInv, SocketTypes

-----------------------------------------------------------------------------
(* The theorems. *)

\* The types, and what the program's objects and the kernel agree on, hold in
\* every state, whatever is bound, connected, refused, lost or closed.
THEOREM SocketInductive == HostsNamed => (SocketSpec => []SocketInv)
  <1> SUFFICES ASSUME HostsNamed PROVE SocketSpec => []SocketInv
    OBVIOUS
  <1>1. SocketInit => SocketInv
    BY InitInv
  <1>2. SocketInv /\ [SocketNext]_socketVars => SocketInv'
    <2> SUFFICES ASSUME SocketInv, [SocketNext]_socketVars PROVE SocketInv'
      OBVIOUS
    <2>1. CASE UNCHANGED socketVars
      BY <2>1 DEF socketVars, SocketInv, SocketTypes, Agreed, Waiting, Heard, MayCome
    <2>2. CASE SocketNext
      <3>1. PICK s \in Sockets :
                \/ \E isIpv6 \in BOOLEAN : Create(s, isIpv6)
                \/ \E address \in Addresses : Bind(s, address)
                \/ \E address \in Addresses :
                    kernel[s].queue = <<>> /\ heard[s] = <<>> /\ Connect(s, address)
                \/ \E address \in Addresses : SocketSend(s, UpdateAddrIn(address))
                \/ SocketSend(s, EndPoint)
                \/ RawSend(s)
                \/ Refused(s)
                \/ OnReadable(s)
                \/ Close(s)
        BY <2>2 DEF SocketNext
      <3> QED BY <3>1, CreateInv, BindInv, ConnectInv, SendInv, RefusedInv, OnReadableInv,
                 CloseInv DEF RawSend
    <2> QED BY <2>1, <2>2
  <1> QED BY <1>1, <1>2, PTL DEF SocketSpec

\* The answer to a datagram goes to whoever sent it: KcpChannel.cpp, RawSend, with
\* the endpoint that LibSocket::Recv filled in.
THEOREM AnswersGoBack == HostsNamed => (SocketSpec => []AnswersSender)
  <1>1. HostsNamed /\ SocketInv => AnswersSender
    <2> SUFFICES ASSUME HostsNamed, SocketInv, NEW s \in Sockets
                 PROVE  /\ \A i \in DOMAIN heard[s] :
                            \/ socket[s].local = EndPoint /\ kernel[s].isIpv6
                            \/ Destination(s, heard[s][i].endpoint) = heard[s][i].data
                        /\ socket[s].local # EndPoint => socket[s].local.addr = kernel[s].bound
                        /\ socket[s].remote.addr = kernel[s].peer
                        /\ socket[s].connected <=> kernel[s].peer # None
      BY DEF AnswersSender
    <2>1. Agreed(s) /\ Heard(s) /\ kernel[s].isIpv6 \in BOOLEAN /\ DOMAIN heard[s] = 1..Len(heard[s])
      BY DEF SocketInv, SocketTypes, InKernel
    <2>2. ASSUME NEW i \in DOMAIN heard[s], ~(socket[s].local = EndPoint /\ kernel[s].isIpv6)
          PROVE  Destination(s, heard[s][i].endpoint) = heard[s][i].data
      <3>1. PICK data : data = heard[s][i].data
        OBVIOUS
      <3>2. MayCome(s, data)
        BY <2>1, <2>2, <3>1 DEF Heard
      <3>3. CASE socket[s].connected
        BY <3>1, <3>2, <3>3 DEF MayCome, Destination
      <3>4. CASE ~socket[s].connected
        <4>1. data \in Addresses /\ data.isIpv6 = kernel[s].isIpv6
          BY <3>2 DEF MayCome
        <4>2. socket[s].local.isIpv6 = kernel[s].isIpv6
          <5>1. EndPoint.isIpv6 = FALSE /\ \A a : UpdateAddrIn(a).isIpv6 = a.isIpv6
            BY DEF EndPoint, UpdateAddrIn
          <5> QED BY <2>1, <2>2, <5>1 DEF Agreed
        <4>3. heard[s][i].endpoint = UpdateAddrIn(data)
          BY <2>1, <3>1, <3>4, <4>1, <4>2, EndPointTypes DEF Heard
        <4>4. UpdateAddrIn(data).addrInfo = data /\ UpdateAddrIn(data) # EndPoint
          BY <4>1, EndPointTypes DEF UpdateAddrIn
        <4> QED BY <3>1, <3>4, <4>3, <4>4 DEF Destination
      <3> QED BY <3>3, <3>4
    <2>3. EndPoint.addr = None /\ \A a : UpdateAddrIn(a).addr = a
      BY DEF EndPoint, UpdateAddrIn
    <2>4. socket[s].local # EndPoint => socket[s].local.addr = kernel[s].bound
      BY <2>1, <2>3 DEF Agreed
    <2>5. /\ socket[s].remote.addr = kernel[s].peer
          /\ socket[s].connected <=> kernel[s].peer # None
      BY <2>1, <2>3, AddressesApart DEF Agreed
    <2> QED BY <2>2, <2>4, <2>5
  <1> SUFFICES ASSUME HostsNamed PROVE SocketSpec => []AnswersSender
    OBVIOUS
  <1>2. SocketInv => AnswersSender
    BY <1>1
  <1>3. SocketSpec => []SocketInv
    BY SocketInductive
  <1> QED BY <1>2, <1>3, PTL
-----------------------------------------------------------------------------
(* LogIniCfgMgr. *)

\* The ids of files are numbers an index can be, the names are texts.
FileConfig == [id : Nat, name : STRING, thread : Int]

ConfigsFit ==
    /\ LevelNames \in Seq(STRING)
    /\ \A config \in Configs : config.files \in Seq(FileConfig)

-----------------------------------------------------------------------------
(* Lemmas. *)

\* What holds at the start and is kept by every round holds after every round.
LEMMA LoopInduction ==
    ASSUME NEW n \in Nat, NEW P, 0 \in P,
           \A i \in 1..n : i - 1 \in P => i \in P
    PROVE  0..n \subseteq P
  <1>1. SUFFICES ASSUME NEW bad \in 0..n, bad \notin P PROVE FALSE
    OBVIOUS
  <1> DEFINE T == {i \in 0..n : i \notin P}
  <1>2. PICK x \in T : \A y \in T : x <= y
    <2>1. T \in SUBSET Nat /\ T # {}
      BY <1>1
    <2> HIDE DEF T
    <2> QED BY <2>1, LeastOf
  <1>3. x \in 1..n /\ x \notin P
    <2>1. x # 0 /\ x \in 0..n
      OBVIOUS
    <2> QED BY <2>1
  <1>4. x - 1 \in Nat /\ x - 1 < x /\ x - 1 \in 0..n
    BY <1>3
  <1>5. x - 1 \in P
    BY <1>2, <1>4
  <1> QED BY <1>3, <1>5

\* The greatest of finitely many numbers.
LEMMA GreatestOf ==
    ASSUME NEW T, T \subseteq Int, T # {}, IsFiniteSet(T)
    PROVE  Max(T) \in T /\ \A x \in T : x <= Max(T)
  <1>1. PICK n \in Nat : ExistsSurjection(1..n, T)
    BY FS_NatSurjection
  <1>2. PICK f \in [1..n -> T] : \A x \in T : \E i \in 1..n : f[i] = x
    BY <1>1 DEF ExistsSurjection, Surjection
  <1> DEFINE P == {k \in 0..n : k = 0 \/ \E j \in 1..k : \A i \in 1..k : f[i] <= f[j]}
  <1>3. 0 \in P
    OBVIOUS
  <1>4. ASSUME NEW k \in 1..n, k - 1 \in P
        PROVE  k \in P
    <2>1. \A i \in 1..n : f[i] \in Int
      BY <1>2
    <2>2. CASE k = 1
      BY <2>1, <2>2
    <2>3. CASE k # 1
      <3>1. PICK j \in 1..(k - 1) : \A i \in 1..(k - 1) : f[i] <= f[j]
        BY <1>4, <2>3
      <3>2. CASE f[k] <= f[j]
        <4>1. j \in 1..k /\ \A i \in 1..k : f[i] <= f[j]
          BY <3>1, <3>2
        <4> QED BY <4>1
      <3>3. CASE ~(f[k] <= f[j])
        <4>1. ASSUME NEW i \in 1..k PROVE f[i] <= f[k]
          <5>1. CASE i = k
            BY <2>1, <5>1
          <5>2. CASE i # k
            <6>1. i \in 1..(k - 1) /\ i \in 1..n /\ j \in 1..n /\ k \in 1..n
              BY <5>2
            <6> QED BY <2>1, <3>1, <3>3, <6>1
          <5> QED BY <5>1, <5>2
        <4>2. k \in 1..k
          OBVIOUS
        <4> QED BY <4>1, <4>2
      <3> QED BY <3>2, <3>3
    <2> QED BY <2>2, <2>3
  <1>5. n \in P
    <2>1. 0..n \subseteq P
      <3> HIDE DEF P
      <3> QED BY <1>3, <1>4, LoopInduction
    <2> HIDE DEF P
    <2> QED BY <2>1
  <1>6. \E x \in T : \A y \in T : x >= y
    <2>1. n # 0
      <3>1. PICK x \in T : TRUE
        OBVIOUS
      <3>2. PICK i \in 1..n : f[i] = x
        BY <1>2, <3>1
      <3> QED BY <3>2
    <2>2. PICK j \in 1..n : \A i \in 1..n : f[i] <= f[j]
      BY <1>5, <2>1
    <2>3. f[j] \in T /\ \A y \in T : f[j] >= y
      BY <1>2, <2>2
    <2> QED BY <2>3
  <1>7. Max(T) \in T /\ \A y \in T : Max(T) >= y
    BY <1>6 DEF Max
  <1> QED BY <1>7

\* A level that is configured has a name of the segment, and that name's file.
LEMMA LevelCfgIs ==
    ASSUME ConfigsFit, NEW config, NEW id,
           LevelCfg(config, id) # NoCfg
    PROVE  \E name \in DOMAIN config.levels :
              LevelCfg(config, id).fileId = config.levels[name].fileId
  <1> DEFINE named == {i \in NamesOf(config.levels) :
                          config.levels[LevelNames[i]].levelId = id}
             name == LevelInfo(config.levels, id)
  <1>1. name # ""
    BY DEF LevelCfg
  <1>2. name = LevelNames[Max(named)] /\ named # {}
    BY <1>1 DEF LevelInfo
  <1>3. named \subseteq 1..Len(LevelNames) /\ Len(LevelNames) \in Nat
    BY LenProperties DEF ConfigsFit, NamesOf
  <1>4. Max(named) \in named
    <2>1. named \subseteq Int
      BY <1>3
    <2>2. IsFiniteSet(named)
      <3> HIDE DEF named
      <3>1. IsFiniteSet(1..Len(LevelNames))
        BY <1>3, FS_Interval
      <3> QED BY <1>3, <3>1, FS_Subset
    <2> HIDE DEF named
    <2> QED BY <1>2, <2>1, <2>2, GreatestOf
  <1>5. name \in DOMAIN config.levels
    BY <1>2, <1>4 DEF NamesOf
  <1>6. LevelCfg(config, id).fileId = config.levels[name].fileId
    <2> HIDE DEF name
    <2> QED BY <1>1 DEF LevelCfg, name
  <1> QED BY <1>5, <1>6

\* The list of a thread after some of the files.
Listed(list, file, thread) ==
    IF file.threadRelationId = thread THEN Append(list, file) ELSE list

Lists(files, thread, f) ==
    /\ f \in [0..Len(files) -> Seq(Range(files))]
    /\ f[0] = <<>>
    /\ \A i \in 1..Len(files) : f[i] = Listed(f[i - 1], files[i], thread)

LEMMA ListedType ==
    ASSUME NEW S, NEW list \in Seq(S), NEW file \in S, NEW thread
    PROVE  Listed(list, file, thread) \in Seq(S)
  BY AppendProperties DEF Listed

\* There is a list after every file.
LEMMA ListsExist ==
    ASSUME NEW S, NEW files \in Seq(S), NEW thread
    PROVE  \E f : Lists(files, thread, f)
  <1> DEFINE n == Len(files)
             R == Range(files)
             Good(k, f) == /\ f \in [0..n -> Seq(R)] /\ f[0] = <<>>
                           /\ \A i \in 1..n : i <= k => f[i] = Listed(f[i - 1], files[i], thread)
             P == {k \in 0..n : \E f : Good(k, f)}
  <1>1. n \in Nat /\ \A i \in 1..n : files[i] \in R
    BY LenProperties DEF Range
  <1> HIDE DEF n, R
  <1>2. 0 \in P
    <2>1. <<>> \in Seq(R)
      BY EmptySeq
    <2> DEFINE start == [i \in 0..n |-> <<>>]
    <2>2. Good(0, start)
      <3>1. start \in [0..n -> Seq(R)] /\ start[0] = <<>>
        BY <1>1, <2>1
      <3>2. \A i \in 1..n : ~(i <= 0)
        BY <1>1
      <3> HIDE DEF start
      <3> QED BY <3>1, <3>2
    <2>3. 0 \in 0..n
      BY <1>1
    <2> HIDE DEF Good
    <2>4. \E f : Good(0, f)
      BY <2>2, Zenon
    <2> QED BY <2>3, <2>4
  <1>3. ASSUME NEW k \in 1..n, k - 1 \in P
        PROVE  k \in P
    <2>1. PICK f : Good(k - 1, f)
      BY <1>3
    <2> DEFINE x == Listed(f[k - 1], files[k], thread)
               g == [f EXCEPT ![k] = x]
    <2>2. k \in 0..n /\ k - 1 \in 0..n
      BY <1>1
    <2>3. x \in Seq(R)
      <3>1. f[k - 1] \in Seq(R)
        BY <2>1, <2>2
      <3> QED BY <1>1, <3>1, ListedType
    <2>4. g \in [0..n -> Seq(R)] /\ g[0] = <<>>
      <3> HIDE DEF x
      <3> QED BY <2>1, <2>2, <2>3
    <2>5. ASSUME NEW i \in 1..n, i <= k
          PROVE  g[i] = Listed(g[i - 1], files[i], thread)
      <3>1. i - 1 \in 0..n /\ i - 1 # k
        BY <1>1, <2>5
      <3>2. g[i - 1] = f[i - 1]
        BY <2>1, <3>1
      <3>3. CASE i = k
        <4>1. g[i] = x
          BY <2>1, <2>2, <3>3
        <4> QED BY <3>2, <3>3, <4>1
      <3>4. CASE i # k
        <4>1. i <= k - 1 /\ g[i] = f[i]
          BY <1>1, <2>1, <2>5, <3>4
        <4>2. f[i] = Listed(f[i - 1], files[i], thread)
          BY <2>1, <4>1
        <4> QED BY <3>2, <4>1, <4>2
      <3> QED BY <3>3, <3>4
    <2>6. Good(k, g)
      <3> HIDE DEF g
      <3> QED BY <2>4, <2>5
    <2> HIDE DEF Good
    <2>7. \E f2 : Good(k, f2)
      BY <2>6, Zenon
    <2> QED BY <2>2, <2>7
  <1>4. n \in P
    <2>1. 0..n \subseteq P
      <3> HIDE DEF P
      <3> QED BY <1>1, <1>2, <1>3, LoopInduction
    <2> HIDE DEF P
    <2> QED BY <1>1, <2>1
  <1>5. PICK f : Good(n, f)
    BY <1>4
  <1>6. \A i \in 1..n : i <= n
    BY <1>1
  <1>7. Lists(files, thread, f)
    BY <1>5, <1>6 DEF Lists, n, R
  <1> QED BY <1>7

\* The recursive function of the model is that list.
LEMMA ListIs ==
    ASSUME NEW S, NEW files \in Seq(S), NEW thread, NEW f, Lists(files, thread, f)
    PROVE  FilesOfThread(files, thread) = f[Len(files)]
  <1> DEFINE n == Len(files)
             Loop(g) == g = [i \in 0..n |->
                               IF i = 0 THEN <<>>
                               ELSE IF files[i].threadRelationId = thread
                                    THEN Append(g[i - 1], files[i]) ELSE g[i - 1]]
             first == CHOOSE g : Loop(g)
  <1>1. n \in Nat
    BY LenProperties
  <1>2. Loop(f)
    <2>1. f = [i \in 0..n |-> f[i]]
      BY DEF Lists
    <2>2. ASSUME NEW i \in 0..n
          PROVE  f[i] = IF i = 0 THEN <<>>
                        ELSE IF files[i].threadRelationId = thread
                             THEN Append(f[i - 1], files[i]) ELSE f[i - 1]
      <3>1. CASE i = 0
        BY <3>1 DEF Lists
      <3>2. CASE i # 0
        <4>1. i \in 1..n
          BY <1>1, <3>2
        <4>2. f[i] = Listed(f[i - 1], files[i], thread)
          BY <4>1 DEF Lists
        <4> QED BY <3>2, <4>2 DEF Listed
      <3> QED BY <3>1, <3>2
    <2> QED BY <2>1, <2>2
  <1>3. Loop(first)
    <2> HIDE DEF Loop
    <2> QED BY <1>2
  <1> DEFINE P == {i \in 0..n : first[i] = f[i]}
  <1>4. 0 \in P
    <2> HIDE DEF first
    <2>1. first[0] = <<>> /\ 0 \in 0..n
      BY <1>1, <1>3
    <2> QED BY <2>1 DEF Lists
  <1>5. ASSUME NEW i \in 1..n, i - 1 \in P
        PROVE  i \in P
    <2> HIDE DEF first
    <2>1. i \in 0..n /\ i # 0
      BY <1>1
    <2>2. first[i] = Listed(first[i - 1], files[i], thread)
      BY <1>3, <2>1 DEF Listed
    <2>3. f[i] = Listed(f[i - 1], files[i], thread)
      BY DEF Lists
    <2>4. first[i - 1] = f[i - 1]
      BY <1>5
    <2> QED BY <2>1, <2>2, <2>3, <2>4
  <1>6. first[n] = f[n]
    <2>1. 0..n \subseteq P
      <3> HIDE DEF P, n
      <3> QED BY <1>1, <1>4, <1>5, LoopInduction
    <2>2. n \in 0..n
      BY <1>1
    <2> HIDE DEF first, n
    <2> QED BY <2>1, <2>2
  <1>7. FilesOfThread(files, thread) = first[n]
    BY Zenon DEF FilesOfThread
  <1> QED BY <1>6, <1>7

\* Where a list holds a file.
PlacesOf(list, file) == {j \in DOMAIN list : list[j] = file}

Stands(list, file, here) ==
    IF here THEN \E k : PlacesOf(list, file) = {k} ELSE PlacesOf(list, file) = {}

\* A file stands once in the list of its thread and in no other.
LEMMA ListedOnce ==
    ASSUME NEW S, NEW files \in Seq(S), NEW thread, NEW at \in 1..Len(files),
           \A i \in 1..Len(files) : files[i] = files[at] => i = at
    PROVE  Stands(FilesOfThread(files, thread), files[at],
                  files[at].threadRelationId = thread)
  <1>1. PICK f : Lists(files, thread, f)
    BY ListsExist
  <1> DEFINE n == Len(files)
             R == Range(files)
             x == files[at]
             Here(i) == i >= at /\ x.threadRelationId = thread
             P == {i \in 0..n : Stands(f[i], x, Here(i))}
  <1>2. n \in Nat /\ at \in 1..n /\ \A i \in 0..n : f[i] \in Seq(R)
    BY <1>1, LenProperties DEF Lists
  <1>3. 0 \in P
    <2>1. f[0] = <<>> /\ ~Here(0)
      BY <1>1, <1>2 DEF Lists
    <2>2. PlacesOf(f[0], x) = {}
      BY <2>1 DEF PlacesOf
    <2> HIDE DEF Here, x
    <2> QED BY <1>2, <2>1, <2>2 DEF Stands
  <1>4. ASSUME NEW i \in 1..n, i - 1 \in P
        PROVE  i \in P
    <2>0. i \in 0..n /\ Stands(f[i - 1], x, Here(i - 1))
      BY <1>2, <1>4
    <2>1. PICK was \in Seq(R) : was = f[i - 1]
      BY <1>2
    <2>2. f[i] = Listed(was, files[i], thread) /\ files[i] \in R
      BY <1>1, <2>1, LenProperties DEF Lists, Range
    <2>3. CASE files[i].threadRelationId # thread
      <3>1. f[i] = was
        BY <2>2, <2>3 DEF Listed
      <3>2. i = at => x.threadRelationId # thread
        BY <2>3
      <3>3. Here(i) <=> Here(i - 1)
        BY <1>2, <3>2
      <3> HIDE DEF Here, x
      <3> QED BY <2>0, <2>1, <3>1, <3>3 DEF Stands
    <2>4. CASE files[i].threadRelationId = thread
      <3>1. f[i] = Append(was, files[i])
        BY <2>2, <2>4 DEF Listed
      <3>2. PICK file \in R : file = files[i]
        BY <2>2
      <3>3. /\ Len(f[i]) = Len(was) + 1 /\ f[i][Len(was) + 1] = file
            /\ \A j \in 1..Len(was) : f[i][j] = was[j]
            /\ f[i] \in Seq(R)
        BY <3>1, <3>2, AppendProperties
      <3>4. /\ DOMAIN was = 1..Len(was) /\ Len(was) \in Nat
            /\ DOMAIN f[i] = 1..(Len(was) + 1)
        BY <3>3, LenProperties
      <3>5. CASE i = at
        <4>1. file = x /\ ~Here(i - 1) /\ Here(i)
          BY <1>2, <2>4, <3>2, <3>5
        <4>2. PlacesOf(was, x) = {}
          BY <2>0, <2>1, <4>1 DEF Stands
        <4> HIDE DEF x, Here
        <4> DEFINE m == Len(was)
                   longer == f[i]
        <4>3. /\ m \in Nat /\ DOMAIN longer = 1..(m + 1) /\ longer[m + 1] = x
              /\ \A j \in 1..m : longer[j] # x
          BY <3>3, <3>4, <4>1, <4>2 DEF PlacesOf
        <4> HIDE DEF m, longer
        <4>4. \A j \in DOMAIN longer : longer[j] = x <=> j = m + 1
          BY <4>3
        <4>5. PlacesOf(longer, x) = {m + 1}
          BY <4>3, <4>4 DEF PlacesOf
        <4> USE DEF m, longer
        <4> QED BY <2>0, <4>1, <4>5 DEF Stands
      <3>6. CASE i # at
        <4>1. file # x
          BY <3>2, <3>6
        <4>2. Here(i) <=> Here(i - 1)
          BY <1>2, <3>6
        <4> HIDE DEF x, Here
        <4>3. PlacesOf(f[i], x) = PlacesOf(was, x)
          BY <3>3, <3>4, <4>1 DEF PlacesOf
        <4> QED BY <2>0, <2>1, <4>2, <4>3 DEF Stands
      <3> QED BY <3>5, <3>6
    <2> QED BY <2>3, <2>4
  <1>5. n \in P
    <2>1. 0..n \subseteq P
      <3> HIDE DEF P, n
      <3> QED BY <1>2, <1>3, <1>4, LoopInduction
    <2> HIDE DEF P
    <2> QED BY <1>2, <2>1
  <1>6. n >= at
    BY <1>2
  <1>7. FilesOfThread(files, thread) = f[n]
    BY <1>1, ListIs
  <1> QED BY <1>5, <1>6, <1>7

-----------------------------------------------------------------------------
(* The theorem. *)

\* What Init read: the levels, the file of a level, and the lists of the threads.
LEMMA ReadLinks ==
    ASSUME ConfigsFit, given \in Configs, mgr = Read(given), WellFormed(given)
    PROVE  LevelsLinked
  <1> DEFINE cfgs == mgr.levelIdxRefCfg
             n == Len(given.files)
             files == [i \in 1..n |-> LogFile(given, cfgs, given.files[i])]
             maxId == Max({file.logFileId : file \in ToSet(files)} \cup {-1})
  <1>1. /\ mgr.fileIdIdxRefCfg = [id \in 0..maxId |-> FileAt(files, id)]
        /\ mgr.threadRelation = [thread \in {file.threadRelationId : file \in ToSet(files)} |->
                                    FilesOfThread(files, thread)]
    BY DEF Read
  <1>2. /\ given.files \in Seq(FileConfig) /\ n \in Nat /\ DOMAIN given.files = 1..n
        /\ \A i \in 1..n : given.files[i] \in FileConfig
    BY LenProperties, ElementOfSeq DEF ConfigsFit
  <1>3. \A i \in 1..n : files[i] = LogFile(given, cfgs, given.files[i])
    OBVIOUS
  <1>4. \A i \in 1..n : /\ files[i].logFileId = given.files[i].id
                        /\ files[i].logFileId \in Nat
                        /\ files[i].levelIdxRefCfg = LevelsOf(cfgs, files[i].logFileId)
                        /\ files[i].isEnable = IsEnable(files[i].levelIdxRefCfg)
    BY <1>2 DEF LogFile, FileConfig
  <1>5. \A level \in DOMAIN cfgs : cfgs[level] = LevelCfg(given, level)
    BY DEF Read
  <1>6. \A i, j \in 1..n : files[i].logFileId = files[j].logFileId => i = j
    <2>1. IsInjective([i \in 1..n |-> given.files[i].id])
      BY DEF WellFormed
    <2>2. \A i, j \in 1..n : given.files[i].id = given.files[j].id => i = j
      BY <2>1 DEF IsInjective
    <2> HIDE DEF files
    <2> QED BY <1>4, <2>2
  <1>7. /\ DOMAIN files = 1..n /\ files \in Seq(Range(files)) /\ Len(files) = n
        /\ ToSet(files) = {files[i] : i \in 1..n}
    <2>1. DOMAIN files = 1..n
      OBVIOUS
    <2> HIDE DEF files, n
    <2>2. files \in [1..n -> Range(files)]
      <3>1. \A i \in 1..n : files[i] \in Range(files)
        BY <2>1 DEF Range
      <3>2. files = [i \in 1..n |-> files[i]]
        BY <2>1 DEF files
      <3> QED BY <3>1, <3>2
    <2>3. files \in Seq(Range(files))
      BY <1>2, <2>2, SeqDef
    <2>4. DOMAIN files = 1..Len(files) /\ Len(files) \in Nat
      BY <2>3, LenProperties
    <2>5. Len(files) = n
      BY <1>2, <2>1, <2>4
    <2> QED BY <2>1, <2>3, <2>5 DEF ToSet
  <1> HIDE DEF files, cfgs, n
  <1>8. \A i \in 1..n : files[i].logFileId \in 0..maxId
    <2> DEFINE ids == {file.logFileId : file \in ToSet(files)}
               T == ids \cup {-1}
    <2>1. ids = {files[i].logFileId : i \in 1..n}
      BY <1>7
    <2>2. IsFiniteSet(ids)
      <3> DEFINE idOf == [i \in 1..n |-> files[i].logFileId]
      <3>1. idOf \in [1..n -> ids] /\ \A id \in ids : \E i \in 1..n : idOf[i] = id
        BY <2>1
      <3> HIDE DEF idOf, ids
      <3>2. idOf \in Surjection(1..n, ids)
        BY <3>1 DEF Surjection
      <3>3. ExistsSurjection(1..n, ids)
        BY <3>2 DEF ExistsSurjection
      <3> QED BY <1>2, <3>3, FS_NatSurjection
    <2>3. T \subseteq Int /\ T # {} /\ \A i \in 1..n : files[i].logFileId \in T
      <3>1. \A i \in 1..n : files[i].logFileId \in ids /\ files[i].logFileId \in Int
        BY <1>4, <2>1
      <3>2. \A id \in ids : id \in Int
        BY <2>1, <3>1
      <3> HIDE DEF ids
      <3> QED BY <3>1, <3>2
    <2>4. IsFiniteSet(T)
      <3> HIDE DEF ids
      <3> QED BY <2>2, FS_AddElement
    <2>5. maxId = Max(T)
      OBVIOUS
    <2> HIDE DEF T, maxId
    <2>6. maxId \in T /\ \A x \in T : x <= maxId
      BY <2>3, <2>4, <2>5, GreatestOf
    <2>7. maxId \in Int
      BY <2>3, <2>6
    <2> QED BY <1>4, <2>3, <2>6, <2>7
  <1>9. ASSUME NEW i \in 1..n
        PROVE  FileAt(files, files[i].logFileId) = files[i]
    <2>1. {j \in DOMAIN files : files[j].logFileId = files[i].logFileId} = {i}
      BY <1>6, <1>7
    <2>2. Max({i}) = i
      <3>1. {i} \subseteq Int
        BY <1>2
      <3>2. IsFiniteSet({i})
        BY FS_Singleton
      <3>3. Max({i}) \in {i}
        BY <3>1, <3>2, GreatestOf
      <3> QED BY <3>3
    <2> QED BY <2>1, <2>2 DEF FileAt
  <1>10. \A i \in 1..n : mgr.fileIdIdxRefCfg[files[i].logFileId] = files[i]
    <2> HIDE DEF maxId
    <2> QED BY <1>1, <1>8, <1>9
  <1> DEFINE Places(file) ==
                UNION {{<<thread, i>> : i \in {j \in DOMAIN mgr.threadRelation[thread] :
                           mgr.threadRelation[thread][j] = file}} :
                           thread \in DOMAIN mgr.threadRelation}
  <1>11. ASSUME NEW at \in 1..n
         PROVE  \E place \in Places(files[at]) : Places(files[at]) = {place}
    <2> DEFINE x == files[at]
               lists == mgr.threadRelation
    <2>1. /\ DOMAIN lists = {file.threadRelationId : file \in ToSet(files)}
          /\ \A thread \in DOMAIN lists : lists[thread] = FilesOfThread(files, thread)
      BY <1>1
    <2>2. \A i \in 1..n : files[i] = files[at] => i = at
      BY <1>6
    <2>3. \A thread \in DOMAIN lists : Stands(lists[thread], x, x.threadRelationId = thread)
      BY <1>7, <2>1, <2>2, ListedOnce
    <2>4. x.threadRelationId \in DOMAIN lists
      BY <1>7, <2>1
    <2>5. Places(x) = UNION {{<<thread, i>> : i \in PlacesOf(lists[thread], x)} :
                                thread \in DOMAIN lists}
      BY DEF PlacesOf
    <2> HIDE DEF x, lists, Places
    <2>6. PICK k : PlacesOf(lists[x.threadRelationId], x) = {k}
      BY <2>3, <2>4 DEF Stands
    <2>7. \A thread \in DOMAIN lists :
             thread # x.threadRelationId => PlacesOf(lists[thread], x) = {}
      BY <2>3 DEF Stands
    <2>8. Places(x) = {<<x.threadRelationId, k>>}
      BY <2>4, <2>5, <2>6, <2>7
    <2>9. \E place \in Places(x) : Places(x) = {place}
      BY <2>8
    <2> QED BY <2>9 DEF x
  <1>12. ASSUME NEW level \in DOMAIN cfgs, cfgs[level] # NoCfg
         PROVE  \E at \in 1..n : cfgs[level].fileId = files[at].logFileId
    <2>1. PICK name \in DOMAIN given.levels : cfgs[level].fileId = given.levels[name].fileId
      BY <1>5, <1>12, LevelCfgIs
    <2>2. given.levels[name].fileId \in ToSet([i \in 1..n |-> given.files[i].id])
      BY DEF WellFormed, n
    <2>3. PICK at \in 1..n : given.levels[name].fileId = given.files[at].id
      BY <2>2 DEF ToSet
    <2> QED BY <1>4, <2>1, <2>3
  <1>13. ASSUME NEW level \in DOMAIN cfgs, cfgs[level] # NoCfg
         PROVE  LET cfg == GetLevelCfg(level)
                    file == GetLogCfg(level)
                IN  /\ cfg = cfgs[level] /\ \E place \in Places(file) : Places(file) = {place}
                    /\ file.levelIdxRefCfg[level] = cfg
                    /\ cfg.enable => file.isEnable
                    /\ file.isEnable => \E id \in DOMAIN file.levelIdxRefCfg :
                          /\ GetLevelCfg(id) # NoCfg
                          /\ GetLevelCfg(id).fileId = cfg.fileId
                          /\ GetLevelCfg(id).enable
    <2>1. PICK at \in 1..n : cfgs[level].fileId = files[at].logFileId
      BY <1>12, <1>13
    <2>2. \A id \in DOMAIN cfgs : GetLevelCfg(id) = cfgs[id]
      BY DEF GetLevelCfg, cfgs
    <2>3. GetLogCfg(level) = files[at]
      BY <1>10, <2>1, <2>2 DEF GetLogCfg
    <2> DEFINE bound == {id \in DOMAIN cfgs :
                            cfgs[id] # NoCfg /\ cfgs[id].fileId = files[at].logFileId}
               levels == files[at].levelIdxRefCfg
    <2>4. level \in bound
      BY <1>13, <2>1
    <2>5. levels = [id \in DOMAIN cfgs |-> IF id \in bound THEN cfgs[id] ELSE NoCfg]
      BY <1>4, <2>4 DEF LevelsOf
    <2>6. files[at].isEnable <=> \E id \in DOMAIN levels : levels[id] # NoCfg /\ levels[id].enable
      BY <1>4 DEF IsEnable
    <2>7. /\ DOMAIN levels = DOMAIN cfgs
          /\ \A id \in bound : id \in DOMAIN cfgs /\ levels[id] = cfgs[id]
          /\ \A id \in DOMAIN cfgs : levels[id] # NoCfg => id \in bound
      BY <2>5
    <2>8. \A id \in bound : cfgs[id] # NoCfg /\ cfgs[id].fileId = cfgs[level].fileId
      BY <2>1
    <2> HIDE DEF levels, bound, Places
    <2>9. /\ levels[level] = cfgs[level]
          /\ cfgs[level].enable => files[at].isEnable
      BY <1>13, <2>4, <2>6, <2>7
    <2>10. files[at].isEnable =>
             \E id \in DOMAIN levels : /\ cfgs[id] # NoCfg
                                       /\ cfgs[id].fileId = cfgs[level].fileId
                                       /\ cfgs[id].enable
      BY <2>6, <2>7, <2>8
    <2>11. \E place \in Places(files[at]) : Places(files[at]) = {place}
      BY <1>11
    <2> QED BY <2>2, <2>3, <2>7, <2>9, <2>10, <2>11 DEF levels
  <1>14. \A level \in DOMAIN cfgs : GetLevelCfg(level) = cfgs[level]
    BY DEF GetLevelCfg, cfgs
  <1>15. SUFFICES ASSUME NEW level \in DOMAIN cfgs, cfgs[level] # NoCfg
                  PROVE  LET cfg == GetLevelCfg(level)
                             file == GetLogCfg(level)
                         IN  /\ file.levelIdxRefCfg[level] = cfg
                             /\ cfg.enable => file.isEnable
                             /\ file.isEnable => \E id \in DOMAIN file.levelIdxRefCfg :
                                   /\ GetLevelCfg(id) # NoCfg
                                   /\ GetLevelCfg(id).fileId = cfg.fileId
                                   /\ GetLevelCfg(id).enable
                             /\ \E place \in Places(file) : Places(file) = {place}
    <2>1. \A level \in DOMAIN cfgs : GetLevelCfg(level) # NoCfg
                                        => cfgs[level] # NoCfg
      BY <1>14
    <2> QED BY <2>1, Zenon DEF LevelsLinked, cfgs
  <1> HIDE DEF Places
  <1> QED BY <1>13, <1>15

\* The levels, files and threads that LogIniCfgMgr::Init builds name each other,
\* for any number of levels, files and threads in any order, on and off.
THEOREM LevelsFound == ConfigsFit => (MgrSpec => []LevelsLinked)
  <1> SUFFICES ASSUME ConfigsFit PROVE MgrSpec => []LevelsLinked
    OBVIOUS
  <1> DEFINE Inv == given \in Configs /\ mgr \in {NotInit, Read(given)}
  <1>1. MgrInit => Inv
    BY DEF MgrInit
  <1>2. Inv /\ [InitMgr]_mgrVars => Inv'
    BY DEF InitMgr, mgrVars
  <1>3. Inv => LevelsLinked
    <2>1. CASE mgr = NotInit
      BY <2>1 DEF LevelsLinked, NotInit
    <2>2. CASE ~WellFormed(given)
      BY <2>2 DEF LevelsLinked
    <2> QED BY <2>1, <2>2, ReadLinks
  <1> QED BY <1>1, <1>2, <1>3, PTL DEF MgrSpec

-----------------------------------------------------------------------------
(* LibTime and TimeSlice: numbers. *)

\* A number is made up of quotient and remainder in one way only.
LEMMA DivisionIs ==
    ASSUME NEW b \in Nat, b > 0, NEW q \in Int, NEW r \in 0..(b - 1)
    PROVE  (q * b + r) \div b = q /\ (q * b + r) % b = r
  <1> DEFINE a == q * b + r
             p == a \div b
             s == a % b
  <1>1. a \in Int
    OBVIOUS
  <1> HIDE DEF a
  <1>2. p \in Int /\ s \in 0..(b - 1) /\ a = p * b + s
    BY <1>1
  <1> HIDE DEF p, s
  <1>3. (q - p) * b = s - r
    BY <1>2 DEF a
  <1>4. q - p >= 1 => (q - p) * b >= b
    BY <1>2
  <1>5. q - p <= -1 => (q - p) * b <= -b
    BY <1>2
  <1>6. q = p
    BY <1>2, <1>3, <1>4, <1>5
  <1>7. s = r
    BY <1>2, <1>6 DEF a
  <1> QED BY <1>6, <1>7 DEF a, p, s

\* What a division leaves.
LEMMA Divided ==
    ASSUME NEW a \in Int, NEW b \in Nat, b > 0
    PROVE  /\ a \div b \in Int /\ a % b \in 0..(b - 1)
           /\ a = (a \div b) * b + (a % b)
           /\ a >= 0 => a \div b >= 0
  <1>1. a \div b \in Int /\ a % b \in 0..(b - 1) /\ a = (a \div b) * b + (a % b)
    <2>1. a \div b \in Int /\ a % b \in 0..(b - 1)
      OBVIOUS
    <2>2. a % b = a - b * (a \div b)
      OBVIOUS
    <2>3. \A x \in Int : b * x = x * b
      OBVIOUS
    <2> DEFINE x == a \div b
               y == a % b
    <2>4. x \in Int /\ y \in Int /\ y = a - b * x /\ b * x = x * b
      BY <2>1, <2>2, <2>3
    <2> HIDE DEF x, y
    <2>5. a = x * b + y
      BY <2>4
    <2> QED BY <2>1, <2>5 DEF x, y
  <1> DEFINE p == a \div b
             s == a % b
  <1>2. ASSUME a >= 0, p <= -1 PROVE FALSE
    <2>1. p \in Int /\ s \in 0..(b - 1) /\ a = p * b + s
      BY <1>1
    <2> HIDE DEF p, s
    <2>2. p * b <= -b
      BY <1>2, <2>1
    <2> QED BY <1>2, <2>1, <2>2
  <1> QED BY <1>1, <1>2

\* The next digit of a number whose digits go up to b and c.
LEMMA Digits ==
    ASSUME NEW a \in Int, NEW b \in Nat, b > 0, NEW c \in Nat, c > 0
    PROVE  /\ a % (b * c) = ((a % (b * c)) \div b) * b + (a % b)
           /\ (a % (b * c)) \div b \in 0..(c - 1)
           /\ (a % (b * c)) % b = a % b
  <1> DEFINE m == b * c
             q == a \div m
             r == a % m
             u == r \div b
             v == r % b
  <1>1. m \in Nat /\ m > 0
    OBVIOUS
  <1>2. q \in Int /\ r \in 0..(m - 1) /\ a = q * m + r
    <2> HIDE DEF m
    <2> QED BY <1>1, Divided
  <1>3. u \in Int /\ v \in 0..(b - 1) /\ r = u * b + v /\ u >= 0
    <2> HIDE DEF r
    <2>1. r \in Int /\ r >= 0
      BY <1>2, <1>1
    <2> QED BY <2>1, Divided
  <1>4. (q * c + u) * b + v = a
    <2>1. q * m = (q * c) * b
      BY <1>2
    <2>2. (q * c + u) * b = (q * c) * b + u * b
      <3> HIDE DEF q, u
      <3> QED BY <1>2, <1>3
    <2> HIDE DEF q, u, v, r, m
    <2> QED BY <1>2, <1>3, <2>1, <2>2
  <1>5. q * c + u \in Int
    BY <1>2, <1>3
  <1>6. a % b = v
    <2> DEFINE k == q * c + u
    <2>1. k \in Int
      BY <1>5
    <2> HIDE DEF q, u, v, k
    <2>2. (k * b + v) % b = v
      BY <2>1, <1>3, DivisionIs
    <2>3. k * b + v = a
      BY <1>4 DEF k
    <2> QED BY <2>2, <2>3
  <1>7. u < c
    <2> HIDE DEF u, v, r
    <2>1. u >= c => u * b >= c * b
      BY <1>3
    <2>2. u * b <= r /\ r < m /\ u * b \in Int /\ c * b = m /\ r \in Int
      BY <1>1, <1>2, <1>3
    <2>3. u \in Int
      BY <1>3
    <2>4. ~(u >= c)
      <3> DEFINE x == u * b
                 y == c * b
      <3>1. x \in Int /\ x <= r /\ r < y /\ y \in Int /\ r \in Int /\ (u >= c => x >= y)
        BY <1>1, <2>1, <2>2
      <3> HIDE DEF x, y
      <3> QED BY <3>1
    <2> QED BY <2>3, <2>4
  <1> HIDE DEF r, u, v
  <1>8. u \in 0..(c - 1) /\ r = u * b + (a % b) /\ v = a % b
    BY <1>3, <1>6, <1>7
  <1> QED BY <1>8, Zenon DEF m, r, u, v

\* The units are as many as they are.
LEMMA Units ==
    /\ MicroPerMilli \in Nat /\ MicroPerMilli > 0 /\ MilliPerSecond \in Nat /\ MilliPerSecond > 0
    /\ SecondPerMinute \in Nat /\ SecondPerMinute > 0 /\ MinutePerHour \in Nat /\ MinutePerHour > 0
    /\ HourPerDay \in Nat /\ HourPerDay > 0
    /\ MicroPerSecond \in Nat /\ MicroPerSecond > 0 /\ MicroPerMinute \in Nat /\ MicroPerMinute > 0
    /\ MicroPerHour \in Nat /\ MicroPerHour > 0 /\ SecondPerHour \in Nat /\ SecondPerHour > 0
    /\ SecondPerDay \in Nat /\ SecondPerDay > 0 /\ MicroPerDay \in Nat /\ MicroPerDay > 0
  <1>0. \A a, b \in Nat : a > 0 /\ b > 0 => a * b \in Nat /\ a * b > 0
    OBVIOUS
  <1>1. /\ MicroPerMilli \in Nat /\ MicroPerMilli > 0 /\ MilliPerSecond \in Nat /\ MilliPerSecond > 0
        /\ SecondPerMinute \in Nat /\ SecondPerMinute > 0 /\ MinutePerHour \in Nat /\ MinutePerHour > 0
        /\ HourPerDay \in Nat /\ HourPerDay > 0
    BY UnitsAssumption
  <1>2. MicroPerSecond \in Nat /\ MicroPerSecond > 0
    BY <1>0, <1>1 DEF MicroPerSecond
  <1>3. MicroPerMinute \in Nat /\ MicroPerMinute > 0
    BY <1>0, <1>1, <1>2 DEF MicroPerMinute
  <1>4. MicroPerHour \in Nat /\ MicroPerHour > 0
    BY <1>0, <1>1, <1>3 DEF MicroPerHour
  <1>5. SecondPerHour \in Nat /\ SecondPerHour > 0
    BY <1>0, <1>1 DEF SecondPerHour
  <1>6. SecondPerDay \in Nat /\ SecondPerDay > 0
    BY <1>0, <1>1, <1>5 DEF SecondPerDay
  <1>7. MicroPerDay \in Nat /\ MicroPerDay > 0
    BY <1>0, <1>2, <1>6 DEF MicroPerDay
  <1> QED BY <1>1, <1>2, <1>3, <1>4, <1>5, <1>6, <1>7

\* Division and remainder of C are those of a number that is not negative.
LEMMA NotNegative ==
    ASSUME NEW a \in Int, a >= 0, NEW b \in Nat, b > 0
    PROVE  Quotient(a, b) = a \div b /\ Remainder(a, b) = a % b
  <1>1. Quotient(a, b) = a \div b
    BY DEF Quotient
  <1>2. b * (a \div b) + (a % b) = a /\ a \div b \in Int /\ a % b \in Int
    <2>1. a \div b \in Int /\ a % b \in 0..(b - 1) /\ a = (a \div b) * b + (a % b)
      BY Divided
    <2> QED BY <2>1
  <1> QED BY <1>1, <1>2 DEF Remainder

-----------------------------------------------------------------------------
(* LibTime: months follow one another. *)

LEMMA MonthLength ==
    ASSUME NEW year \in Int, NEW month \in 1..12
    PROVE  /\ GetMonthMaxDays(year, month) \in 28..31
           /\ month # 2 => \A y \in Int : GetMonthMaxDays(y, month) = GetMonthMaxDays(year, month)
           /\ month = 12 => GetMonthMaxDays(year, month) = 31
  <1>1. month \in {1, 2, 3, 4, 5, 6, 7, 8, 9, 10, 11, 12}
    OBVIOUS
  <1> QED BY <1>1 DEF GetMonthMaxDays

\* The days of the months before one.
MonthsBefore(year, before) ==
    before = [m \in 1..12 |-> IF m = 1 THEN 0
                              ELSE before[m - 1] + GetMonthMaxDays(year, m - 1)]

LEMMA MonthsExist ==
    ASSUME NEW year \in Int
    PROVE  \E before : MonthsBefore(year, before)
  <1> DEFINE leap == IF IsLeapYear(year) THEN 1 ELSE 0
             days == [m \in 1..12 |-> CASE m = 1 -> 0 [] m = 2 -> 31 [] m = 3 -> 59 + leap
                         [] m = 4 -> 90 + leap [] m = 5 -> 120 + leap [] m = 6 -> 151 + leap
                         [] m = 7 -> 181 + leap [] m = 8 -> 212 + leap [] m = 9 -> 243 + leap
                         [] m = 10 -> 273 + leap [] m = 11 -> 304 + leap [] m = 12 -> 334 + leap]
  <1>1. leap \in 0..1
    OBVIOUS
  <1>2. ASSUME NEW m \in 1..12
        PROVE  days[m] = IF m = 1 THEN 0 ELSE days[m - 1] + GetMonthMaxDays(year, m - 1)
    <2>1. m \in {1, 2, 3, 4, 5, 6, 7, 8, 9, 10, 11, 12}
      OBVIOUS
    <2> QED BY <2>1 DEF GetMonthMaxDays
  <1>3. days = [m \in 1..12 |-> days[m]]
    OBVIOUS
  <1> HIDE DEF days
  <1>4. MonthsBefore(year, days)
    BY <1>2, <1>3 DEF MonthsBefore
  <1> QED BY <1>4

\* The days before the first of January.
YearStart(year) == 365 * (year - 1970) + LeapDays(year) - LeapDays(1970)

LEMMA FirstDays ==
    ASSUME NEW year \in Int
    PROVE  /\ YearStart(year) \in Int
           /\ DaysBefore(year, 1) = YearStart(year)
           /\ \A m \in 1..11 : DaysBefore(year, m + 1) =
                                   DaysBefore(year, m) + GetMonthMaxDays(year, m)
           /\ \A m \in 1..12 : DaysBefore(year, m) \in Int
  <1> DEFINE before == CHOOSE f : MonthsBefore(year, f)
  <1>1. MonthsBefore(year, before)
    <2> HIDE DEF MonthsBefore
    <2> QED BY MonthsExist
  <1>2. \A m \in 1..12 : DaysBefore(year, m) = YearStart(year) + before[m]
    BY DEF DaysBefore, YearStart, MonthsBefore
  <1> HIDE DEF before
  <1>3. YearStart(year) \in Int
    BY DEF YearStart, LeapDays
  <1>4. before[1] = 0
    BY <1>1 DEF MonthsBefore
  <1>5. \A m \in 1..11 : before[m + 1] = before[m] + GetMonthMaxDays(year, m)
    <2> TAKE m \in 1..11
    <2>1. m + 1 \in 1..12 /\ m + 1 # 1 /\ (m + 1) - 1 = m
      OBVIOUS
    <2> QED BY <1>1, <2>1 DEF MonthsBefore
  <1>6. \A m \in 1..11 : GetMonthMaxDays(year, m) \in Int
    <2> TAKE m \in 1..11
    <2>1. m \in 1..12
      OBVIOUS
    <2> QED BY <2>1, MonthLength
  <1>7. \A m \in 1..12 : before[m] \in Int
    <2> DEFINE P == {i \in 0..11 : before[i + 1] \in Int}
    <2>1. 0 \in P
      BY <1>4
    <2>2. ASSUME NEW i \in 1..11, i - 1 \in P PROVE i \in P
      <3>1. before[i] \in Int /\ i \in 0..11
        BY <2>2
      <3> QED BY <1>5, <1>6, <3>1
    <2>3. 0..11 \subseteq P
      <3> HIDE DEF P
      <3> QED BY <2>1, <2>2, LoopInduction
    <2> TAKE m \in 1..12
    <2>4. m - 1 \in 0..11 /\ (m - 1) + 1 = m
      OBVIOUS
    <2> QED BY <2>3, <2>4
  <1>8. \A m \in 1..12 : DaysBefore(year, m) \in Int
    BY <1>2, <1>3, <1>7
  <1>9. DaysBefore(year, 1) = YearStart(year)
    BY <1>2, <1>3, <1>4
  <1>10. ASSUME NEW m \in 1..11
         PROVE  DaysBefore(year, m + 1) = DaysBefore(year, m) + GetMonthMaxDays(year, m)
    <2>1. m + 1 \in 1..12 /\ m \in 1..12
      OBVIOUS
    <2>2. before[m] \in Int /\ before[m + 1] = before[m] + GetMonthMaxDays(year, m)
      BY <1>5, <1>7, <2>1
    <2> QED BY <1>2, <1>3, <1>6, <2>1, <2>2
  <1> QED BY <1>3, <1>8, <1>9, <1>10

\* A leap year is a day longer.
LEMMA YearLength ==
    ASSUME NEW year \in Int
    PROVE  YearStart(year + 1) = YearStart(year) + 365 + (IF IsLeapYear(year) THEN 1 ELSE 0)
  <1>1. \A y \in Int : /\ (y \div 4) - ((y - 1) \div 4) = IF y % 4 = 0 THEN 1 ELSE 0
                       /\ (y \div 100) - ((y - 1) \div 100) = IF y % 100 = 0 THEN 1 ELSE 0
                       /\ (y \div 400) - ((y - 1) \div 400) = IF y % 400 = 0 THEN 1 ELSE 0
    OBVIOUS
  <1>2. (year % 400 = 0 => year % 100 = 0) /\ (year % 100 = 0 => year % 4 = 0)
    OBVIOUS
  <1> QED BY <1>1, <1>2 DEF YearStart, LeapDays, IsLeapYear

\* The year is as long as its months.
LEMMA MonthsMakeYear ==
    ASSUME NEW year \in Int
    PROVE  DaysBefore(year + 1, 1) = DaysBefore(year, 12) + GetMonthMaxDays(year, 12)
  <1> DEFINE D(m) == DaysBefore(year, m)
             L(m) == GetMonthMaxDays(year, m)
  <1>1. /\ D(1) = YearStart(year) /\ D(2) = D(1) + L(1) /\ D(3) = D(2) + L(2)
        /\ D(4) = D(3) + L(3) /\ D(5) = D(4) + L(4) /\ D(6) = D(5) + L(5) /\ D(7) = D(6) + L(6)
        /\ D(8) = D(7) + L(7) /\ D(9) = D(8) + L(8) /\ D(10) = D(9) + L(9)
        /\ D(11) = D(10) + L(10) /\ D(12) = D(11) + L(11)
    <2>1. \A m \in 1..11 : D(m + 1) = D(m) + L(m)
      BY FirstDays
    <2>2. D(1) = YearStart(year)
      BY FirstDays
    <2> HIDE DEF D, L
    <2> QED BY <2>1, <2>2
  <1>2. /\ L(1) = 31 /\ L(2) = (28 + (IF IsLeapYear(year) THEN 1 ELSE 0)) /\ L(3) = 31 /\ L(4) = 30
        /\ L(5) = 31 /\ L(6) = 30 /\ L(7) = 31 /\ L(8) = 31 /\ L(9) = 30 /\ L(10) = 31
        /\ L(11) = 30 /\ L(12) = 31
    BY DEF GetMonthMaxDays
  <1>3. YearStart(year) \in Int /\ DaysBefore(year + 1, 1) = YearStart(year + 1)
    BY FirstDays
  <1> HIDE DEF D, L
  <1>4. D(12) + L(12) = YearStart(year) + 365 + (IF IsLeapYear(year) THEN 1 ELSE 0)
    BY <1>1, <1>2, <1>3
  <1> QED BY <1>3, <1>4, YearLength DEF D, L

\* The months in one line: 12 of every year.
Start(k) == DaysBefore(k \div 12, (k % 12) + 1)
Length(k) == GetMonthMaxDays(k \div 12, (k % 12) + 1)

LEMMA NextMonth ==
    ASSUME NEW k \in Int
    PROVE  Start(k) \in Int /\ Length(k) \in 28..31 /\ Start(k + 1) = Start(k) + Length(k)
  <1> DEFINE year == k \div 12
             month == (k % 12) + 1
  <1>1. year \in Int /\ month \in 1..12
    OBVIOUS
  <1>2. Start(k) \in Int /\ Length(k) \in 28..31
    <2> HIDE DEF year, month
    <2> QED BY <1>1, FirstDays, MonthLength DEF Start, Length, year, month
  <1>3. CASE month = 12
    <2>1. (k + 1) \div 12 = year + 1 /\ ((k + 1) % 12) + 1 = 1
      BY <1>3
    <2> HIDE DEF year
    <2>2. DaysBefore(year + 1, 1) = DaysBefore(year, 12) + GetMonthMaxDays(year, 12)
      BY <1>1, MonthsMakeYear
    <2> QED BY <1>2, <1>3, <2>1, <2>2 DEF Start, Length, year
  <1>4. CASE month # 12
    <2>1. (k + 1) \div 12 = year /\ ((k + 1) % 12) + 1 = month + 1 /\ month \in 1..11
      BY <1>1, <1>4
    <2> HIDE DEF year, month
    <2>2. DaysBefore(year, month + 1) = DaysBefore(year, month) + GetMonthMaxDays(year, month)
      BY <1>1, <2>1, FirstDays
    <2> QED BY <1>2, <2>1, <2>2 DEF Start, Length, year, month
  <1> QED BY <1>2, <1>3, <1>4

\* A later month starts when an earlier one is over.
LEMMA MonthsOrdered ==
    ASSUME NEW i \in Int, NEW j \in Int, i < j
    PROVE  Start(i) + Length(i) <= Start(j)
  <1> DEFINE n == j - i - 1
             P == {x \in 0..n : Start(i) + Length(i) <= Start(i + x + 1)}
  <1>1. n \in Nat /\ i + n + 1 = j
    OBVIOUS
  <1>2. \A x \in Int : Start(x) \in Int /\ Length(x) \in 28..31 /\ Start(x + 1) = Start(x) + Length(x)
    BY NextMonth
  <1> HIDE DEF n
  <1>3. 0 \in P
    <2>1. i + 0 + 1 = i + 1
      OBVIOUS
    <2> QED BY <1>1, <1>2, <2>1
  <1>4. ASSUME NEW x \in 1..n, x - 1 \in P PROVE x \in P
    <2>1. i + (x - 1) + 1 = i + x /\ i + x \in Int /\ (i + x) + 1 = i + x + 1 /\ x \in 0..n
      BY <1>1
    <2>2. Start(i) + Length(i) <= Start(i + x)
      BY <1>4, <2>1
    <2>3. Start(i + x + 1) = Start(i + x) + Length(i + x) /\ Start(i + x) \in Int /\ Length(i + x) \in 28..31
      BY <1>2, <2>1
    <2> DEFINE a == Start(i) + Length(i)
               b == Start(i + x)
               c == Start(i + x + 1)
    <2>4. a <= c
      <3>1. a \in Int
        BY <1>2
      <3>2. b \in Int /\ c \in Int /\ b <= c
        BY <2>3
      <3>3. a <= b
        BY <2>2
      <3> HIDE DEF a, b, c
      <3> QED BY <3>1, <3>2, <3>3
    <2> QED BY <2>1, <2>4
  <1>5. 0..n \subseteq P
    <2> HIDE DEF P
    <2> QED BY <1>1, <1>3, <1>4, LoopInduction
  <1>6. n \in P
    BY <1>1, <1>5
  <1> QED BY <1>1, <1>6

\* A year has 365 or 366 days.
LEMMA YearBounds ==
    ASSUME NEW year \in Int, year >= 1970
    PROVE  365 * (year - 1970) <= YearStart(year) /\ YearStart(year) <= 366 * (year - 1970)
  <1> DEFINE Bounded(x) == 365 * x <= YearStart(1970 + x) /\ YearStart(1970 + x) <= 366 * x
             n == year - 1970
             P == {x \in 0..n : Bounded(x)}
  <1>1. n \in Nat /\ 1970 + n = year
    OBVIOUS
  <1> HIDE DEF n
  <1>2. 0 \in P
    <2>1. YearStart(1970) = 0
      BY DEF YearStart, LeapDays
    <2> QED BY <1>1, <2>1
  <1>3. ASSUME NEW x \in 1..n, x - 1 \in P PROVE x \in P
    <2> DEFINE y == 1970 + (x - 1)
    <2>1. y \in Int /\ y + 1 = 1970 + x /\ x \in 0..n
      BY <1>1
    <2>2. Bounded(x - 1)
      BY <1>3
    <2>3. YearStart(y) \in Int /\ YearStart(y + 1) \in Int
      <3> HIDE DEF y
      <3>1. y + 1 \in Int /\ \A z \in Int : YearStart(z) \in Int
        BY <2>1, FirstDays
      <3> QED BY <2>1, <3>1
    <2>4. YearStart(y + 1) = YearStart(y) + 365 + (IF IsLeapYear(y) THEN 1 ELSE 0)
      BY <2>1, YearLength
    <2> DEFINE s == YearStart(y)
    <2>5. 365 * (x - 1) <= s /\ s <= 366 * (x - 1) /\ s \in Int
      BY <2>2, <2>3
    <2>6. YearStart(y + 1) \in {s + 365, s + 366}
      BY <2>4, <2>5
    <2> HIDE DEF s, y
    <2>7. 365 * x <= YearStart(y + 1) /\ YearStart(y + 1) <= 366 * x
      BY <2>5, <2>6
    <2> QED BY <2>1, <2>7
  <1>4. 0..n \subseteq P
    <2> HIDE DEF P
    <2> QED BY <1>1, <1>2, <1>3, LoopInduction
  <1>5. Bounded(n)
    <2>1. n \in P
      BY <1>1, <1>4
    <2> QED BY <2>1
  <1> QED BY <1>1, <1>5

\* Every day since 1970 is one of a month.
LEMMA MonthOfDay ==
    ASSUME NEW days \in Nat
    PROVE  \E k \in Int : k >= 12 * 1970 /\ Start(k) <= days /\ days < Start(k) + Length(k)
  <1> DEFINE T == {z \in Nat : days < Start(12 * 1970 + z + 1)}
  <1>1. \A x \in Int : Start(x) \in Int /\ Length(x) \in 28..31 /\ Start(x + 1) = Start(x) + Length(x)
    BY NextMonth
  <1>2. T # {}
    <2> DEFINE y == 1970 + days + 1
               x == 12 * (days + 1) - 1
    <2>1. y \in Int /\ y >= 1970 /\ x \in Nat /\ 12 * 1970 + x + 1 = 12 * y
      OBVIOUS
    <2>2. 365 * (y - 1970) <= YearStart(y)
      BY <2>1, YearBounds
    <2>3. Start(12 * y) = YearStart(y) /\ YearStart(y) \in Int
      <3> HIDE DEF y
      <3>1. (12 * y) \div 12 = y /\ ((12 * y) % 12) + 1 = 1
        BY <2>1
      <3>2. YearStart(y) \in Int /\ DaysBefore(y, 1) = YearStart(y)
        BY <2>1, FirstDays
      <3> QED BY <3>1, <3>2 DEF Start
    <2>4. 365 * (y - 1970) = 365 * (days + 1)
      OBVIOUS
    <2>5. days < Start(12 * 1970 + x + 1)
      <3> DEFINE s == YearStart(y)
      <3>1. s \in Int /\ 365 * (days + 1) <= s
        BY <2>2, <2>3, <2>4
      <3> HIDE DEF s
      <3>2. days < s
        BY <3>1
      <3> HIDE DEF x, y
      <3> QED BY <2>1, <2>3, <3>2 DEF s
    <2> HIDE DEF x, y
    <2>6. x \in Nat /\ days < Start(12 * 1970 + x + 1)
      BY <2>1, <2>5
    <2>7. x \in T
      BY <2>6
    <2> HIDE DEF T
    <2> QED BY <2>7
  <1>3. PICK x \in T : \A z \in T : x <= z
    <2>1. T \in SUBSET Nat
      OBVIOUS
    <2> HIDE DEF T
    <2> QED BY <1>2, <2>1, LeastOf
  <1> DEFINE k == 12 * 1970 + x
  <1>4. k \in Int /\ k >= 12 * 1970 /\ x \in Nat
    OBVIOUS
  <1>5. days < Start(k) + Length(k)
    BY <1>1, <1>4
  <1>6. Start(k) <= days
    <2>1. CASE x = 0
      <3>1. Start(12 * 1970) = YearStart(1970)
        <4>1. (12 * 1970) \div 12 = 1970 /\ ((12 * 1970) % 12) + 1 = 1
          OBVIOUS
        <4> QED BY <4>1, FirstDays DEF Start
      <3>2. YearStart(1970) = 0
        BY DEF YearStart, LeapDays
      <3>3. k = 12 * 1970
        BY <2>1
      <3> QED BY <3>1, <3>2, <3>3
    <2>2. CASE x # 0
      <3>1. x - 1 \in Nat /\ x - 1 < x /\ 12 * 1970 + (x - 1) + 1 = k
        BY <1>4, <2>2
      <3>2. x - 1 \notin T
        BY <1>3, <3>1
      <3>3. ~(days < Start(k))
        BY <3>1, <3>2
      <3> QED BY <1>1, <1>4, <3>3
    <2> QED BY <2>1, <2>2
  <1> QED BY <1>4, <1>5, <1>6

\* It is the month that the calendar takes for it.
FirstOf(days) ==
    CHOOSE m \in ((1969 + days \div 366)..(1971 + days \div 365)) \X (1..12) :
        /\ DaysBefore(m[1], m[2]) <= days
        /\ days < DaysBefore(m[1], m[2]) + GetMonthMaxDays(m[1], m[2])

LEMMA FirstIs ==
    ASSUME NEW days \in Nat, NEW year \in Int, year >= 1970, NEW month \in 1..12,
           DaysBefore(year, month) <= days,
           days < DaysBefore(year, month) + GetMonthMaxDays(year, month)
    PROVE  FirstOf(days) = <<year, month>>
  <1> DEFINE Years == (1969 + days \div 366)..(1971 + days \div 365)
             Of(m) == /\ DaysBefore(m[1], m[2]) <= days
                      /\ days < DaysBefore(m[1], m[2]) + GetMonthMaxDays(m[1], m[2])
             k == 12 * year + month - 1
  <1>1. /\ k \in Int /\ Start(k) = DaysBefore(year, month) /\ Length(k) = GetMonthMaxDays(year, month)
        /\ 12 * year <= k /\ k < 12 * (year + 1)
    <2>1. Start(k) = DaysBefore(year, month) /\ Length(k) = GetMonthMaxDays(year, month)
      <3>1. k \in Int /\ k = 12 * year + month - 1
        OBVIOUS
      <3> HIDE DEF k
      <3>2. k \div 12 = year /\ (k % 12) + 1 = month
        BY <3>1
      <3> QED BY <3>2 DEF Start, Length
    <2>2. k \in Int /\ 12 * year <= k /\ k < 12 * (year + 1)
      OBVIOUS
    <2> QED BY <2>1, <2>2
  <1>2. \A i \in Int : Start(i) \in Int /\ Length(i) \in 28..31
    BY NextMonth
  <1>3. Start(12 * year) = YearStart(year) /\ Start(12 * (year + 1)) = YearStart(year + 1)
    <2>1. \A y \in Int : Start(12 * y) = YearStart(y)
      <3> TAKE y \in Int
      <3>1. (12 * y) \div 12 = y /\ ((12 * y) % 12) + 1 = 1
        OBVIOUS
      <3>2. DaysBefore(y, 1) = YearStart(y)
        BY FirstDays
      <3> QED BY <3>1, <3>2 DEF Start
    <2> QED BY <2>1
  <1>4. YearStart(year) <= days /\ days < YearStart(year + 1)
    <2>1. 12 * year < k => Start(12 * year) + Length(12 * year) <= Start(k)
      BY <1>1, MonthsOrdered
    <2>2. Start(k) + Length(k) <= Start(12 * (year + 1))
      BY <1>1, MonthsOrdered
    <2>3. 12 * year = k => Start(12 * year) = Start(k)
      OBVIOUS
    <2>4. Start(k) <= days /\ days < Start(k) + Length(k)
      BY <1>1
    <2> DEFINE a == Start(12 * year)
               l == Length(12 * year)
               b == Start(k)
               c == Length(k)
               e == Start(12 * (year + 1))
    <2>5. a \in Int /\ l \in 28..31 /\ b \in Int /\ c \in 28..31 /\ e \in Int
      BY <1>1, <1>2
    <2>6. a <= b
      <3>1. 12 * year < k \/ 12 * year = k
        BY <1>1
      <3> HIDE DEF k
      <3>2. CASE 12 * year < k
        <4>1. a + l <= b
          BY <2>1, <3>2
        <4> HIDE DEF a, b, l
        <4> QED BY <2>5, <4>1
      <3>3. CASE 12 * year = k
        BY <2>3, <2>5, <3>3
      <3> QED BY <3>1, <3>2, <3>3
    <2>7. a <= days /\ days < e
      <3>1. b + c <= e /\ b <= days /\ days < b + c
        BY <2>2, <2>4
      <3> HIDE DEF a, b, c, e
      <3> QED BY <2>5, <2>6, <3>1
    <2> QED BY <1>3, <2>7
  <1>5. year \in Years
    <2>1. 365 * (year - 1970) <= YearStart(year)
      BY YearBounds
    <2>2. YearStart(year + 1) <= 366 * (year + 1 - 1970)
      <3> DEFINE y == year + 1
      <3>1. y \in Int /\ y >= 1970
        OBVIOUS
      <3> HIDE DEF y
      <3>2. YearStart(y) <= 366 * (y - 1970)
        BY <3>1, YearBounds
      <3> QED BY <3>2 DEF y
    <2>3. YearStart(year) \in Int /\ YearStart(year + 1) \in Int
      BY FirstDays
    <2> DEFINE a == YearStart(year)
               e == YearStart(year + 1)
    <2>4. a \in Int /\ e \in Int /\ 365 * (year - 1970) <= a /\ a <= days
          /\ days < e /\ e <= 366 * (year + 1 - 1970)
      BY <1>4, <2>1, <2>2, <2>3
    <2> HIDE DEF a, e
    <2>5. 365 * (year - 1970) <= days /\ days < 366 * (year + 1 - 1970)
      BY <2>4
    <2>6. year - 1970 <= days \div 365 /\ days \div 366 <= year - 1970
      BY <2>5
    <2> QED BY <2>6
  <1>6. <<year, month>> \in Years \X (1..12) /\ Of(<<year, month>>)
    BY <1>5
  <1>7. ASSUME NEW m \in Years \X (1..12), Of(m)
        PROVE  m = <<year, month>>
    <2> DEFINE y == m[1]
               n == m[2]
               j == 12 * y + n - 1
    <2>1. y \in Int /\ n \in 1..12 /\ m = <<y, n>>
      <3>1. m[1] \in Years /\ m[2] \in 1..12 /\ m = <<m[1], m[2]>>
        OBVIOUS
      <3>2. \A z \in Years : z \in Int
        OBVIOUS
      <3> QED BY <3>1, <3>2
    <2> HIDE DEF y, n
    <2>2. j \in Int /\ Start(j) = DaysBefore(y, n) /\ Length(j) = GetMonthMaxDays(y, n)
      <3>1. j \in Int /\ j = 12 * y + n - 1
        BY <2>1
      <3> HIDE DEF j
      <3>2. j \div 12 = y /\ (j % 12) + 1 = n
        BY <2>1, <3>1
      <3> QED BY <3>1, <3>2 DEF Start, Length
    <2>3. Start(j) <= days /\ days < Start(j) + Length(j)
      BY <1>7, <2>2 DEF y, n
    <2>4. Start(k) <= days /\ days < Start(k) + Length(k)
      BY <1>1
    <2>5. ~(j < k) /\ ~(k < j)
      <3> HIDE DEF j, k
      <3>1. j < k => Start(j) + Length(j) <= Start(k)
        BY <1>1, <2>2, MonthsOrdered
      <3>2. k < j => Start(k) + Length(k) <= Start(j)
        BY <1>1, <2>2, MonthsOrdered
      <3> DEFINE a == Start(j)
                 b == Length(j)
                 c == Start(k)
                 e == Length(k)
      <3>3. a \in Int /\ b \in Int /\ c \in Int /\ e \in Int
        BY <1>1, <1>2, <2>2
      <3>4. /\ j < k => a + b <= c
            /\ k < j => c + e <= a
            /\ a <= days /\ days < a + b /\ c <= days /\ days < c + e
        BY <2>3, <2>4, <3>1, <3>2
      <3> HIDE DEF a, b, c, e
      <3> QED BY <3>3, <3>4
    <2>6. j = k
      BY <1>1, <2>2, <2>5
    <2>7. y = year /\ n = month
      BY <2>1, <2>6
    <2> QED BY <2>1, <2>7
  <1> HIDE DEF Years, Of
  <1>8. (CHOOSE m \in Years \X (1..12) : Of(m)) = <<year, month>>
    BY <1>6, <1>7
  <1> QED BY <1>8 DEF FirstOf, Years, Of

-----------------------------------------------------------------------------
(* LibTime: the parts of a time. *)

\* A digit and the rest below it.
LEMMA WithDigit ==
    ASSUME NEW b \in Nat, b > 0, NEW c \in Nat, c > 0, NEW a \in 0..(c - 1), NEW r \in 0..(b - 1),
           NEW q \in Int
    PROVE  /\ a * b + r \in 0..(b * c - 1)
           /\ q * (b * c) + (a * b + r) = (q * c + a) * b + r
           /\ q * c + a \in Int
  <1>1. a * b \in Nat /\ a * b <= (c - 1) * b
    <2>1. a * b \in Nat
      OBVIOUS
    <2>2. a <= c - 1 => a * b <= (c - 1) * b
      OBVIOUS
    <2> QED BY <2>1, <2>2
  <1>2. (c - 1) * b = b * c - b /\ b * c \in Nat
    OBVIOUS
  <1>3. a * b + r \in 0..(b * c - 1)
    <2> DEFINE x == a * b
               y == b * c
               z == (c - 1) * b
    <2>1. x \in Nat /\ x <= z /\ z = y - b /\ y \in Nat
      BY <1>1, <1>2
    <2> HIDE DEF x, y, z
    <2>2. x + r \in 0..(y - 1)
      BY <2>1
    <2> QED BY <2>2 DEF x, y
  <1>4. q * (b * c) = (q * c) * b /\ (q * c + a) * b = (q * c) * b + a * b
    OBVIOUS
  <1>5. q * c + a \in Int /\ (q * c) * b \in Int
    OBVIOUS
  <1>6. q * (b * c) + (a * b + r) = (q * c + a) * b + r
    <2> DEFINE x == a * b
               y == (q * c) * b
    <2>1. x \in Int /\ y \in Int /\ q * (b * c) = y /\ (q * c + a) * b = y + x
      BY <1>1, <1>4, <1>5
    <2> HIDE DEF x, y
    <2>2. q * (b * c) + (x + r) = (q * c + a) * b + r
      BY <2>1
    <2> QED BY <2>2 DEF x
  <1> QED BY <1>3, <1>5, <1>6

Hours == 0..(HourPerDay - 1)
Minutes == 0..(MinutePerHour - 1)
Seconds == 0..(SecondPerMinute - 1)

\* A clock shows what was set.
LEMMA ClockIs ==
    ASSUME NEW days \in Int, NEW hour \in Hours, NEW minute \in Minutes, NEW second \in Seconds,
           NEW local, local = days * SecondPerDay + hour * SecondPerHour
                                  + minute * SecondPerMinute + second
    PROVE  /\ local \in Int /\ local \div SecondPerDay = days
           /\ (local % SecondPerDay) \div SecondPerHour = hour
           /\ (local % SecondPerHour) \div SecondPerMinute = minute
           /\ local % SecondPerMinute = second
  <1> DEFINE M == SecondPerMinute
             H == SecondPerHour
             D == SecondPerDay
             r1 == minute * M + second
             r2 == hour * H + r1
             n == days * HourPerDay + hour
             k == n * MinutePerHour + minute
  <1>1. /\ M \in Nat /\ M > 0 /\ H \in Nat /\ H > 0 /\ D \in Nat /\ D > 0
        /\ HourPerDay \in Nat /\ HourPerDay > 0 /\ MinutePerHour \in Nat /\ MinutePerHour > 0
        /\ H = M * MinutePerHour /\ D = H * HourPerDay
    BY Units DEF SecondPerHour, SecondPerDay
  <1>2. /\ hour \in 0..(HourPerDay - 1) /\ minute \in 0..(MinutePerHour - 1)
        /\ second \in 0..(M - 1)
    BY DEF Hours, Minutes, Seconds
  <1> HIDE DEF M, H, D
  <1>3. r1 \in 0..(H - 1)
    BY <1>1, <1>2, WithDigit
  <1>4. r2 \in 0..(D - 1) /\ n \in Int /\ days * D + r2 = n * H + r1
    <2> HIDE DEF r1
    <2> QED BY <1>1, <1>2, <1>3, WithDigit
  <1>5. k \in Int /\ n * H + r1 = k * M + second
    <2> HIDE DEF n
    <2> QED BY <1>1, <1>2, <1>4, WithDigit
  <1>6. local = days * D + r2
    <2> DEFINE x == days * D
               y == hour * H
               z == minute * M
    <2>1. x \in Int /\ y \in Int /\ z \in Int /\ second \in Int
      BY <1>1, <1>2
    <2>2. local = x + y + z + second /\ r2 = y + (z + second)
      BY DEF M, H, D
    <2> HIDE DEF x, y, z, r2
    <2>3. local = x + r2
      BY <2>1, <2>2
    <2> QED BY <2>3 DEF x
  <1> HIDE DEF n, k
  <1>7. r2 \div H = hour
    <2> HIDE DEF r1
    <2> QED BY <1>1, <1>2, <1>3, DivisionIs
  <1>8. r1 \div M = minute
    BY <1>1, <1>2, DivisionIs
  <1> HIDE DEF r1, r2
  <1>9. local \div D = days /\ local % D = r2
    BY <1>1, <1>4, <1>6, DivisionIs
  <1>10. local % H = r1
    <2>1. (n * H + r1) % H = r1
      BY <1>1, <1>3, <1>4, DivisionIs
    <2>2. local = n * H + r1
      BY <1>4, <1>6
    <2> QED BY <2>1, <2>2
  <1>11. local % M = second
    BY <1>1, <1>2, <1>4, <1>5, <1>6, DivisionIs
  <1>12. local \in Int
    <2>1. days * D \in Int /\ r2 \in Int
      BY <1>1, <1>4
    <2> QED BY <1>6, <2>1
  <1> QED BY <1>7, <1>8, <1>9, <1>10, <1>11, <1>12 DEF M, H, D

\* What a clock shows makes up the time.
LEMMA ClockOf ==
    ASSUME NEW local \in Int
    PROVE  LET days == local \div SecondPerDay
               hour == (local % SecondPerDay) \div SecondPerHour
               minute == (local % SecondPerHour) \div SecondPerMinute
               second == local % SecondPerMinute
           IN  /\ days \in Int /\ hour \in Hours /\ minute \in Minutes /\ second \in Seconds
               /\ local = days * SecondPerDay + hour * SecondPerHour
                              + minute * SecondPerMinute + second
               /\ local >= 0 => days >= 0
  <1> DEFINE M == SecondPerMinute
             H == SecondPerHour
             D == SecondPerDay
             days == local \div D
             hour == (local % D) \div H
             minute == (local % H) \div M
             second == local % M
             r1 == local % H
             r2 == local % D
  <1>1. /\ M \in Nat /\ M > 0 /\ H \in Nat /\ H > 0 /\ D \in Nat /\ D > 0
        /\ HourPerDay \in Nat /\ HourPerDay > 0 /\ MinutePerHour \in Nat /\ MinutePerHour > 0
        /\ H = M * MinutePerHour /\ D = H * HourPerDay
    BY Units DEF SecondPerHour, SecondPerDay
  <1> HIDE DEF M, H, D
  <1>2. /\ days \in Int /\ r2 \in Int /\ local = days * D + r2
        /\ local >= 0 => days >= 0
    BY <1>1, Divided
  <1>3. r2 = hour * H + r1 /\ hour \in 0..(HourPerDay - 1)
    <2>1. /\ local % (H * HourPerDay) =
                ((local % (H * HourPerDay)) \div H) * H + (local % H)
          /\ (local % (H * HourPerDay)) \div H \in 0..(HourPerDay - 1)
      BY <1>1, Digits
    <2> QED BY <1>1, <2>1
  <1>4. r1 = minute * M + second /\ minute \in 0..(MinutePerHour - 1)
    <2>1. /\ local % (M * MinutePerHour) =
                ((local % (M * MinutePerHour)) \div M) * M + (local % M)
          /\ (local % (M * MinutePerHour)) \div M \in 0..(MinutePerHour - 1)
      BY <1>1, Digits
    <2> QED BY <1>1, <2>1
  <1>5. second \in 0..(M - 1)
    BY <1>1, Divided
  <1> HIDE DEF days, hour, minute, second, r1, r2
  <1>6. local = days * D + hour * H + minute * M + second
    <2> DEFINE x == days * D
               y == hour * H
               z == minute * M
    <2>1. x \in Int /\ y \in Int /\ z \in Int /\ second \in Int
      BY <1>1, <1>2, <1>3, <1>4, <1>5
    <2>2. local = x + r2 /\ r2 = y + r1 /\ r1 = z + second
      BY <1>2, <1>3, <1>4
    <2> HIDE DEF x, y, z
    <2>3. local = x + y + z + second
      BY <2>1, <2>2
    <2> QED BY <2>3 DEF x, y, z
  <1>7. days \in Int /\ hour \in Hours /\ minute \in Minutes /\ second \in Seconds
    BY <1>2, <1>3, <1>4, <1>5 DEF Hours, Minutes, Seconds, M
  <1> QED BY <1>2, <1>6, <1>7 DEF days, hour, minute, second, M, H, D

\* The parts of a time since 1970.
CivilTimes ==
    {tm \in [year : Int, month : 1..12, day : 1..31, hour : Hours, minute : Minutes, second : Seconds] :
        tm.year >= 1970 /\ tm.day <= GetMonthMaxDays(tm.year, tm.month)}

\* The day of a moment, since 1970.
DayOf(tm) == DaysBefore(tm.year, tm.month) + tm.day - 1

LEMMA TmIs ==
    ASSUME NEW seconds \in Int
    PROVE  LET local == seconds - TimeZone
               days == local \div SecondPerDay
           IN  Tm(seconds) = [year |-> FirstOf(days)[1], month |-> FirstOf(days)[2],
                              day |-> days - DaysBefore(FirstOf(days)[1], FirstOf(days)[2]) + 1,
                              hour |-> (local % SecondPerDay) \div SecondPerHour,
                              minute |-> (local % SecondPerHour) \div SecondPerMinute,
                              second |-> local % SecondPerMinute]
  BY DEF Tm, FirstOf

LEMMA DaysType ==
    \A year \in Int, month \in 1..12 :
        DaysBefore(year, month) \in Int /\ GetMonthMaxDays(year, month) \in 28..31
  <1> TAKE year \in Int, month \in 1..12
  <1>1. DaysBefore(year, month) \in Int
    BY FirstDays
  <1>2. GetMonthMaxDays(year, month) \in 28..31
    BY MonthLength
  <1> QED BY <1>1, <1>2

LEMMA DayType ==
    ASSUME NEW tm \in CivilTimes
    PROVE  /\ DayOf(tm) \in Nat /\ DaysBefore(tm.year, tm.month) <= DayOf(tm)
           /\ DayOf(tm) < DaysBefore(tm.year, tm.month) + GetMonthMaxDays(tm.year, tm.month)
           /\ DayOf(tm) - DaysBefore(tm.year, tm.month) + 1 = tm.day
           /\ FirstOf(DayOf(tm)) = <<tm.year, tm.month>>
  <1> DEFINE before == DaysBefore(tm.year, tm.month)
             length == GetMonthMaxDays(tm.year, tm.month)
  <1>1. /\ tm.year \in Int /\ tm.year >= 1970 /\ tm.month \in 1..12 /\ tm.day \in 1..31
        /\ tm.day <= length
    BY DEF CivilTimes
  <1>2. before \in Int /\ length \in 28..31
    <2>1. tm.year \in Int /\ tm.month \in 1..12
      BY <1>1
    <2> QED BY <2>1, DaysType
  <1>3. before >= 0
    <2> DEFINE y == tm.year
               m == tm.month
               k == 12 * y + m - 1
    <2>1. k \in Int /\ k \div 12 = y /\ (k % 12) + 1 = m /\ 12 * 1970 <= k
      <3>1. y \in Int /\ y >= 1970 /\ m \in 1..12
        BY <1>1
      <3> HIDE DEF y, m
      <3> QED BY <3>1
    <2> HIDE DEF k
    <2>2. Start(k) = before
      BY <2>1 DEF Start
    <2>3. Start(12 * 1970) = 0
      <3>1. (12 * 1970) \div 12 = 1970 /\ ((12 * 1970) % 12) + 1 = 1
        OBVIOUS
      <3>2. DaysBefore(1970, 1) = YearStart(1970)
        BY FirstDays
      <3>3. YearStart(1970) = 0
        BY DEF YearStart, LeapDays
      <3> QED BY <3>1, <3>2, <3>3 DEF Start
    <2>4. 12 * 1970 < k => Start(12 * 1970) + Length(12 * 1970) <= Start(k)
      BY <2>1, MonthsOrdered
    <2>5. Length(12 * 1970) \in 28..31
      BY NextMonth
    <2>6. 12 * 1970 = k \/ 12 * 1970 < k
      BY <2>1
    <2> HIDE DEF before
    <2> QED BY <1>2, <2>2, <2>3, <2>4, <2>5, <2>6
  <1>4. DayOf(tm) = before + tm.day - 1
    BY DEF DayOf
  <1> HIDE DEF before, length
  <1>5. DayOf(tm) \in Nat /\ before <= DayOf(tm) /\ DayOf(tm) < before + length
        /\ DayOf(tm) - before + 1 = tm.day
    BY <1>1, <1>2, <1>3, <1>4
  <1>6. FirstOf(DayOf(tm)) = <<tm.year, tm.month>>
    <2> DEFINE day == DayOf(tm)
    <2>1. day \in Nat /\ DaysBefore(tm.year, tm.month) <= day
          /\ day < DaysBefore(tm.year, tm.month) + GetMonthMaxDays(tm.year, tm.month)
      BY <1>5 DEF before, length
    <2> HIDE DEF day
    <2>2. FirstOf(day) = <<tm.year, tm.month>>
      BY <1>1, <2>1, FirstIs
    <2> QED BY <2>2 DEF day
  <1> QED BY <1>5, <1>6 DEF before, length

\* The seconds of a moment in local time.
Local0(tm) == DayOf(tm) * SecondPerDay + tm.hour * SecondPerHour
                  + tm.minute * SecondPerMinute + tm.second

LEMMA MktimeIs ==
    ASSUME NEW tm \in CivilTimes
    PROVE  Local0(tm) \in Nat /\ Mktime(tm) = Local0(tm) + TimeZone /\ Mktime(tm) \in Int
  <1>1. tm.year \in Int /\ tm.month \in 1..12 /\ tm.day \in 1..31
        /\ tm.hour \in Nat /\ tm.minute \in Nat /\ tm.second \in Nat
    BY Units DEF CivilTimes, Hours, Minutes, Seconds
  <1>2. tm.year + (tm.month - 1) \div 12 = tm.year /\ ((tm.month - 1) % 12) + 1 = tm.month
    BY <1>1
  <1>3. DayOf(tm) \in Nat
    BY DayType
  <1>4. Local0(tm) \in Nat
    <2>1. DayOf(tm) * SecondPerDay \in Nat /\ tm.hour * SecondPerHour \in Nat
          /\ tm.minute * SecondPerMinute \in Nat
      BY <1>1, <1>3, Units
    <2> QED BY <1>1, <2>1 DEF Local0
  <1>5. Mktime(tm) = Local0(tm) + TimeZone
    BY <1>2 DEF Mktime, Local0, DayOf
  <1> QED BY <1>4, <1>5, ZoneAssumption

\* Two moments with the same parts are the same.
LEMMA SameMoment ==
    ASSUME NEW tm, tm \in CivilTimes
    PROVE  tm = [year |-> tm.year, month |-> tm.month, day |-> tm.day,
                 hour |-> tm.hour, minute |-> tm.minute, second |-> tm.second]
  BY DEF CivilTimes

\* A moment is what the C library reads from its seconds.
LEMMA TmOfMktime ==
    ASSUME NEW tm \in CivilTimes
    PROVE  Tm(Mktime(tm)) = tm
  <1> DEFINE seconds == Mktime(tm)
             local == seconds - TimeZone
             days == local \div SecondPerDay
  <1>1. seconds \in Int /\ local = Local0(tm)
    BY MktimeIs, ZoneAssumption
  <1>2. DayOf(tm) \in Nat /\ tm.hour \in Hours /\ tm.minute \in Minutes /\ tm.second \in Seconds
    BY DayType DEF CivilTimes
  <1> HIDE DEF seconds, local
  <1>3. /\ days = DayOf(tm)
        /\ (local % SecondPerDay) \div SecondPerHour = tm.hour
        /\ (local % SecondPerHour) \div SecondPerMinute = tm.minute
        /\ local % SecondPerMinute = tm.second
    <2>1. local = DayOf(tm) * SecondPerDay + tm.hour * SecondPerHour
                      + tm.minute * SecondPerMinute + tm.second
      BY <1>1 DEF Local0
    <2> QED BY <1>2, <2>1, ClockIs
  <1>4. FirstOf(days)[1] = tm.year /\ FirstOf(days)[2] = tm.month
        /\ days - DaysBefore(tm.year, tm.month) + 1 = tm.day
    BY <1>3, DayType
  <1> HIDE DEF days
  <1>5. Tm(seconds) = [year |-> tm.year, month |-> tm.month, day |-> tm.day,
                       hour |-> tm.hour, minute |-> tm.minute, second |-> tm.second]
    <2>1. Tm(seconds) = [year |-> FirstOf(days)[1], month |-> FirstOf(days)[2],
                         day |-> days - DaysBefore(FirstOf(days)[1], FirstOf(days)[2]) + 1,
                         hour |-> (local % SecondPerDay) \div SecondPerHour,
                         minute |-> (local % SecondPerHour) \div SecondPerMinute,
                         second |-> local % SecondPerMinute]
      BY <1>1, TmIs DEF local, days
    <2> QED BY <1>3, <1>4, <2>1
  <1> QED BY <1>5, SameMoment DEF seconds

\* The seconds are read back from their moment.
LEMMA MktimeOfTm ==
    ASSUME NEW seconds \in Int, seconds - TimeZone >= 0
    PROVE  Tm(seconds) \in CivilTimes /\ Mktime(Tm(seconds)) = seconds
  <1> DEFINE local == seconds - TimeZone
             days == local \div SecondPerDay
             hour == (local % SecondPerDay) \div SecondPerHour
             minute == (local % SecondPerHour) \div SecondPerMinute
             second == local % SecondPerMinute
  <1>1. local \in Int /\ local >= 0 /\ seconds = local + TimeZone
    BY ZoneAssumption
  <1>2. /\ days \in Nat /\ hour \in Hours /\ minute \in Minutes /\ second \in Seconds
        /\ local = days * SecondPerDay + hour * SecondPerHour + minute * SecondPerMinute + second
    <2> HIDE DEF local
    <2>1. /\ days \in Int /\ hour \in Hours /\ minute \in Minutes /\ second \in Seconds
          /\ local = days * SecondPerDay + hour * SecondPerHour + minute * SecondPerMinute + second
          /\ local >= 0 => days >= 0
      BY <1>1, ClockOf
    <2> HIDE DEF days, hour, minute, second
    <2> QED BY <1>1, <2>1
  <1>3. PICK k \in Int : k >= 12 * 1970 /\ Start(k) <= days /\ days < Start(k) + Length(k)
    <2> HIDE DEF days
    <2> QED BY <1>2, MonthOfDay
  <1> DEFINE year == k \div 12
             month == (k % 12) + 1
             day == days - DaysBefore(year, month) + 1
             tm == Tm(seconds)
  <1>4. year \in Int /\ year >= 1970 /\ month \in 1..12
    BY <1>3
  <1> HIDE DEF days, hour, minute, second, local, year, month
  <1>5. DaysBefore(year, month) \in Int /\ GetMonthMaxDays(year, month) \in 28..31
    <2>1. year \in Int /\ month \in 1..12
      BY <1>4
    <2> QED BY <2>1, DaysType
  <1>6. DaysBefore(year, month) <= days /\ days < DaysBefore(year, month) + GetMonthMaxDays(year, month)
    BY <1>3 DEF Start, Length, year, month
  <1>7. FirstOf(days) = <<year, month>>
    BY <1>2, <1>4, <1>6, FirstIs
  <1>8. tm = [year |-> year, month |-> month, day |-> day,
              hour |-> hour, minute |-> minute, second |-> second]
    <2>1. Tm(seconds) = [year |-> FirstOf(days)[1], month |-> FirstOf(days)[2],
                         day |-> days - DaysBefore(FirstOf(days)[1], FirstOf(days)[2]) + 1,
                         hour |-> hour, minute |-> minute, second |-> second]
      BY TmIs DEF local, days, hour, minute, second
    <2>2. FirstOf(days)[1] = year /\ FirstOf(days)[2] = month
      BY <1>7
    <2> QED BY <2>1, <2>2
  <1>9. day \in 1..31 /\ day <= GetMonthMaxDays(year, month)
    <2> DEFINE a == DaysBefore(year, month)
               b == GetMonthMaxDays(year, month)
    <2>1. a \in Int /\ b \in 28..31 /\ a <= days /\ days < a + b /\ day = days - a + 1
      BY <1>6, <1>5
    <2> HIDE DEF a, b, day
    <2>2. day \in 1..31 /\ day <= b
      BY <1>2, <2>1
    <2> QED BY <2>2 DEF b
  <1> HIDE DEF day, tm
  <1>10. tm \in CivilTimes
    BY <1>2, <1>4, <1>8, <1>9 DEF CivilTimes
  <1>11. DayOf(tm) = days
    <2>1. DaysBefore(year, month) \in Int
      BY <1>5
    <2>2. DayOf(tm) = DaysBefore(year, month) + day - 1
      BY <1>8 DEF DayOf
    <2> QED BY <1>2, <2>1, <2>2 DEF day
  <1>12. Local0(tm) = local
    BY <1>2, <1>8, <1>11 DEF Local0
  <1>13. Mktime(tm) = seconds
    BY <1>1, <1>10, <1>12, MktimeIs
  <1> QED BY <1>10, <1>13 DEF tm

-----------------------------------------------------------------------------
(* LibTime: texts and days. *)

\* A time that is not before 1970 where the server is.
Since1970(at) == at \in Int /\ Local(at) >= 0

\* Its seconds, and what is left of the last one.
LEMMA SecondsOf ==
    ASSUME NEW t, Since1970(t)
    PROVE  LET seconds == t \div MicroPerSecond
               micros == t % MicroPerSecond
           IN  /\ seconds \in Int /\ micros \in 0..(MicroPerSecond - 1)
               /\ t = seconds * MicroPerSecond + micros
               /\ seconds - TimeZone >= 0 /\ GetLocalMicroSecond(t) = micros
               /\ LocalTime(t) = Tm(seconds)
               /\ LocalTime(t) \in CivilTimes /\ Mktime(LocalTime(t)) = seconds
  <1> DEFINE M == MicroPerSecond
             seconds == t \div M
             micros == t % M
             s == seconds - TimeZone
  <1>1. M \in Nat /\ M > 0 /\ TimeZone \in Int /\ t \in Int
    BY Units, ZoneAssumption DEF Since1970
  <1> HIDE DEF M
  <1>2. seconds \in Int /\ micros \in 0..(M - 1) /\ t = seconds * M + micros
    BY <1>1, Divided
  <1> HIDE DEF seconds, micros
  <1>3. s \in Int /\ Local(t) = s * M + micros /\ Local(t) \in Int /\ Local(t) >= 0
    <2>1. (seconds - TimeZone) * M = seconds * M - TimeZone * M
      BY <1>1, <1>2
    <2> DEFINE x == seconds * M
               y == TimeZone * M
    <2>2. x \in Int /\ y \in Int /\ t = x + micros /\ s * M = x - y
      BY <1>1, <1>2, <2>1
    <2>3. Local(t) = t - y
      BY DEF Local, M
    <2> HIDE DEF x, y
    <2>4. Local(t) = s * M + micros /\ Local(t) \in Int
      BY <1>1, <1>2, <2>2, <2>3
    <2>5. Local(t) >= 0
      BY DEF Since1970
    <2>6. s \in Int
      BY <1>1, <1>2
    <2> QED BY <2>4, <2>5, <2>6
  <1> HIDE DEF s
  <1>4. s >= 0
    <2> DEFINE x == s * M
    <2>1. s <= -1 => x <= -M
      BY <1>1, <1>3
    <2>2. x \in Int /\ x + micros >= 0
      BY <1>1, <1>3
    <2> HIDE DEF x
    <2> QED BY <1>1, <1>2, <1>3, <2>1, <2>2
  <1>5. GetLocalMicroSecond(t) = micros
    <2>1. Remainder(Local(t), M) = Local(t) % M
      BY <1>1, <1>3, NotNegative
    <2>2. (s * M + micros) % M = micros
      BY <1>1, <1>2, <1>3, DivisionIs
    <2> QED BY <1>3, <2>1, <2>2 DEF GetLocalMicroSecond, M
  <1>6. LocalTime(t) = Tm(seconds)
    BY DEF LocalTime, seconds, M
  <1>7. Tm(seconds) \in CivilTimes /\ Mktime(Tm(seconds)) = seconds
    BY <1>2, <1>4, MktimeOfTm DEF s
  <1> QED BY <1>2, <1>4, <1>5, <1>6, <1>7 DEF seconds, micros, s, M

\* Three parts are three parts.
LEMMA NothingPadded ==
    ASSUME NEW a \in Int, NEW b \in Int, NEW c \in Int
    PROVE  /\ Padded(<<a, b, c>>, <<1970, 1, 1>>) = <<a, b, c>>
           /\ Padded(<<a, b, c>>, <<0, 0, 0>>) = <<a, b, c>>
  <1>1. ASSUME NEW x \in Int, NEW y \in Int, NEW z \in Int
        PROVE  Padded(<<a, b, c>>, <<x, y, z>>) = <<a, b, c>>
    <2>1. Len(<<a, b, c>>) = 3 /\ <<a, b, c>> \in Seq(Int) /\ <<x, y, z>> \in Seq(Int)
      OBVIOUS
    <2>2. SubSeq(<<x, y, z>>, 1, 3 - 3) = <<>>
      BY <2>1
    <2>3. <<>> \o <<a, b, c>> = <<a, b, c>>
      BY <2>1, ConcatEmptySeq
    <2> QED BY <2>1, <2>2, <2>3 DEF Padded
  <1> QED BY <1>1

LEMMA PartsNotPadded ==
    ASSUME NEW tm, tm.year \in Int, tm.month \in Int, tm.day \in Int,
           tm.hour \in Int, tm.minute \in Int, tm.second \in Int
    PROVE  LET date == <<tm.year, tm.month, tm.day>>
               clock == <<tm.hour, tm.minute, tm.second>>
           IN  Padded(date, <<1970, 1, 1>>) = date /\ Padded(clock, <<0, 0, 0>>) = clock
  <1> DEFINE Kept(x, y, z) == /\ Padded(<<x, y, z>>, <<1970, 1, 1>>) = <<x, y, z>>
                              /\ Padded(<<x, y, z>>, <<0, 0, 0>>) = <<x, y, z>>
  <1>1. \A x, y, z \in Int : Kept(x, y, z)
    BY NothingPadded
  <1> HIDE DEF Kept
  <1>2. Kept(tm.year, tm.month, tm.day) /\ Kept(tm.hour, tm.minute, tm.second)
    BY <1>1
  <1> QED BY <1>2 DEF Kept

\* A time is read back from its text.
LEMMA TextsReturn ==
    ASSUME NEW t, Since1970(t), t >= 0
    PROVE  TextReturns(t)
  <1> DEFINE M == MicroPerSecond
             seconds == t \div M
             micros == t % M
             tm == LocalTime(t)
             q == Quotient(micros, MicroPerMilli)
             r == Remainder(micros, MicroPerMilli)
  <1>1. /\ seconds \in Int /\ micros \in 0..(M - 1) /\ t = seconds * M + micros
        /\ GetLocalMicroSecond(t) = micros /\ tm \in CivilTimes /\ Mktime(tm) = seconds
    BY SecondsOf
  <1>2. M \in Nat /\ M > 0 /\ MicroPerMilli \in Nat /\ MicroPerMilli > 0 /\ TimeZone \in Int
        /\ t \in Int
    BY Units, ZoneAssumption DEF Since1970
  <1>3. seconds >= 0
    <2> HIDE DEF M
    <2> QED BY <1>2, Divided
  <1> HIDE DEF seconds, micros, tm, M
  <1>4. /\ tm.year \in Int /\ tm.month \in Int /\ tm.day \in Int
        /\ tm.hour \in Int /\ tm.minute \in Int /\ tm.second \in Int
    BY <1>1, Units DEF CivilTimes, Hours, Minutes, Seconds
  <1>5. ASSUME t # 0
        PROVE  FromFmtString(TimeText(t)) = FromTimeMoment(tm, q, r)
    <2> DEFINE date == <<tm.year, tm.month, tm.day>>
               clock == <<tm.hour, tm.minute, tm.second>>
               repr == [date |-> date, time |-> Repr(clock, micros)]
    <2>1. TimeText(t) = repr
      BY <1>1, <1>5 DEF TimeText, tm
    <2>2. Padded(date, <<1970, 1, 1>>) = date /\ Padded(clock, <<0, 0, 0>>) = clock
      BY <1>4, PartsNotPadded
    <2>3. /\ repr.date = date /\ repr.time.parts = clock /\ repr.time.fraction = micros
          /\ date[1] = tm.year /\ date[2] = tm.month /\ date[3] = tm.day
          /\ clock[1] = tm.hour /\ clock[2] = tm.minute /\ clock[3] = tm.second
      BY DEF Repr
    <2> HIDE DEF date, clock, repr, q, r
    <2>4. FromFmtString(repr) =
              FromTimeMoment([year |-> tm.year, month |-> tm.month, day |-> tm.day,
                              hour |-> tm.hour, minute |-> tm.minute, second |-> tm.second], q, r)
      BY <2>2, <2>3 DEF FromFmtString, q, r
    <2> QED BY <1>1, <2>1, <2>4, SameMoment
  <1>6. FromTimeMoment(tm, q, r) = FromTimeStruct(tm, q, r)
    <2> DEFINE first == tm.year = 1970 /\ tm.month = 1 /\ tm.day = 1
               clock == tm.hour * SecondPerHour + tm.minute * SecondPerMinute + tm.second
    <2>1. ASSUME first PROVE ~(clock < -TimeZone)
      <3>1. DayOf(tm) = 0
        <4>1. DaysBefore(1970, 1) = YearStart(1970)
          BY FirstDays
        <4>2. YearStart(1970) = 0
          BY DEF YearStart, LeapDays
        <4> QED BY <2>1, <4>1, <4>2 DEF DayOf
      <3>2. clock \in Int
        <4>1. tm.hour * SecondPerHour \in Int /\ tm.minute * SecondPerMinute \in Int
          BY <1>4, Units
        <4> QED BY <1>4, <4>1
      <3>3. Local0(tm) = clock
        <4>1. 0 * SecondPerDay = 0 /\ tm.hour * SecondPerHour \in Int
              /\ tm.minute * SecondPerMinute \in Int
          BY <1>4, Units
        <4> QED BY <1>4, <3>1, <4>1 DEF Local0
      <3>4. seconds = Local0(tm) + TimeZone
        BY <1>1, MktimeIs
      <3> HIDE DEF clock
      <3> QED BY <1>2, <1>3, <3>2, <3>3, <3>4
    <2> QED BY <2>1 DEF FromTimeMoment
  <1>7. FromTimeStruct(tm, q, r) = t
    <2>1. q \in Int /\ q * MicroPerMilli \in Int
          /\ MicroPerMilli * q = q * MicroPerMilli /\ r = micros - MicroPerMilli * q
      <3>1. micros \in Int /\ micros >= 0
        BY <1>1, <1>2
      <3>2. q = micros \div MicroPerMilli
        BY <1>2, <3>1, NotNegative
      <3>3. q \in Int
        BY <1>2, <3>1, <3>2
      <3>4. r = micros - MicroPerMilli * q
        BY DEF Remainder
      <3> HIDE DEF q, r
      <3> QED BY <1>2, <3>3, <3>4
    <2>2. FromTimeStruct(tm, q, r) = seconds * M + q * MicroPerMilli + r
      BY <1>1 DEF FromTimeStruct, M
    <2>3. seconds * M \in Int /\ micros \in Int
      BY <1>1, <1>2
    <2> HIDE DEF q, r
    <2> DEFINE x == seconds * M
               y == q * MicroPerMilli
    <2>4. x \in Int /\ y \in Int /\ micros \in Int /\ r = micros - y /\ t = x + micros
          /\ FromTimeStruct(tm, q, r) = x + y + r
      BY <1>1, <2>1, <2>2, <2>3
    <2> HIDE DEF x, y
    <2> QED BY <2>4
  <1> QED BY <1>5, <1>6, <1>7 DEF TextReturns

\* Hours, minutes, seconds, milliseconds and microseconds make up a span of less
\* than a day.
LEMMA PartsMakeSlice ==
    ASSUME NEW of \in 0..(MicroPerDay - 1)
    PROVE  Slice(0, GetHours(of), GetMinutes(of), GetSeconds(of), GetMilliSeconds(of),
                 GetMicroSeconds(of)) = of
  <1> DEFINE P == MicroPerMilli
             S == MicroPerSecond
             M == MicroPerMinute
             H == MicroPerHour
             D == MicroPerDay
             hours == GetHours(of)
             minutes == GetMinutes(of)
             seconds == GetSeconds(of)
             millis == GetMilliSeconds(of)
             micros == GetMicroSeconds(of)
  <1>1. /\ P \in Nat /\ P > 0 /\ S \in Nat /\ S > 0 /\ M \in Nat /\ M > 0 /\ H \in Nat /\ H > 0
        /\ D \in Nat /\ D > 0 /\ MilliPerSecond \in Nat /\ MilliPerSecond > 0
        /\ SecondPerMinute \in Nat /\ SecondPerMinute > 0
        /\ MinutePerHour \in Nat /\ MinutePerHour > 0 /\ HourPerDay \in Nat /\ HourPerDay > 0
    BY Units
  <1>2. S = P * MilliPerSecond /\ M = S * SecondPerMinute /\ H = M * MinutePerHour
    BY DEF MicroPerSecond, MicroPerMinute, MicroPerHour
  <1>3. D = H * HourPerDay
    <2>1. \A a, b, c, d \in Nat : a * (b * c * d) = ((a * b) * c) * d
      <3> TAKE a, b, c, d \in Nat
      <3>1. a * (b * c * d) = (a * (b * c)) * d
        OBVIOUS
      <3>2. a * (b * c) = (a * b) * c
        OBVIOUS
      <3> QED BY <3>1, <3>2
    <2> QED BY <1>1, <2>1 DEF MicroPerDay, SecondPerDay, SecondPerHour, MicroPerHour, MicroPerMinute
  <1>4. of \in Int /\ of >= 0
    BY <1>1
  <1> HIDE DEF P, S, M, H, D
  <1>5. \A b \in Nat : b > 0 => Quotient(of, b) = of \div b /\ Remainder(of, b) = of % b
    BY <1>4, NotNegative
  <1>6. \A b, c \in Nat : b > 0 /\ c > 0 =>
            /\ Quotient(of % c, b) = (of % c) \div b
            /\ of % c \in Int /\ of % c >= 0
    <2> TAKE b, c \in Nat
    <2> HAVE b > 0 /\ c > 0
    <2>1. of % c \in Int /\ of % c >= 0
      BY <1>4
    <2> QED BY <2>1, NotNegative
  <1>7. /\ hours = (of % D) \div H /\ minutes = (of % H) \div M /\ seconds = (of % M) \div S
        /\ millis = (of % S) \div P /\ micros = of % P
    BY <1>1, <1>5, <1>6 DEF GetHours, GetMinutes, GetSeconds, GetMilliSeconds, GetMicroSeconds,
        P, S, M, H, D
  <1>8. of % D = of
    BY <1>1 DEF D
  <1>9. /\ of = hours * H + (of % H) /\ hours \in Int /\ of % H \in Int
    <2>1. of % (H * HourPerDay) = ((of % (H * HourPerDay)) \div H) * H + (of % H)
          /\ (of % (H * HourPerDay)) \div H \in 0..(HourPerDay - 1)
      BY <1>1, <1>4, Digits
    <2>2. of % H \in Int
      BY <1>1, <1>4
    <2> QED BY <1>1, <1>3, <1>7, <1>8, <2>1, <2>2
  <1>10. of % H = minutes * M + (of % M) /\ minutes \in Int /\ of % M \in Int
    <2>1. of % (M * MinutePerHour) = ((of % (M * MinutePerHour)) \div M) * M + (of % M)
          /\ (of % (M * MinutePerHour)) \div M \in 0..(MinutePerHour - 1)
      BY <1>1, <1>4, Digits
    <2>2. of % M \in Int
      BY <1>1, <1>4
    <2> QED BY <1>1, <1>2, <1>7, <2>1, <2>2
  <1>11. of % M = seconds * S + (of % S) /\ seconds \in Int /\ of % S \in Int
    <2>1. of % (S * SecondPerMinute) = ((of % (S * SecondPerMinute)) \div S) * S + (of % S)
          /\ (of % (S * SecondPerMinute)) \div S \in 0..(SecondPerMinute - 1)
      BY <1>1, <1>4, Digits
    <2>2. of % S \in Int
      BY <1>1, <1>4
    <2> QED BY <1>1, <1>2, <1>7, <2>1, <2>2
  <1>12. of % S = millis * P + micros /\ millis \in Int /\ micros \in Int
    <2>1. of % (P * MilliPerSecond) = ((of % (P * MilliPerSecond)) \div P) * P + (of % P)
          /\ (of % (P * MilliPerSecond)) \div P \in 0..(MilliPerSecond - 1)
      BY <1>1, <1>4, Digits
    <2>2. of % P \in Int
      BY <1>1, <1>4
    <2> QED BY <1>1, <1>2, <1>7, <2>1, <2>2
  <1> HIDE DEF hours, minutes, seconds, millis, micros
  <1>13. (((0 * HourPerDay + hours) * MinutePerHour + minutes) * SecondPerMinute + seconds) * S
             = hours * H + minutes * M + seconds * S
    <2>1. 0 * HourPerDay + hours = hours
      BY <1>1, <1>9
    <2>2. \A a, b, s \in Int : (a + b) * s = a * s + b * s
      OBVIOUS
    <2>3. \A a, b, s \in Int : (a * b) * s = a * (s * b)
      OBVIOUS
    <2>4. hours * MinutePerHour \in Int /\ (hours * MinutePerHour + minutes) \in Int
          /\ (hours * MinutePerHour + minutes) * SecondPerMinute \in Int
      BY <1>1, <1>9, <1>10
    <2>5. ((hours * MinutePerHour + minutes) * SecondPerMinute + seconds) * S
              = ((hours * MinutePerHour + minutes) * SecondPerMinute) * S + seconds * S
      BY <1>1, <1>11, <2>2, <2>4
    <2>6. ((hours * MinutePerHour + minutes) * SecondPerMinute) * S
              = (hours * MinutePerHour + minutes) * M
      BY <1>1, <1>2, <2>3, <2>4
    <2>7. (hours * MinutePerHour + minutes) * M = (hours * MinutePerHour) * M + minutes * M
      BY <1>1, <1>10, <2>2, <2>4
    <2>8. (hours * MinutePerHour) * M = hours * H
      BY <1>1, <1>2, <1>9, <2>3
    <2> QED BY <2>1, <2>5, <2>6, <2>7, <2>8
  <1>14. Slice(0, hours, minutes, seconds, millis, micros) = of
    <2> DEFINE a == hours * H
               b == minutes * M
               c == seconds * S
               d == millis * P
    <2>1. a \in Int /\ b \in Int /\ c \in Int /\ d \in Int
      BY <1>1, <1>9, <1>10, <1>11, <1>12
    <2>2. Slice(0, hours, minutes, seconds, millis, micros) = (a + b + c) + d + micros
      BY <1>13 DEF Slice, P, S
    <2>3. of = a + (of % H) /\ of % H = b + (of % M) /\ of % M = c + (of % S) /\ of % S = d + micros
      BY <1>9, <1>10, <1>11, <1>12
    <2> DEFINE x == of % H
               y == of % M
               z == of % S
    <2>4. x \in Int /\ y \in Int /\ z \in Int /\ micros \in Int
          /\ of = a + x /\ x = b + y /\ y = c + z /\ z = d + micros
      BY <1>9, <1>10, <1>11, <1>12, <2>3
    <2> HIDE DEF a, b, c, d, x, y, z
    <2>5. of = (a + b + c) + d + micros
      BY <2>1, <2>4
    <2> QED BY <2>2, <2>5
  <1> QED BY <1>14 DEF hours, minutes, seconds, millis, micros

\* Midnight, the time of the day and the interval to another agree.
LEMMA DaysAgree ==
    ASSUME NEW t, Since1970(t), NEW slice \in 0..(MicroPerDay - 1)
    PROVE  DayAgrees(t, slice)
  <1> DEFINE S == MicroPerSecond
             D == MicroPerDay
             L == Local(t)
             days == L \div D
             of == L % D
             zero == GetZeroTime(t)
             interval == GetIntervalTo(t, slice)
  <1>1. /\ S \in Nat /\ S > 0 /\ D \in Nat /\ D > 0 /\ SecondPerDay \in Nat /\ SecondPerDay > 0
        /\ TimeZone \in Int /\ D = S * SecondPerDay
    BY Units, ZoneAssumption DEF MicroPerDay
  <1>2. t \in Int /\ L = t - TimeZone * S /\ L \in Int /\ L >= 0
    <2>1. TimeZone * S \in Int
      BY <1>1
    <2> QED BY <2>1 DEF Since1970, Local
  <1> HIDE DEF S, D, L
  <1>3. days \in Int /\ of \in 0..(D - 1) /\ L = days * D + of /\ days >= 0
    BY <1>1, <1>2, Divided
  <1>4. Quotient(L, D) = days /\ Remainder(L, D) = of
    BY <1>1, <1>2, NotNegative
  <1> HIDE DEF days, of
  <1>5. GetTimeOfDay(t) = of /\ zero = days * D + TimeZone * S
    BY <1>4 DEF GetTimeOfDay, GetZeroTime, L, D, S
  <1>6. zero + GetTimeOfDay(t) = t
    <2> DEFINE x == days * D
               y == TimeZone * S
    <2>1. x \in Int /\ y \in Int /\ zero = x + y /\ L = t - y /\ L = x + of
      BY <1>1, <1>2, <1>3, <1>5
    <2> HIDE DEF x, y
    <2>2. zero + of = t
      BY <1>1, <1>2, <1>3, <2>1
    <2> QED BY <1>5, <2>2
  <1>7. TimeText(zero).time = Repr(<<0, 0, 0>>, 0)
    <2>1. CASE zero = 0
      BY <2>1 DEF TimeText
    <2>2. CASE zero # 0
      <3> DEFINE k == days * SecondPerDay
                 s == k + TimeZone
      <3>1. k \in Int /\ k >= 0 /\ s \in Int /\ s - TimeZone = k
        BY <1>1, <1>3
      <3>2. zero = s * S /\ Local(zero) = k * S /\ k * S >= 0 /\ k * S \in Int
        <4>1. days * D = k * S
          <5>1. \A a, b, c \in Int : a * (b * c) = (a * c) * b
            OBVIOUS
          <5> QED BY <1>1, <1>3, <5>1
        <4> HIDE DEF k
        <4>2. (k + TimeZone) * S = k * S + TimeZone * S
          BY <1>1, <3>1
        <4>3. k * S >= 0 /\ k * S \in Int /\ TimeZone * S \in Int
          BY <1>1, <3>1
        <4>4. zero = k * S + TimeZone * S
          BY <1>5, <4>1
        <4>5. Local(zero) = zero - TimeZone * S
          BY DEF Local, S
        <4> DEFINE x == k * S
                   y == TimeZone * S
        <4>6. zero - y = x
          <5>1. x \in Int /\ y \in Int /\ zero = x + y
            BY <4>3, <4>4
          <5> HIDE DEF x, y, zero
          <5> QED BY <5>1
        <4> QED BY <4>2, <4>3, <4>4, <4>5, <4>6
      <3> HIDE DEF k, s, zero
      <3>3. zero \div S = s /\ (k * S) % S = 0
        <4>1. s * S + 0 = s * S /\ k * S + 0 = k * S /\ 0 \in 0..(S - 1)
          BY <1>1, <3>1
        <4>2. (s * S + 0) \div S = s
          BY <1>1, <3>1, <4>1, DivisionIs
        <4>3. (k * S + 0) % S = 0
          BY <1>1, <3>1, <4>1, DivisionIs
        <4> QED BY <3>2, <4>1, <4>2, <4>3
      <3>4. GetLocalMicroSecond(zero) = 0
        <4>1. Remainder(k * S, S) = (k * S) % S
          <5> DEFINE x == k * S
          <5>1. x \in Int /\ x >= 0
            BY <3>2
          <5> HIDE DEF x
          <5>2. Remainder(x, S) = x % S
            BY <1>1, <5>1, NotNegative
          <5> QED BY <5>2 DEF x
        <4> QED BY <3>2, <3>3, <4>1 DEF GetLocalMicroSecond, S
      <3>5. LocalTime(zero) = Tm(s)
        BY <3>3 DEF LocalTime, S
      <3>6. /\ (k % SecondPerDay) \div SecondPerHour = 0
            /\ (k % SecondPerHour) \div SecondPerMinute = 0
            /\ k % SecondPerMinute = 0
        <4>1. 0 \in Hours /\ 0 \in Minutes /\ 0 \in Seconds
          BY Units DEF Hours, Minutes, Seconds
        <4>2. k = days * SecondPerDay + 0 * SecondPerHour + 0 * SecondPerMinute + 0
          <5>1. 0 * SecondPerHour = 0 /\ 0 * SecondPerMinute = 0
            BY Units
          <5> QED BY <3>1, <5>1 DEF k
        <4> QED BY <1>3, <4>1, <4>2, ClockIs
      <3>7. Tm(s).hour = 0 /\ Tm(s).minute = 0 /\ Tm(s).second = 0
        <4> DEFINE x == k \div SecondPerDay
        <4>1. Tm(s) = [year |-> FirstOf(x)[1], month |-> FirstOf(x)[2],
                       day |-> x - DaysBefore(FirstOf(x)[1], FirstOf(x)[2]) + 1,
                       hour |-> (k % SecondPerDay) \div SecondPerHour,
                       minute |-> (k % SecondPerHour) \div SecondPerMinute,
                       second |-> k % SecondPerMinute]
          BY <3>1, TmIs
        <4> HIDE DEF x
        <4> QED BY <3>6, <4>1
      <3> QED BY <2>2, <3>4, <3>5, <3>7 DEF TimeText
    <2> HIDE DEF zero
    <2> QED BY <2>1, <2>2
  <1>8. slice \in Int /\ slice \in 0..(D - 1)
    BY <1>1 DEF D
  <1>9. interval = IF slice - of < 0 THEN D + (slice - of) ELSE slice - of
    BY <1>5 DEF GetIntervalTo, D
  <1>10. interval \in 0..(D - 1)
    <2> HIDE DEF interval
    <2> QED BY <1>1, <1>3, <1>8, <1>9
  <1>11. GetTimeOfDay(t + interval) = slice
    <2> HIDE DEF interval
    <2>1. Local(t + interval) = L + interval
      <3> DEFINE y == TimeZone * S
      <3>1. y \in Int /\ L = t - y /\ interval \in Int
        BY <1>1, <1>2, <1>10
      <3>2. Local(t + interval) = (t + interval) - y
        BY DEF Local, S
      <3> HIDE DEF y
      <3>3. (t + interval) - y = L + interval
        BY <1>2, <3>1
      <3> QED BY <3>2, <3>3
    <2>2. L + interval \in Int /\ L + interval >= 0
      BY <1>1, <1>2, <1>10
    <2>3. Remainder(L + interval, D) = (L + interval) % D
      <3> DEFINE x == L + interval
      <3>1. x \in Int /\ x >= 0
        BY <2>2
      <3> HIDE DEF x
      <3>2. Remainder(x, D) = x % D
        BY <1>1, <3>1, NotNegative
      <3> QED BY <3>2 DEF x
    <2>4. \E n \in Int : L + interval = n * D + slice
      <3>1. (days + 1) * D = days * D + D /\ days * D \in Int /\ days + 1 \in Int
        BY <1>1, <1>3
      <3> DEFINE x == days * D
      <3>2. CASE slice - of < 0
        <4>1. L + interval = (days + 1) * D + slice
          <5>1. x \in Int /\ (days + 1) * D = x + D /\ L = x + of
            BY <1>3, <3>1
          <5> HIDE DEF x
          <5> QED BY <1>1, <1>3, <1>8, <1>9, <3>2, <5>1
        <4> QED BY <3>1, <4>1
      <3>3. CASE ~(slice - of < 0)
        <4>1. L + interval = days * D + slice
          <5>1. x \in Int /\ L = x + of
            BY <1>3, <3>1
          <5> HIDE DEF x
          <5>2. L + interval = x + slice
            BY <1>1, <1>3, <1>8, <1>9, <3>3, <5>1
          <5> QED BY <5>2 DEF x
        <4> QED BY <1>3, <4>1
      <3> QED BY <3>2, <3>3
    <2>5. (L + interval) % D = slice
      <3>1. PICK n \in Int : L + interval = n * D + slice
        BY <2>4
      <3>2. (n * D + slice) % D = slice
        BY <1>1, <1>8, DivisionIs
      <3> QED BY <3>1, <3>2
    <2> QED BY <2>1, <2>3, <2>5 DEF GetTimeOfDay, D
  <1>12. Slice(0, GetHours(of), GetMinutes(of), GetSeconds(of), GetMilliSeconds(of),
               GetMicroSeconds(of)) = of
    BY <1>3, PartsMakeSlice DEF D
  <1> HIDE DEF zero, interval
  <1> QED BY <1>5, <1>6, <1>7, <1>10, <1>11, <1>12 DEF DayAgrees, zero, interval, D

-----------------------------------------------------------------------------
(* LibTime: months. *)

\* On a full second the parts that were set are those that are read.
LEMMA SetIsRead ==
    ASSUME NEW t, Since1970(t), GetLocalMicroSecond(t) = 0, NEW tm \in CivilTimes
    PROVE  LocalTime(WithFraction(tm, t)) = tm
  <1> DEFINE M == MicroPerSecond
             s == Mktime(tm)
  <1>1. M \in Nat /\ M > 0 /\ MicroPerMilli \in Nat /\ MicroPerMilli > 0 /\ s \in Int
    BY Units, MktimeIs
  <1> HIDE DEF s
  <1>2. Quotient(0, MicroPerMilli) = 0
    <2>1. 0 * MicroPerMilli + 0 = 0 /\ 0 \in 0..(MicroPerMilli - 1)
      BY <1>1
    <2>2. (0 * MicroPerMilli + 0) \div MicroPerMilli = 0
      BY <1>1, <2>1, DivisionIs
    <2>3. Quotient(0, MicroPerMilli) = 0 \div MicroPerMilli
      BY DEF Quotient
    <2> QED BY <2>1, <2>2, <2>3
  <1>3. GetLocalMilliSecond(t) = 0
    BY <1>2 DEF GetLocalMilliSecond, GetLocalMicroSecond
  <1>4. WithFraction(tm, t) = s * M + 0 * MicroPerMilli + 0
    BY <1>3 DEF WithFraction, FromTimeStruct, s, M
  <1> HIDE DEF M
  <1>5. WithFraction(tm, t) = s * M + 0
    <2>1. s * M \in Int /\ 0 * MicroPerMilli = 0
      BY <1>1
    <2> QED BY <1>4, <2>1
  <1>6. WithFraction(tm, t) \div M = s
    <2>1. 0 \in 0..(M - 1)
      BY <1>1
    <2>2. (s * M + 0) \div M = s
      BY <1>1, <2>1, DivisionIs
    <2> QED BY <1>5, <2>2
  <1>7. LocalTime(WithFraction(tm, t)) = Tm(s)
    BY <1>6 DEF LocalTime, M
  <1> QED BY <1>7, TmOfMktime DEF s

\* The parts of a moment.
LEMMA MomentParts ==
    ASSUME NEW tm \in CivilTimes
    PROVE  /\ tm.year \in Int /\ tm.year >= 1970 /\ tm.month \in 1..12 /\ tm.day \in 1..31
           /\ tm.hour \in Hours /\ tm.minute \in Minutes /\ tm.second \in Seconds
           /\ tm.day <= GetMonthMaxDays(tm.year, tm.month)
  BY DEF CivilTimes

Parts == [year : Int, month : Int, day : Int, hour : Int, minute : Int, second : Int]

LEMMA SameParts ==
    ASSUME NEW r \in Parts, NEW s \in Parts,
           r.year = s.year, r.month = s.month, r.day = s.day,
           r.hour = s.hour, r.minute = s.minute, r.second = s.second
    PROVE  r = s
  <1>1. \A p \in Parts : p = [year |-> p.year, month |-> p.month, day |-> p.day,
                              hour |-> p.hour, minute |-> p.minute, second |-> p.second]
    BY DEF Parts
  <1> QED BY <1>1

LEMMA CivilTimesHaveParts == CivilTimes \subseteq Parts
  <1>1. Hours \subseteq Int /\ Minutes \subseteq Int /\ Seconds \subseteq Int
    BY Units DEF Hours, Minutes, Seconds
  <1>2. ASSUME NEW tm \in CivilTimes PROVE tm \in Parts
    <2>1. tm = [year |-> tm.year, month |-> tm.month, day |-> tm.day,
                hour |-> tm.hour, minute |-> tm.minute, second |-> tm.second]
      BY SameMoment
    <2>2. /\ tm.year \in Int /\ tm.month \in Int /\ tm.day \in Int
          /\ tm.hour \in Int /\ tm.minute \in Int /\ tm.second \in Int
      <3>1. /\ tm.year \in Int /\ tm.month \in 1..12 /\ tm.day \in 1..31
            /\ tm.hour \in Hours /\ tm.minute \in Minutes /\ tm.second \in Seconds
        BY MomentParts
      <3>2. tm.month \in Int /\ tm.day \in Int
        BY <3>1
      <3>3. tm.hour \in Int
        BY <1>1, <3>1, Zenon
      <3>4. tm.minute \in Int
        BY <1>1, <3>1, Zenon
      <3>5. tm.second \in Int
        BY <1>1, <3>1, Zenon
      <3> QED BY <3>1, <3>2, <3>3, <3>4, <3>5
    <2> QED BY <2>1, <2>2 DEF Parts
  <1> QED BY <1>2

\* Other years, months and days make another moment.
Moved(tm, y, m, d) == [tm EXCEPT !.year = y, !.month = m, !.day = d]

LEMMA MovedParts ==
    ASSUME NEW tm \in CivilTimes, NEW y \in Int, NEW m \in Int, NEW d \in Int
    PROVE  LET to == Moved(tm, y, m, d)
           IN  /\ to \in Parts /\ to.year = y /\ to.month = m /\ to.day = d
               /\ to.hour = tm.hour /\ to.minute = tm.minute /\ to.second = tm.second
  <1>1. tm \in Parts
    BY CivilTimesHaveParts
  <1> QED BY <1>1 DEF Parts, Moved

LEMMA MovedOnYear ==
    ASSUME NEW tm \in Parts, NEW years \in Int, NEW y \in Int, NEW d \in Int,
           y = tm.year + years,
           d = IF tm.month = 2 /\ tm.day = 29 /\ ~IsLeapYear(y) THEN 28 ELSE tm.day
    PROVE  OnYear(tm, years) = Moved(tm, y, tm.month, d)
  <1> DEFINE by == [tm EXCEPT !.year = y, !.day = d]
             to == [tm EXCEPT !.year = y, !.month = tm.month, !.day = d]
  <1>1. OnYear(tm, years) = by
    BY DEF OnYear, Parts
  <1>2. /\ by \in Parts /\ by.year = y /\ by.month = tm.month /\ by.day = d
        /\ by.hour = tm.hour /\ by.minute = tm.minute /\ by.second = tm.second
    BY DEF Parts
  <1>3. /\ to \in Parts /\ to.year = y /\ to.month = tm.month /\ to.day = d
        /\ to.hour = tm.hour /\ to.minute = tm.minute /\ to.second = tm.second
    BY DEF Parts
  <1> HIDE DEF by, to
  <1>4. by = to
    BY <1>2, <1>3, SameParts
  <1> QED BY <1>1, <1>4 DEF to, Moved

Fits(y, m, d) == y \in Int /\ y >= 1970 /\ m \in 1..12 /\ d \in 1..31 /\ d <= GetMonthMaxDays(y, m)

LEMMA MovedMoment ==
    ASSUME NEW tm \in CivilTimes, NEW y, NEW m, NEW d, Fits(y, m, d)
    PROVE  Moved(tm, y, m, d) \in CivilTimes
  <1> DEFINE to == Moved(tm, y, m, d)
  <1>1. y \in Int /\ m \in Int /\ d \in Int /\ m \in 1..12 /\ d \in 1..31
    BY DEF Fits
  <1>2. /\ to \in Parts /\ to.year = y /\ to.month = m /\ to.day = d
        /\ to.hour = tm.hour /\ to.minute = tm.minute /\ to.second = tm.second
    BY <1>1, MovedParts
  <1>3. tm.hour \in Hours /\ tm.minute \in Minutes /\ tm.second \in Seconds
    BY MomentParts
  <1> HIDE DEF to
  <1>4. to = [year |-> y, month |-> m, day |-> d,
              hour |-> tm.hour, minute |-> tm.minute, second |-> tm.second]
    BY <1>2 DEF Parts
  <1>5. to \in [year : Int, month : 1..12, day : 1..31,
                hour : Hours, minute : Minutes, second : Seconds]
    BY <1>1, <1>3, <1>4
  <1>6. to.year >= 1970 /\ to.day <= GetMonthMaxDays(to.year, to.month)
    BY <1>2 DEF Fits
  <1>7. to \in CivilTimes
    BY <1>5, <1>6 DEF CivilTimes
  <1> QED BY <1>7 DEF to

\* Years later it is the same day, or the 28th of February.
LEMMA YearsLater ==
    ASSUME NEW t, Since1970(t), GetLocalMicroSecond(t) = 0, NEW years \in Int,
           LocalTime(t).year + years >= 1970
    PROVE  LET tm == LocalTime(t)
               later == LocalTime(AddYears(t, years))
           IN  /\ tm \in CivilTimes /\ later \in CivilTimes
               /\ later = Moved(tm, tm.year + years, tm.month, later.day)
               /\ later.year = tm.year + years /\ later.month = tm.month
               /\ tm.month # 2 => later.day = tm.day
  <1> DEFINE tm == LocalTime(t)
             later == LocalTime(AddYears(t, years))
             leapDay == tm.month = 2 /\ tm.day = 29
             y == tm.year + years
             d == IF leapDay /\ ~IsLeapYear(y) THEN 28 ELSE tm.day
  <1>1. tm \in CivilTimes
    BY SecondsOf
  <1>2. /\ tm.year \in Int /\ tm.month \in 1..12 /\ tm.day \in 1..31 /\ y \in Int /\ y >= 1970
        /\ tm.day <= GetMonthMaxDays(tm.year, tm.month)
    <2>1. y >= 1970
      OBVIOUS
    <2> HIDE DEF tm
    <2> QED BY <1>1, <2>1, MomentParts
  <1>3. d \in 1..31 /\ d <= GetMonthMaxDays(y, tm.month)
    <2>1. CASE tm.month # 2
      <3>1. GetMonthMaxDays(y, tm.month) = GetMonthMaxDays(tm.year, tm.month)
        BY <1>2, <2>1, MonthLength
      <3>2. d = tm.day
        BY <2>1
      <3> QED BY <1>2, <3>1, <3>2
    <2>2. CASE tm.month = 2
      <3>1. \A z \in Int : GetMonthMaxDays(z, 2) = IF IsLeapYear(z) THEN 29 ELSE 28
        BY DEF GetMonthMaxDays
      <3> HIDE DEF tm, y
      <3>2. tm.day <= 29
        BY <1>2, <2>2, <3>1
      <3> QED BY <1>2, <2>2, <3>1, <3>2
    <2> QED BY <2>1, <2>2
  <1> HIDE DEF tm, later
  <1>4. OnYear(tm, years) = Moved(tm, y, tm.month, d)
    <2>1. tm \in Parts /\ y \in Int /\ d \in Int
      BY <1>1, <1>2, <1>3, CivilTimesHaveParts
    <2>2. y = tm.year + years
      OBVIOUS
    <2>3. d = IF tm.month = 2 /\ tm.day = 29 /\ ~IsLeapYear(y) THEN 28 ELSE tm.day
      OBVIOUS
    <2> HIDE DEF y, d
    <2> QED BY <2>1, <2>2, <2>3, MovedOnYear
  <1>5. Fits(y, tm.month, d) /\ d \in Int /\ y \in Int /\ tm.month \in Int
    BY <1>2, <1>3 DEF Fits
  <1>6. d = tm.day \/ tm.month = 2
    OBVIOUS
  <1>7. years = 0 => y = tm.year /\ d = tm.day
    <2> SUFFICES ASSUME years = 0 PROVE y = tm.year /\ d = tm.day
      OBVIOUS
    <2>1. y = tm.year
      BY <1>2
    <2>2. tm.month = 2 /\ tm.day = 29 => IsLeapYear(tm.year)
      BY <1>2 DEF GetMonthMaxDays
    <2> HIDE DEF y
    <2> QED BY <2>1, <2>2
  <1> HIDE DEF y, d
  <1> DEFINE to == Moved(tm, y, tm.month, d)
  <1>8. to \in CivilTimes
    BY <1>1, <1>5, MovedMoment
  <1>9. /\ to \in Parts /\ to.year = y /\ to.month = tm.month /\ to.day = d
        /\ to.hour = tm.hour /\ to.minute = tm.minute /\ to.second = tm.second
    BY <1>1, <1>5, MovedParts
  <1>10. later = to
    <2>1. CASE years = 0
      <3>1. later = tm
        BY <2>1 DEF later, tm, AddYears
      <3>2. y = tm.year /\ d = tm.day /\ tm \in Parts
        BY <1>1, <1>7, <2>1, CivilTimesHaveParts
      <3> HIDE DEF to
      <3> QED BY <1>9, <3>1, <3>2, SameParts
    <2>2. CASE years # 0
      <3>1. later = LocalTime(WithFraction(to, t))
        BY <1>4, <2>2 DEF later, AddYears, tm
      <3> HIDE DEF to
      <3> QED BY <1>8, <3>1, SetIsRead
    <2> QED BY <2>1, <2>2
  <1>11. later \in CivilTimes /\ later.year = y /\ later.month = tm.month /\ later.day = d
    BY <1>8, <1>9, <1>10
  <1>12. later = Moved(tm, y, tm.month, later.day)
    BY <1>10, <1>11
  <1> QED BY <1>1, <1>6, <1>11, <1>12 DEF tm, later, y

\* Months later it is the same day and time, as far as the month has it.
LEMMA MonthsLater ==
    ASSUME NEW t, Since1970(t), NEW months \in Int,
           12 * LocalTime(t).year + LocalTime(t).month - 1 + months >= 12 * 1970
    PROVE  MonthsAgree(t, months)
  <1> DEFINE tm == LocalTime(t)
             sum == 12 * tm.year + tm.month - 1 + months
             year == sum \div 12
             month == (sum % 12) + 1
             last == GetMonthMaxDays(year, month)
             years == Quotient(months, 12)
             rest == Remainder(months, 12)
             midway == LocalTime(AddYears(t, years))
             day == IF tm.month = 2 THEN midway.day ELSE tm.day
             d == IF day > last THEN last ELSE day
             Result == [tm EXCEPT !.year = year, !.month = month, !.day = d]
  <1>1. SUFFICES ASSUME GetLocalMicroSecond(t) = 0, month # 2 \/ year = midway.year
                 PROVE  LocalTime(AddMonths(t, months)) = Result
    BY DEF MonthsAgree
  <1>2. tm \in CivilTimes
    BY SecondsOf
  <1>3. tm.year \in Int /\ tm.year >= 1970 /\ tm.month \in 1..12 /\ tm.day \in 1..31
    <2> HIDE DEF tm
    <2> QED BY <1>2, MomentParts
  <1>4. sum \in Int /\ sum >= 12 * 1970
    BY <1>3
  <1>5. /\ years \in Int /\ rest \in Int /\ months = 12 * years + rest /\ -12 < rest /\ rest < 12
        /\ months >= 0 => years >= 0
        /\ months < 0 => rest <= 0
    BY DEF Quotient, Remainder
  <1> HIDE DEF tm, sum, years, rest, midway
  <1>6. year \in Int /\ year >= 1970 /\ month \in 1..12
    BY <1>4
  <1>7. tm.year + years >= 1970
    <2> DEFINE a == tm.year
               m == tm.month
    <2>1. sum = 12 * a + m - 1 + months /\ a \in Int /\ a >= 1970 /\ m \in 1..12
      BY <1>3 DEF sum
    <2> HIDE DEF a, m
    <2>2. a + years >= 1970
      BY <1>4, <1>5, <2>1
    <2> QED BY <2>2 DEF a
  <1>8. /\ midway \in CivilTimes
        /\ midway = Moved(tm, tm.year + years, tm.month, midway.day)
        /\ midway.year = tm.year + years /\ midway.month = tm.month
        /\ tm.month # 2 => midway.day = tm.day
    BY <1>1, <1>5, <1>7, YearsLater DEF tm, midway
  <1>9. /\ midway.year \in Int /\ midway.month \in 1..12 /\ midway.day \in 1..31
        /\ midway.day <= GetMonthMaxDays(midway.year, midway.month)
    BY <1>8, MomentParts
  <1>10. day = midway.day
    BY <1>8
  <1> DEFINE on == (midway.month - 1) + rest
  <1>11. on \in Int /\ year = midway.year + (on \div 12) /\ month = (on % 12) + 1
    <2> DEFINE a == tm.year
               m == tm.month
    <2>1. sum = 12 * a + m - 1 + months /\ a \in Int /\ m \in 1..12
      BY <1>3 DEF sum
    <2>2. midway.year = a + years /\ on = (m - 1) + rest
      BY <1>8
    <2> HIDE DEF a, m, on
    <2>3. sum = 12 * (a + years) + on /\ on \in Int /\ a + years \in Int
      BY <1>5, <2>1, <2>2
    <2>4. sum \div 12 = (a + years) + (on \div 12) /\ sum % 12 = on % 12
      BY <2>3
    <2> QED BY <2>2, <2>3, <2>4
  <1>12. GetMonthMaxDays(midway.year, month) = last /\ last \in 28..31
    <2>1. last \in 28..31
      BY <1>6, MonthLength
    <2>2. CASE month # 2
      <3> HIDE DEF year, month
      <3> QED BY <1>6, <1>9, <2>1, <2>2, MonthLength
    <2>3. CASE year = midway.year
      BY <2>1, <2>3
    <2> QED BY <1>1, <2>2, <2>3
  <1> HIDE DEF year, month, last, day
  <1>13. OnMonth(midway, rest) = Moved(midway, year, month, d)
    <2> DEFINE a == GetMonthMaxDays(midway.year, (on % 12) + 1)
               x == IF midway.day > a THEN a ELSE midway.day
    <2>1. midway \in Parts
      BY <1>8, CivilTimesHaveParts
    <2>2. OnMonth(midway, rest) =
              [midway EXCEPT !.year = midway.year + (on \div 12), !.month = (on % 12) + 1, !.day = x]
      BY <2>1 DEF OnMonth, Parts
    <2>3. midway.year + (on \div 12) = year /\ (on % 12) + 1 = month /\ x = d
      BY <1>10, <1>11, <1>12
    <2> DEFINE y == midway.year + (on \div 12)
               m == (on % 12) + 1
    <2>4. OnMonth(midway, rest) = Moved(midway, y, m, x)
      BY <2>2 DEF Moved
    <2> HIDE DEF a, x, d
    <2>5. y = year /\ m = month /\ x = d
      BY <2>3
    <2> HIDE DEF y, m, on
    <2> QED BY <2>4, <2>5
  <1>14. Fits(year, month, d) /\ d \in Int /\ year \in Int /\ month \in Int
    <2>1. d \in 1..31 /\ d <= last
      BY <1>9, <1>10, <1>12
    <2> HIDE DEF d
    <2> QED BY <1>6, <2>1 DEF Fits, last
  <1> HIDE DEF d, on
  <1> DEFINE to == Moved(midway, year, month, d)
  <1>15. to \in CivilTimes
    BY <1>8, <1>14, MovedMoment
  <1>16. /\ to \in Parts /\ to.year = year /\ to.month = month /\ to.day = d
         /\ to.hour = midway.hour /\ to.minute = midway.minute /\ to.second = midway.second
    BY <1>8, <1>14, MovedParts
  <1>17. LocalTime(AddMonths(t, months)) = to
    <2>1. AddMonths(t, months) = WithFraction(OnMonth(midway, rest), t)
      BY DEF AddMonths, midway, years, rest
    <2>2. AddMonths(t, months) = WithFraction(to, t)
      BY <1>13, <2>1
    <2> HIDE DEF to
    <2> QED BY <1>1, <1>15, <2>2, SetIsRead
  <1>18. midway.hour = tm.hour /\ midway.minute = tm.minute /\ midway.second = tm.second
    <2> DEFINE y == tm.year + years
    <2>1. y \in Int /\ tm.month \in Int /\ midway.day \in Int
      BY <1>3, <1>5, <1>9
    <2>2. midway = Moved(tm, y, tm.month, midway.day)
      BY <1>8
    <2> HIDE DEF y
    <2> QED BY <1>2, <2>1, <2>2, MovedParts
  <1>19. /\ Result \in Parts /\ Result.year = year /\ Result.month = month /\ Result.day = d
         /\ Result.hour = tm.hour /\ Result.minute = tm.minute /\ Result.second = tm.second
    <2>1. Result = Moved(tm, year, month, d)
      BY DEF Moved
    <2> DEFINE at == Moved(tm, year, month, d)
    <2>2. /\ at \in Parts /\ at.year = year /\ at.month = month /\ at.day = d
          /\ at.hour = tm.hour /\ at.minute = tm.minute /\ at.second = tm.second
      BY <1>2, <1>14, MovedParts
    <2> HIDE DEF Result, at
    <2>3. Result = at
      BY <2>1 DEF at
    <2> QED BY <2>2, <2>3
  <1> HIDE DEF Result, to
  <1>20. to = Result
    BY <1>16, <1>18, <1>19, SameParts
  <1> QED BY <1>17, <1>20

-----------------------------------------------------------------------------
(* LibTime: the theorems. *)

\* A day in February 1971 or later is one of a month that late.
LEMMA LaterMonths ==
    ASSUME NEW tm \in CivilTimes, DayOf(tm) >= 396
    PROVE  tm.year \in Int /\ tm.month \in 1..12 /\ 12 * tm.year + tm.month - 1 >= 12 * 1971 + 1
  <1> DEFINE k == 12 * tm.year + tm.month - 1
             feb == 12 * 1971 + 1
  <1>1. tm.year \in Int /\ tm.month \in 1..12
    BY MomentParts
  <1>2. Start(k) = DaysBefore(tm.year, tm.month) /\ Length(k) = GetMonthMaxDays(tm.year, tm.month)
    <2>1. k \in Int /\ k = 12 * tm.year + tm.month - 1
      BY <1>1
    <2> HIDE DEF k
    <2>2. k \div 12 = tm.year /\ (k % 12) + 1 = tm.month
      BY <1>1, <2>1
    <2> QED BY <2>2 DEF Start, Length
  <1>3. k \in Int /\ Start(k) \in Int /\ Length(k) \in 28..31
    <2>1. k \in Int
      BY <1>1
    <2> HIDE DEF k
    <2> QED BY <2>1, NextMonth
  <1>4. DayOf(tm) < Start(k) + Length(k) /\ DayOf(tm) \in Nat
    BY <1>2, DayType
  <1>5. Start(feb) = 396 /\ feb \in Int
    <2>1. feb \div 12 = 1971 /\ (feb % 12) + 1 = 2 /\ feb \in Int
      OBVIOUS
    <2> HIDE DEF feb
    <2>2. \A y \in Int : DaysBefore(y, 2) = YearStart(y) + 31
      <3> TAKE y \in Int
      <3>1. DaysBefore(y, 1) = YearStart(y) /\ YearStart(y) \in Int
            /\ \A m \in 1..11 : DaysBefore(y, m + 1) = DaysBefore(y, m) + GetMonthMaxDays(y, m)
        BY FirstDays
      <3>2. 1 \in 1..11 /\ 1 + 1 = 2
        OBVIOUS
      <3>3. DaysBefore(y, 2) = DaysBefore(y, 1) + GetMonthMaxDays(y, 1)
        BY <3>1, <3>2, Zenon
      <3>4. GetMonthMaxDays(y, 1) = 31
        BY DEF GetMonthMaxDays
      <3> QED BY <3>1, <3>3, <3>4
    <2>3. YearStart(1971) = 365
      BY DEF YearStart, LeapDays
    <2>4. DaysBefore(1971, 2) = 396
      BY <2>2, <2>3
    <2> QED BY <2>1, <2>4 DEF Start
  <1> HIDE DEF k, feb
  <1>6. k < feb => Start(k) + Length(k) <= Start(feb)
    BY <1>3, <1>5, MonthsOrdered
  <1>7. ~(k < feb)
    BY <1>3, <1>4, <1>5, <1>6
  <1> QED BY <1>1, <1>3, <1>5, <1>7 DEF k, feb

\* The day of local seconds.
LEMMA DayOfSeconds ==
    ASSUME NEW seconds \in Int, seconds - TimeZone >= 0,
           NEW n \in Nat, n * SecondPerDay <= seconds - TimeZone
    PROVE  DayOf(Tm(seconds)) >= n
  <1> DEFINE tm == Tm(seconds)
             local == seconds - TimeZone
             x == tm.hour * SecondPerHour
             y == tm.minute * SecondPerMinute
  <1>1. tm \in CivilTimes /\ Mktime(tm) = seconds
    BY MktimeOfTm
  <1> HIDE DEF tm
  <1>2. /\ DayOf(tm) \in Int /\ tm.hour \in Hours /\ tm.minute \in Minutes /\ tm.second \in Seconds
    BY <1>1, DayType DEF CivilTimes
  <1>3. local = Local0(tm) /\ local \in Int
    BY <1>1, MktimeIs, ZoneAssumption
  <1>4. local = DayOf(tm) * SecondPerDay + x + y + tm.second
    BY <1>3 DEF Local0
  <1> HIDE DEF local, x, y
  <1>5. local \div SecondPerDay = DayOf(tm)
    BY <1>2, <1>4, ClockIs DEF x, y
  <1>6. /\ local = (local \div SecondPerDay) * SecondPerDay + (local % SecondPerDay)
        /\ local % SecondPerDay \in 0..(SecondPerDay - 1)
    BY <1>3, Units, Divided
  <1>7. n * SecondPerDay <= local
    BY DEF local
  <1> DEFINE D == SecondPerDay
             d == DayOf(tm)
             r == local % D
  <1>8. D \in Nat /\ D > 0 /\ d \in Int /\ r \in 0..(D - 1) /\ local = d * D + r /\ n * D <= local
    BY <1>2, <1>5, <1>6, <1>7, Units
  <1> HIDE DEF D, d, r
  <1>9. ~(d < n)
    <2> SUFFICES ASSUME d < n PROVE FALSE
      OBVIOUS
    <2>1. (n - d) * D >= D
      BY <1>8
    <2>2. (n - d) * D = n * D - d * D
      BY <1>8
    <2> DEFINE u == n * D
               v == d * D
               w == (n - d) * D
    <2>3. u \in Int /\ v \in Int /\ w \in Int /\ w >= D /\ w = u - v /\ u <= local /\ local = v + r
      BY <1>8, <2>1, <2>2
    <2> HIDE DEF u, v, w
    <2> QED BY <1>8, <2>3
  <1> QED BY <1>8, <1>9 DEF d, tm

\* A time since 1970, here and at Greenwich, is read back from its text; its
\* midnight, its time of day and the interval to any other time of day agree; and
\* any number of months later, not before 1970, it is the month that many further
\* on, the same time of the day and the same day as far as the month has it.
THEOREM CalendarHolds ==
    ASSUME NEW t, Since1970(t), t >= 0
    PROVE  /\ TextReturns(t)
           /\ \A slice \in 0..(MicroPerDay - 1) : DayAgrees(t, slice)
           /\ \A months \in Int :
                12 * LocalTime(t).year + LocalTime(t).month - 1 + months >= 12 * 1970
                    => MonthsAgree(t, months)
  <1>1. TextReturns(t)
    BY TextsReturn
  <1>2. ASSUME NEW slice \in 0..(MicroPerDay - 1) PROVE DayAgrees(t, slice)
    BY DaysAgree
  <1>3. ASSUME NEW months \in Int,
               12 * LocalTime(t).year + LocalTime(t).month - 1 + months >= 12 * 1970
        PROVE  MonthsAgree(t, months)
    BY <1>3, MonthsLater
  <1> QED BY <1>1, <1>2, <1>3

\* The server is at most a day behind Greenwich, and the calendar is not asked
\* before February 1971, so that thirteen months before it is since 1970.
DaysFit == TimeZone <= SecondPerDay /\ FirstDay >= 397

LEMMA DayIsSince1970 ==
    ASSUME DaysFit, NEW day \in Nat, day >= FirstDay
    PROVE  LET midnight == day * MicroPerDay
           IN  /\ midnight \in Nat
               /\ \A at \in midnight..(midnight + MicroPerDay - 1) : Since1970(at) /\ at >= 0
               /\ LocalTime(midnight) \in CivilTimes /\ DayOf(LocalTime(midnight)) >= 396
  <1> DEFINE M == MicroPerSecond
             S == SecondPerDay
             D == MicroPerDay
             s == day * S
             midnight == day * D
  <1>1. /\ M \in Nat /\ M > 0 /\ S \in Nat /\ S > 0 /\ D = M * S /\ TimeZone \in Int
        /\ TimeZone <= S /\ FirstDay \in Nat
    BY Units, ZoneAssumption, DaysAssumption DEF DaysFit, MicroPerDay
  <1>2. day - 1 \in Nat /\ day - 1 >= 396 /\ day >= 1
    BY <1>1 DEF DaysFit
  <1> HIDE DEF M, S, D
  <1>3. s \in Nat /\ s >= S /\ (day - 1) * S = s - S
    BY <1>1, <1>2
  <1> HIDE DEF s
  <1>4. midnight = s * M /\ midnight \in Nat
    <2>1. \A a, b, c \in Int : a * (b * c) = (a * c) * b
      OBVIOUS
    <2>2. midnight = s * M
      BY <1>1, <2>1 DEF s
    <2> QED BY <1>1, <1>3, <2>2
  <1>5. s - TimeZone \in Nat
    BY <1>1, <1>3
  <1>6. (s - TimeZone) * M = s * M - TimeZone * M /\ (s - TimeZone) * M >= 0
        /\ TimeZone * M \in Int /\ s * M \in Int
    BY <1>1, <1>3, <1>5
  <1>7. ASSUME NEW at \in midnight..(midnight + D - 1) PROVE Since1970(at) /\ at >= 0
    <2> DEFINE x == s * M
               z == TimeZone * M
    <2>1. x \in Nat /\ z \in Int /\ x - z >= 0 /\ midnight = x
      BY <1>4, <1>6
    <2> HIDE DEF midnight
    <2>2. at \in Int /\ at >= x /\ D \in Int
      BY <1>1, <1>7, <1>4, <2>1
    <2>3. Local(at) = at - z
      BY DEF Local, M
    <2> HIDE DEF x, z
    <2>4. at - z >= 0 /\ at >= 0
      BY <2>1, <2>2
    <2> QED BY <2>2, <2>3, <2>4 DEF Since1970
  <1>8. LocalTime(midnight) = Tm(s)
    <2>1. s * M + 0 = s * M /\ 0 \in 0..(M - 1)
      BY <1>1, <1>6
    <2>2. (s * M + 0) \div M = s
      BY <1>1, <1>3, <2>1, DivisionIs
    <2>3. midnight \div M = s
      BY <1>4, <2>1, <2>2
    <2> QED BY <2>3 DEF LocalTime, M
  <1>9. Tm(s) \in CivilTimes /\ DayOf(Tm(s)) >= 396
    <2>1. s \in Int /\ s - TimeZone >= 0
      BY <1>3, <1>5
    <2>2. 396 * S <= s - TimeZone
      <3>1. 396 * S <= (day - 1) * S
        BY <1>1, <1>2
      <3>2. (day - 1) * S <= s - TimeZone
        BY <1>1, <1>3
      <3>3. (day - 1) * S \in Int
        BY <1>1, <1>2
      <3> DEFINE u == (day - 1) * S
      <3> HIDE DEF u
      <3> QED BY <1>1, <1>5, <3>1, <3>2, <3>3 DEF u
    <2>3. Tm(s) \in CivilTimes
      BY <2>1, MktimeOfTm
    <2>4. DayOf(Tm(s)) >= 396
      BY <2>1, <2>2, DayOfSeconds DEF S
    <2> QED BY <2>3, <2>4
  <1> HIDE DEF midnight
  <1> QED BY <1>4, <1>7, <1>8, <1>9 DEF midnight, D

\* Texts, days and months agree with the calendar at every time of every day, for
\* any units, any zone and as many days as are asked for.
THEOREM CalendarKept == DaysFit => (CalendarSpec => []CalendarAgrees)
  <1> SUFFICES ASSUME DaysFit PROVE CalendarSpec => []CalendarAgrees
    OBVIOUS
  <1> DEFINE Inv == today = NoDay \/ (today \in Nat /\ today >= FirstDay)
  <1>1. CalendarInit => Inv
    BY DEF CalendarInit
  <1>2. Inv /\ [NextDay]_today => Inv'
    BY DaysAssumption DEF NextDay
  <1>3. Inv => CalendarAgrees
    <2> SUFFICES ASSUME today \in Nat, today >= FirstDay PROVE CalendarAgrees
      BY DEF CalendarAgrees
    <2> DEFINE midnight == today * MicroPerDay
               tm == LocalTime(midnight)
    <2>1. /\ midnight \in Nat
          /\ \A at \in midnight..(midnight + MicroPerDay - 1) : Since1970(at) /\ at >= 0
          /\ tm \in CivilTimes /\ DayOf(tm) >= 396
      BY DayIsSince1970
    <2>2. MicroPerDay \in Nat /\ MicroPerDay > 0
      BY Units
    <2> HIDE DEF midnight
    <2>3. ASSUME NEW at \in midnight..(midnight + MicroPerDay - 1)
          PROVE  /\ TextReturns(at)
                 /\ \A slice \in {0, MicroPerDay \div 2, MicroPerDay - 1} : DayAgrees(at, slice)
      <3>1. Since1970(at) /\ at >= 0
        BY <2>1
      <3>2. {0, MicroPerDay \div 2, MicroPerDay - 1} \subseteq 0..(MicroPerDay - 1)
        BY <2>2
      <3> QED BY <3>1, <3>2, TextsReturn, DaysAgree
    <2>4. ASSUME NEW months \in {-13, 1, 12, 13} PROVE MonthsAgree(midnight, months)
      <3>1. Since1970(midnight)
        BY <2>1, <2>2
      <3>2. tm.year \in Int /\ tm.month \in 1..12 /\ 12 * tm.year + tm.month - 1 >= 12 * 1971 + 1
        BY <2>1, LaterMonths
      <3> DEFINE k == 12 * tm.year + tm.month - 1
      <3>3. k \in Int /\ k >= 12 * 1971 + 1
        BY <3>2
      <3> HIDE DEF tm, k
      <3>4. months \in Int /\ k + months >= 12 * 1970
        BY <3>3
      <3>5. 12 * tm.year + tm.month - 1 + months >= 12 * 1970
        BY <3>4 DEF k
      <3> QED BY <3>1, <3>4, <3>5, MonthsLater DEF tm
    <2> QED BY <2>3, <2>4 DEF CalendarAgrees, midnight
  <1> QED BY <1>1, <1>2, <1>3, PTL DEF CalendarSpec
=============================================================================
