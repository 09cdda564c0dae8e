------------------------------ MODULE KcpFlush ------------------------------
(***************************************************************************)
(* When one control block flushes, resends and probes (ikcp.cpp): its      *)
(* timers on the 32-bit clock, in the configuration KcpChannel gives it    *)
(* (nodelay = 1, resend = 2, nocwnd = 1).  KcpArq leaves these moments     *)
(* open; here the contents of the segments are left out instead.           *)
(*                                                                         *)
(* The control block sees the wall clock modulo W = 2^32.  The wall clock  *)
(* runs Behind the time that passes: somebody may set it back.  With       *)
(* nocwnd = 1 the congestion window is computed and never used, and no     *)
(* code reads the state that dead_link sets: both are left out.            *)
(***************************************************************************)
EXTENDS Integers, Sequences, FiniteSets

CONSTANTS
    W,             \* the clock of the control block wraps at 2^w
    Epoch,         \* the 64-bit clock when the channel is created
    AskedInterval, \* interval given to ikcp_nodelay
    MinInterval, MaxInterval,   \* its limits, 10 and 5000
    Reset,         \* 10000: a larger difference means the clock was set
    MinRto,        \* rx_minrto
    DefRto,        \* IKCP_RTO_DEF
    MaxRto,        \* IKCP_RTO_MAX
    ProbeInit,     \* IKCP_PROBE_INIT
    ProbeLimit,    \* IKCP_PROBE_LIMIT
    FastResend,    \* fastresend
    FastLimit,     \* IKCP_FASTACK_LIMIT
    SndWnd,        \* snd_wnd, segments
    Gap,           \* the loop passes OnUpdate at least this often
    SetBack,       \* by how much somebody may set the wall clock back
    MaxSegs,       \* bound of the model: segments handed over
    Life,          \* bound of the model: a datagram lives that long
    Copies,        \* bound of the model: a transmission is answered that often
    Horizon        \* bound of the model: the time that passes

ASSUME FlushAssumption ==
    /\ {W, Epoch, AskedInterval, MinInterval, MaxInterval, Reset, MinRto, DefRto,
        MaxRto, ProbeInit, ProbeLimit, FastResend, FastLimit, SndWnd, Gap,
        MaxSegs, Life, Copies, Horizon} \subseteq Nat \ {0}
    /\ SetBack \in SUBSET Nat
    /\ MinInterval <= MaxInterval /\ MaxInterval < W /\ ProbeInit <= ProbeLimit
    /\ MinRto <= DefRto /\ DefRto <= MaxRto
    /\ Epoch >= W /\ 2 * Reset < W

VARIABLES
    time,        \* the time that has passed
    behind,      \* by how much the wall clock was set back
    pass,        \* when the loop last called OnUpdate
    current,     \* the control block from here on: the last ikcp_update
    updated,     \* ikcp_update was called
    ts_flush,    \* when the next flush is due
    queued,      \* length of snd_queue
    snd_buf,     \* sn -> [ts, resendts, rto, fastack, xmit]
    snd_una, snd_nxt,
    rx,          \* [srtt, rttval, rto]
    rmt_wnd,
    probe_wait, ts_probe,
    net,         \* the transmissions that may still be answered
    got,         \* sequence numbers the other end has received
    flushed,     \* history: time of the last flush
    sentAt,      \* history: sn -> time of its last transmission
    probedAt     \* history: time the probe timer was last set

timers == <<current, updated, ts_flush, snd_buf, probe_wait, ts_probe>>
ghosts == <<flushed, sentAt, probedAt>>
vars == <<time, behind, pass, timers, queued, snd_una, snd_nxt, rx, rmt_wnd, net,
          got, ghosts>>

Wall == Epoch + time - behind

Bigger(a, b) == IF a >= b THEN a ELSE b
Smaller(a, b) == IF a <= b THEN a ELSE b
Bound(lower, middle, upper) == Smaller(Bigger(lower, middle), upper)

\* The limits of ikcp_nodelay.
Interval == Bound(MinInterval, AskedInterval, MaxInterval)

\* The types of the variables.
TypeOK ==
    /\ {current, ts_flush, ts_probe} \subseteq 0..(W - 1)
    /\ updated \in BOOLEAN
    /\ DOMAIN snd_buf = DOMAIN sentAt
    /\ DOMAIN snd_buf \subseteq snd_una..(snd_nxt - 1)
    /\ \A sn \in DOMAIN snd_buf :
          /\ {snd_buf[sn].ts, snd_buf[sn].resendts} \subseteq 0..(W - 1)
          /\ {snd_buf[sn].rto, snd_buf[sn].xmit} \subseteq Nat \ {0}
          /\ snd_buf[sn].fastack \in Nat
    /\ rx \in [srtt : Nat, rttval : Nat, rto : MinRto..MaxRto]
    /\ rmt_wnd \in {0, SndWnd}
    /\ probe_wait \in {0} \cup ProbeInit..ProbeLimit
    /\ snd_nxt + queued <= MaxSegs

Init ==
    /\ time = 0 /\ behind = 0 /\ pass = 0
    /\ current = 0 /\ updated = FALSE /\ ts_flush = Interval
    /\ queued = 0 /\ snd_buf = [sn \in {} |-> 0] /\ snd_una = 0 /\ snd_nxt = 0
    /\ rx = [srtt |-> 0, rttval |-> 0, rto |-> DefRto]
    /\ rmt_wnd = SndWnd
    /\ probe_wait = 0 /\ ts_probe = 0
    /\ net = {} /\ got = {}
    /\ flushed = 0 /\ sentAt = [sn \in {} |-> 0] /\ probedAt = 0

-----------------------------------------------------------------------------
(* Plausible mistakes in the operators below. *)

\* ts_flush is not brought back after the clock was set.
FlushBaseKept(cur) == IF updated THEN ts_flush ELSE cur

\* A fast resend leaves the time of the next one alone.
TimesOutLate(seg, cur) == seg.xmit < 2 /\ cur = seg.resendts

\* One acknowledgement that passes a segment over makes it look lost, or none.
PassedOftenAny(seg) == seg.xmit <= FastLimit

-----------------------------------------------------------------------------
(* The 32-bit clock. *)

\* _itimediff: the difference as a signed 32-bit number.
Diff(later, earlier) ==
    LET d == (later - earlier) % W
    IN  IF d < W \div 2 THEN d ELSE d - W

After(cur, wait) == (cur + wait) % W

-----------------------------------------------------------------------------
(* ikcp_update and ikcp_check. *)

\* ts_flush, brought to the present when it was never set or is far away.
FlushBase(cur) ==
    IF updated /\ Diff(cur, ts_flush) < Reset /\ Diff(cur, ts_flush) >= -Reset
    THEN ts_flush ELSE cur

FlushDue(cur) == Diff(cur, FlushBase(cur)) >= 0

NextFlush(cur) ==
    LET next == After(FlushBase(cur), Interval)
    IN  IF Diff(cur, next) >= 0 THEN After(cur, Interval) ELSE next

\* The time ikcp_check returns: now when a flush or a resend is due, else when
\* the first of them is, at most an interval ahead.
Check(cur) ==
    LET base == IF Diff(cur, ts_flush) < Reset /\ Diff(cur, ts_flush) >= -Reset
                THEN ts_flush ELSE cur
        waits == {Diff(base, cur), Interval}
                    \cup {Diff(snd_buf[sn].resendts, cur) : sn \in DOMAIN snd_buf}
    IN  IF ~updated \/ \E w \in waits : w <= 0
        THEN cur
        ELSE After(cur, CHOOSE w \in waits : \A v \in waits : w <= v)

-----------------------------------------------------------------------------
(* ikcp_flush. *)

ProbeExpired(cur) == rmt_wnd = 0 /\ probe_wait # 0 /\ Diff(cur, ts_probe) >= 0

\* Armed at the first flush that sees the window closed, half as long again at
\* every expiry, off when the window is open.
ProbeWait(cur) ==
    IF rmt_wnd # 0 THEN 0
    ELSE IF probe_wait = 0 THEN ProbeInit
    ELSE IF ProbeExpired(cur)
         THEN Smaller(ProbeLimit, Bigger(probe_wait, ProbeInit)
                                    + Bigger(probe_wait, ProbeInit) \div 2)
         ELSE probe_wait

SetsProbe(cur) == rmt_wnd = 0 /\ (probe_wait = 0 \/ ProbeExpired(cur))

Probe(cur) ==
    /\ probe_wait' = ProbeWait(cur)
    /\ ts_probe' = IF SetsProbe(cur) THEN After(cur, ProbeWait(cur))
                   ELSE IF rmt_wnd = 0 THEN ts_probe ELSE 0
    /\ probedAt' = IF SetsProbe(cur) THEN time ELSE probedAt

\* How many queued segments get a sequence number.
Admitted ==
    Bound(0, snd_una + Smaller(SndWnd, rmt_wnd) - snd_nxt, queued)

\* snd_buf with the admitted segments.
Filled ==
    [sn \in DOMAIN snd_buf \cup snd_nxt..(snd_nxt + Admitted - 1) |->
        IF sn \in DOMAIN snd_buf THEN snd_buf[sn]
        ELSE [ts |-> 0, resendts |-> 0, rto |-> rx.rto, fastack |-> 0, xmit |-> 0]]

TimesOut(seg, cur) == Diff(cur, seg.resendts) >= 0

PassedOften(seg) ==
    seg.fastack >= FastResend /\ (seg.xmit <= FastLimit \/ FastLimit <= 0)

Sends(seg, cur) == seg.xmit = 0 \/ TimesOut(seg, cur) \/ PassedOften(seg)

\* The segment after the flush: sent for the first time, because its timeout
\* has run out (and the next is half as long again), because later segments
\* were acknowledged, or not at all.
Flushed(seg, cur) ==
    LET rto == IF seg.xmit = 0 THEN rx.rto
               ELSE IF TimesOut(seg, cur) THEN seg.rto + seg.rto \div 2 ELSE seg.rto
        fastack == IF seg.xmit # 0 /\ ~TimesOut(seg, cur) THEN 0 ELSE seg.fastack
    IN  IF ~Sends(seg, cur) THEN seg
        ELSE [ts |-> cur, resendts |-> After(cur, rto), rto |-> rto,
              fastack |-> fastack, xmit |-> seg.xmit + 1]

Flush(cur) ==
    LET sending == {sn \in DOMAIN Filled : Sends(Filled[sn], cur)}
    IN  /\ Probe(cur)
        /\ queued' = queued - Admitted
        /\ snd_nxt' = snd_nxt + Admitted
        /\ snd_buf' = [sn \in DOMAIN Filled |-> Flushed(Filled[sn], cur)]
        /\ net' = net \cup {[sn |-> sn, ts |-> cur, at |-> time, copies |-> Copies] :
                               sn \in sending}
        /\ sentAt' = [sn \in DOMAIN Filled |->
                         IF sn \in sending THEN time ELSE sentAt[sn]]
        /\ flushed' = time

-----------------------------------------------------------------------------
(* The main loop passes the channel: KcpChannel::OnUpdate.  ikcp_check     *)
(* returns 32 bits and is compared with the 64-bit clock.                  *)

Update(cur) ==
    /\ current' = cur
    /\ updated' = TRUE
    /\ IF FlushDue(cur)
       THEN ts_flush' = NextFlush(cur) /\ Flush(cur)
       ELSE /\ ts_flush' = FlushBase(cur)
            /\ UNCHANGED <<queued, snd_nxt, snd_buf, net, probe_wait, ts_probe, ghosts>>

OnUpdate ==
    /\ pass' = time
    /\ IF Check(Wall % W) <= Wall
       THEN Update(Wall % W)
       ELSE UNCHANGED <<timers, queued, snd_nxt, net, ghosts>>
    /\ UNCHANGED <<time, behind, snd_una, rx, rmt_wnd, got>>

-----------------------------------------------------------------------------
(* ikcp_input: one datagram of acknowledgements. *)

\* ikcp_update_ack: the smoothed round trip and its variation.
Smoothed(srtt, rtt) == Bigger(1, (7 * srtt + rtt) \div 8)

UpdateAck(r, rtt) ==
    LET delta == IF rtt > r.srtt THEN rtt - r.srtt ELSE r.srtt - rtt
        srtt == IF r.srtt = 0 THEN rtt ELSE Smoothed(r.srtt, rtt)
        rttval == IF r.srtt = 0 THEN rtt \div 2 ELSE (3 * r.rttval + delta) \div 4
    IN  [srtt |-> srtt, rttval |-> rttval,
         rto |-> Bound(MinRto, srtt + Bigger(Interval, 4 * rttval), MaxRto)]

\* The round trip of an acknowledgement: the clock of the last ikcp_update against
\* the echoed time; a negative one is not measured.
Measured(r, m) ==
    IF Diff(current, m.ts) >= 0 THEN UpdateAck(r, Diff(current, m.ts)) ELSE r

\* One after the other, of the two that a datagram holds at most (Acks).
MeasuredAll(r, acks) ==
    IF Len(acks) = 0 THEN r
    ELSE IF Len(acks) = 1 THEN Measured(r, acks[1])
    ELSE Measured(Measured(r, acks[1]), acks[2])

\* ikcp_parse_fastack: the largest number acknowledged passes over sn.
PassedOver(sn, maxack) == sn < maxack

Input(acks, una, wnd) ==
    LET numbers == {acks[i].sn : i \in 1..Len(acks)}
        left == {sn \in DOMAIN snd_buf : sn >= una} \ numbers
        maxack == CHOOSE sn \in numbers : \A other \in numbers : other <= sn
        counts == numbers # {} /\ maxack >= snd_una' /\ maxack < snd_nxt
    IN  /\ snd_una' = CHOOSE sn \in left \cup {snd_nxt} :
                         \A other \in left \cup {snd_nxt} : sn <= other
        /\ snd_buf' = [sn \in left |->
                         [snd_buf[sn] EXCEPT
                            !.fastack = IF counts /\ PassedOver(sn, maxack)
                                        THEN @ + 1 ELSE @]]
        /\ sentAt' = [sn \in left |-> sentAt[sn]]
        /\ rmt_wnd' = wnd
        /\ rx' = MeasuredAll(rx, acks)

\* The other end answers some transmissions, one after the other, in one
\* datagram; its una may be an old one, and it may answer a second time.
Missing == CHOOSE sn \in 0..snd_nxt : sn \notin got' /\ \A s \in 0..(sn - 1) : s \in got'

Answered(acks) ==
    LET ms == {acks[i] : i \in 1..Len(acks)}
    IN  (net \ ms) \cup {[m EXCEPT !.copies = @ - 1] : m \in {n \in ms : n.copies > 1}}

Acks == UNION {{<<>>}, {<<m>> : m \in net}, {<<m, n>> : m, n \in net}}

Answer ==
    \E acks \in Acks, wnd \in {0, SndWnd} :
        /\ Len(acks) = 2 => acks[1].sn < acks[2].sn
        /\ got' = got \cup {acks[i].sn : i \in 1..Len(acks)}
        /\ net' = Answered(acks)
        /\ \E una \in snd_una..Missing : Input(acks, una, wnd)
        /\ UNCHANGED <<time, behind, pass, current, updated, ts_flush, queued,
                       snd_nxt, probe_wait, ts_probe, flushed, probedAt>>

-----------------------------------------------------------------------------
(* The user and the clocks. *)

Send ==
    /\ snd_nxt + queued < MaxSegs      \* bound: MaxSegs
    /\ queued' = queued + 1
    /\ UNCHANGED <<time, behind, pass, timers, snd_una, snd_nxt, rx, rmt_wnd, net,
                   got, ghosts>>

Tick ==
    /\ time < Horizon                  \* bound: Horizon
    /\ time - pass < Gap
    /\ time' = time + 1
    /\ net' = {m \in net : time - m.at < Life}      \* bound: Life
    /\ UNCHANGED <<behind, pass, timers, queued, snd_una, snd_nxt, rx, rmt_wnd,
                   got, ghosts>>

\* Somebody sets the wall clock back, once.
SetClock ==
    /\ behind = 0
    /\ \E back \in SetBack : behind' = back
    /\ UNCHANGED <<time, pass, timers, queued, snd_una, snd_nxt, rx, rmt_wnd, net,
                   got, ghosts>>

Next == OnUpdate \/ Answer \/ Send \/ Tick \/ SetClock

Spec == Init /\ [][Next]_vars

-----------------------------------------------------------------------------
(* What must hold. *)

\* ikcp_update flushes every interval, across the wrap of its clock; after the
\* clock was set back, which the next pass of the loop finds, it is silent for no
\* longer than Reset.
FlushOnTime ==
    updated => time - flushed < Interval + Gap
                                    + (IF behind = 0 THEN 0 ELSE Reset + Gap - 1)

\* While the clock runs on, an unacknowledged segment is sent again when its
\* timeout has run out, and a closed window is asked for when the probe timer
\* has: no later than the flush after it, whatever the clock shows.
NothingOverdue ==
    behind = 0 =>
        /\ \A sn \in DOMAIN snd_buf :
              time - sentAt[sn] < snd_buf[sn].rto + Interval + Gap
        /\ probe_wait # 0 => time - probedAt < probe_wait + Interval + Gap

\* A segment is sent again before its timeout only when the other end has
\* received a later one: acknowledgements that come late, twice or out of
\* order never make it look lost.
EarlyWhenPassed ==
    [][\A sn \in DOMAIN snd_buf \cap DOMAIN snd_buf' :
          snd_buf'[sn].xmit > snd_buf[sn].xmit /\ Diff(current', snd_buf[sn].resendts) < 0
              => \E later \in got : later > sn]_vars
=============================================================================
