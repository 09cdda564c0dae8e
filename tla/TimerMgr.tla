------------------------------ MODULE TimerMgr ------------------------------
(***************************************************************************)
(* The timer manager of a worker loop: an expiry queue that Drive walks,   *)
(* and the operations of the users of its timers, which run between two    *)
(* Drives or inside the callback of a timer.  Inside, an operation is only *)
(* marked; Drive carries it out when the walk has ended.  Other threads    *)
(* have timers created through a list under a lock.                        *)
(*                                                                         *)
(* Abstractions.  Users are arbitrary: any legal call in any order.  Timers*)
(* of equal expiry go off in any order (the code: by id).  A TimeData and  *)
(* its AsynTimeData are one record; what is marked is 0 when it is not     *)
(* read.  Cancel handlers are left out: no code sets one.                  *)
(***************************************************************************)
EXTENDS Integers, Sequences, FiniteSets

CONSTANTS
    Timers,        \* names for timers; the name of a deleted one is used again
    Off,
    Periods,       \* what users ask for
    RescheduleDue, \* callbacks may schedule another timer that is due as well
    MaxTime        \* bound of the model: the clock

ASSUME TimerAssumption ==
    /\ Off \notin Timers \cup Nat
    /\ Periods \subseteq Nat
    /\ RescheduleDue \in BOOLEAN
    /\ MaxTime \in Nat

VARIABLES
    clock,
    timers,        \* LibTimer objects alive
    data,          \* _allTimeData: timer -> its TimeData
    queue,         \* _expireQueue: timer -> the key it was inserted with
    driving,       \* _driving
    curTime,       \* _curTime
    running,       \* the timer whose OnTimeOut Drive has called, or Off
    pending,       \* _pending: timers to create for other threads
    pendingCache,  \* _pendingCache: those being created
    asked          \* history: when users expect a timer to go off next

mgrVars == <<driving, curTime, running>>
lists == <<pending, pendingCache>>
vars == <<clock, timers, data, queue, mgrVars, lists, asked>>

TimeData == [sched: BOOLEAN, expired: Nat, period: Nat, reg: BOOLEAN,
             unreg: BOOLEAN, destroy: BOOLEAN, newExpired: Nat, newPeriod: Nat]

BuildTimerInfo == [timer: Timers, start: Nat, period: Nat]

NotSet == [due |-> Off, period |-> 0]

TypeOK ==
    /\ clock \in Nat
    /\ curTime \in Nat
    /\ DOMAIN data \subseteq Timers
    /\ \A t \in DOMAIN data : data[t] \in TimeData
    /\ timers \subseteq DOMAIN data
    /\ DOMAIN queue \subseteq Timers
    /\ \A t \in DOMAIN queue : queue[t] \in Nat
    /\ driving \in BOOLEAN
    /\ running \in DOMAIN data \cup {Off}
    /\ pending \in Seq(BuildTimerInfo)
    /\ pendingCache \in Seq(BuildTimerInfo)
    /\ asked \in [Timers -> [due: Nat, period: Nat] \cup {NotSet}]

Empty == [t \in {} |-> 0]

Init ==
    /\ clock = 0
    /\ timers = {}
    /\ data = Empty
    /\ queue = Empty
    /\ driving = FALSE
    /\ curTime = 0
    /\ running = Off
    /\ pending = <<>>
    /\ pendingCache = <<>>
    /\ asked = [t \in Timers |-> NotSet]

-----------------------------------------------------------------------------
(* Plausible mistakes in the operators below: each violates one of the      *)
(* properties, which shows that the property depends on the code.           *)

\* Schedule does not cancel a timer that is scheduled.
CancelFirstNever(d) == FALSE

\* A deleted timer is freed at once, also inside its own callback.
DestroysAlways == TRUE

\* A deleted timer still counts as scheduled.
MaskDestroyOnly(d) == [d EXCEPT !.destroy = TRUE]

\* Unregister and register exclude one another.
RegistersOnly(d) == d.reg /\ ~d.unreg

\* Drive calls whatever has expired.
CallsAll(t) == TRUE

-----------------------------------------------------------------------------
(* std::set keeps an element that is there already where it is. *)

Insert(q, t, key) ==
    [u \in DOMAIN q \cup {t} |-> IF u \in DOMAIN q THEN q[u] ELSE key]

Erase(f, S) == [u \in DOMAIN f \ S |-> f[u]]

\* NewTimeData.
NewTimeData == [sched |-> FALSE, expired |-> 0, period |-> 0, reg |-> FALSE,
                unreg |-> FALSE, destroy |-> FALSE, newExpired |-> 0, newPeriod |-> 0]

\* The marks of AsynTimeData, and what _AsynRegister and the like do beside.
MaskRegister(d, e, p) ==
    [d EXCEPT !.sched = TRUE, !.reg = TRUE, !.newExpired = e, !.newPeriod = p]

MaskUnRegister(d) ==
    [d EXCEPT !.sched = FALSE, !.reg = FALSE, !.unreg = TRUE,
              !.newExpired = 0, !.newPeriod = 0]

MaskDestroy(d) ==
    [d EXCEPT !.sched = FALSE, !.reg = FALSE, !.unreg = FALSE, !.destroy = TRUE,
              !.newExpired = 0, !.newPeriod = 0]

Registered(d, e, p) == [d EXCEPT !.sched = TRUE, !.expired = e, !.period = p]

UnRegistered(d) == [d EXCEPT !.sched = FALSE]

-----------------------------------------------------------------------------
(* The operations of users.  The code of a user runs between two Drives, in *)
(* the callback of a timer, and when a timer has been created for a thread. *)

UserRuns == ~driving \/ running # Off

Reserved == {pending[i].timer : i \in DOMAIN pending}
                \cup {pendingCache[i].timer : i \in DOMAIN pendingCache}

\* new LibTimer.
New(t) ==
    /\ UserRuns
    /\ t \in Timers \ (DOMAIN data \cup Reserved)
    /\ timers' = timers \cup {t}
    /\ data' = [u \in DOMAIN data \cup {t} |->
                  IF u = t THEN NewTimeData ELSE data[u]]
    /\ UNCHANGED <<clock, queue, mgrVars, lists, asked>>

\* LibTimer::Schedule cancels a timer that is scheduled.
CancelsFirst(d) == d.sched

Scheduled(t, e, p) ==
    LET d == data[t]
        old == CancelsFirst(d)
    IN  IF driving
        THEN /\ data' = [data EXCEPT ![t] =
                           MaskRegister(IF old THEN MaskUnRegister(d) ELSE d, e, p)]
             /\ UNCHANGED queue
        ELSE /\ data' = [data EXCEPT ![t] = Registered(d, e, p)]
             /\ queue' = Insert(IF old THEN Erase(queue, {t}) ELSE queue, t, e)

\* Another timer that Drive is about to call.
AboutToFire(t) ==
    driving /\ t # running /\ t \in DOMAIN queue /\ data[t].expired <= curTime

Schedule(t, p) ==
    /\ UserRuns
    /\ t \in timers
    /\ RescheduleDue \/ ~AboutToFire(t)
    /\ Scheduled(t, clock + p, p)
    /\ asked' = [asked EXCEPT ![t] = [due |-> clock + p, period |-> p]]
    /\ UNCHANGED <<clock, timers, mgrVars, lists>>

Cancel(t) ==
    /\ UserRuns
    /\ t \in timers
    /\ data[t].sched
    /\ data' = [data EXCEPT ![t] =
                  IF driving THEN MaskUnRegister(@) ELSE UnRegistered(@)]
    /\ queue' = IF driving THEN queue ELSE Erase(queue, {t})
    /\ asked' = [asked EXCEPT ![t] = NotSet]
    /\ UNCHANGED <<clock, timers, mgrVars, lists>>

\* delete of a LibTimer: OnTimerDestroy.
DestroysNow == ~driving

Delete(t) ==
    /\ UserRuns
    /\ t \in timers
    /\ timers' = timers \ {t}
    /\ IF DestroysNow
       THEN data' = Erase(data, {t}) /\ queue' = Erase(queue, {t})
       ELSE data' = [data EXCEPT ![t] = MaskDestroy(@)] /\ UNCHANGED queue
    /\ asked' = [asked EXCEPT ![t] = NotSet]
    /\ UNCHANGED <<clock, mgrVars, lists>>

\* AddTimer of another thread.
AddTimer(t, p) ==
    /\ t \in Timers \ (DOMAIN data \cup Reserved)
    /\ pending' = Append(pending, [timer |-> t, start |-> clock, period |-> p])
    /\ UNCHANGED <<clock, timers, data, queue, mgrVars, pendingCache, asked>>

-----------------------------------------------------------------------------
(* Drive. *)

BeforeDrive ==
    /\ ~driving
    /\ pendingCache = <<>>
    /\ driving' = TRUE
    /\ curTime' = clock
    /\ UNCHANGED <<clock, timers, data, queue, running, lists, asked>>

\* The walk stands at t, which has expired.
At(t) ==
    /\ driving
    /\ running = Off
    /\ t \in DOMAIN queue
    /\ \A u \in DOMAIN queue : queue[t] <= queue[u]
    /\ data[t].expired <= curTime

Calls(t) == data[t].sched

OnTimeOut(t) ==
    /\ At(t)
    /\ Calls(t)
    /\ running' = t
    /\ asked' = IF asked[t] = NotSet THEN asked
                ELSE [asked EXCEPT ![t].due = @ + asked[t].period]
    /\ UNCHANGED <<clock, timers, data, queue, driving, curTime, lists>>

Skip(t) ==
    /\ At(t)
    /\ ~Calls(t)
    /\ queue' = Erase(queue, {t})
    /\ UNCHANGED <<clock, timers, data, mgrVars, lists, asked>>

\* The callback returns: the timer is scheduled again unless it says otherwise.
Repeats(d) == d.sched /\ ~d.reg

Return ==
    /\ running # Off
    /\ data' = [data EXCEPT ![running] =
                  IF Repeats(@) THEN MaskRegister(@, @.expired + @.period, @.period) ELSE @]
    /\ queue' = Erase(queue, {running})
    /\ running' = Off
    /\ UNCHANGED <<clock, timers, driving, curTime, lists, asked>>

\* _AfterDrive carries out what is marked on d.
Registers(d) == d.reg

Deferred(d) ==
    [IF Registers(d) THEN Registered(d, d.newExpired, d.newPeriod) ELSE d
        EXCEPT !.reg = FALSE, !.unreg = FALSE, !.newExpired = 0, !.newPeriod = 0]

AfterDrive ==
    /\ driving
    /\ running = Off
    /\ ~\E t \in DOMAIN queue : At(t)
    /\ LET gone == {t \in DOMAIN data : data[t].destroy}
           rest == Erase(queue, gone \cup {t \in DOMAIN data : data[t].unreg})
           reg  == {t \in DOMAIN data : Registers(data[t])}
       IN  /\ data' = [t \in DOMAIN data \ gone |-> Deferred(data[t])]
           /\ queue' = [t \in DOMAIN rest \cup reg |->
                          IF t \in DOMAIN rest THEN rest[t] ELSE data[t].newExpired]
    /\ driving' = FALSE
    /\ pending' = pendingCache                    \* _DoPendings swaps the lists
    /\ pendingCache' = pending
    /\ UNCHANGED <<clock, timers, curTime, running, asked>>

\* _DoPendings creates the next timer.
NewPending ==
    /\ ~driving
    /\ pendingCache # <<>>
    /\ LET b == Head(pendingCache)
       IN  /\ timers' = timers \cup {b.timer}
           /\ data' = [u \in DOMAIN data \cup {b.timer} |->
                         IF u = b.timer
                         THEN Registered(NewTimeData, b.start + b.period, b.period)
                         ELSE data[u]]
           /\ queue' = Insert(queue, b.timer, b.start + b.period)
           /\ asked' = [asked EXCEPT ![b.timer] = [due |-> b.start + b.period,
                                                   period |-> b.period]]
    /\ pendingCache' = Tail(pendingCache)
    /\ UNCHANGED <<clock, mgrVars, pending>>

Tick ==
    /\ clock < MaxTime                                       \* bound: MaxTime
    /\ clock' = clock + 1
    /\ UNCHANGED <<timers, data, queue, mgrVars, lists, asked>>

-----------------------------------------------------------------------------

UserOps ==
    \/ \E t \in Timers : New(t) \/ Cancel(t) \/ Delete(t)
    \/ \E t \in Timers, p \in Periods : Schedule(t, p) \/ AddTimer(t, p)

Drive ==
    \/ BeforeDrive \/ Return \/ AfterDrive \/ NewPending
    \/ \E t \in Timers : OnTimeOut(t) \/ Skip(t)

Next == UserOps \/ Drive \/ Tick

Spec == Init /\ [][Next]_vars

-----------------------------------------------------------------------------
(* What must hold. *)

\* No TimeData is freed while _expireQueue holds it, and Drive never
\* calls a timer whose LibTimer has been deleted.
NoDangling ==
    /\ DOMAIN queue \subseteq DOMAIN data
    /\ \A t \in DOMAIN data : data[t].sched => t \in timers

\* The key of an element of the std::set never changes under it: _Register
\* always meets a timer that is not in the queue.
OrderKept == \A t \in DOMAIN queue : queue[t] = data[t].expired

\* Between two Drives the queue holds what users asked for last: of several
\* operations marked on a timer the last one has won.
QueueAsAsked ==
    ~driving => \A t \in Timers :
        IF asked[t] = NotSet THEN t \notin DOMAIN queue
        ELSE t \in DOMAIN queue /\ queue[t] = asked[t].due

\* The manager keeps the promise of a timer service: nothing goes off early,
\* nothing goes off that was cancelled or deleted, and every operation counts
\* at once although it may be deferred.
Service == INSTANCE TimerService

ServiceSpec == Service!Spec

\* A timer that is scheduled anew is first cancelled (LibTimer.cpp:43): it does
\* not go off before the time that was asked for last.
NotBeforeDue ==
    [][\A t \in Timers : running # t /\ running' = t => asked[t].due <= curTime]_vars
=============================================================================
