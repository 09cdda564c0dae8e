--------------------------- MODULE TimerMgrProofs ---------------------------
(***************************************************************************)
(* Machine-checked facts about TimerMgr, for any set of timers and periods *)
(* and any bound on the clock.                                             *)
(***************************************************************************)
EXTENDS TimerMgr, SequenceTheorems, TLAPS

-----------------------------------------------------------------------------
(* The inductive invariant. *)

\* What may be marked on a TimeData; between two Drives nothing is.
Marks ==
    \A t \in DOMAIN data :
        /\ t \in timers <=> ~data[t].destroy
        /\ data[t].destroy => ~data[t].sched
        /\ data[t].reg => data[t].sched
        /\ ~driving => ~data[t].reg /\ ~data[t].unreg /\ ~data[t].destroy

\* A timer that is scheduled is in the queue to stay or about to be registered;
\* what else is in the queue is about to leave it; and what is about to be
\* registered leaves the queue before.
QueueMarked ==
    /\ DOMAIN queue \subseteq DOMAIN data
    /\ \A t \in DOMAIN queue :
          /\ queue[t] = data[t].expired
          /\ data[t].sched \/ data[t].unreg \/ data[t].destroy
          /\ data[t].reg => data[t].unreg
    /\ \A t \in DOMAIN data :
          data[t].sched => data[t].reg \/ (t \in DOMAIN queue /\ ~data[t].unreg)

\* Callbacks run inside Drive only, whose time is not in the future.
InDrive ==
    /\ running # Off => driving
    /\ curTime <= clock

\* The timers to create for other threads are new ones, each of them once.
PendingNew ==
    /\ Reserved \cap DOMAIN data = {}
    /\ \A i, j \in DOMAIN pending : pending[i].timer = pending[j].timer => i = j
    /\ \A i, j \in DOMAIN pendingCache :
          pendingCache[i].timer = pendingCache[j].timer => i = j
    /\ \A i \in DOMAIN pending, j \in DOMAIN pendingCache :
          pending[i].timer # pendingCache[j].timer

IInv == TypeOK /\ Marks /\ QueueMarked /\ InDrive /\ PendingNew

\* What a user asked for is what is marked or, where nothing is, what the TimeData
\* says, one period later once the callback runs.  Drive does not come to a timer
\* that another one's callback has scheduled.
Asked(t) ==
    /\ asked[t] # NotSet <=> t \in DOMAIN data /\ data[t].sched
    /\ t \in DOMAIN data /\ data[t].reg =>
          /\ asked[t] = [due |-> data[t].newExpired, period |-> data[t].newPeriod]
          /\ t \in DOMAIN queue => t = running \/ curTime < data[t].expired
    /\ t \in DOMAIN data /\ data[t].sched /\ ~data[t].reg =>
          asked[t] = [due |-> IF t = running THEN data[t].expired + data[t].period
                              ELSE data[t].expired,
                      period |-> data[t].period]

AsAsked == \A t \in Timers : Asked(t)

-----------------------------------------------------------------------------
(* What operators return. *)

LEMMA MarksType ==
    ASSUME NEW d \in TimeData, NEW e \in Nat, NEW p \in Nat
    PROVE  /\ NewTimeData \in TimeData
           /\ MaskRegister(d, e, p) \in TimeData
           /\ MaskUnRegister(d) \in TimeData
           /\ MaskDestroy(d) \in TimeData
           /\ Registered(d, e, p) \in TimeData
           /\ UnRegistered(d) \in TimeData
           /\ Deferred(d) \in TimeData
  BY DEF NewTimeData, MaskRegister, MaskUnRegister, MaskDestroy, Registered,
         UnRegistered, Deferred, Registers, TimeData

\* Where nothing of the pending lists changes, new timers stay new.
LEMMA PendingKept ==
    ASSUME PendingNew, UNCHANGED lists, DOMAIN data' \subseteq DOMAIN data
    PROVE  PendingNew'
  BY DEF PendingNew, Reserved, lists

-----------------------------------------------------------------------------
(* The invariant is inductive. *)

LEMMA InitInv == Init => IInv
  <1>. SUFFICES ASSUME Init PROVE IInv
    OBVIOUS
  <1>1. TypeOK
    <2>1. <<>> \in Seq(BuildTimerInfo)
      BY EmptySeq
    <2>2. [t \in Timers |-> NotSet] \in [Timers -> [due: Nat, period: Nat] \cup {NotSet}]
      BY DEF NotSet
    <2>. QED
      BY <2>1, <2>2 DEF Init, TypeOK, Empty
  <1>2. Marks /\ QueueMarked /\ InDrive
    BY DEF Init, Marks, QueueMarked, InDrive, Empty
  <1>3. PendingNew
    BY DEF Init, PendingNew, Reserved, Empty
  <1>. QED
    BY <1>1, <1>2, <1>3 DEF IInv

LEMMA NewInv == IInv /\ (\E t \in Timers : New(t)) => IInv'
  <1>. SUFFICES ASSUME IInv, NEW t \in Timers, New(t) PROVE IInv'
    OBVIOUS
  <1>. USE DEF IInv
  <1>1. /\ t \notin DOMAIN data /\ t \notin timers /\ t \notin DOMAIN queue
        /\ DOMAIN data' = DOMAIN data \cup {t}
        /\ data'[t] = NewTimeData
        /\ \A u \in DOMAIN data : u # t /\ data'[u] = data[u]
        /\ UNCHANGED <<clock, queue, mgrVars, lists, asked>>
    BY DEF New, TypeOK, QueueMarked
  <1>2. TypeOK'
    <2>1. NewTimeData \in TimeData
      BY DEF NewTimeData, TimeData
    <2>. QED
      BY <1>1, <2>1 DEF New, TypeOK, mgrVars, lists
  <1>3. Marks'
    BY <1>1 DEF New, Marks, NewTimeData, mgrVars
  <1>4. QueueMarked'
    BY <1>1 DEF QueueMarked, NewTimeData
  <1>5. InDrive'
    BY <1>1 DEF InDrive, mgrVars
  <1>6. PendingNew'
    BY <1>1 DEF New, PendingNew, Reserved, lists
  <1>. QED
    BY <1>2, <1>3, <1>4, <1>5, <1>6

LEMMA ScheduleInv ==
    IInv /\ (\E t \in Timers, p \in Periods : Schedule(t, p)) => IInv'
  <1>. SUFFICES ASSUME IInv, NEW t \in Timers, NEW p \in Periods, Schedule(t, p)
                PROVE IInv'
    OBVIOUS
  <1>. USE DEF IInv
  <1>. DEFINE e == clock + p
  <1>0. e \in Nat /\ p \in Nat
    BY TimerAssumption DEF TypeOK
  <1>1. /\ t \in DOMAIN data /\ t \in timers
        /\ UNCHANGED <<clock, timers, mgrVars, lists>>
    BY DEF Schedule, TypeOK
  <1>2. asked' \in [Timers -> [due: Nat, period: Nat] \cup {NotSet}]
    BY <1>0 DEF Schedule, TypeOK
  <1>3. CASE driving
    <2>1. PICK d \in TimeData : /\ d = data[t] \/ d = MaskUnRegister(data[t])
                                /\ data[t].sched => d = MaskUnRegister(data[t])
                                /\ ~data[t].sched => d = data[t]
                                /\ data' = [data EXCEPT ![t] = MaskRegister(d, e, p)]
      BY <1>0, <1>1, <1>3, MarksType DEF Schedule, Scheduled, CancelsFirst, TypeOK
    <2>2. /\ DOMAIN data' = DOMAIN data
          /\ data'[t] = MaskRegister(d, e, p) /\ data'[t] \in TimeData
          /\ \A u \in DOMAIN data : u # t => data'[u] = data[u]
          /\ queue' = queue
      BY <1>0, <1>1, <1>3, <2>1, MarksType DEF Schedule, Scheduled
    <2>3. /\ data'[t].sched /\ data'[t].reg /\ data'[t].expired = data[t].expired
          /\ data'[t].destroy = data[t].destroy
          /\ data'[t].unreg <=> data[t].sched \/ data[t].unreg
      BY <2>1, <2>2, <1>1 DEF MaskRegister, MaskUnRegister, TimeData, TypeOK
    <2>4. TypeOK'
      BY <1>1, <1>2, <2>2 DEF TypeOK, mgrVars, lists
    <2>5. Marks'
      BY <1>1, <1>3, <2>2, <2>3 DEF Marks, mgrVars
    <2>6. QueueMarked'
      BY <1>1, <2>2, <2>3 DEF Marks, QueueMarked
    <2>. QED
      BY <1>1, <2>2, <2>4, <2>5, <2>6, PendingKept DEF InDrive, mgrVars
  <1>4. CASE ~driving
    <2>1. /\ data' = [data EXCEPT ![t] = Registered(data[t], e, p)]
          /\ queue' = Insert(IF data[t].sched THEN Erase(queue, {t}) ELSE queue, t, e)
      BY <1>4 DEF Schedule, Scheduled, CancelsFirst
    <2>2. /\ DOMAIN data' = DOMAIN data
          /\ data'[t] = Registered(data[t], e, p) /\ data'[t] \in TimeData
          /\ \A u \in DOMAIN data : u # t => data'[u] = data[u]
      BY <1>0, <1>1, <2>1, MarksType DEF TypeOK
    <2>3. t \in DOMAIN queue => data[t].sched
      BY <1>4 DEF QueueMarked, Marks
    <2>4. /\ DOMAIN queue' = DOMAIN queue \cup {t}
          /\ queue'[t] = e
          /\ \A u \in DOMAIN queue : u # t => queue'[u] = queue[u]
      BY <2>1, <2>3 DEF Insert, Erase
    <2>5. /\ data'[t].sched /\ data'[t].expired = e
          /\ data'[t].reg = data[t].reg /\ data'[t].unreg = data[t].unreg
          /\ data'[t].destroy = data[t].destroy
      BY <2>2, <1>1 DEF Registered, TimeData, TypeOK
    <2>6. TypeOK'
      BY <1>0, <1>1, <1>2, <2>2, <2>4 DEF TypeOK, mgrVars, lists
    <2>7. Marks'
      BY <1>1, <1>4, <2>2, <2>5 DEF Marks, mgrVars
    <2>8. QueueMarked'
      BY <1>1, <1>4, <2>2, <2>4, <2>5 DEF Marks, QueueMarked
    <2>. QED
      BY <1>1, <2>2, <2>6, <2>7, <2>8, PendingKept DEF InDrive, mgrVars
  <1>. QED
    BY <1>3, <1>4

LEMMA CancelInv == IInv /\ (\E t \in Timers : Cancel(t)) => IInv'
  <1>. SUFFICES ASSUME IInv, NEW t \in Timers, Cancel(t) PROVE IInv'
    OBVIOUS
  <1>. USE DEF IInv
  <1>1. /\ t \in DOMAIN data /\ t \in timers /\ data[t].sched /\ data[t] \in TimeData
        /\ UNCHANGED <<clock, timers, mgrVars, lists>>
    BY DEF Cancel, TypeOK
  <1>2. PICK d \in TimeData :
          /\ d = IF driving THEN MaskUnRegister(data[t]) ELSE UnRegistered(data[t])
          /\ data' = [data EXCEPT ![t] = d]
    BY <1>1, MarksType DEF Cancel
  <1>3. /\ DOMAIN data' = DOMAIN data
        /\ data'[t] = d
        /\ \A u \in DOMAIN data : u # t => data'[u] = data[u]
    BY <1>1, <1>2
  <1>4. /\ ~d.sched /\ d.expired = data[t].expired /\ d.destroy = data[t].destroy
        /\ driving => d.unreg /\ ~d.reg
        /\ ~driving => d.unreg = data[t].unreg /\ d.reg = data[t].reg
    BY <1>1, <1>2 DEF MaskUnRegister, UnRegistered, TimeData
  <1>5. /\ DOMAIN queue' = IF driving THEN DOMAIN queue ELSE DOMAIN queue \ {t}
        /\ \A u \in DOMAIN queue' : queue'[u] = queue[u]
    BY DEF Cancel, Erase
  <1>6. TypeOK'
    <2>1. asked' \in [Timers -> [due: Nat, period: Nat] \cup {NotSet}]
      BY DEF Cancel, TypeOK
    <2>. QED
      BY <1>1, <1>3, <1>5, <2>1 DEF TypeOK, mgrVars, lists
  <1>7. Marks'
    BY <1>1, <1>3, <1>4 DEF Marks, mgrVars
  <1>8. QueueMarked'
    BY <1>1, <1>3, <1>4, <1>5 DEF Marks, QueueMarked
  <1>. QED
    BY <1>1, <1>3, <1>6, <1>7, <1>8, PendingKept DEF InDrive, mgrVars

LEMMA DeleteInv == IInv /\ (\E t \in Timers : Delete(t)) => IInv'
  <1>. SUFFICES ASSUME IInv, NEW t \in Timers, Delete(t) PROVE IInv'
    OBVIOUS
  <1>. USE DEF IInv
  <1>1. /\ t \in DOMAIN data /\ t \in timers /\ data[t] \in TimeData
        /\ timers' = timers \ {t}
        /\ UNCHANGED <<clock, mgrVars, lists>>
    BY DEF Delete, TypeOK
  <1>2. asked' \in [Timers -> [due: Nat, period: Nat] \cup {NotSet}]
    BY DEF Delete, TypeOK
  <1>3. CASE driving
    <2>1. PICK d \in TimeData : d = MaskDestroy(data[t]) /\ data' = [data EXCEPT ![t] = d]
      BY <1>1, <1>3, MarksType DEF Delete, DestroysNow
    <2>2. /\ DOMAIN data' = DOMAIN data /\ queue' = queue
          /\ data'[t] = d
          /\ \A u \in DOMAIN data : u # t => data'[u] = data[u]
      BY <1>1, <1>3, <2>1 DEF Delete, DestroysNow
    <2>3. ~d.sched /\ ~d.reg /\ d.destroy /\ d.expired = data[t].expired
      BY <1>1, <2>1 DEF MaskDestroy, TimeData
    <2>4. TypeOK'
      BY <1>1, <1>2, <2>2 DEF TypeOK, mgrVars, lists
    <2>5. Marks'
      BY <1>1, <1>3, <2>2, <2>3 DEF Marks, mgrVars
    <2>6. QueueMarked'
      BY <2>2, <2>3 DEF QueueMarked
    <2>. QED
      BY <1>1, <2>2, <2>4, <2>5, <2>6, PendingKept DEF InDrive, mgrVars
  <1>4. CASE ~driving
    <2>1. /\ DOMAIN data' = DOMAIN data \ {t}
          /\ \A u \in DOMAIN data' : data'[u] = data[u]
          /\ DOMAIN queue' = DOMAIN queue \ {t}
          /\ \A u \in DOMAIN queue' : queue'[u] = queue[u]
      BY <1>4 DEF Delete, DestroysNow, Erase
    <2>2. running' \in DOMAIN data' \cup {Off}
      BY <1>1, <1>4 DEF InDrive, mgrVars
    <2>3. TypeOK'
      BY <1>1, <1>2, <2>1, <2>2 DEF TypeOK, mgrVars, lists
    <2>4. Marks'
      BY <1>1, <1>4, <2>1 DEF Marks, mgrVars
    <2>5. QueueMarked'
      BY <2>1 DEF QueueMarked
    <2>. QED
      BY <1>1, <2>1, <2>3, <2>4, <2>5, PendingKept DEF InDrive, mgrVars
  <1>. QED
    BY <1>3, <1>4

LEMMA AddTimerInv ==
    IInv /\ (\E t \in Timers, p \in Periods : AddTimer(t, p)) => IInv'
  <1>. SUFFICES ASSUME IInv, NEW t \in Timers, NEW p \in Periods, AddTimer(t, p)
                PROVE IInv'
    OBVIOUS
  <1>. USE DEF IInv
  <1>. DEFINE b == [timer |-> t, start |-> clock, period |-> p]
  <1>1. /\ b \in BuildTimerInfo /\ b.timer = t
        /\ UNCHANGED <<clock, timers, data, queue, mgrVars, pendingCache, asked>>
    BY TimerAssumption DEF AddTimer, TypeOK, BuildTimerInfo
  <1>2. /\ pending' \in Seq(BuildTimerInfo)
        /\ DOMAIN pending' = DOMAIN pending \cup {Len(pending) + 1}
        /\ pending'[Len(pending) + 1] = b
        /\ \A i \in DOMAIN pending : i # Len(pending) + 1 /\ pending'[i] = pending[i]
    BY <1>1, AppendProperties DEF AddTimer, TypeOK
  <1>3. TypeOK'
    BY <1>1, <1>2 DEF TypeOK, mgrVars
  <1>4. Marks' /\ QueueMarked' /\ InDrive'
    BY <1>1 DEF Marks, QueueMarked, InDrive, mgrVars
  <1>5. PendingNew'
    <2>1. /\ t \notin DOMAIN data
          /\ \A i \in DOMAIN pending : pending[i].timer # t
          /\ \A i \in DOMAIN pendingCache : pendingCache[i].timer # t
      BY DEF AddTimer, Reserved
    <2>2. Reserved' = Reserved \cup {t}
      BY <1>1, <1>2 DEF Reserved
    <2>. QED
      BY <1>1, <1>2, <2>1, <2>2 DEF PendingNew
  <1>. QED
    BY <1>3, <1>4, <1>5

LEMMA BeforeDriveInv == IInv /\ BeforeDrive => IInv'
  <1>. SUFFICES ASSUME IInv, BeforeDrive PROVE IInv'
    OBVIOUS
  <1>. USE DEF IInv
  <1>1. /\ ~driving /\ driving' = TRUE /\ curTime' = clock
        /\ UNCHANGED <<clock, timers, data, queue, running, lists, asked>>
    BY DEF BeforeDrive
  <1>2. TypeOK'
    BY <1>1 DEF TypeOK, lists
  <1>3. Marks' /\ QueueMarked' /\ InDrive'
    BY <1>1 DEF Marks, QueueMarked, InDrive, TypeOK
  <1>. QED
    BY <1>1, <1>2, <1>3, PendingKept

LEMMA OnTimeOutInv == IInv /\ (\E t \in Timers : OnTimeOut(t)) => IInv'
  <1>. SUFFICES ASSUME IInv, NEW t \in Timers, OnTimeOut(t) PROVE IInv'
    OBVIOUS
  <1>. USE DEF IInv
  <1>1. /\ driving /\ t \in DOMAIN queue /\ running' = t
        /\ UNCHANGED <<clock, timers, data, queue, driving, curTime, lists>>
    BY DEF OnTimeOut, At
  <1>2. asked' \in [Timers -> [due: Nat, period: Nat] \cup {NotSet}]
    <2>1. CASE asked[t] = NotSet
      BY <2>1 DEF OnTimeOut, TypeOK
    <2>2. CASE asked[t] # NotSet
      <3>1. asked[t] \in [due: Nat, period: Nat]
        BY <2>2 DEF TypeOK
      <3>. QED
        BY <2>2, <3>1 DEF OnTimeOut, TypeOK
    <2>. QED
      BY <2>1, <2>2
  <1>3. TypeOK'
    BY <1>1, <1>2 DEF TypeOK, QueueMarked, lists
  <1>4. Marks' /\ QueueMarked' /\ InDrive'
    BY <1>1 DEF Marks, QueueMarked, InDrive
  <1>. QED
    BY <1>1, <1>3, <1>4, PendingKept

LEMMA SkipInv == IInv /\ (\E t \in Timers : Skip(t)) => IInv'
  <1>. SUFFICES ASSUME IInv, NEW t \in Timers, Skip(t) PROVE IInv'
    OBVIOUS
  <1>. USE DEF IInv
  <1>1. /\ ~data[t].sched
        /\ DOMAIN queue' = DOMAIN queue \ {t}
        /\ \A u \in DOMAIN queue' : queue'[u] = queue[u]
        /\ UNCHANGED <<clock, timers, data, mgrVars, lists, asked>>
    BY DEF Skip, Calls, Erase
  <1>2. TypeOK'
    BY <1>1 DEF TypeOK, mgrVars, lists
  <1>3. Marks' /\ InDrive'
    BY <1>1 DEF Marks, InDrive, mgrVars
  <1>4. QueueMarked'
    BY <1>1 DEF QueueMarked
  <1>. QED
    BY <1>1, <1>2, <1>3, <1>4, PendingKept

\* What the callback leaves: its timer is out of the queue and, if it is still
\* scheduled, marked to be registered again.
LEMMA Returned ==
    ASSUME IInv, Return
    PROVE  /\ driving /\ running \in DOMAIN data
           /\ DOMAIN data' = DOMAIN data
           /\ \A u \in DOMAIN data : u # running => data'[u] = data[u]
           /\ data'[running] = IF Repeats(data[running])
                               THEN MaskRegister(data[running],
                                        data[running].expired + data[running].period,
                                        data[running].period)
                               ELSE data[running]
           /\ data'[running] \in TimeData
           /\ DOMAIN queue' = DOMAIN queue \ {running}
           /\ \A u \in DOMAIN queue' : queue'[u] = queue[u]
           /\ running' = Off
           /\ UNCHANGED <<clock, timers, driving, curTime, lists, asked>>
  <1>1. driving /\ running \in DOMAIN data /\ data[running] \in TimeData
    BY DEF IInv, InDrive, TypeOK, Return
  <1>2. data[running].expired + data[running].period \in Nat /\ data[running].period \in Nat
    BY <1>1 DEF TimeData
  <1>. QED
    BY <1>1, <1>2, MarksType DEF Return, Erase

LEMMA ReturnInv == IInv /\ Return => IInv'
  <1>. SUFFICES ASSUME IInv, Return PROVE IInv'
    OBVIOUS
  <1>. USE DEF IInv
  <1>1. /\ driving /\ running \in DOMAIN data
        /\ DOMAIN data' = DOMAIN data
        /\ \A u \in DOMAIN data : u # running => data'[u] = data[u]
        /\ data'[running] \in TimeData
        /\ DOMAIN queue' = DOMAIN queue \ {running}
        /\ \A u \in DOMAIN queue' : queue'[u] = queue[u]
        /\ running' = Off
        /\ UNCHANGED <<clock, timers, driving, curTime, lists, asked>>
    BY Returned
  <1>2. /\ data'[running].sched = data[running].sched
        /\ data'[running].destroy = data[running].destroy
        /\ data'[running].reg => data'[running].sched
        /\ data'[running].sched => data'[running].reg
    <2>1. data[running] \in TimeData
      BY <1>1 DEF TypeOK
    <2>2. data[running].reg => data[running].sched
      BY <1>1 DEF Marks
    <2>3. CASE Repeats(data[running])
      BY <2>1, <2>3, Returned DEF Repeats, MaskRegister, TimeData
    <2>4. CASE ~Repeats(data[running])
      BY <2>2, <2>4, Returned DEF Repeats
    <2>. QED
      BY <2>3, <2>4
  <1>3. TypeOK'
    BY <1>1 DEF TypeOK, lists
  <1>4. Marks'
    BY <1>1, <1>2 DEF Marks
  <1>5. QueueMarked'
    BY <1>1, <1>2 DEF QueueMarked
  <1>6. InDrive'
    BY <1>1 DEF InDrive
  <1>. QED
    BY <1>1, <1>3, <1>4, <1>5, <1>6, PendingKept

\* What AfterDrive leaves, for each timer.
LEMMA AfterDriven ==
    ASSUME IInv, AfterDrive
    PROVE  /\ driving /\ running = Off /\ ~driving'
           /\ DOMAIN data' = timers
           /\ \A t \in timers :
                 /\ data'[t] \in TimeData
                 /\ data'[t].sched = data[t].sched
                 /\ ~data'[t].reg /\ ~data'[t].unreg /\ ~data'[t].destroy
                 /\ IF data[t].reg
                    THEN data'[t].expired = data[t].newExpired
                            /\ data'[t].period = data[t].newPeriod
                    ELSE data'[t].expired = data[t].expired
                            /\ data'[t].period = data[t].period
           /\ DOMAIN queue' = {t \in timers : data[t].sched}
           /\ \A t \in DOMAIN queue' : queue'[t] = data'[t].expired
           /\ UNCHANGED <<clock, timers, curTime, running, asked>>
  <1>. USE DEF IInv
  <1>. DEFINE gone == {t \in DOMAIN data : data[t].destroy}
              rest == Erase(queue, gone \cup {t \in DOMAIN data : data[t].unreg})
              reg == {t \in DOMAIN data : data[t].reg}
  <1>1. /\ data' = [t \in DOMAIN data \ gone |-> Deferred(data[t])]
        /\ queue' = [t \in DOMAIN rest \cup reg |->
                       IF t \in DOMAIN rest THEN rest[t] ELSE data[t].newExpired]
    BY DEF AfterDrive, Registers
  <1>2. DOMAIN data \ gone = timers
    BY DEF TypeOK, Marks
  <1>3. DOMAIN data' = timers /\ \A t \in timers : data'[t] = Deferred(data[t])
    BY <1>1, <1>2
  <1>4. ASSUME NEW t \in timers
        PROVE  /\ data'[t] \in TimeData
               /\ data'[t].sched = data[t].sched
               /\ ~data'[t].reg /\ ~data'[t].unreg /\ ~data'[t].destroy
               /\ data[t].reg => data'[t].expired = data[t].newExpired
                                   /\ data'[t].period = data[t].newPeriod
               /\ ~data[t].reg => data'[t].expired = data[t].expired
                                   /\ data'[t].period = data[t].period
    <2>1. data[t] \in TimeData /\ ~data[t].destroy /\ (data[t].reg => data[t].sched)
      BY DEF TypeOK, Marks
    <2>2. Deferred(data[t]) \in TimeData
      BY <2>1, MarksType
    <2>3. data'[t] = Deferred(data[t])
      BY <1>3
    <2>4. PICK d \in TimeData : d = data[t]
      BY <2>1
    <2>5. /\ Deferred(d).sched = d.sched
          /\ ~Deferred(d).reg /\ ~Deferred(d).unreg /\ ~Deferred(d).destroy
          /\ d.reg => Deferred(d).expired = d.newExpired /\ Deferred(d).period = d.newPeriod
          /\ ~d.reg => Deferred(d).expired = d.expired /\ Deferred(d).period = d.period
      <3>. HIDE DEF IInv
      <3>1. ~d.destroy /\ (d.reg => d.sched)
        BY <2>1, <2>4
      <3>2. CASE d.reg
        BY <2>4, <3>1, <3>2 DEF Deferred, Registers, Registered, TimeData
      <3>3. CASE ~d.reg
        BY <2>4, <3>1, <3>3 DEF Deferred, Registers, TimeData
      <3>. QED
        BY <3>2, <3>3
    <2>. QED
      BY <2>2, <2>3, <2>4, <2>5
  <1>5. /\ DOMAIN rest = {t \in DOMAIN queue : ~data[t].destroy /\ ~data[t].unreg}
        /\ \A t \in DOMAIN rest : rest[t] = queue[t]
    BY DEF Erase, QueueMarked
  <1>6. DOMAIN queue' = {t \in timers : data[t].sched}
    <2>1. DOMAIN queue' = DOMAIN rest \cup reg
      BY <1>1
    <2>2. \A t \in DOMAIN rest : t \in timers /\ data[t].sched
      BY <1>5 DEF QueueMarked, Marks
    <2>3. \A t \in reg : t \in timers /\ data[t].sched
      BY DEF Marks
    <2>4. \A t \in timers : data[t].sched => t \in DOMAIN rest \/ t \in reg
      BY <1>5 DEF QueueMarked, Marks, TypeOK
    <2>. QED
      BY <2>1, <2>2, <2>3, <2>4
  <1>7. ASSUME NEW t \in DOMAIN queue'
        PROVE  queue'[t] = data'[t].expired
    <2>1. t \in timers /\ t \in DOMAIN rest \cup reg
      BY <1>1, <1>6
    <2>2. CASE t \in DOMAIN rest
      <3>1. queue'[t] = queue[t] /\ ~data[t].reg /\ queue[t] = data[t].expired
        BY <1>1, <1>5, <2>2 DEF QueueMarked
      <3>. QED
        BY <1>4, <2>1, <3>1
    <2>3. CASE t \notin DOMAIN rest
      BY <1>1, <1>4, <2>1, <2>3
    <2>. QED
      BY <2>2, <2>3
  <1>. QED
    BY <1>3, <1>4, <1>6, <1>7 DEF AfterDrive

LEMMA AfterDriveInv == IInv /\ AfterDrive => IInv'
  <1>. SUFFICES ASSUME IInv, AfterDrive PROVE IInv'
    OBVIOUS
  <1>. USE DEF IInv
  <1>1. TypeOK'
    <2>1. \A t \in DOMAIN queue' : queue'[t] \in Nat
      BY AfterDriven DEF TimeData
    <2>. QED
      BY <2>1, AfterDriven DEF TypeOK, AfterDrive
  <1>2. Marks' /\ QueueMarked' /\ InDrive'
    BY AfterDriven DEF Marks, QueueMarked, InDrive
  <1>3. PendingNew'
    <2>1. Reserved' = Reserved
      BY DEF AfterDrive, Reserved
    <2>2. DOMAIN data' \subseteq DOMAIN data
      BY AfterDriven DEF TypeOK
    <2>. QED
      BY <2>1, <2>2 DEF AfterDrive, PendingNew
  <1>. QED
    BY <1>1, <1>2, <1>3

LEMMA NewPendingInv == IInv /\ NewPending => IInv'
  <1>. SUFFICES ASSUME IInv, NewPending PROVE IInv'
    OBVIOUS
  <1>. USE DEF IInv
  <1>. DEFINE b == Head(pendingCache)
              e == b.start + b.period
              t == b.timer
  <1>1. /\ Len(pendingCache) \in Nat /\ Len(pendingCache) >= 1
        /\ 1 \in DOMAIN pendingCache /\ b = pendingCache[1] /\ b \in BuildTimerInfo
        /\ DOMAIN pendingCache = 1..Len(pendingCache)
    BY DEF NewPending, TypeOK
  <1>2. /\ pendingCache' \in Seq(BuildTimerInfo)
        /\ DOMAIN pendingCache' = 1..(Len(pendingCache) - 1)
        /\ \A i \in DOMAIN pendingCache' : pendingCache'[i] = pendingCache[i + 1]
    BY DEF NewPending, TypeOK
  <1>3. t \in Timers /\ e \in Nat /\ b.period \in Nat
    BY <1>1 DEF BuildTimerInfo
  <1>4. /\ t \notin DOMAIN data
        /\ \A i \in DOMAIN pendingCache' : pendingCache'[i].timer # t
        /\ \A i \in DOMAIN pending : pending[i].timer # t
    <2>1. t \in Reserved
      BY <1>1 DEF Reserved
    <2>2. \A i \in DOMAIN pendingCache' : i + 1 \in DOMAIN pendingCache /\ i + 1 # 1
      BY <1>1, <1>2
    <2>. QED
      BY <1>1, <1>2, <2>1, <2>2 DEF PendingNew
  <1>. HIDE DEF b, e, t
  <1>5. /\ ~driving /\ timers' = timers \cup {t}
        /\ DOMAIN data' = DOMAIN data \cup {t}
        /\ data'[t] = Registered(NewTimeData, e, b.period)
        /\ \A u \in DOMAIN data : data'[u] = data[u]
        /\ queue' = Insert(queue, t, e)
        /\ asked' = [asked EXCEPT ![t] = [due |-> e, period |-> b.period]]
        /\ UNCHANGED <<clock, mgrVars, pending>>
    BY <1>4 DEF NewPending, b, e, t
  <1>6. /\ t \notin DOMAIN queue /\ t \notin timers
        /\ DOMAIN queue' = DOMAIN queue \cup {t}
        /\ queue'[t] = e
        /\ \A u \in DOMAIN queue : queue'[u] = queue[u]
    BY <1>4, <1>5 DEF QueueMarked, TypeOK, Insert
  <1>7. /\ data'[t] \in TimeData /\ data'[t].sched /\ data'[t].expired = e
        /\ ~data'[t].reg /\ ~data'[t].unreg /\ ~data'[t].destroy
    <2>1. /\ NewTimeData \in TimeData
          /\ ~NewTimeData.reg /\ ~NewTimeData.unreg /\ ~NewTimeData.destroy
      BY DEF NewTimeData, TimeData
    <2>. QED
      BY <1>3, <1>5, <2>1 DEF Registered, TimeData
  <1>8. TypeOK'
    BY <1>2, <1>3, <1>5, <1>6, <1>7 DEF TypeOK, mgrVars
  <1>9. Marks'
    BY <1>5, <1>6, <1>7, <1>4 DEF Marks, mgrVars
  <1>10. QueueMarked'
    BY <1>4, <1>5, <1>6, <1>7 DEF QueueMarked
  <1>11. InDrive'
    BY <1>5 DEF InDrive, mgrVars
  <1>12. PendingNew'
    <2>1. Reserved' \subseteq Reserved \ {t}
      BY <1>1, <1>2, <1>4, <1>5 DEF Reserved
    <2>2. \A i \in DOMAIN pendingCache' : i + 1 \in DOMAIN pendingCache
      BY <1>1, <1>2
    <2>3. \A i, j \in DOMAIN pendingCache' :
             pendingCache'[i].timer = pendingCache'[j].timer => i = j
      <3>. SUFFICES ASSUME NEW i \in DOMAIN pendingCache', NEW j \in DOMAIN pendingCache',
                           pendingCache'[i].timer = pendingCache'[j].timer
                    PROVE  i = j
        OBVIOUS
      <3>1. i + 1 = j + 1
        BY <1>2, <2>2 DEF PendingNew
      <3>. QED
        BY <1>2, <3>1
    <2>. QED
      BY <1>2, <1>5, <2>1, <2>2, <2>3 DEF PendingNew
  <1>. QED
    BY <1>8, <1>9, <1>10, <1>11, <1>12

LEMMA TickInv == IInv /\ Tick => IInv'
  BY DEF Tick, IInv, TypeOK, Marks, QueueMarked, InDrive, PendingNew, Reserved, mgrVars, lists

\* The invariant holds in every state of every behaviour.
THEOREM Inductive == Spec => []IInv
  <1>1. IInv /\ [Next]_vars => IInv'
    <2>. SUFFICES ASSUME IInv, [Next]_vars PROVE IInv'
      OBVIOUS
    <2>1. CASE UserOps
      BY <2>1, NewInv, CancelInv, DeleteInv, ScheduleInv, AddTimerInv DEF UserOps
    <2>2. CASE Drive
      BY <2>2, BeforeDriveInv, ReturnInv, AfterDriveInv, NewPendingInv, OnTimeOutInv, SkipInv
         DEF Drive
    <2>3. CASE Tick
      BY <2>3, TickInv
    <2>4. CASE UNCHANGED vars
      BY <2>4 DEF vars, mgrVars, lists, IInv, TypeOK, Marks, QueueMarked, InDrive, PendingNew,
                  Reserved
    <2>. QED
      BY <2>1, <2>2, <2>3, <2>4 DEF Next
  <1>. QED
    BY <1>1, InitInv, PTL DEF Spec

-----------------------------------------------------------------------------
(* The properties that hold whatever callbacks do. *)

\* Type correctness.
THEOREM TypeCorrect == Spec => []TypeOK
  BY Inductive, PTL DEF IInv

\* No TimeData is freed while the queue holds it, and no timer is called whose
\* LibTimer has been deleted: TimerMgr.cpp, OnTimerDestroy and _AfterDrive.
THEOREM NeverDangling == Spec => []NoDangling
  <1>1. IInv => NoDangling
    BY DEF IInv, Marks, QueueMarked, NoDangling
  <1>. QED
    BY Inductive, <1>1, PTL

\* No key of the std::set changes while it is in there: TimerMgr.cpp, _Register.
THEOREM KeysKept == Spec => []OrderKept
  <1>1. IInv => OrderKept
    BY DEF IInv, QueueMarked, OrderKept
  <1>. QED
    BY Inductive, <1>1, PTL

-----------------------------------------------------------------------------
(* What users asked for.  No callback schedules another timer that is due.  *)

LEMMA InitAsked == Init => AsAsked
  BY DEF Init, AsAsked, Asked, Empty, NotSet

\* What concerns one timer leaves what is asked of the others alone.
LEMMA OthersAsked ==
    ASSUME NEW t, AsAsked, UNCHANGED mgrVars,
           DOMAIN data' \ {t} = DOMAIN data \ {t},
           \A u \in DOMAIN data \ {t} : data'[u] = data[u],
           DOMAIN queue' \subseteq DOMAIN queue \cup {t},
           \A u \in Timers \ {t} : asked'[u] = asked[u]
    PROVE  \A u \in Timers \ {t} : Asked(u)'
  BY DEF AsAsked, Asked, mgrVars

LEMMA ScheduleAsked ==
    ~RescheduleDue /\ IInv /\ AsAsked
        /\ (\E t \in Timers, p \in Periods : Schedule(t, p)) => AsAsked'
  <1>. SUFFICES ASSUME ~RescheduleDue, IInv, AsAsked, NEW t \in Timers, NEW p \in Periods,
                       Schedule(t, p)
                PROVE AsAsked'
    OBVIOUS
  <1>. USE DEF IInv
  <1>. DEFINE e == clock + p
  <1>0. e \in Nat /\ p \in Nat
    BY TimerAssumption DEF TypeOK
  <1>1. /\ t \in DOMAIN data /\ t \in timers /\ data[t] \in TimeData /\ ~AboutToFire(t)
        /\ asked' = [asked EXCEPT ![t] = [due |-> e, period |-> p]]
        /\ UNCHANGED <<clock, timers, mgrVars, lists>>
    BY DEF Schedule, TypeOK
  <1>2. /\ asked'[t] = [due |-> e, period |-> p] /\ asked'[t] # NotSet
        /\ \A u \in Timers : u # t => asked'[u] = asked[u]
    BY <1>0, <1>1, TimerAssumption DEF TypeOK, NotSet
  <1>3. CASE driving
    <2>1. PICK d \in TimeData : /\ d = data[t] \/ d = MaskUnRegister(data[t])
                                /\ data' = [data EXCEPT ![t] = MaskRegister(d, e, p)]
      BY <1>0, <1>1, <1>3, MarksType DEF Schedule, Scheduled, CancelsFirst
    <2>2. /\ DOMAIN data' = DOMAIN data
          /\ data'[t] = MaskRegister(d, e, p)
          /\ \A u \in DOMAIN data : u # t => data'[u] = data[u]
          /\ queue' = queue
      BY <1>0, <1>1, <1>3, <2>1 DEF Schedule, Scheduled
    <2>3. /\ data'[t].sched /\ data'[t].reg /\ data'[t].expired = data[t].expired
          /\ data'[t].newExpired = e /\ data'[t].newPeriod = p
      BY <2>1, <2>2, <1>1 DEF MaskRegister, MaskUnRegister, TimeData
    <2>4. t \in DOMAIN queue => t = running \/ curTime < data[t].expired
      BY <1>1, <1>3 DEF AboutToFire, TypeOK, TimeData
    <2>5. Asked(t)'
      BY <1>1, <1>2, <2>2, <2>3, <2>4 DEF Asked, mgrVars
    <2>. QED
      BY <1>1, <1>2, <2>2, <2>5, OthersAsked DEF AsAsked
  <1>4. CASE ~driving
    <2>1. data' = [data EXCEPT ![t] = Registered(data[t], e, p)]
      BY <1>4 DEF Schedule, Scheduled
    <2>2. /\ DOMAIN data' = DOMAIN data
          /\ data'[t] = Registered(data[t], e, p)
          /\ \A u \in DOMAIN data : u # t => data'[u] = data[u]
          /\ \A u \in DOMAIN data : ~data[u].reg
      BY <1>1, <1>4, <2>1 DEF Marks
    <2>3. /\ data'[t].sched /\ data'[t].expired = e /\ data'[t].period = p
          /\ ~data'[t].reg
      BY <2>2, <1>1 DEF Registered, TimeData
    <2>4. t # running
      BY <1>4, TimerAssumption DEF InDrive
    <2>5. Asked(t)'
      BY <1>1, <1>2, <2>2, <2>3, <2>4 DEF Asked, mgrVars
    <2>6. DOMAIN queue' \subseteq DOMAIN queue \cup {t}
      BY <1>4 DEF Schedule, Scheduled, Insert, Erase
    <2>. QED
      BY <1>1, <1>2, <2>2, <2>5, <2>6, OthersAsked DEF AsAsked
  <1>. QED
    BY <1>3, <1>4

LEMMA CancelAsked == IInv /\ AsAsked /\ (\E t \in Timers : Cancel(t)) => AsAsked'
  <1>. SUFFICES ASSUME IInv, AsAsked, NEW t \in Timers, Cancel(t) PROVE AsAsked'
    OBVIOUS
  <1>. USE DEF IInv
  <1>1. /\ t \in DOMAIN data /\ data[t] \in TimeData
        /\ asked' = [asked EXCEPT ![t] = NotSet]
        /\ UNCHANGED <<clock, timers, mgrVars, lists>>
    BY DEF Cancel, TypeOK
  <1>2. /\ DOMAIN data' = DOMAIN data
        /\ data'[t] = IF driving THEN MaskUnRegister(data[t]) ELSE UnRegistered(data[t])
        /\ \A u \in DOMAIN data : u # t => data'[u] = data[u]
    BY <1>1 DEF Cancel
  <1>3. ~data'[t].sched /\ ~data'[t].reg
    <2>1. ~driving => ~data[t].reg
      BY <1>1 DEF Marks
    <2>. QED
      BY <1>1, <1>2, <2>1 DEF MaskUnRegister, UnRegistered, TimeData
  <1>4. \A u \in DOMAIN queue' : u \in DOMAIN queue
    BY DEF Cancel, Erase
  <1>. QED
    BY <1>1, <1>2, <1>3, <1>4 DEF AsAsked, Asked, TypeOK, mgrVars

LEMMA DeleteAsked == IInv /\ AsAsked /\ (\E t \in Timers : Delete(t)) => AsAsked'
  <1>. SUFFICES ASSUME IInv, AsAsked, NEW t \in Timers, Delete(t) PROVE AsAsked'
    OBVIOUS
  <1>. USE DEF IInv
  <1>1. /\ t \in DOMAIN data /\ data[t] \in TimeData
        /\ asked' = [asked EXCEPT ![t] = NotSet]
        /\ UNCHANGED <<clock, mgrVars, lists>>
    BY DEF Delete, TypeOK
  <1>2. \A u \in DOMAIN queue' : u \in DOMAIN queue
    BY DEF Delete, Erase
  <1>3. CASE driving
    <2>1. /\ DOMAIN data' = DOMAIN data
          /\ data'[t] = MaskDestroy(data[t])
          /\ \A u \in DOMAIN data : u # t => data'[u] = data[u]
      BY <1>1, <1>3 DEF Delete, DestroysNow
    <2>2. ~data'[t].sched /\ ~data'[t].reg
      BY <1>1, <2>1 DEF MaskDestroy, TimeData
    <2>. QED
      BY <1>1, <1>2, <2>1, <2>2 DEF AsAsked, Asked, TypeOK, mgrVars
  <1>4. CASE ~driving
    <2>1. /\ DOMAIN data' = DOMAIN data \ {t}
          /\ \A u \in DOMAIN data' : data'[u] = data[u]
      BY <1>4 DEF Delete, DestroysNow, Erase
    <2>. QED
      BY <1>1, <1>2, <2>1 DEF AsAsked, Asked, TypeOK, mgrVars
  <1>. QED
    BY <1>3, <1>4

LEMMA NewAsked == IInv /\ AsAsked /\ (\E t \in Timers : New(t)) => AsAsked'
  <1>. SUFFICES ASSUME IInv, AsAsked, NEW t \in Timers, New(t) PROVE AsAsked'
    OBVIOUS
  <1>1. /\ t \notin DOMAIN data
        /\ DOMAIN data' = DOMAIN data \cup {t}
        /\ ~data'[t].sched /\ ~data'[t].reg
        /\ \A u \in DOMAIN data : data'[u] = data[u]
        /\ UNCHANGED <<queue, mgrVars, asked>>
    BY DEF New, NewTimeData
  <1>. QED
    BY <1>1 DEF AsAsked, Asked, mgrVars

\* Drive calls a timer at the time that was asked for, or later.
LEMMA OnTimeOutIsDue ==
    ASSUME IInv, AsAsked, NEW t \in Timers, OnTimeOut(t)
    PROVE  /\ t \in DOMAIN data /\ data[t] \in TimeData /\ data[t].sched /\ ~data[t].reg
           /\ asked[t] = [due |-> data[t].expired, period |-> data[t].period]
           /\ asked[t] # NotSet
           /\ asked[t].due <= curTime /\ curTime <= clock
           /\ asked' = [asked EXCEPT ![t] = [due |-> data[t].expired + data[t].period,
                                            period |-> data[t].period]]
  <1>1. /\ t \in DOMAIN queue /\ t \in DOMAIN data /\ data[t] \in TimeData
        /\ data[t].sched /\ data[t].expired <= curTime
        /\ running = Off /\ t # Off
    BY TimerAssumption DEF OnTimeOut, At, Calls, IInv, TypeOK, QueueMarked
  <1>2. ~data[t].reg
    BY <1>1 DEF AsAsked, Asked, IInv, TypeOK, TimeData
  <1>3. /\ asked[t] = [due |-> data[t].expired, period |-> data[t].period]
        /\ asked[t] # NotSet
    BY <1>1, <1>2 DEF AsAsked, Asked
  <1>4. asked' = [asked EXCEPT ![t] = [due |-> data[t].expired + data[t].period,
                                      period |-> data[t].period]]
    <2>1. asked' = [asked EXCEPT ![t].due = asked[t].due + asked[t].period]
      BY <1>3 DEF OnTimeOut
    <2>2. [asked[t] EXCEPT !.due = asked[t].due + asked[t].period]
             = [due |-> data[t].expired + data[t].period, period |-> data[t].period]
      BY <1>3
    <2>. QED
      BY <2>1, <2>2
  <1>. QED
    BY <1>1, <1>2, <1>3, <1>4 DEF IInv, InDrive

LEMMA OnTimeOutAsked == IInv /\ AsAsked /\ (\E t \in Timers : OnTimeOut(t)) => AsAsked'
  <1>. SUFFICES ASSUME IInv, AsAsked, NEW t \in Timers, OnTimeOut(t) PROVE AsAsked'
    OBVIOUS
  <1>1. /\ running = Off /\ running' = t
        /\ UNCHANGED <<clock, timers, data, queue, driving, curTime>>
    BY DEF OnTimeOut, At
  <1>2. /\ asked'[t] = [due |-> data[t].expired + data[t].period, period |-> data[t].period]
        /\ \A u \in Timers : u # t => asked'[u] = asked[u]
    BY OnTimeOutIsDue DEF IInv, TypeOK
  <1>3. data[t].expired + data[t].period \in Nat
    <2>1. data[t] \in TimeData
      BY OnTimeOutIsDue
    <2>. QED
      BY <2>1 DEF TimeData
  <1>4. Asked(t)'
    <2>1. asked'[t] # NotSet
      BY <1>2, <1>3, TimerAssumption DEF NotSet
    <2>. QED
      BY <1>1, <1>2, <2>1, OnTimeOutIsDue DEF Asked
  <1>5. ASSUME NEW u \in Timers, u # t
        PROVE  Asked(u)'
    <2>1. u # running /\ u # running' /\ asked'[u] = asked[u] /\ Asked(u)
      BY <1>1, <1>2, <1>5, TimerAssumption DEF AsAsked
    <2>. QED
      BY <1>1, <2>1 DEF Asked
  <1>. QED
    BY <1>4, <1>5 DEF AsAsked

LEMMA ReturnAsked == IInv /\ AsAsked /\ Return => AsAsked'
  <1>. SUFFICES ASSUME IInv, AsAsked, Return, NEW u \in Timers PROVE Asked(u)'
    BY DEF AsAsked
  <1>1. /\ running \in DOMAIN data /\ data[running] \in TimeData /\ running # Off
        /\ data[running].reg => data[running].sched
        /\ u # Off /\ Asked(u)
    BY Returned, TimerAssumption DEF IInv, TypeOK, Marks, AsAsked, Return
  <1>2. CASE u # running
    BY <1>1, <1>2, Returned DEF Asked
  <1>3. CASE u = running
    <2>1. u \notin DOMAIN queue'
      BY <1>3, Returned
    <2>2. CASE Repeats(data[u])
      <3>1. /\ data'[u].sched /\ data'[u].reg
            /\ data'[u].newExpired = data[u].expired + data[u].period
            /\ data'[u].newPeriod = data[u].period
            /\ data[u].sched /\ ~data[u].reg
        BY <1>1, <1>3, <2>2, Returned DEF MaskRegister, TimeData, Repeats
      <3>. QED
        BY <1>1, <1>3, <2>1, <3>1, Returned DEF Asked
    <2>3. CASE ~Repeats(data[u])
      <3>1. data'[u] = data[u] /\ (data[u].sched => data[u].reg)
        BY <1>3, <2>3, Returned DEF Repeats
      <3>. QED
        BY <1>1, <1>3, <2>1, <3>1, Returned DEF Asked
    <2>. QED
      BY <2>2, <2>3
  <1>. QED
    BY <1>2, <1>3

LEMMA AfterDriveAsked == IInv /\ AsAsked /\ AfterDrive => AsAsked'
  <1>. SUFFICES ASSUME IInv, AsAsked, AfterDrive, NEW u \in Timers PROVE Asked(u)'
    BY DEF AsAsked
  <1>1. Asked(u) /\ u # running /\ u # running'
    BY AfterDriven, TimerAssumption DEF AsAsked
  <1>2. CASE u \in timers
    <2>1. u \in DOMAIN data /\ u \in DOMAIN data'
      BY <1>2, AfterDriven DEF IInv, TypeOK
    <2>2. data[u].reg => data[u].sched
      BY <2>1 DEF IInv, Marks
    <2>. QED
      BY <1>1, <1>2, <2>1, <2>2, AfterDriven DEF Asked
  <1>3. CASE u \notin timers
    <2>1. u \notin DOMAIN data' /\ (u \in DOMAIN data => ~data[u].sched)
      BY <1>3, AfterDriven DEF IInv, Marks
    <2>. QED
      BY <1>1, <2>1, AfterDriven DEF Asked
  <1>. QED
    BY <1>2, <1>3

\* The next timer to create, and what comes into being with it.
LEMMA PendingCreated ==
    ASSUME IInv, NewPending
    PROVE  \E t \in Timers, e \in Nat, p \in Nat :
              /\ t \notin DOMAIN data
              /\ DOMAIN data' = DOMAIN data \cup {t}
              /\ data'[t] = Registered(NewTimeData, e, p)
              /\ \A u \in DOMAIN data : data'[u] = data[u]
              /\ DOMAIN queue' = DOMAIN queue \cup {t}
              /\ asked' = [asked EXCEPT ![t] = [due |-> e, period |-> p]]
              /\ ~driving
              /\ UNCHANGED <<clock, mgrVars, pending>>
  <1>. DEFINE b == Head(pendingCache)
              e == b.start + b.period
              t == b.timer
  <1>1. b \in BuildTimerInfo /\ 1 \in DOMAIN pendingCache /\ b = pendingCache[1]
    BY DEF NewPending, IInv, TypeOK
  <1>2. t \in Timers /\ e \in Nat /\ b.period \in Nat /\ t \in Reserved
    BY <1>1 DEF BuildTimerInfo, Reserved
  <1>3. t \notin DOMAIN data
    BY <1>2 DEF IInv, PendingNew
  <1>. HIDE DEF b, e, t
  <1>4. /\ DOMAIN data' = DOMAIN data \cup {t}
        /\ data'[t] = Registered(NewTimeData, e, b.period)
        /\ \A u \in DOMAIN data : data'[u] = data[u]
        /\ DOMAIN queue' = DOMAIN queue \cup {t}
        /\ asked' = [asked EXCEPT ![t] = [due |-> e, period |-> b.period]]
        /\ ~driving
        /\ UNCHANGED <<clock, mgrVars, pending>>
    BY <1>3 DEF NewPending, Insert, b, e, t
  <1>. QED
    BY <1>2, <1>3, <1>4

LEMMA NewPendingAsked == IInv /\ AsAsked /\ NewPending => AsAsked'
  <1>. SUFFICES ASSUME IInv, AsAsked, NewPending PROVE AsAsked'
    OBVIOUS
  <1>1. PICK t \in Timers, e \in Nat, p \in Nat :
              /\ t \notin DOMAIN data
              /\ DOMAIN data' = DOMAIN data \cup {t}
              /\ data'[t] = Registered(NewTimeData, e, p)
              /\ \A u \in DOMAIN data : data'[u] = data[u]
              /\ DOMAIN queue' = DOMAIN queue \cup {t}
              /\ asked' = [asked EXCEPT ![t] = [due |-> e, period |-> p]]
              /\ ~driving
              /\ UNCHANGED <<clock, mgrVars, pending>>
    BY PendingCreated
  <1>2. /\ asked'[t] = [due |-> e, period |-> p] /\ asked'[t] # NotSet
        /\ \A u \in Timers : u # t => asked'[u] = asked[u]
    BY <1>1, TimerAssumption DEF IInv, TypeOK, NotSet
  <1>3. data'[t].sched /\ ~data'[t].reg /\ data'[t].expired = e /\ data'[t].period = p
    <2>1. NewTimeData \in TimeData /\ ~NewTimeData.reg
      BY DEF NewTimeData, TimeData
    <2>. QED
      BY <1>1, <2>1 DEF Registered, TimeData
  <1>4. t # running'
    BY <1>1, TimerAssumption DEF IInv, InDrive, mgrVars
  <1>5. Asked(t)'
    BY <1>1, <1>2, <1>3, <1>4 DEF Asked
  <1>. QED
    BY <1>1, <1>2, <1>5, OthersAsked DEF AsAsked

\* The other steps.
LEMMA StillAsked ==
    IInv /\ AsAsked /\ (BeforeDrive \/ Tick \/ (\E t \in Timers : Skip(t))
                            \/ (\E t \in Timers, p \in Periods : AddTimer(t, p))) => AsAsked'
  <1>. SUFFICES ASSUME IInv, AsAsked, BeforeDrive \/ Tick \/ (\E t \in Timers : Skip(t))
                            \/ (\E t \in Timers, p \in Periods : AddTimer(t, p)),
                       NEW u \in Timers
                PROVE  Asked(u)'
    BY DEF AsAsked
  <1>1. CASE BeforeDrive
    BY <1>1 DEF BeforeDrive, AsAsked, Asked, IInv, Marks
  <1>2. CASE Tick
    BY <1>2 DEF Tick, AsAsked, Asked, mgrVars
  <1>3. CASE \E t \in Timers : Skip(t)
    BY <1>3 DEF Skip, Erase, AsAsked, Asked, mgrVars
  <1>4. CASE \E t \in Timers, p \in Periods : AddTimer(t, p)
    BY <1>4 DEF AddTimer, AsAsked, Asked, mgrVars
  <1>. QED
    BY <1>1, <1>2, <1>3, <1>4

\* What is marked on the timers is what their users asked for.
THEOREM MarkedAsAsked == ~RescheduleDue => (Spec => []AsAsked)
  <1>. SUFFICES ASSUME ~RescheduleDue PROVE Spec => []AsAsked
    OBVIOUS
  <1>1. IInv /\ AsAsked /\ [Next]_vars => AsAsked'
    <2>. SUFFICES ASSUME IInv, AsAsked, [Next]_vars PROVE AsAsked'
      OBVIOUS
    <2>1. CASE UserOps
      BY <2>1, NewAsked, CancelAsked, DeleteAsked, ScheduleAsked, StillAsked DEF UserOps
    <2>2. CASE Drive
      BY <2>2, StillAsked, ReturnAsked, AfterDriveAsked, NewPendingAsked, OnTimeOutAsked DEF Drive
    <2>3. CASE Tick
      BY <2>3, StillAsked
    <2>4. CASE UNCHANGED vars
      BY <2>4 DEF vars, mgrVars, AsAsked, Asked
    <2>. QED
      BY <2>1, <2>2, <2>3, <2>4 DEF Next
  <1>. QED
    BY <1>1, InitAsked, Inductive, PTL DEF Spec

\* Between two Drives the queue holds what was asked for last: TimerMgr.cpp,
\* _AfterDrive.
THEOREM LastOperationWins == ~RescheduleDue => (Spec => []QueueAsAsked)
  <1>. SUFFICES ASSUME ~RescheduleDue PROVE Spec => []QueueAsAsked
    OBVIOUS
  <1>1. IInv /\ AsAsked => QueueAsAsked
    <2>. SUFFICES ASSUME IInv, AsAsked, ~driving, NEW t \in Timers
                  PROVE  IF asked[t] = NotSet THEN t \notin DOMAIN queue
                         ELSE t \in DOMAIN queue /\ queue[t] = asked[t].due
      BY DEF QueueAsAsked
    <2>1. /\ Asked(t) /\ t # running
          /\ t \in DOMAIN data => ~data[t].reg /\ ~data[t].unreg /\ ~data[t].destroy
      BY TimerAssumption DEF AsAsked, IInv, Marks, InDrive
    <2>2. CASE t \in DOMAIN data
      <3>1. /\ t \in DOMAIN queue <=> data[t].sched
            /\ t \in DOMAIN queue => queue[t] = data[t].expired
        BY <2>1, <2>2 DEF IInv, QueueMarked
      <3>. QED
        BY <2>1, <2>2, <3>1 DEF Asked
    <2>3. CASE t \notin DOMAIN data
      BY <2>1, <2>3 DEF Asked, IInv, QueueMarked
    <2>. QED
      BY <2>2, <2>3
  <1>. QED
    BY <1>1, Inductive, MarkedAsAsked, PTL

\* Scheduling a timer anew takes effect at once: LibTimer.cpp:43.
THEOREM NeverBeforeDue == ~RescheduleDue => (Spec => NotBeforeDue)
  <1>. SUFFICES ASSUME ~RescheduleDue PROVE Spec => NotBeforeDue
    OBVIOUS
  <1>1. IInv /\ AsAsked /\ [Next]_vars =>
          [\A t \in Timers : running # t /\ running' = t => asked[t].due <= curTime]_vars
    <2>. SUFFICES ASSUME IInv, AsAsked, Next, NEW t \in Timers, running # t, running' = t
                  PROVE  asked[t].due <= curTime
      OBVIOUS
    <2>1. t # Off
      BY TimerAssumption
    <2>2. OnTimeOut(t)
      BY <2>1 DEF Next, UserOps, Drive, New, Cancel, Delete, Schedule, AddTimer, BeforeDrive,
                  Return, AfterDrive, NewPending, OnTimeOut, Skip, Tick, mgrVars
    <2>. QED
      BY <2>2, OnTimeOutIsDue
  <1>. QED
    BY <1>1, Inductive, MarkedAsAsked, PTL DEF Spec, NotBeforeDue

-----------------------------------------------------------------------------
(* The manager implements the service. *)

LEMMA InitIsService == Init => Service!Init
  BY DEF Init, Service!Init, NotSet, Service!NotSet

LEMMA UserOpsAreService ==
    IInv /\ UserOps => Service!Next \/ UNCHANGED <<clock, asked, running>>
  <1>. SUFFICES ASSUME IInv, UserOps
                PROVE  Service!Next \/ UNCHANGED <<clock, asked, running>>
    OBVIOUS
  <1>1. CASE \E t \in Timers : New(t)
    BY <1>1 DEF New, mgrVars
  <1>2. CASE \E t \in Timers, p \in Periods : AddTimer(t, p)
    BY <1>2 DEF AddTimer, mgrVars
  <1>3. CASE \E t \in Timers : Cancel(t) \/ Delete(t)
    BY <1>3 DEF Cancel, Delete, Service!Next, Service!Clear, Service!NotSet, NotSet, mgrVars
  <1>4. CASE \E t \in Timers, p \in Periods : Schedule(t, p)
    <2>1. PICK t \in Timers, p \in Periods : Schedule(t, p)
      BY <1>4
    <2>2. clock + p \in Nat /\ p \in Nat
      BY TimerAssumption DEF IInv, TypeOK
    <2>3. /\ asked' = [asked EXCEPT ![t] = [due |-> clock + p, period |-> p]]
          /\ asked'[t] = [due |-> clock + p, period |-> p]
          /\ UNCHANGED <<clock, running>>
      BY <2>1 DEF Schedule, IInv, TypeOK, mgrVars
    <2>4. asked'[t].due = clock + p /\ asked'[t].period = p
      BY <2>3
    <2>5. Service!Set(t)
      BY <2>2, <2>3, <2>4 DEF Service!Set
    <2>. QED
      BY <2>5 DEF Service!Next
  <1>. QED
    BY <1>1, <1>2, <1>3, <1>4 DEF UserOps

LEMMA DriveIsService ==
    IInv /\ AsAsked /\ Drive => Service!Next \/ UNCHANGED <<clock, asked, running>>
  <1>. SUFFICES ASSUME IInv, AsAsked, Drive
                PROVE  Service!Next \/ UNCHANGED <<clock, asked, running>>
    OBVIOUS
  <1>1. CASE BeforeDrive \/ AfterDrive \/ (\E t \in Timers : Skip(t))
    BY <1>1 DEF BeforeDrive, AfterDrive, Skip, mgrVars
  <1>2. CASE Return
    BY <1>2 DEF Return, Service!Next, Service!Return
  <1>3. CASE NewPending
    <2>1. PICK t \in Timers, e \in Nat, p \in Nat :
              /\ asked' = [asked EXCEPT ![t] = [due |-> e, period |-> p]]
              /\ UNCHANGED <<clock, mgrVars>>
      BY <1>3, PendingCreated
    <2>2. asked'[t].due = e /\ asked'[t].period = p
      BY <2>1 DEF IInv, TypeOK
    <2>3. Service!Set(t)
      BY <2>1, <2>2 DEF Service!Set, mgrVars
    <2>. QED
      BY <2>3 DEF Service!Next
  <1>4. CASE \E t \in Timers : OnTimeOut(t)
    <2>1. PICK t \in Timers : OnTimeOut(t)
      BY <1>4
    <2>2. /\ asked[t].due # Off /\ asked[t].due <= clock
          /\ asked' = [asked EXCEPT ![t].due = @ + asked[t].period]
      <3>1. /\ asked[t] = [due |-> data[t].expired, period |-> data[t].period]
            /\ asked[t].due <= curTime /\ curTime <= clock /\ data[t] \in TimeData
        BY <2>1, OnTimeOutIsDue
      <3>2. asked[t].due \in Nat /\ curTime \in Nat /\ clock \in Nat
        BY <3>1 DEF TimeData, IInv, TypeOK
      <3>3. asked[t].due # Off /\ asked[t].due <= clock
        BY <3>1, <3>2, TimerAssumption
      <3>4. asked' = [asked EXCEPT ![t].due = @ + asked[t].period]
        <4>1. asked[t] # NotSet
          BY <2>1, OnTimeOutIsDue
        <4>. QED
          BY <2>1, <4>1 DEF OnTimeOut
      <3>. QED
        BY <3>3, <3>4
    <2>3. Service!GoOff(t)
      BY <2>1, <2>2 DEF Service!GoOff, OnTimeOut, At
    <2>. QED
      BY <2>3 DEF Service!Next
  <1>. QED
    BY <1>1, <1>2, <1>3, <1>4 DEF Drive

\* To its users the manager is a service that never goes off early and for which
\* every operation counts at once, however long Drive defers it.
THEOREM ImplementsService == ~RescheduleDue => (Spec => ServiceSpec)
  <1>. SUFFICES ASSUME ~RescheduleDue PROVE Spec => ServiceSpec
    OBVIOUS
  <1>1. IInv /\ AsAsked /\ [Next]_vars => [Service!Next]_<<clock, asked, running>>
    <2>. SUFFICES ASSUME IInv, AsAsked, [Next]_vars
                  PROVE  [Service!Next]_<<clock, asked, running>>
      OBVIOUS
    <2>1. CASE UNCHANGED vars
      BY <2>1 DEF vars, mgrVars
    <2>2. CASE Tick
      BY <2>2 DEF Tick, Service!Next, Service!Tick, mgrVars
    <2>. QED
      BY <2>1, <2>2, UserOpsAreService, DriveIsService DEF Next
  <1>. QED
    BY <1>1, InitIsService, Inductive, MarkedAsAsked, PTL
       DEF Spec, ServiceSpec, Service!Spec, Service!vars
=============================================================================
