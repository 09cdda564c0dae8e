-------------------------- MODULE LibThreadProofs --------------------------
(***************************************************************************)
(* Machine-checked facts about LibThread, for any number of producers and  *)
(* tasks and in both builds.                                               *)
(***************************************************************************)
EXTENDS MCLibThread, FiniteSetTheorems, SequenceTheorems, TLAPS

\* The two locks, with what is proved of any use of one.
CondLock == INSTANCE ConditionLockerProofs WITH lck <- cond, Procs <- Threads, Timed <- {}
QuitLock == INSTANCE ConditionLockerProofs WITH lck <- quit, Procs <- Threads, Timed <- {Owner}

-----------------------------------------------------------------------------
(* The invariants. *)

AtWork == {"check", "take", "run", "park", "wait", "reread", "leave"}
Gone == {"stopped", "tell", "told"}

\* The worker's place, the flag that stands for it, and the task it runs.
Control ==
    /\ worker \in {"none", "born"} \cup AtWork \cup Gone
    /\ owner \in {"new", "up", "halfClosed", "wakeup", "quitWait", "look", "remove", "closed"}
    /\ producer \in [Producers -> {"idle", "push", "wake", "woke"}]
    /\ isWorking <=> worker \in AtWork
    /\ worker = "none" <=> owner = "new"
    /\ running \in {<<>>} \cup {<<t>> : t \in Task} /\ (running # <<>> => worker = "run")
    /\ tasks \in Seq(Task) /\ added \in Seq(Task) /\ ran \in Seq(Task)
    /\ \A p \in Producers : producer[p] = "push" => AddedBy(p) < MaxTasks

\* Nobody closes a thread that is not at work yet.
AfterStart == owner \notin {"new", "up"} => worker \notin {"none", "born"}

\* What is added is run or released, each task in its turn, and none twice.
InTurn ==
    \E gone \in Seq(Task) :
        /\ added = (ran \o running) \o (gone \o tasks)
        /\ removed = {gone[i] : i \in 1..Len(gone)}
        /\ owner \notin {"remove", "closed"} => gone = <<>>

\* On _condLck only the worker waits, inside its call of Wait.
OnlyWorkerWaits ==
    /\ \A p \in Threads \ {Worker} : cond.pc[p] \in {"out", "raised", "post"}
    /\ worker # "wait" => cond.pc[Worker] = "out"
    /\ worker = "wait" =>
          cond.pc[Worker] \in {"counted", "test", "asleep", "awake", "late", "leaving", "hold"}

\* A task in the list that the worker, on its way to sleep, has not seen: its
\* producer has yet to signal, or the flag is raised.
Listens ==
    /\ worker \in {"park", "wait"} /\ cond.pc[Worker] \notin {"leaving", "hold"}
    /\ tasks # <<>>
    => cond.sinal \/ \E p \in Producers : producer[p] = "wake"

\* The worker never sleeps on a task unless a wake-up is coming: a producer is
\* about to signal, somebody is inside Sinal, or the event is set.
WakeUpComing ==
    cond.pc[Worker] = "asleep" /\ tasks # <<>> =>
        \/ \E p \in Producers : producer[p] = "wake"
        \/ \E q \in Threads : cond.pc[q] \in {"raised", "post"}
        \/ cond.event

-----------------------------------------------------------------------------
(* The locks are used as a lock is: what is proved of it holds here. *)

LEMMA ThreadsFit ==
    /\ IsFiniteSet(Threads) /\ None \notin Threads
    /\ Worker \in Threads /\ Owner \in Threads /\ Producers \subseteq Threads
  <1>1. IsFiniteSet({Worker}) /\ IsFiniteSet({Owner})
    BY FS_Singleton
  <1>2. IsFiniteSet({Worker} \cup {Owner})
    BY <1>1, FS_Union
  <1>3. IsFiniteSet(Producers \cup ({Worker} \cup {Owner}))
    BY <1>2, FS_Union, ThreadAssumption
  <1>4. Threads = Producers \cup ({Worker} \cup {Owner})
    BY DEF Threads
  <1>. QED
    BY <1>3, <1>4, ThreadAssumption

LEMMA SameCond ==
    \A p : /\ Cond!Lock(p) \/ Cond!Unlock(p) \/ Cond!Enter(p) \/ Cond!Sinal(p) => CondLock!Call(p)
           /\ Cond!Inside(p) => CondLock!Inside(p)
           /\ Cond!Spurious(p) => CondLock!Spurious(p)
  <1>. SUFFICES ASSUME NEW p
                PROVE  /\ Cond!Lock(p) \/ Cond!Unlock(p) \/ Cond!Enter(p) \/ Cond!Sinal(p) => CondLock!Call(p)
                       /\ Cond!Inside(p) => CondLock!Inside(p)
                       /\ Cond!Spurious(p) => CondLock!Spurious(p)
    OBVIOUS
  <1>1. Cond!Lock(p) <=> CondLock!Lock(p)
    BY DEF Cond!Lock, CondLock!Lock, Cond!At, CondLock!At, Cond!Free, CondLock!Free,
           Cond!Posix, CondLock!Posix, Cond!Move, CondLock!Move
  <1>2. Cond!Unlock(p) <=> CondLock!Unlock(p)
    BY DEF Cond!Unlock, CondLock!Unlock, Cond!At, CondLock!At, Cond!Free, CondLock!Free,
           Cond!Posix, CondLock!Posix, Cond!Move, CondLock!Move
  <1>3. Cond!Enter(p) <=> CondLock!Enter(p)
    BY DEF Cond!Enter, CondLock!Enter, Cond!At, CondLock!At, Cond!Free, CondLock!Free,
           Cond!Posix, CondLock!Posix, Cond!Move, CondLock!Move
  <1>4. Cond!Sinal(p) <=> CondLock!Sinal(p)
    BY DEF Cond!Sinal, CondLock!Sinal, Cond!At, CondLock!At, Cond!Free, CondLock!Free,
           Cond!Posix, CondLock!Posix, Cond!Move, CondLock!Move
  <1>5. Cond!Exchange(p) <=> CondLock!Exchange(p)
    BY DEF Cond!Exchange, CondLock!Exchange, Cond!At, CondLock!At, Cond!Free,
           CondLock!Free, Cond!Posix, CondLock!Posix, Cond!Move, CondLock!Move
  <1>6. Cond!TestFlag(p) <=> CondLock!TestFlag(p)
    BY DEF Cond!TestFlag, CondLock!TestFlag, Cond!At, CondLock!At, Cond!Free,
           CondLock!Free, Cond!Posix, CondLock!Posix, Cond!Move, CondLock!Move
  <1>7. Cond!SeeEvent(p) <=> CondLock!SeeEvent(p)
    BY DEF Cond!SeeEvent, CondLock!SeeEvent, Cond!At, CondLock!At, Cond!Free,
           CondLock!Free, Cond!Posix, CondLock!Posix, Cond!Move, CondLock!Move
  <1>8. Cond!TimeOut(p) <=> CondLock!TimeOut(p)
    BY DEF Cond!TimeOut, CondLock!TimeOut, Cond!At, CondLock!At, Cond!Free, CondLock!Free,
           Cond!Posix, CondLock!Posix, Cond!Move, CondLock!Move
  <1>9. Cond!Spurious(p) <=> CondLock!Spurious(p)
    BY DEF Cond!Spurious, CondLock!Spurious, Cond!At, CondLock!At, Cond!Free,
           CondLock!Free, Cond!Posix, CondLock!Posix, Cond!Move, CondLock!Move
  <1>10. Cond!Regain(p) <=> CondLock!Regain(p)
    BY DEF Cond!Regain, CondLock!Regain, Cond!At, CondLock!At, Cond!Free, CondLock!Free,
           Cond!Posix, CondLock!Posix, Cond!Move, CondLock!Move
  <1>11. Cond!LeaveWait(p) <=> CondLock!LeaveWait(p)
    BY DEF Cond!LeaveWait, CondLock!LeaveWait, Cond!At, CondLock!At, Cond!Free,
           CondLock!Free, Cond!Posix, CondLock!Posix, Cond!Move, CondLock!Move
  <1>12. Cond!LookForWaiter(p) <=> CondLock!LookForWaiter(p)
    BY DEF Cond!LookForWaiter, CondLock!LookForWaiter, Cond!At, CondLock!At, Cond!Free,
           CondLock!Free, Cond!Posix, CondLock!Posix, Cond!Move, CondLock!Move
  <1>13. Cond!CondSignal(p) <=> CondLock!CondSignal(p)
    BY DEF Cond!CondSignal, CondLock!CondSignal, Cond!Asleep, CondLock!Asleep, Cond!At,
           CondLock!At, Cond!Free, CondLock!Free, Cond!Posix, CondLock!Posix, Cond!Move,
           CondLock!Move
  <1>14. Cond!SetEvent(p) <=> CondLock!SetEvent(p)
    BY DEF Cond!SetEvent, CondLock!SetEvent, Cond!At, CondLock!At, Cond!Free,
           CondLock!Free, Cond!Posix, CondLock!Posix, Cond!Move, CondLock!Move
  <1>. QED
    BY <1>1, <1>2, <1>3, <1>4, <1>5, <1>6, <1>7, <1>8, <1>9, <1>10, <1>11, <1>12, <1>13, <1>14
       DEF Cond!Inside, CondLock!Inside, Cond!WaitStep, CondLock!WaitStep, Cond!SinalStep, CondLock!SinalStep,
           CondLock!Call

LEMMA SameQuit ==
    \A p : /\ Quit!Lock(p) \/ Quit!Unlock(p) \/ Quit!Enter(p) \/ Quit!Sinal(p) => QuitLock!Call(p)
           /\ Quit!Inside(p) => QuitLock!Inside(p)
           /\ Quit!Spurious(p) => QuitLock!Spurious(p)
  <1>. SUFFICES ASSUME NEW p
                PROVE  /\ Quit!Lock(p) \/ Quit!Unlock(p) \/ Quit!Enter(p) \/ Quit!Sinal(p) => QuitLock!Call(p)
                       /\ Quit!Inside(p) => QuitLock!Inside(p)
                       /\ Quit!Spurious(p) => QuitLock!Spurious(p)
    OBVIOUS
  <1>1. Quit!Lock(p) <=> QuitLock!Lock(p)
    BY DEF Quit!Lock, QuitLock!Lock, Quit!At, QuitLock!At, Quit!Free, QuitLock!Free,
           Quit!Posix, QuitLock!Posix, Quit!Move, QuitLock!Move
  <1>2. Quit!Unlock(p) <=> QuitLock!Unlock(p)
    BY DEF Quit!Unlock, QuitLock!Unlock, Quit!At, QuitLock!At, Quit!Free, QuitLock!Free,
           Quit!Posix, QuitLock!Posix, Quit!Move, QuitLock!Move
  <1>3. Quit!Enter(p) <=> QuitLock!Enter(p)
    BY DEF Quit!Enter, QuitLock!Enter, Quit!At, QuitLock!At, Quit!Free, QuitLock!Free,
           Quit!Posix, QuitLock!Posix, Quit!Move, QuitLock!Move
  <1>4. Quit!Sinal(p) <=> QuitLock!Sinal(p)
    BY DEF Quit!Sinal, QuitLock!Sinal, Quit!At, QuitLock!At, Quit!Free, QuitLock!Free,
           Quit!Posix, QuitLock!Posix, Quit!Move, QuitLock!Move
  <1>5. Quit!Exchange(p) <=> QuitLock!Exchange(p)
    BY DEF Quit!Exchange, QuitLock!Exchange, Quit!At, QuitLock!At, Quit!Free,
           QuitLock!Free, Quit!Posix, QuitLock!Posix, Quit!Move, QuitLock!Move
  <1>6. Quit!TestFlag(p) <=> QuitLock!TestFlag(p)
    BY DEF Quit!TestFlag, QuitLock!TestFlag, Quit!At, QuitLock!At, Quit!Free,
           QuitLock!Free, Quit!Posix, QuitLock!Posix, Quit!Move, QuitLock!Move
  <1>7. Quit!SeeEvent(p) <=> QuitLock!SeeEvent(p)
    BY DEF Quit!SeeEvent, QuitLock!SeeEvent, Quit!At, QuitLock!At, Quit!Free,
           QuitLock!Free, Quit!Posix, QuitLock!Posix, Quit!Move, QuitLock!Move
  <1>8. Quit!TimeOut(p) <=> QuitLock!TimeOut(p)
    BY DEF Quit!TimeOut, QuitLock!TimeOut, Quit!At, QuitLock!At, Quit!Free, QuitLock!Free,
           Quit!Posix, QuitLock!Posix, Quit!Move, QuitLock!Move
  <1>9. Quit!Spurious(p) <=> QuitLock!Spurious(p)
    BY DEF Quit!Spurious, QuitLock!Spurious, Quit!At, QuitLock!At, Quit!Free,
           QuitLock!Free, Quit!Posix, QuitLock!Posix, Quit!Move, QuitLock!Move
  <1>10. Quit!Regain(p) <=> QuitLock!Regain(p)
    BY DEF Quit!Regain, QuitLock!Regain, Quit!At, QuitLock!At, Quit!Free, QuitLock!Free,
           Quit!Posix, QuitLock!Posix, Quit!Move, QuitLock!Move
  <1>11. Quit!LeaveWait(p) <=> QuitLock!LeaveWait(p)
    BY DEF Quit!LeaveWait, QuitLock!LeaveWait, Quit!At, QuitLock!At, Quit!Free,
           QuitLock!Free, Quit!Posix, QuitLock!Posix, Quit!Move, QuitLock!Move
  <1>12. Quit!LookForWaiter(p) <=> QuitLock!LookForWaiter(p)
    BY DEF Quit!LookForWaiter, QuitLock!LookForWaiter, Quit!At, QuitLock!At, Quit!Free,
           QuitLock!Free, Quit!Posix, QuitLock!Posix, Quit!Move, QuitLock!Move
  <1>13. Quit!CondSignal(p) <=> QuitLock!CondSignal(p)
    BY DEF Quit!CondSignal, QuitLock!CondSignal, Quit!Asleep, QuitLock!Asleep, Quit!At,
           QuitLock!At, Quit!Free, QuitLock!Free, Quit!Posix, QuitLock!Posix, Quit!Move,
           QuitLock!Move
  <1>14. Quit!SetEvent(p) <=> QuitLock!SetEvent(p)
    BY DEF Quit!SetEvent, QuitLock!SetEvent, Quit!At, QuitLock!At, Quit!Free,
           QuitLock!Free, Quit!Posix, QuitLock!Posix, Quit!Move, QuitLock!Move
  <1>. QED
    BY <1>1, <1>2, <1>3, <1>4, <1>5, <1>6, <1>7, <1>8, <1>9, <1>10, <1>11, <1>12, <1>13, <1>14
       DEF Quit!Inside, QuitLock!Inside, Quit!WaitStep, QuitLock!WaitStep, Quit!SinalStep, QuitLock!SinalStep,
           QuitLock!Call

LEMMA LockSteps ==
    [Next]_vars => [CondLock!LockNext]_cond /\ [QuitLock!LockNext]_quit
  <1>. SUFFICES ASSUME [Next]_vars
                PROVE  [CondLock!LockNext]_cond /\ [QuitLock!LockNext]_quit
    OBVIOUS
  <1>. Worker \in Threads /\ Owner \in Threads /\ Producers \subseteq Threads
    BY ThreadsFit
  <1>1. ASSUME NEW p \in Producers, CheckEnabled(p) \/ ProducerStep(p)
        PROVE  (cond' = cond \/ Cond!Sinal(p)) /\ quit' = quit
    BY <1>1 DEF CheckEnabled, ProducerStep, Push, WakeWorker, AddTaskReturns
  <1>2. ASSUME WorkerStep
        PROVE  /\ cond' = cond \/ Cond!Enter(Worker) \/ Cond!Unlock(Worker)
               /\ quit' = quit \/ Quit!Lock(Worker) \/ Quit!Unlock(Worker) \/ Quit!Sinal(Worker)
    BY <1>2 DEF WorkerStep, ThreadBegins, LoopTest, TakeTask, RunTask, FindEmpty, Park, Unpark,
                Reread, StopWorking, UnlockQuit, TellOwner
  <1>3. ASSUME Start \/ HalfClose \/ CloseStep
        PROVE  /\ cond' = cond \/ Cond!Sinal(Owner)
               /\ quit' = quit \/ Quit!Enter(Owner) \/ Quit!Unlock(Owner)
    BY <1>3 DEF Start, HalfClose, CloseStep, SetDestroy, Wakeup, QuitWait, Look, RemoveTask,
                CloseReturns
  <1>4. ASSUME NEW p \in Threads, InCond(p) \/ InQuit(p) \/ WakeForNothing(p)
        PROVE  /\ cond' = cond \/ Cond!Inside(p) \/ Cond!Spurious(p)
               /\ quit' = quit \/ Quit!Inside(p) \/ Quit!Spurious(p)
    BY <1>4 DEF InCond, InQuit, WakeForNothing
  <1>5. CASE UNCHANGED vars
    BY <1>5 DEF vars
  <1>6. CASE Next
    <2>1. CASE \E p \in Producers : CheckEnabled(p) \/ ProducerStep(p)
      BY <1>1, <2>1, SameCond DEF CondLock!LockNext
    <2>2. CASE WorkerStep
      BY <1>2, <2>2, SameCond, SameQuit DEF CondLock!LockNext, QuitLock!LockNext
    <2>3. CASE Start \/ HalfClose \/ CloseStep
      BY <1>3, <2>3, SameCond, SameQuit DEF CondLock!LockNext, QuitLock!LockNext
    <2>4. CASE \E p \in Threads : InCond(p) \/ InQuit(p) \/ WakeForNothing(p)
      BY <1>4, <2>4, SameCond, SameQuit DEF CondLock!LockNext, QuitLock!LockNext
    <2>. QED
      BY <1>6, <2>1, <2>2, <2>3, <2>4 DEF Next
  <1>. QED
    BY <1>5, <1>6

LEMMA LocksFresh == Init => CondLock!LockInit /\ QuitLock!LockInit
  BY ThreadAssumption DEF Init, CondLock!LockInit, QuitLock!LockInit, Cond!Fresh, CondLock!Fresh,
     Quit!Fresh, QuitLock!Fresh

\* LibThread uses its two locks only through their functions, each thread inside
\* one at a time: what is proved of the lock holds of both.
THEOREM LocksUsed == Spec => CondLock!LockSpec /\ QuitLock!LockSpec
  BY LocksFresh, LockSteps, PTL DEF Spec, CondLock!LockSpec, QuitLock!LockSpec

\* The invariant of a lock holds of both locks of the thread.
THEOREM LocksKept == Spec => [](CondLock!LockInv /\ QuitLock!LockInv)
  <1>1. CondLock!LockFits /\ QuitLock!LockFits
    BY ThreadsFit DEF CondLock!LockFits, QuitLock!LockFits, IsFiniteSet,
                      CondLock!IsFiniteSet, QuitLock!IsFiniteSet
  <1>2. CondLock!LockSpec => []CondLock!LockInv
    BY <1>1, CondLock!LockInductive
  <1>3. QuitLock!LockSpec => []QuitLock!LockInv
    BY <1>1, QuitLock!LockInductive
  <1>. QED
    BY <1>2, <1>3, LocksUsed, PTL

-----------------------------------------------------------------------------
(* What the threads do to _condLck. *)

CondRecord == cond \in CondLock!LockRecord

LEMMA CondTyped == CondLock!LockInv => /\ CondRecord /\ DOMAIN cond.pc = Threads
                                       /\ cond.sinal \in BOOLEAN
  BY DEF CondLock!LockInv, CondRecord, CondLock!LockRecord

LEMMA CondSinal ==
    ASSUME CondRecord, NEW p \in Threads, Cond!Sinal(p)
    PROVE  /\ cond.pc[p] = "out" /\ cond'.pc[p] \in {"out", "raised"} /\ cond'.sinal
           /\ \A q \in Threads \ {p} : cond'.pc[q] = cond.pc[q]
  BY DEF Cond!Sinal, Cond!At, Cond!Move, CondRecord, CondLock!LockRecord

LEMMA CondEnter ==
    ASSUME CondRecord, NEW p \in Threads, Cond!Enter(p)
    PROVE  /\ cond.pc[p] = "out" /\ cond'.pc[p] \in {"counted", "test"}
           /\ cond'.sinal = cond.sinal
           /\ \A q \in Threads \ {p} : cond'.pc[q] = cond.pc[q]
  BY DEF Cond!Enter, Cond!At, Cond!Move, CondRecord, CondLock!LockRecord

LEMMA CondUnlock ==
    ASSUME CondRecord, NEW p \in Threads, Cond!Unlock(p)
    PROVE  /\ cond.pc[p] = "hold" /\ cond'.pc[p] = "out"
           /\ \A q \in Threads \ {p} : cond'.pc[q] = cond.pc[q]
  BY DEF Cond!Unlock, Cond!At, Cond!Move, CondRecord, CondLock!LockRecord

LEMMA CondWaits ==
    ASSUME CondRecord, NEW p \in Threads, Cond!WaitStep(p) \/ Cond!Spurious(p)
    PROVE  /\ cond.pc[p] \in {"counted", "test", "asleep", "awake", "late", "leaving"}
           /\ cond'.pc[p] \in {"test", "asleep", "awake", "late", "leaving", "hold"}
           /\ cond.pc[p] = "leaving" => cond'.pc[p] = "hold"
           /\ cond'.pc[p] \in {"leaving", "hold"} \/ cond'.sinal = cond.sinal
           /\ \A q \in Threads \ {p} : cond'.pc[q] = cond.pc[q]
  <1>. USE DEF Cond!At, Cond!Move, CondRecord, CondLock!LockRecord
  <1>1. CASE Cond!Exchange(p)
    BY <1>1 DEF Cond!Exchange
  <1>2. CASE Cond!TestFlag(p)
    BY <1>2 DEF Cond!TestFlag
  <1>3. CASE Cond!SeeEvent(p) \/ Cond!TimeOut(p) \/ Cond!Spurious(p)
    BY <1>3 DEF Cond!SeeEvent, Cond!TimeOut, Cond!Spurious
  <1>4. CASE Cond!Regain(p)
    BY <1>4 DEF Cond!Regain
  <1>5. CASE Cond!LeaveWait(p)
    BY <1>5 DEF Cond!LeaveWait
  <1>. QED
    BY <1>1, <1>2, <1>3, <1>4, <1>5 DEF Cond!WaitStep

LEMMA CondSinals ==
    ASSUME CondRecord, NEW p \in Threads, Cond!SinalStep(p)
    PROVE  /\ cond.pc[p] \in {"raised", "post"} /\ cond'.pc[p] \in {"out", "post"}
           /\ cond'.sinal \/ cond'.sinal = cond.sinal
           /\ \A q \in Threads \ {p} : \/ cond'.pc[q] = cond.pc[q]
                                       \/ cond.pc[q] = "asleep" /\ cond'.pc[q] = "awake"
  <1>. USE DEF Cond!At, Cond!Move, CondRecord, CondLock!LockRecord
  <1>1. CASE Cond!LookForWaiter(p)
    BY <1>1 DEF Cond!LookForWaiter
  <1>2. CASE Cond!CondSignal(p)
    <2>1. CASE cond' = Cond!Move(p, "out")
      BY <1>2, <2>1 DEF Cond!CondSignal
    <2>2. CASE \E q \in Cond!Asleep : cond' = [Cond!Move(p, "out") EXCEPT !.pc[q] = "awake"]
      <3>1. PICK q \in Cond!Asleep : cond' = [Cond!Move(p, "out") EXCEPT !.pc[q] = "awake"]
        BY <2>2
      <3>2. q \in Threads /\ cond.pc[q] = "asleep" /\ cond.pc[p] = "post"
        BY <1>2 DEF Cond!CondSignal, Cond!Asleep
      <3>3. cond'.pc[q] = "awake" /\ cond'.sinal = cond.sinal /\ cond'.pc[p] = "out"
        BY <3>1, <3>2
      <3>4. \A r \in Threads \ {p, q} : cond'.pc[r] = cond.pc[r]
        BY <3>1, <3>2
      <3>. QED
        BY <3>2, <3>3, <3>4
    <2>. QED
      BY <1>2, <2>1, <2>2 DEF Cond!CondSignal
  <1>3. CASE Cond!SetEvent(p)
    BY <1>3 DEF Cond!SetEvent
  <1>. QED
    BY <1>1, <1>2, <1>3 DEF Cond!SinalStep

-----------------------------------------------------------------------------
(* The places of the threads and the list. *)

\* A thread's next task is one.
LEMMA NextTask ==
    ASSUME Control, NEW p \in Producers, producer[p] = "push"
    PROVE  <<p, AddedBy(p) + 1>> \in Task
  <1>1. IsFiniteSet(DOMAIN added)
    <2>1. DOMAIN added = 1..Len(added) /\ Len(added) \in Nat
      BY DEF Control
    <2>. QED
      BY <2>1, FS_Interval
  <1>2. AddedBy(p) \in Nat
    <2>1. IsFiniteSet({i \in DOMAIN added : added[i][1] = p})
      BY <1>1, FS_Subset
    <2>. QED
      BY <2>1, FS_CardinalityType DEF AddedBy
  <1>3. AddedBy(p) < MaxTasks
    BY DEF Control
  <1>. QED
    BY <1>2, <1>3, ThreadAssumption DEF Task

LEMMA RunningIsSeq == Control => running \in Seq(Task)
  <1>. SUFFICES ASSUME Control PROVE running \in Seq(Task)
    OBVIOUS
  <1>1. running = <<>> \/ \E t \in Task : running = <<t>>
    BY DEF Control
  <1>2. <<>> \in Seq(Task) /\ \A t \in Task : <<t>> \in Seq(Task)
    OBVIOUS
  <1>. QED
    BY <1>1, <1>2

LEMMA ControlInit == Init => Control
  BY DEF Init, Control, AtWork, Gone

LEMMA ControlProducer ==
    ASSUME Control, NEW p \in Producers, CheckEnabled(p) \/ ProducerStep(p)
    PROVE  Control'
  <1>1. CASE CheckEnabled(p)
    <2>1. /\ UNCHANGED <<tasks, isWorking, worker, running, owner, added, ran>>
          /\ producer' = [producer EXCEPT ![p] = "push"] /\ AddedBy(p) < MaxTasks
      BY <1>1 DEF CheckEnabled, flags, history
    <2>2. \A q : AddedBy(q)' = AddedBy(q)
      BY <2>1 DEF AddedBy
    <2>. QED
      BY <2>1, <2>2 DEF Control
  <1>2. CASE Push(p)
    <2>. DEFINE task == <<p, AddedBy(p) + 1>>
    <2>1. /\ UNCHANGED <<isWorking, worker, running, owner, ran>>
          /\ tasks' = Append(tasks, task) /\ added' = Append(added, task)
          /\ producer' = [producer EXCEPT ![p] = "wake"] /\ producer[p] = "push"
      BY <1>2 DEF Push, flags
    <2>2. task \in Task
      BY <2>1, NextTask
    <2>3. task[1] = p
      OBVIOUS
    <2>. HIDE DEF task
    <2>4. tasks' \in Seq(Task) /\ added' \in Seq(Task)
      BY <2>1, <2>2 DEF Control
    <2>5. ASSUME NEW q \in Producers, q # p
          PROVE  AddedBy(q)' = AddedBy(q)
      <3>1. added \in Seq(Task)
        BY DEF Control
      <3>2. /\ DOMAIN added' = 1..(Len(added) + 1) /\ DOMAIN added = 1..Len(added)
            /\ added'[Len(added) + 1] = task /\ \A i \in 1..Len(added) : added'[i] = added[i]
            /\ Len(added) \in Nat
        BY <2>1, <2>2, <3>1
      <3>3. {i \in DOMAIN added' : added'[i][1] = q} = {i \in DOMAIN added : added[i][1] = q}
        BY <2>3, <2>5, <3>2
      <3>. QED
        BY <3>3 DEF AddedBy
    <2>. QED
      BY <2>1, <2>4, <2>5 DEF Control
  <1>3. CASE WakeWorker(p) \/ AddTaskReturns(p)
    <2>1. /\ UNCHANGED <<tasks, isWorking, worker, running, owner, added, ran>>
          /\ \E place \in {"woke", "idle"} : producer' = [producer EXCEPT ![p] = place]
      BY <1>3 DEF WakeWorker, AddTaskReturns, flags, history
    <2>2. \A q : AddedBy(q)' = AddedBy(q)
      BY <2>1 DEF AddedBy
    <2>. QED
      BY <2>1, <2>2 DEF Control
  <1>. QED
    BY <1>1, <1>2, <1>3 DEF ProducerStep

LEMMA ControlWorker == Control /\ WorkerStep => Control'
  <1>. SUFFICES ASSUME Control, WorkerStep PROVE Control'
    OBVIOUS
  <1>1. UNCHANGED <<owner, producer, added>>
    BY DEF WorkerStep, ThreadBegins, LoopTest, TakeTask, RunTask, FindEmpty, Park, Unpark, Reread,
           StopWorking, UnlockQuit, TellOwner, history
  <1>2. \A q : AddedBy(q)' = AddedBy(q)
    BY <1>1 DEF AddedBy
  <1>3. worker # "none" /\ worker' # "none"
    BY DEF WorkerStep, ThreadBegins, LoopTest, TakeTask, RunTask, FindEmpty, Park, Unpark, Reread,
           StopWorking, UnlockQuit, TellOwner
  <1>4. CASE TakeTask
    <2>1. /\ worker = "take" /\ worker' = "run" /\ tasks # <<>> /\ tasks \in Seq(Task)
          /\ running' = <<Head(tasks)>> /\ tasks' = Tail(tasks) /\ UNCHANGED <<isWorking, ran>>
      BY <1>4 DEF TakeTask, Control, flags, history
    <2>2. tasks' \in Seq(Task) /\ Head(tasks) \in Task
      BY <2>1
    <2>. QED
      BY <1>1, <1>2, <2>1, <2>2 DEF Control, AtWork, Gone
  <1>5. CASE RunTask
    <2>1. /\ worker = "run" /\ worker' = "check" /\ running' = <<>> /\ ran' = ran \o running
          /\ UNCHANGED <<tasks, isWorking>>
      BY <1>5 DEF RunTask, flags
    <2>2. running \in Seq(Task) /\ ran \in Seq(Task)
      BY RunningIsSeq DEF Control
    <2>3. ran' \in Seq(Task)
      BY <2>1, <2>2
    <2>. QED
      BY <1>1, <1>2, <2>1, <2>3 DEF Control, AtWork, Gone
  <1>6. CASE ThreadBegins
    BY <1>1, <1>2, <1>6 DEF ThreadBegins, Control, AtWork, Gone, history
  <1>7. CASE LoopTest \/ FindEmpty \/ Park \/ Unpark \/ Reread
    BY <1>1, <1>2, <1>7 DEF LoopTest, FindEmpty, Park, Unpark, Reread, Control, AtWork, Gone,
                            flags, history
  <1>8. CASE StopWorking
    BY <1>1, <1>2, <1>8 DEF StopWorking, Control, AtWork, Gone, history
  <1>9. CASE UnlockQuit \/ TellOwner
    BY <1>1, <1>2, <1>9 DEF UnlockQuit, TellOwner, Control, AtWork, Gone, flags, history
  <1>. QED
    BY <1>4, <1>5, <1>6, <1>7, <1>8, <1>9 DEF WorkerStep

LEMMA ControlOwner == Control /\ (Start \/ HalfClose \/ CloseStep) => Control'
  <1>. SUFFICES ASSUME Control, Start \/ HalfClose \/ CloseStep PROVE Control'
    OBVIOUS
  <1>1. UNCHANGED <<isWorking, running, producer, added, ran>>
    BY DEF Start, HalfClose, CloseStep, SetDestroy, Wakeup, QuitWait, Look, RemoveTask,
           CloseReturns, flags, history
  <1>2. \A q : AddedBy(q)' = AddedBy(q)
    BY <1>1 DEF AddedBy
  <1>3. CASE Start
    BY <1>1, <1>2, <1>3 DEF Start, Control, AtWork, Gone
  <1>4. CASE HalfClose \/ SetDestroy \/ Wakeup \/ QuitWait \/ Look \/ CloseReturns
    BY <1>1, <1>2, <1>4 DEF HalfClose, SetDestroy, Wakeup, QuitWait, Look, CloseReturns, Control
  <1>5. CASE RemoveTask
    <2>1. /\ owner = "remove" /\ tasks # <<>> /\ tasks' = Tail(tasks)
          /\ UNCHANGED <<worker, owner>> /\ tasks \in Seq(Task)
      BY <1>5 DEF RemoveTask, Control
    <2>2. tasks' \in Seq(Task)
      BY <2>1
    <2>. QED
      BY <1>1, <1>2, <2>1, <2>2 DEF Control
  <1>. QED
    BY <1>3, <1>4, <1>5 DEF CloseStep

\* Steps inside the locks change nothing else.
LEMMA InsideLocks ==
    ASSUME NEW p, InCond(p) \/ InQuit(p) \/ WakeForNothing(p)
    PROVE  UNCHANGED <<tasks, isWorking, worker, running, owner, producer, added, ran, removed>>
  BY DEF InCond, InQuit, WakeForNothing, flags, history

LEMMA ControlKept == Control /\ [Next]_vars => Control'
  <1>. SUFFICES ASSUME Control, [Next]_vars PROVE Control'
    OBVIOUS
  <1>1. ASSUME UNCHANGED <<tasks, isWorking, worker, running, owner, producer, added, ran>>
        PROVE  Control'
    <2>1. \A q : AddedBy(q)' = AddedBy(q)
      BY <1>1 DEF AddedBy
    <2>. QED
      BY <1>1, <2>1 DEF Control
  <1>2. CASE UNCHANGED vars
    BY <1>1, <1>2 DEF vars
  <1>. QED
    BY <1>1, <1>2, InsideLocks, ControlProducer, ControlWorker, ControlOwner DEF Next

-----------------------------------------------------------------------------
(* Closing. *)

\* Where the worker may be at which stage of the owner.
Closing == AfterStart /\ CloserAlone

LEMMA ClosingKept == ~EarlyClose /\ Control /\ Closing /\ [Next]_vars => Closing'
  <1>. SUFFICES ASSUME ~EarlyClose, Control, Closing, [Next]_vars PROVE Closing'
    OBVIOUS
  <1>. USE DEF Closing, AfterStart, CloserAlone
  <1>1. ASSUME UNCHANGED <<owner, worker>>
        PROVE  Closing'
    BY <1>1
  <1>2. CASE WorkerStep
    <2>1. owner' = owner /\ worker' \notin {"none", "born"}
          /\ (worker \in Gone => worker' \in Gone)
      BY <1>2 DEF WorkerStep, ThreadBegins, LoopTest, TakeTask, RunTask, FindEmpty, Park, Unpark,
                  Reread, StopWorking, UnlockQuit, TellOwner, Gone
    <2>. QED
      BY <2>1 DEF Gone
  <1>3. CASE Start
    BY <1>3 DEF Start
  <1>4. CASE HalfClose
    BY <1>4 DEF HalfClose, Control, AtWork
  <1>5. CASE SetDestroy \/ Wakeup \/ QuitWait \/ RemoveTask \/ CloseReturns
    BY <1>5 DEF SetDestroy, Wakeup, QuitWait, RemoveTask, CloseReturns
  <1>6. CASE Look
    BY <1>6 DEF Look, Control, AtWork, Gone
  <1>7. ASSUME NEW p, CheckEnabled(p) \/ ProducerStep(p)
        PROVE  Closing'
    BY <1>1, <1>7 DEF CheckEnabled, ProducerStep, Push, WakeWorker, AddTaskReturns
  <1>8. CASE UNCHANGED vars
    BY <1>1, <1>8 DEF vars
  <1>. QED
    BY <1>1, <1>2, <1>3, <1>4, <1>5, <1>6, <1>7, <1>8, InsideLocks DEF Next, CloseStep

-----------------------------------------------------------------------------
(* The order of the tasks. *)

LEMMA FirstAndRest ==
    ASSUME NEW S, NEW s \in Seq(S), s # <<>>
    PROVE  s = <<Head(s)>> \o Tail(s) /\ Head(s) \in S /\ Tail(s) \in Seq(S)
  <1>1. Len(s) \in Nat /\ Len(s) >= 1
    BY EmptySeq
  <1>2. SubSeq(s, 1, Len(s)) = <<s[1]>> \o SubSeq(s, 2, Len(s))
    BY <1>1, SubSeqRecursiveFirst
  <1>3. SubSeq(s, 1, Len(s)) = s /\ Tail(s) = SubSeq(s, 2, Len(s)) /\ Head(s) = s[1]
    BY SubSeqFull, TailIsSubSeq
  <1>. QED
    BY <1>2, <1>3, HeadTailProperties


\* Joining three lists of tasks is associative.
LEMMA TasksJoined ==
    ASSUME NEW a \in Seq(Task), NEW b \in Seq(Task), NEW c \in Seq(Task)
    PROVE  (a \o b) \o c = a \o (b \o c)
  BY ConcatAssociative

LEMMA InTurnInit == Init => InTurn
  <1>. SUFFICES ASSUME Init PROVE InTurn
    OBVIOUS
  <1>1. /\ added = <<>> /\ ran = <<>> /\ running = <<>> /\ tasks = <<>> /\ removed = {}
    BY DEF Init, history
  <1>2. <<>> \in Seq(Task) /\ (<<>> \o <<>>) \o (<<>> \o <<>>) = <<>> /\ 1..Len(<<>>) = {}
    BY ConcatEmptySeq
  <1>. QED
    BY <1>1, <1>2 DEF InTurn

LEMMA InTurnKept == Control /\ CloserAlone /\ InTurn /\ [Next]_vars => InTurn'
  <1>. SUFFICES ASSUME Control, CloserAlone, InTurn, [Next]_vars PROVE InTurn'
    OBVIOUS
  <1>1. PICK gone \in Seq(Task) :
           /\ added = (ran \o running) \o (gone \o tasks)
           /\ removed = {gone[i] : i \in 1..Len(gone)}
           /\ owner \notin {"remove", "closed"} => gone = <<>>
    BY DEF InTurn
  <1>2. /\ running \in Seq(Task) /\ ran \in Seq(Task) /\ tasks \in Seq(Task)
        /\ <<>> \in Seq(Task) /\ ran \o running \in Seq(Task) /\ gone \o tasks \in Seq(Task)
    BY RunningIsSeq, ConcatProperties DEF Control
  <1>3. ASSUME UNCHANGED <<added, ran, running, tasks, removed>>,
               owner' \in {"remove", "closed"} \/ owner \notin {"remove", "closed"}
        PROVE  InTurn'
    BY <1>1, <1>3 DEF InTurn
  <1>4. ASSUME NEW p \in Producers, Push(p)
        PROVE  InTurn'
    <2>. DEFINE task == <<p, AddedBy(p) + 1>>
    <2>1. /\ tasks' = Append(tasks, task) /\ added' = Append(added, task)
          /\ UNCHANGED <<ran, running, removed, owner>> /\ producer[p] = "push"
      BY <1>4 DEF Push
    <2>2. task \in Task
      BY <2>1, NextTask
    <2>. HIDE DEF task
    <2>3. <<task>> \in Seq(Task) /\ Append(tasks, task) = tasks \o <<task>>
          /\ Append(added, task) = added \o <<task>>
      BY <1>2, <2>2, AppendIsConcat DEF Control
    <2>4. PICK last \in Seq(Task) : last = <<task>>
      BY <2>3
    <2>5. (gone \o tasks) \o last = gone \o (tasks \o last)
      <3>1. gone \in Seq(Task) /\ tasks \in Seq(Task) /\ last \in Seq(Task)
        BY <1>2
      <3>. QED
        BY <3>1, TasksJoined
    <2>6. ((ran \o running) \o (gone \o tasks)) \o last
              = (ran \o running) \o ((gone \o tasks) \o last)
      <3>1. PICK front, back \in Seq(Task) : front = ran \o running /\ back = gone \o tasks
        BY <1>2
      <3>2. (front \o back) \o last = front \o (back \o last)
        BY TasksJoined
      <3>. QED
        BY <3>1, <3>2
    <2>7. added' = (ran' \o running') \o (gone \o tasks')
      BY <1>1, <2>1, <2>3, <2>4, <2>5, <2>6
    <2>. QED
      BY <1>1, <2>1, <2>7 DEF InTurn
  <1>5. CASE TakeTask
    <2>1. /\ worker = "take" /\ tasks # <<>> /\ running' = <<Head(tasks)>>
          /\ tasks' = Tail(tasks) /\ UNCHANGED <<added, ran, removed, owner>>
      BY <1>5 DEF TakeTask, history
    <2>2. gone = <<>> /\ running = <<>>
      BY <1>1, <2>1 DEF CloserAlone, Control
    <2>3. /\ tasks = <<Head(tasks)>> \o Tail(tasks) /\ <<Head(tasks)>> \in Seq(Task)
          /\ Tail(tasks) \in Seq(Task)
      BY <1>2, <2>1, FirstAndRest
    <2>4. ran \o (<<Head(tasks)>> \o Tail(tasks)) = (ran \o <<Head(tasks)>>) \o Tail(tasks)
      <3>1. PICK first, rest \in Seq(Task) : first = <<Head(tasks)>> /\ rest = Tail(tasks)
        BY <2>3
      <3>2. ran \in Seq(Task)
        BY <1>2
      <3>3. ran \o (first \o rest) = (ran \o first) \o rest
        BY <3>2, TasksJoined
      <3>. QED
        BY <3>1, <3>3
    <2>5. ran \o <<>> = ran /\ <<>> \o tasks = tasks /\ <<>> \o Tail(tasks) = Tail(tasks)
      BY <1>2, <2>3, ConcatEmptySeq
    <2>6. added' = (ran' \o running') \o (gone \o tasks')
      BY <1>1, <2>1, <2>2, <2>3, <2>4, <2>5
    <2>. QED
      BY <1>1, <2>1, <2>6 DEF InTurn
  <1>6. CASE RunTask
    <2>1. /\ ran' = ran \o running /\ running' = <<>>
          /\ UNCHANGED <<added, tasks, removed, owner>>
      BY <1>6 DEF RunTask
    <2>2. (ran \o running) \o <<>> = ran \o running
      BY <1>2, ConcatEmptySeq
    <2>. QED
      BY <1>1, <2>1, <2>2 DEF InTurn
  <1>7. CASE RemoveTask
    <2>. DEFINE first == Head(tasks)
    <2>1. /\ owner = "remove" /\ tasks # <<>> /\ tasks' = Tail(tasks)
          /\ removed' = removed \cup {first} /\ UNCHANGED <<added, ran, running, owner>>
      BY <1>7 DEF RemoveTask
    <2>2. /\ tasks = <<first>> \o Tail(tasks) /\ first \in Task /\ <<first>> \in Seq(Task)
          /\ Tail(tasks) \in Seq(Task)
      BY <1>2, <2>1, FirstAndRest
    <2>. HIDE DEF first
    <2>3. gone \o (<<first>> \o Tail(tasks)) = (gone \o <<first>>) \o Tail(tasks)
      BY <2>2, TasksJoined
    <2>4. Append(gone, first) = gone \o <<first>>
      BY <2>2, AppendIsConcat
    <2>5. /\ Append(gone, first) \in Seq(Task) /\ Len(Append(gone, first)) = Len(gone) + 1
          /\ \A i \in 1..Len(gone) : Append(gone, first)[i] = gone[i]
          /\ Append(gone, first)[Len(gone) + 1] = first /\ Len(gone) \in Nat
      BY <2>2, AppendProperties
    <2>6. removed' = {Append(gone, first)[i] : i \in 1..Len(Append(gone, first))}
      BY <1>1, <2>1, <2>5
    <2>7. added' = (ran' \o running') \o (Append(gone, first) \o tasks')
      BY <1>1, <2>1, <2>2, <2>3, <2>4
    <2>. QED
      BY <2>1, <2>5, <2>6, <2>7 DEF InTurn
  <1>8. CASE \E p \in Producers : CheckEnabled(p) \/ WakeWorker(p) \/ AddTaskReturns(p)
    BY <1>3, <1>8 DEF CheckEnabled, WakeWorker, AddTaskReturns, history
  <1>9. CASE \/ ThreadBegins \/ LoopTest \/ FindEmpty \/ Park \/ Unpark \/ Reread
             \/ StopWorking \/ UnlockQuit \/ TellOwner
    BY <1>3, <1>9 DEF ThreadBegins, LoopTest, FindEmpty, Park, Unpark, Reread, StopWorking,
                      UnlockQuit, TellOwner, history
  <1>10. CASE \/ Start \/ HalfClose \/ SetDestroy \/ Wakeup \/ QuitWait \/ Look \/ CloseReturns
    BY <1>3, <1>10 DEF Start, HalfClose, SetDestroy, Wakeup, QuitWait, Look, CloseReturns, history
  <1>11. CASE UNCHANGED vars
    BY <1>3, <1>11 DEF vars
  <1>12. CASE \E p \in Threads : InCond(p) \/ InQuit(p) \/ WakeForNothing(p)
    BY <1>3, <1>12, InsideLocks
  <1>. QED
    BY <1>4, <1>5, <1>6, <1>7, <1>8, <1>9, <1>10, <1>11, <1>12
       DEF Next, ProducerStep, WorkerStep, CloseStep

-----------------------------------------------------------------------------
(* The worker's sleep. *)

LEMMA ListensProducer ==
    ASSUME CondRecord, Control, OnlyWorkerWaits, Listens,
           NEW p \in Producers, CheckEnabled(p) \/ ProducerStep(p)
    PROVE  OnlyWorkerWaits' /\ Listens'
  <1>. p \in Threads /\ p # Worker /\ Worker \in Threads
    BY ThreadsFit, ThreadAssumption
  <1>0. producer \in [Producers -> {"idle", "push", "wake", "woke"}]
    BY DEF Control
  <1>1. CASE CheckEnabled(p)
    <2>1. UNCHANGED <<cond, tasks, worker>> /\ producer[p] = "idle"
          /\ producer' = [producer EXCEPT ![p] = "push"]
      BY <1>1 DEF CheckEnabled
    <2>. QED
      BY <1>0, <2>1 DEF OnlyWorkerWaits, Listens
  <1>2. CASE Push(p)
    <2>1. UNCHANGED <<cond, worker>> /\ producer' = [producer EXCEPT ![p] = "wake"]
      BY <1>2 DEF Push
    <2>. QED
      BY <1>0, <2>1 DEF OnlyWorkerWaits, Listens
  <1>3. CASE WakeWorker(p)
    <2>1. UNCHANGED <<tasks, worker>> /\ Cond!Sinal(p)
      BY <1>3 DEF WakeWorker
    <2>2. /\ cond'.pc[p] \in {"out", "raised"} /\ cond'.sinal
          /\ \A q \in Threads \ {p} : cond'.pc[q] = cond.pc[q]
      BY <2>1, CondSinal
    <2>. QED
      BY <2>1, <2>2 DEF OnlyWorkerWaits, Listens
  <1>4. CASE AddTaskReturns(p)
    <2>1. UNCHANGED <<cond, tasks, worker>> /\ producer[p] = "woke"
          /\ producer' = [producer EXCEPT ![p] = "idle"]
      BY <1>4 DEF AddTaskReturns
    <2>. QED
      BY <1>0, <2>1 DEF OnlyWorkerWaits, Listens
  <1>. QED
    BY <1>1, <1>2, <1>3, <1>4 DEF ProducerStep

LEMMA ListensWorker ==
    ASSUME CondRecord, OnlyWorkerWaits, Listens, WorkerStep
    PROVE  OnlyWorkerWaits' /\ Listens'
  <1>. Worker \in Threads
    BY ThreadsFit
  <1>1. CASE Park
    <2>1. /\ worker = "park" /\ worker' = "wait" /\ Cond!Enter(Worker)
          /\ UNCHANGED <<tasks, producer>>
      BY <1>1 DEF Park
    <2>2. /\ cond.pc[Worker] = "out" /\ cond'.pc[Worker] \in {"counted", "test"}
          /\ cond'.sinal = cond.sinal
          /\ \A q \in Threads \ {Worker} : cond'.pc[q] = cond.pc[q]
      BY <2>1, CondEnter
    <2>. QED
      BY <2>1, <2>2 DEF OnlyWorkerWaits, Listens
  <1>2. CASE Unpark
    <2>1. worker = "wait" /\ worker' = "reread" /\ Cond!Unlock(Worker)
      BY <1>2 DEF Unpark
    <2>2. /\ cond'.pc[Worker] = "out"
          /\ \A q \in Threads \ {Worker} : cond'.pc[q] = cond.pc[q]
      BY <2>1, CondUnlock
    <2>. QED
      BY <2>1, <2>2 DEF OnlyWorkerWaits, Listens
  <1>3. CASE FindEmpty
    BY <1>3 DEF FindEmpty, OnlyWorkerWaits, Listens
  <1>4. CASE \/ ThreadBegins \/ LoopTest \/ TakeTask \/ RunTask \/ Reread \/ StopWorking
             \/ UnlockQuit \/ TellOwner
    <2>1. cond' = cond /\ worker # "wait" /\ worker' \notin {"park", "wait"}
      BY <1>4 DEF ThreadBegins, LoopTest, TakeTask, RunTask, Reread, StopWorking, UnlockQuit,
                  TellOwner
    <2>. QED
      BY <2>1 DEF OnlyWorkerWaits, Listens
  <1>. QED
    BY <1>1, <1>2, <1>3, <1>4 DEF WorkerStep

LEMMA ListensOwner ==
    ASSUME CondRecord, Control, OnlyWorkerWaits, Listens, Start \/ HalfClose \/ CloseStep
    PROVE  OnlyWorkerWaits' /\ Listens'
  <1>. Worker \in Threads /\ Owner \in Threads /\ Owner # Worker
    BY ThreadsFit, ThreadAssumption
  <1>1. CASE Start
    BY <1>1 DEF Start, Control, OnlyWorkerWaits, Listens
  <1>2. CASE Wakeup
    <2>1. UNCHANGED <<tasks, worker, producer>> /\ Cond!Sinal(Owner)
      BY <1>2 DEF Wakeup
    <2>2. /\ cond'.pc[Owner] \in {"out", "raised"} /\ cond'.sinal
          /\ \A q \in Threads \ {Owner} : cond'.pc[q] = cond.pc[q]
      BY <2>1, CondSinal
    <2>. QED
      BY <2>1, <2>2 DEF OnlyWorkerWaits, Listens
  <1>3. CASE HalfClose \/ SetDestroy \/ QuitWait \/ Look \/ RemoveTask \/ CloseReturns
    <2>1. UNCHANGED <<cond, worker, producer>> /\ (tasks' = tasks \/ tasks # <<>>)
      BY <1>3 DEF HalfClose, SetDestroy, QuitWait, Look, RemoveTask, CloseReturns
    <2>. QED
      BY <2>1 DEF OnlyWorkerWaits, Listens
  <1>. QED
    BY <1>1, <1>2, <1>3 DEF CloseStep

LEMMA ListensInside ==
    ASSUME CondRecord, OnlyWorkerWaits, Listens,
           NEW p \in Threads, InCond(p) \/ InQuit(p) \/ WakeForNothing(p)
    PROVE  OnlyWorkerWaits' /\ Listens'
  <1>. Worker \in Threads
    BY ThreadsFit
  <1>1. UNCHANGED <<tasks, worker, producer>>
    BY InsideLocks
  <1>2. CASE cond' = cond
    BY <1>1, <1>2 DEF OnlyWorkerWaits, Listens
  <1>3. CASE Cond!WaitStep(p) \/ Cond!Spurious(p)
    <2>1. /\ cond.pc[p] \in {"counted", "test", "asleep", "awake", "late", "leaving"}
          /\ cond'.pc[p] \in {"test", "asleep", "awake", "late", "leaving", "hold"}
          /\ cond.pc[p] = "leaving" => cond'.pc[p] = "hold"
          /\ cond'.pc[p] \in {"leaving", "hold"} \/ cond'.sinal = cond.sinal
          /\ \A q \in Threads \ {p} : cond'.pc[q] = cond.pc[q]
      BY <1>3, CondWaits
    <2>2. p = Worker /\ worker = "wait"
      BY <2>1 DEF OnlyWorkerWaits
    <2>. QED
      BY <1>1, <2>1, <2>2 DEF OnlyWorkerWaits, Listens
  <1>4. CASE Cond!SinalStep(p)
    <2>1. /\ cond.pc[p] \in {"raised", "post"} /\ cond'.pc[p] \in {"out", "post"}
          /\ cond'.sinal \/ cond'.sinal = cond.sinal
          /\ \A q \in Threads \ {p} : \/ cond'.pc[q] = cond.pc[q]
                                      \/ cond.pc[q] = "asleep" /\ cond'.pc[q] = "awake"
      BY <1>4, CondSinals
    <2>2. p # Worker
      BY <2>1 DEF OnlyWorkerWaits
    <2>. QED
      BY <1>1, <2>1, <2>2 DEF OnlyWorkerWaits, Listens
  <1>. QED
    BY <1>2, <1>3, <1>4 DEF InCond, InQuit, WakeForNothing, Cond!Inside

LEMMA ListensInit == Init => OnlyWorkerWaits /\ Listens
  BY ThreadsFit DEF Init, Cond!Fresh, OnlyWorkerWaits, Listens

LEMMA ListensKept ==
    CondRecord /\ Control /\ OnlyWorkerWaits /\ Listens /\ [Next]_vars
        => OnlyWorkerWaits' /\ Listens'
  <1>. SUFFICES ASSUME CondRecord, Control, OnlyWorkerWaits, Listens, [Next]_vars
                PROVE  OnlyWorkerWaits' /\ Listens'
    OBVIOUS
  <1>1. CASE UNCHANGED vars
    BY <1>1 DEF vars, OnlyWorkerWaits, Listens
  <1>. QED
    BY <1>1, ListensProducer, ListensWorker, ListensOwner, ListensInside DEF Next

-----------------------------------------------------------------------------
(* The theorems. *)

\* The flag _isWorking says where the worker is, and it runs one task at a time.
THEOREM Controlled == Spec => []Control
  BY ControlInit, ControlKept, PTL DEF Spec

\* Unless a thread is closed before it is at work: FinishClose empties the list only
\* when the worker has left its loop, without the lock and yet alone.
THEOREM AloneAtTheEnd == ~EarlyClose => (Spec => []CloserAlone)
  <1>. SUFFICES ASSUME ~EarlyClose PROVE Spec => []CloserAlone
    OBVIOUS
  <1>1. Init => Closing
    BY DEF Init, Closing, AfterStart, CloserAlone
  <1>2. Control /\ Closing /\ [Next]_vars => Closing'
    BY ClosingKept
  <1>3. Closing => CloserAlone
    BY DEF Closing
  <1>. QED
    BY <1>1, <1>2, <1>3, Controlled, PTL DEF Spec

\* Every task that producers add is run in the order in which it was added, one at
\* a time and once, or released by the owner after the last that was run.
THEOREM TasksInTurn == ~EarlyClose => (Spec => []InTurn)
  <1>. SUFFICES ASSUME ~EarlyClose PROVE Spec => []InTurn
    OBVIOUS
  <1>1. Control /\ CloserAlone /\ InTurn /\ [Next]_vars => InTurn'
    BY InTurnKept
  <1>. QED
    BY <1>1, InTurnInit, Controlled, AloneAtTheEnd, PTL DEF Spec

\* The worker never sleeps on a task unless a wake-up is coming: AddTask signals
\* without the lock and after the push, the worker looks at the list before it
\* takes the lock to sleep, and Sinal does nothing when the flag is up.
THEOREM NoSleepOnTasks == Spec => []WakeUpComing
  <1>1. CondLock!LockInv => CondRecord
    BY CondTyped
  <1>2. Spec => [](OnlyWorkerWaits /\ Listens)
    BY <1>1, ListensInit, ListensKept, Controlled, LocksKept, PTL DEF Spec
  <1>3. CondLock!LockInv /\ OnlyWorkerWaits /\ Listens => WakeUpComing
    <2>. SUFFICES ASSUME CondLock!LockInv, OnlyWorkerWaits, Listens,
                         cond.pc[Worker] = "asleep", tasks # <<>>
                  PROVE  \/ \E p \in Producers : producer[p] = "wake"
                         \/ \E q \in Threads : cond.pc[q] \in {"raised", "post"}
                         \/ cond.event
      BY DEF WakeUpComing
    <2>1. worker = "wait" /\ Worker \in Threads
      BY ThreadsFit DEF OnlyWorkerWaits
    <2>2. CASE cond.sinal
      <3>1. CondLock!OnItsWay
        BY <2>1, <2>2 DEF CondLock!LockInv, CondLock!NotForgotten, CondLock!At
      <3>2. \A q \in Threads : cond.pc[q] \notin {"awake", "late", "test"}
        BY DEF OnlyWorkerWaits
      <3>. QED
        BY <3>1, <3>2 DEF CondLock!OnItsWay
    <2>. QED
      BY <2>1, <2>2 DEF Listens
  <1>. QED
    BY <1>2, <1>3, LocksKept, PTL
=============================================================================
