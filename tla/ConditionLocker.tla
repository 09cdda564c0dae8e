--------------------------- MODULE ConditionLocker ---------------------------
(***************************************************************************)
(* ConditionLocker (ConditionLocker.cpp): a mutex with a flag _isSinal and *)
(* a count of waiters, so that Sinal() may be called without the mutex.    *)
(* Both builds are modelled: "posix" (a condition variable) and "win" (a   *)
(* manual-reset event).  A process is between calls ("out"), owns the      *)
(* mutex ("hold"), or stands somewhere inside Wait, TimeWait or Sinal.     *)
(* Every unsynchronised read or write of _isSinal and _waitNum is a step   *)
(* of its own.                                                             *)
(***************************************************************************)
EXTENDS Naturals, FiniteSets

CONSTANTS Procs,        \* the threads that use the lock
          Timed,        \* those that wait with TimeWait, the others with Wait
          None          \* nobody

VARIABLE lck            \* the lock and where each thread stands in its code

Places == {"out", "hold", "test", "counted", "asleep", "awake", "late", "leaving",
           "raised", "post"}

LockType == lck \in [platform : {"posix", "win"}, owner : Procs \cup {None},
                     sinal : BOOLEAN, waitNum : 0..Cardinality(Procs),
                     event : BOOLEAN, pc : [Procs -> Places]]

Fresh(platform) ==
    [platform |-> platform, owner |-> None, sinal |-> FALSE, waitNum |-> 0,
     event |-> FALSE, pc |-> [p \in Procs |-> "out"]]

Free == lck.owner = None
Posix == lck.platform = "posix"
At(p, place) == lck.pc[p] = place
Move(p, place) == [lck EXCEPT !.pc[p] = place]

\* Lock() and Unlock() of the mutex (Locker.h).
Lock(p) == At(p, "out") /\ Free /\ lck' = [Move(p, "hold") EXCEPT !.owner = p]
Unlock(p) == At(p, "hold") /\ lck' = [Move(p, "out") EXCEPT !.owner = None]

\* Lock() and the first statement of Wait or TimeWait.
Enter(p) ==
    /\ At(p, "out") /\ Free
    /\ lck' = IF Posix
              THEN [Move(p, "counted") EXCEPT !.owner = p, !.waitNum = @ + 1]
              ELSE [Move(p, "test") EXCEPT !.owner = p]

\* Mutant: the thread sleeps without looking at the flag.
ExchangeBlind(p) ==
    /\ At(p, "counted")
    /\ lck' = [Move(p, "asleep") EXCEPT !.owner = None, !.sinal = FALSE]

\* exchange(false): a signal already given is consumed, else the thread goes
\* to sleep and pthread_cond_wait lets the mutex go.
Exchange(p) ==
    /\ At(p, "counted")
    /\ lck' = IF lck.sinal THEN [Move(p, "leaving") EXCEPT !.sinal = FALSE]
                           ELSE [Move(p, "asleep") EXCEPT !.owner = None]

\* The test of the Windows loop: sleep on the event, or leave and clear both.
TestFlag(p) ==
    /\ At(p, "test")
    /\ lck' = IF lck.sinal
              THEN [Move(p, "hold") EXCEPT !.sinal = FALSE, !.event = FALSE]
              ELSE [Move(p, "asleep") EXCEPT !.owner = None, !.waitNum = @ + 1]

\* Waking up: by the event, after the time asked for, or for no reason.
SeeEvent(p) == At(p, "asleep") /\ lck.event /\ lck' = Move(p, "awake")
TimeOut(p) == p \in Timed /\ At(p, "asleep") /\ lck' = Move(p, "late")
Spurious(p) == Posix /\ At(p, "asleep") /\ lck' = Move(p, "awake")

\* A woken thread owns the mutex again and clears the flag; on Windows it
\* tests the flag once more, unless its time is up.
Regain(p) ==
    /\ At(p, "awake") \/ At(p, "late")
    /\ Free
    /\ lck' = IF Posix
              THEN [Move(p, "leaving") EXCEPT !.owner = p, !.sinal = FALSE]
              ELSE [Move(p, IF At(p, "late") THEN "hold" ELSE "test") EXCEPT
                        !.owner = p, !.waitNum = @ - 1, !.event = FALSE,
                        !.sinal = @ /\ ~At(p, "late")]

LeaveWait(p) == At(p, "leaving") /\ lck' = [Move(p, "hold") EXCEPT !.waitNum = @ - 1]

\* Sinal(): whoever finds the flag down raises it and goes on to wake a
\* waiter; whoever finds it up returns at once.
Sinal(p) ==
    /\ At(p, "out")
    /\ lck' = IF lck.sinal THEN lck ELSE [Move(p, "raised") EXCEPT !.sinal = TRUE]

\* The Posix build looks for waiters before it locks.
LookForWaiter(p) ==
    /\ Posix /\ At(p, "raised")
    /\ lck' = Move(p, IF lck.waitNum > 0 THEN "post" ELSE "out")

\* pthread_cond_signal: one sleeper wakes up, if there is one.
Asleep == {q \in Procs : At(q, "asleep")}
CondSignal(p) ==
    /\ At(p, "post") /\ Free
    /\ IF Asleep = {} THEN lck' = Move(p, "out")
       ELSE \E q \in Asleep : lck' = [Move(p, "out") EXCEPT !.pc[q] = "awake"]

\* The Windows build raises the flag again, and the event, under the lock.
SetEvent(p) ==
    /\ ~Posix /\ At(p, "raised") /\ Free
    /\ lck' = [Move(p, "out") EXCEPT !.sinal = TRUE, !.event = @ \/ lck.waitNum > 0]

\* What a thread inside Wait, TimeWait or Sinal does next.
WaitStep(p) == \/ Exchange(p) \/ TestFlag(p) \/ SeeEvent(p) \/ TimeOut(p)
               \/ Regain(p) \/ LeaveWait(p)
SinalStep(p) == LookForWaiter(p) \/ CondSignal(p) \/ SetEvent(p)
Inside(p) == WaitStep(p) \/ SinalStep(p)
=============================================================================
