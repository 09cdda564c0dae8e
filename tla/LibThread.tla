------------------------------ MODULE LibThread ------------------------------
(***************************************************************************)
(* LibThread (LibThread.h, LibThread.cpp): a worker thread that runs the   *)
(* tasks producers hand it, in order, and sleeps on _condLck while there   *)
(* are none; its owner starts it and closes it.  Accesses to _tasks under  *)
(* _taskLck (a spin lock held for one list operation) are single steps;    *)
(* every other shared read or write is a step of its own.                  *)
(***************************************************************************)
EXTENDS Naturals, Sequences, FiniteSets

CONSTANTS Producers,    \* threads that call AddTask
          MaxTasks,     \* bound: tasks each of them adds
          Worker, Owner, None,
          Platforms,    \* the builds: a subset of {"posix", "win"}
          EarlyClose    \* may Close come before the worker is at work?

ASSUME ThreadAssumption ==
    /\ IsFiniteSet(Producers) /\ MaxTasks \in Nat
    /\ {Worker, Owner, None} \cap Producers = {}
    /\ Worker # Owner /\ None \notin {Worker, Owner}
    /\ Platforms \subseteq {"posix", "win"} /\ EarlyClose \in BOOLEAN

VARIABLES cond, quit,                       \* _condLck, _quitLck
          tasks,                            \* _tasks
          isStart, isWorking, isDestroy, enableAddTask,
          worker, isEmpty, running,         \* the worker: place and locals
          owner,                            \* the owner: place
          producer,                         \* each producer: place
          added, ran, removed               \* history: tasks pushed, run, released

vars == <<cond, quit, tasks, isStart, isWorking, isDestroy, enableAddTask,
          worker, isEmpty, running, owner, producer, added, ran, removed>>
flags == <<isStart, isWorking, isDestroy, enableAddTask>>
history == <<added, ran, removed>>

Threads == Producers \cup {Worker, Owner}
Task == Producers \X (1..MaxTasks)

Cond == INSTANCE ConditionLocker WITH lck <- cond, Procs <- Threads, Timed <- {}
Quit == INSTANCE ConditionLocker WITH lck <- quit, Procs <- Threads, Timed <- {Owner}

Init ==
    /\ \E platform \in Platforms : cond = Cond!Fresh(platform) /\ quit = Quit!Fresh(platform)
    /\ tasks = <<>> /\ running = <<>>
    /\ isStart = FALSE /\ isWorking = FALSE /\ isDestroy = FALSE /\ enableAddTask = TRUE
    /\ worker = "none" /\ isEmpty = FALSE
    /\ owner = "new"
    /\ producer = [p \in Producers |-> "idle"]
    /\ added = <<>> /\ ran = <<>> /\ removed = {}

-----------------------------------------------------------------------------
(* Producers: AddTask.                                                     *)

AddedBy(p) == Cardinality({i \in DOMAIN added : added[i][1] = p})

\* The flag is read without the lock.
CheckEnabled(p) ==
    /\ producer[p] = "idle" /\ AddedBy(p) < MaxTasks /\ enableAddTask
    /\ producer' = [producer EXCEPT ![p] = "push"]
    /\ UNCHANGED <<cond, quit, tasks, flags, worker, isEmpty, running, owner, history>>

Push(p) ==
    LET task == <<p, AddedBy(p) + 1>>
    IN  /\ producer[p] = "push"
        /\ tasks' = Append(tasks, task) /\ added' = Append(added, task)
        /\ producer' = [producer EXCEPT ![p] = "wake"]
        /\ UNCHANGED <<cond, quit, flags, worker, isEmpty, running, owner, ran, removed>>

WakeWorker(p) ==
    /\ producer[p] = "wake" /\ Cond!Sinal(p)
    /\ producer' = [producer EXCEPT ![p] = "woke"]
    /\ UNCHANGED <<quit, tasks, flags, worker, isEmpty, running, owner, history>>

AddTaskReturns(p) ==
    /\ producer[p] = "woke" /\ Cond!At(p, "out")
    /\ producer' = [producer EXCEPT ![p] = "idle"]
    /\ UNCHANGED <<cond, quit, tasks, flags, worker, isEmpty, running, owner, history>>

-----------------------------------------------------------------------------
(* The worker: LibThreadHandlerLogic.                                      *)

ThreadBegins ==
    /\ worker = "born"
    /\ isWorking' = TRUE /\ isEmpty' = FALSE /\ worker' = "check"
    /\ UNCHANGED <<cond, quit, tasks, isStart, isDestroy, enableAddTask, running, owner,
                   producer, history>>

\* Mutant: the loop goes on while there is a task or no order to stop was seen
\* before the last one.
LoopTestEmpty ==
    /\ worker = "check"
    /\ worker' = IF isDestroy /\ ~isEmpty THEN "leave" ELSE "take"
    /\ UNCHANGED <<cond, quit, tasks, flags, isEmpty, running, owner, producer, history>>

\* while(!isDestroy || !isEmpty)
LoopTest ==
    /\ worker = "check"
    /\ worker' = IF isDestroy /\ isEmpty THEN "leave" ELSE "take"
    /\ UNCHANGED <<cond, quit, tasks, flags, isEmpty, running, owner, producer, history>>

TakeTask ==
    /\ worker = "take" /\ tasks # <<>>
    /\ running' = <<Head(tasks)>> /\ tasks' = Tail(tasks)
    /\ isEmpty' = FALSE /\ worker' = "run"
    /\ UNCHANGED <<cond, quit, flags, owner, producer, history>>

RunTask ==
    /\ worker = "run"
    /\ ran' = ran \o running /\ running' = <<>> /\ worker' = "check"
    /\ UNCHANGED <<cond, quit, tasks, flags, isEmpty, owner, producer, added, removed>>

FindEmpty ==
    /\ worker = "take" /\ tasks = <<>>
    /\ worker' = "park"
    /\ UNCHANGED <<cond, quit, tasks, flags, isEmpty, running, owner, producer, history>>

Park ==
    /\ worker = "park" /\ Cond!Enter(Worker)
    /\ worker' = "wait"
    /\ UNCHANGED <<quit, tasks, flags, isEmpty, running, owner, producer, history>>

Unpark ==
    /\ worker = "wait" /\ Cond!Unlock(Worker)
    /\ worker' = "reread"
    /\ UNCHANGED <<quit, tasks, flags, isEmpty, running, owner, producer, history>>

Reread ==
    /\ worker = "reread"
    /\ isEmpty' = (tasks = <<>>) /\ worker' = "check"
    /\ UNCHANGED <<cond, quit, tasks, flags, running, owner, producer, history>>

\* Under _quitLck the worker says that it has stopped, and then tells the owner.
StopWorking ==
    /\ worker = "leave" /\ Quit!Lock(Worker)
    /\ isWorking' = FALSE /\ enableAddTask' = FALSE /\ worker' = "stopped"
    /\ UNCHANGED <<cond, tasks, isStart, isDestroy, isEmpty, running, owner, producer, history>>

UnlockQuit ==
    /\ worker = "stopped" /\ Quit!Unlock(Worker)
    /\ worker' = "tell"
    /\ UNCHANGED <<cond, tasks, flags, isEmpty, running, owner, producer, history>>

TellOwner ==
    /\ worker = "tell" /\ Quit!Sinal(Worker)
    /\ worker' = "told"
    /\ UNCHANGED <<cond, tasks, flags, isEmpty, running, owner, producer, history>>

-----------------------------------------------------------------------------
(* The owner: Start, then Close, which is HalfClose and FinishClose.       *)

Start ==
    /\ owner = "new"
    /\ isStart' = TRUE /\ worker' = "born" /\ owner' = "up"
    /\ UNCHANGED <<cond, quit, tasks, isWorking, isDestroy, enableAddTask, isEmpty, running,
                   producer, history>>

HalfClose ==
    /\ owner = "up" /\ (EarlyClose \/ isWorking)
    /\ isStart' = FALSE /\ enableAddTask' = FALSE /\ owner' = "halfClosed"
    /\ UNCHANGED <<cond, quit, tasks, isWorking, isDestroy, worker, isEmpty, running,
                   producer, history>>

SetDestroy ==
    /\ owner = "halfClosed"
    /\ isDestroy' = TRUE /\ owner' = "wakeup"
    /\ UNCHANGED <<cond, quit, tasks, isStart, isWorking, enableAddTask, worker, isEmpty,
                   running, producer, history>>

\* One round of FinishClose: wake the worker, wait a little, look.
Wakeup ==
    /\ owner = "wakeup" /\ Cond!Sinal(Owner)
    /\ owner' = "quitWait"
    /\ UNCHANGED <<quit, tasks, flags, worker, isEmpty, running, producer, history>>

QuitWait ==
    /\ owner = "quitWait" /\ Cond!At(Owner, "out") /\ Quit!Enter(Owner)
    /\ owner' = "look"
    /\ UNCHANGED <<cond, tasks, flags, worker, isEmpty, running, producer, history>>

\* Mutant: one wake-up is taken for the end of the thread.
LookOnce ==
    /\ owner = "look" /\ Quit!Unlock(Owner)
    /\ owner' = "remove"
    /\ UNCHANGED <<cond, tasks, flags, worker, isEmpty, running, producer, history>>

Look ==
    /\ owner = "look" /\ Quit!Unlock(Owner)
    /\ owner' = IF isWorking THEN "wakeup" ELSE "remove"
    /\ UNCHANGED <<cond, tasks, flags, worker, isEmpty, running, producer, history>>

\* What is left in the list is released, without the lock.
RemoveTask ==
    /\ owner = "remove" /\ tasks # <<>>
    /\ removed' = removed \cup {Head(tasks)} /\ tasks' = Tail(tasks)
    /\ UNCHANGED <<cond, quit, flags, worker, isEmpty, running, owner, producer, added, ran>>

CloseReturns ==
    /\ owner = "remove" /\ tasks = <<>>
    /\ owner' = "closed"
    /\ UNCHANGED <<cond, quit, tasks, flags, worker, isEmpty, running, producer, history>>

-----------------------------------------------------------------------------
InCond(p) == Cond!Inside(p) /\ UNCHANGED <<quit, tasks, flags, worker, isEmpty, running,
                                           owner, producer, history>>
InQuit(p) == Quit!Inside(p) /\ UNCHANGED <<cond, tasks, flags, worker, isEmpty, running,
                                           owner, producer, history>>
WakeForNothing(p) ==
    /\ \/ Cond!Spurious(p) /\ UNCHANGED quit
       \/ Quit!Spurious(p) /\ UNCHANGED cond
    /\ UNCHANGED <<tasks, flags, worker, isEmpty, running, owner, producer, history>>

ProducerStep(p) == Push(p) \/ WakeWorker(p) \/ AddTaskReturns(p)
WorkerStep == \/ ThreadBegins \/ LoopTest \/ TakeTask \/ RunTask \/ FindEmpty \/ Park
              \/ Unpark \/ Reread \/ StopWorking \/ UnlockQuit \/ TellOwner
CloseStep == SetDestroy \/ Wakeup \/ QuitWait \/ Look \/ RemoveTask \/ CloseReturns

Next == \/ \E p \in Producers : CheckEnabled(p) \/ ProducerStep(p)
        \/ WorkerStep
        \/ Start \/ HalfClose \/ CloseStep
        \/ \E p \in Threads : InCond(p) \/ InQuit(p) \/ WakeForNothing(p)

Spec == Init /\ [][Next]_vars

\* The operating system runs every thread that can run; the worker gets
\* _quitLck in the end although the owner takes it in every round.
Fairness ==
    /\ \A p \in Producers : WF_vars(ProducerStep(p))
    /\ WF_vars(WorkerStep) /\ WF_vars(CloseStep)
    /\ \A p \in Threads : WF_vars(InCond(p))
    /\ WF_vars(InQuit(Owner)) /\ SF_vars(StopWorking) /\ SF_vars(InQuit(Worker))

FairSpec == Spec /\ Fairness
=============================================================================
