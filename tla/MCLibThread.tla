----------------------------- MODULE MCLibThread -----------------------------
(***************************************************************************)
(* Small instances of LibThread for TLC, and what is asked of it.          *)
(***************************************************************************)
EXTENDS LibThread

\* The types of the variables.
TypeOK ==
    /\ Cond!LockType /\ Quit!LockType
    /\ tasks \in Seq(Task) /\ added \in Seq(Task) /\ ran \in Seq(Task)
    /\ removed \subseteq Task
    /\ running \in {<<>>} \cup {<<t>> : t \in Task}
    /\ flags \in BOOLEAN \X BOOLEAN \X BOOLEAN \X BOOLEAN
    /\ isEmpty \in BOOLEAN
    /\ worker \in {"none", "born", "check", "take", "run", "park", "wait", "reread",
                   "leave", "stopped", "tell", "told"}
    /\ owner \in {"new", "up", "halfClosed", "wakeup", "quitWait", "look", "remove", "closed"}
    /\ producer \in [Producers -> {"idle", "push", "wake", "woke"}]

\* FinishClose empties the task list without _taskLck: the worker must have
\* left its loop by then, and must not be running a task of it.
CloserAlone ==
    owner \in {"remove", "closed"} => worker \in {"stopped", "tell", "told"}

\* No wake-up is lost: once the thread is started, a task in the list before the
\* owner has finished closing is run, or released by the owner; the worker never
\* sleeps on a list in which it lies, although Sinal takes no lock and skips the
\* wake-up in some states.
TaskDisposed ==
    \A t \in Task :
        (\E i \in DOMAIN tasks : tasks[i] = t) /\ owner \notin {"new", "closed"}
            ~> (\E i \in DOMAIN ran : ran[i] = t) \/ t \in removed

\* Close returns: the worker sees the flag although it may be asleep, running
\* or about to sleep when the flag is set.
CloseEnds == owner = "halfClosed" ~> owner = "closed"
=============================================================================
