------------------------------- MODULE LibLog -------------------------------
(***************************************************************************)
(* The logger: ILog and LibLog (any thread writes an entry), SpecifyLog    *)
(* (one queue and one file per log), the flush threads that drain the      *)
(* queues, and LibLogFile with its files by day and its rotated parts.     *)
(* An entry is a record; bytes, formats and the console are left out.      *)
(* What a ConditionLocker promises is in LibThread: here a flush lock is   *)
(* its flag.  The process may crash and start again on the same disk.      *)
(***************************************************************************)
EXTENDS Naturals, Sequences, FiniteSetsExt

CONSTANTS Writers,          \* threads that write entries
          Realtime,         \* those whose level is written at once (_enableRealTime)
          Logs,             \* the enabled logs of the configuration
          Threads,          \* the thread relation ids of the configuration
          MaxEntries,       \* bound: entries all writers write together
          MaxDay,           \* bound: midnights that pass
          MaxCrashes,       \* bound: crashes of the process
          FileSizes,        \* the sizes the configuration may set, 0: no limit
          MaxCache,         \* entries counted before everything is flushed
          DelMayFail,       \* may deleting a rotated file fail?
          None

ASSUME LogAssumption ==
    /\ IsFiniteSet(Writers) /\ IsFiniteSet(Logs) /\ None \notin Logs
    /\ {MaxEntries, MaxDay, MaxCrashes, MaxCache} \subseteq Nat /\ FileSizes \subseteq Nat
    /\ DelMayFail \in BOOLEAN

VARIABLES day,              \* the wall clock, in days
          disk,             \* the files, by path
          relation,         \* the flush thread of each log
          maxFileSize,      \* _maxFileSize: entries after which a file is rotated
          owner,            \* where Init, Start and Close stand
          cacheCount,       \* _curCacheBytes
          isClose,          \* _isClose of each log
          logData, swapData,\* the queue of each log and the list being written
          file,             \* the LibLogFile of each log
          flag,             \* the _isSinal of each flush lock
          destroy,          \* the _isDestroy of each flush thread
          thread,           \* where each flush thread stands
          writer,           \* where each writer stands
          accepted,         \* history: the entries put in each queue, in order
          crashes,          \* history: crashes of the process
          unclean, split    \* history: a deletion failed; midnight passed in Init

vars == <<day, disk, relation, maxFileSize, owner, cacheCount, isClose, logData, swapData,
          file, flag, destroy, thread, writer, accepted, crashes, unclean, split>>
config == <<relation, maxFileSize>>
history == <<accepted, crashes, unclean, split>>

Entry == [by : Writers \cup {None}, no : 0..MaxEntries, day : 0..MaxDay]
Path == [log : Logs, day : 0..MaxDay, part : 0..MaxEntries * 2 + 2]
LogsOf(t) == {l \in Logs : relation[l] = t}
Idle == [at |-> "none", todo |-> {}, log |-> None, last |-> FALSE]

\* LibLogFile: its stream, and the day by which it decides to reopen.
NoFile == [open |-> FALSE, day |-> 0, size |-> 0, passDay |-> 0, partNo |-> 0, buf |-> <<>>]

At(l, d, part) == [log |-> l, day |-> d, part |-> part]
Current(l) == At(l, file[l].day, 0)
With(store, path, entries) ==
    [p \in DOMAIN store \cup {path} |-> IF p = path THEN entries ELSE store[p]]
ContentOf(store, path) == IF path \in DOMAIN store THEN store[path] ELSE <<>>

\* fflush, and what fclose does first: the buffered entries reach the disk.
Flushed(store, l) ==
    IF file[l].open THEN With(store, Current(l), store[Current(l)] \o file[l].buf) ELSE store

\* LibFile::Open in mode "ab+": the file of the day is made if it is missing.
Opened(store, l, d) == With(store, At(l, d, 0), ContentOf(store, At(l, d, 0)))
OpenedFile(store, f, l, d) ==
    [f EXCEPT !.open = TRUE, !.day = d, !.buf = <<>>, !.size = Len(ContentOf(store, At(l, d, 0)))]

\* On the disk there may be parts that an earlier process of the day left.
Earlier == [by |-> None, no |-> 0, day |-> 0]

Init ==
    /\ day = 0 /\ disk \in {<<>>, [p \in {At(l, 0, 1) : l \in Logs} |-> <<Earlier>>]}
    /\ relation \in [Logs -> Threads] /\ maxFileSize \in FileSizes
    /\ owner = "new" /\ cacheCount = 0 /\ isClose = [l \in Logs |-> FALSE]
    /\ logData = [l \in Logs |-> <<>>] /\ swapData = [l \in Logs |-> <<>>]
    /\ file = [l \in Logs |-> NoFile]
    /\ flag = [t \in Threads |-> FALSE] /\ destroy = [t \in Threads |-> FALSE]
    /\ thread = [t \in Threads |-> Idle]
    /\ writer = [w \in Writers |-> [at |-> "idle", done |-> 0]]
    /\ accepted = [l \in Logs |-> <<>>] /\ crashes = 0
    /\ unclean = FALSE /\ split = FALSE

-----------------------------------------------------------------------------
(* The owner: LibLog::Init, Start and Close.                               *)

\* SpecifyLog::Init opens the file of the day, and only then reads the clock
\* again for the day against which entries are compared.
OpenLogs ==
    /\ owner = "new"
    /\ disk' = [p \in DOMAIN disk \cup {At(l, day, 0) : l \in Logs} |-> ContentOf(disk, p)]
    /\ file' = [l \in Logs |-> OpenedFile(disk, NoFile, l, day)]
    /\ owner' = "opened"
    /\ UNCHANGED <<day, config, cacheCount, isClose, logData, swapData, flag, destroy, thread,
                   writer, history>>

UpdateLastPassDayTime ==
    /\ owner = "opened"
    /\ file' = [l \in Logs |-> [file[l] EXCEPT !.passDay = day]]
    /\ owner' = "init" /\ split' = (split \/ \E l \in Logs : file[l].day # day)
    /\ UNCHANGED <<day, disk, config, cacheCount, isClose, logData, swapData, flag, destroy,
                   thread, writer, accepted, crashes, unclean>>

\* Start: one flush thread for each relation id that some log has.
Start ==
    /\ owner = "init"
    /\ thread' = [t \in Threads |-> IF LogsOf(t) = {} THEN thread[t]
                                    ELSE [thread[t] EXCEPT !.at = "test"]]
    /\ owner' = "up"
    /\ UNCHANGED <<day, disk, config, cacheCount, isClose, logData, swapData, file, flag,
                   destroy, writer, history>>

\* Close, first part: every thread is told to stop and its lock signalled.
\* The callers stop writing before ("should not write while closing", SpecifyLog.h).
HalfClose ==
    /\ owner \in {"init", "up"} /\ \A w \in Writers : writer[w].at = "idle"
    /\ destroy' = [t \in Threads |-> owner = "up" /\ LogsOf(t) # {}]
    /\ flag' = [t \in Threads |-> TRUE]
    /\ owner' = "closing"
    /\ UNCHANGED <<day, disk, config, cacheCount, isClose, logData, swapData, file, thread,
                   writer, history>>

\* Second part: once the threads have stopped, each log is closed: Flush only
\* signals the lock, the stream is closed, the lists are thrown away.
CloseLog(l) ==
    /\ owner = "closing" /\ ~isClose[l]
    /\ \A t \in Threads : thread[t].at \in {"none", "done"}
    /\ isClose' = [isClose EXCEPT ![l] = TRUE]
    /\ flag' = [flag EXCEPT ![relation[l]] = TRUE]
    /\ disk' = Flushed(disk, l) /\ file' = [file EXCEPT ![l] = NoFile]
    /\ logData' = [logData EXCEPT ![l] = <<>>] /\ swapData' = [swapData EXCEPT ![l] = <<>>]
    /\ UNCHANGED <<day, config, owner, cacheCount, destroy, thread, writer, history>>

CloseEnds ==
    /\ owner = "closing" /\ \A l \in Logs : isClose[l]
    /\ owner' = "closed"
    /\ UNCHANGED <<day, disk, config, cacheCount, isClose, logData, swapData, file, flag,
                   destroy, thread, writer, history>>

-----------------------------------------------------------------------------
(* Writers: ILog::_Common1..4, LibLog::_WriteLog, SpecifyLog::WriteLog.    *)

\* The entry takes the time, and the cache count its size.
NewLogData(w) ==
    /\ writer[w].at = "idle" /\ owner \in {"init", "up"}
    /\ MapThenSumSet(LAMBDA v : writer[v].done, Writers) < MaxEntries
    /\ writer' = [writer EXCEPT ![w] = [at |-> "push", done |-> @.done + 1,
                      all |-> cacheCount + 1,
                      entry |-> [by |-> w, no |-> @.done + 1, day |-> day]]]
    /\ cacheCount' = cacheCount + 1
    /\ UNCHANGED <<day, disk, config, owner, isClose, logData, swapData, file, flag, destroy,
                   thread, history>>

\* The entry goes to the queue of a log.
WriteLog(w, l) ==
    /\ writer[w].at = "push" /\ ~isClose[l]
    /\ logData' = [logData EXCEPT ![l] = Append(@, writer[w].entry)]
    /\ accepted' = [accepted EXCEPT ![l] = Append(@, writer[w].entry)]
    /\ writer' = [writer EXCEPT ![w] =
                     [at |-> IF w \in Realtime THEN "signal" ELSE "limit",
                      done |-> @.done, all |-> @.all, log |-> l]]
    /\ UNCHANGED <<day, disk, config, owner, cacheCount, isClose, swapData, file, flag,
                   destroy, thread, crashes, unclean, split>>

\* SpecifyLog::WriteLog, for a level that is written at once.
Sinal(w) ==
    /\ writer[w].at = "signal"
    /\ flag' = [flag EXCEPT ![relation[writer[w].log]] = TRUE]
    /\ writer' = [writer EXCEPT ![w].at = "limit"]
    /\ UNCHANGED <<day, disk, config, owner, cacheCount, isClose, logData, swapData, file,
                   destroy, thread, history>>

\* Above the limit the count is reset and every flush lock signalled.
FlushAll(w) ==
    /\ writer[w].at = "limit"
    /\ IF writer[w].all >= MaxCache
       THEN cacheCount' = 0 /\ flag' = [t \in Threads |-> TRUE]
       ELSE UNCHANGED <<cacheCount, flag>>
    /\ writer' = [writer EXCEPT ![w] = [at |-> "idle", done |-> @.done]]
    /\ UNCHANGED <<day, disk, config, owner, isClose, logData, swapData, file, destroy,
                   thread, history>>

-----------------------------------------------------------------------------
(* The flush threads: _OnLogThreadFlush and SpecifyLog::_OnThreadWriteLog. *)

\* The flag is read once per round: after it one more round is made.
RoundBegins(t) ==
    /\ thread[t].at = "test"
    /\ thread' = [thread EXCEPT ![t].at = "flush", ![t].todo = LogsOf(t), ![t].last = destroy[t]]
    /\ UNCHANGED <<day, disk, config, owner, cacheCount, isClose, logData, swapData, file,
                   flag, destroy, writer, history>>

\* Under _logLck the two lists are swapped, unless there is nothing to write.
Swap(t, l) ==
    /\ thread[t].at = "flush" /\ l \in thread[t].todo
    /\ IF logData[l] = <<>>
       THEN /\ thread' = [thread EXCEPT ![t].todo = @ \ {l}]
            /\ UNCHANGED <<logData, swapData>>
       ELSE /\ swapData' = [swapData EXCEPT ![l] = logData[l]]
            /\ logData' = [logData EXCEPT ![l] = swapData[l]]
            /\ thread' = [thread EXCEPT ![t].at = "write", ![t].log = l]
    /\ UNCHANGED <<day, disk, config, owner, cacheCount, isClose, file, flag, destroy,
                   writer, history>>

Writing(t, l) == thread[t].at = "write" /\ thread[t].log = l /\ swapData[l] # <<>>
\* Mutant: the clock is compared, not the time of the entry.
IsDayPassNow(l) == day # file[l].passDay

IsDayPass(l) == Head(swapData[l]).day # file[l].passDay
IsTooLarge(l) == maxFileSize > 0 /\ file[l].size >= maxFileSize

\* An entry of another day reopens the file under the name of its day.
ReopenForDay(t, l) ==
    LET d == Head(swapData[l]).day
        closed == Flushed(disk, l)
    IN  /\ Writing(t, l) /\ IsDayPass(l)
        /\ disk' = Opened(closed, l, d)
        /\ file' = [file EXCEPT ![l] = [OpenedFile(closed, @, l, d) EXCEPT !.passDay = d]]
        /\ UNCHANGED <<day, config, owner, cacheCount, isClose, logData, swapData, flag,
                       destroy, thread, writer, history>>

\* PartitionFile, in three steps between which the process may die: the file
\* is copied under the first free name, deleted, and opened again.
\* Mutant: the next number, taken or not.
FreePartNext(l) == file[l].partNo + 1

FreePart(l) ==
    CHOOSE n \in (file[l].partNo + 1)..(file[l].partNo + Cardinality(DOMAIN disk) + 1) :
        /\ At(l, file[l].day, n) \notin DOMAIN disk
        /\ \A m \in (file[l].partNo + 1)..(n - 1) : At(l, file[l].day, m) \in DOMAIN disk

CopyFile(t, l) ==
    LET now == Flushed(disk, l)
    IN  /\ Writing(t, l) /\ ~IsDayPass(l) /\ IsTooLarge(l)
        /\ disk' = With(now, At(l, file[l].day, FreePart(l)), now[Current(l)])
        /\ file' = [file EXCEPT ![l] = [@ EXCEPT !.partNo = FreePart(l), !.buf = <<>>]]
        /\ thread' = [thread EXCEPT ![t].at = "copied"]
        /\ UNCHANGED <<day, config, owner, cacheCount, isClose, logData, swapData, flag,
                       destroy, writer, history>>

DelFile(t, l) ==
    /\ thread[t].at = "copied" /\ thread[t].log = l
    /\ file' = [file EXCEPT ![l].open = FALSE]
    /\ \/ disk' = [p \in DOMAIN disk \ {Current(l)} |-> disk[p]] /\ UNCHANGED unclean
       \/ DelMayFail /\ unclean' = TRUE /\ UNCHANGED disk
    /\ thread' = [thread EXCEPT ![t].at = "deleted"]
    /\ UNCHANGED <<day, config, owner, cacheCount, isClose, logData, swapData, flag,
                   destroy, writer, accepted, crashes, split>>

\* The file of the entry's day is opened again; the entry is written to it,
\* however large it is.
ReopenPart(t, l) ==
    LET d == Head(swapData[l]).day
    IN  /\ thread[t].at = "deleted" /\ thread[t].log = l
        /\ disk' = Opened(disk, l, d)
        /\ file' = [file EXCEPT ![l] = OpenedFile(disk, @, l, d)]
        /\ thread' = [thread EXCEPT ![t].at = "reopened"]
        /\ UNCHANGED <<day, config, owner, cacheCount, isClose, logData, swapData, flag,
                       destroy, writer, history>>

\* LibFile::Write, into the buffer of the stream.
Write(t, l) ==
    /\ \/ Writing(t, l) /\ ~IsDayPass(l) /\ ~IsTooLarge(l)
       \/ thread[t].at = "reopened" /\ thread[t].log = l
    /\ file' = [file EXCEPT ![l].buf = Append(@, Head(swapData[l])), ![l].size = @ + 1]
    /\ swapData' = [swapData EXCEPT ![l] = Tail(@)]
    /\ thread' = [thread EXCEPT ![t].at = "write"]
    /\ UNCHANGED <<day, disk, config, owner, cacheCount, isClose, logData, flag, destroy,
                   writer, history>>

\* The list is written: LibFile::Flush.
Flush(t, l) ==
    /\ thread[t].at = "write" /\ thread[t].log = l /\ swapData[l] = <<>>
    /\ disk' = Flushed(disk, l) /\ file' = [file EXCEPT ![l].buf = <<>>]
    /\ thread' = [thread EXCEPT ![t].at = "flush", ![t].todo = @ \ {l}, ![t].log = None]
    /\ UNCHANGED <<day, config, owner, cacheCount, isClose, logData, swapData, flag,
                   destroy, writer, history>>

\* Mutants: the order to stop is read after the round; the flag is cleared
\* before the thread sleeps.
RoundEndsLate(t) ==
    /\ thread[t].at = "flush" /\ thread[t].todo = {}
    /\ thread' = [thread EXCEPT ![t].at = IF destroy[t] THEN "done" ELSE "wait"]
    /\ UNCHANGED <<day, disk, config, owner, cacheCount, isClose, logData, swapData, file,
                   flag, destroy, writer, history>>
RoundEndsDeaf(t) ==
    /\ thread[t].at = "flush" /\ thread[t].todo = {}
    /\ thread' = [thread EXCEPT ![t].at = IF thread[t].last THEN "done" ELSE "wait"]
    /\ flag' = [flag EXCEPT ![t] = FALSE]
    /\ UNCHANGED <<day, disk, config, owner, cacheCount, isClose, logData, swapData, file,
                   destroy, writer, history>>

RoundEnds(t) ==
    /\ thread[t].at = "flush" /\ thread[t].todo = {}
    /\ thread' = [thread EXCEPT ![t].at = IF thread[t].last THEN "done" ELSE "wait"]
    /\ UNCHANGED <<day, disk, config, owner, cacheCount, isClose, logData, swapData, file,
                   flag, destroy, writer, history>>

\* TimeWait ends by a signal, also one given before it, or after the interval.
WakeUp(t) ==
    /\ thread[t].at = "wait"
    /\ flag' = [flag EXCEPT ![t] = FALSE]
    /\ thread' = [thread EXCEPT ![t].at = "test"]
    /\ UNCHANGED <<day, disk, config, owner, cacheCount, isClose, logData, swapData, file,
                   destroy, writer, history>>

-----------------------------------------------------------------------------
Midnight ==
    /\ day < MaxDay /\ day' = day + 1
    /\ UNCHANGED <<disk, config, owner, cacheCount, isClose, logData, swapData, file, flag,
                   destroy, thread, writer, history>>

\* The process dies and is started again: of what was in a stream's buffer the
\* system may have written a part.
Crash ==
    /\ crashes < MaxCrashes /\ owner # "new" /\ crashes' = crashes + 1
    /\ \E kept \in [Logs -> 0..MaxEntries] :
          /\ \A l \in Logs : kept[l] <= Len(file[l].buf)
          /\ disk' = [p \in DOMAIN disk |->
                         IF file[p.log].open /\ p = Current(p.log)
                         THEN disk[p] \o SubSeq(file[p.log].buf, 1, kept[p.log]) ELSE disk[p]]
    /\ owner' = "new" /\ cacheCount' = 0 /\ isClose' = [l \in Logs |-> FALSE]
    /\ logData' = [l \in Logs |-> <<>>] /\ swapData' = [l \in Logs |-> <<>>]
    /\ file' = [l \in Logs |-> NoFile]
    /\ flag' = [t \in Threads |-> FALSE] /\ destroy' = [t \in Threads |-> FALSE]
    /\ thread' = [t \in Threads |-> Idle]
    /\ writer' = [w \in Writers |-> [at |-> "idle", done |-> writer[w].done]]
    /\ UNCHANGED <<day, config, accepted, unclean, split>>

OwnerStep == OpenLogs \/ UpdateLastPassDayTime \/ Start \/ HalfClose \/ CloseEnds
             \/ \E l \in Logs : CloseLog(l)
WriterStep(w) == Sinal(w) \/ FlushAll(w) \/ \E l \in Logs : WriteLog(w, l)
ThreadStep(t) ==
    \/ RoundBegins(t) \/ RoundEnds(t) \/ (flag[t] /\ WakeUp(t))
    \/ \E l \in Logs : \/ Swap(t, l) \/ ReopenForDay(t, l) \/ CopyFile(t, l) \/ DelFile(t, l)
                       \/ ReopenPart(t, l) \/ Write(t, l) \/ Flush(t, l)

Next == \/ OwnerStep \/ Midnight \/ Crash
        \/ \E w \in Writers : NewLogData(w) \/ WriterStep(w)
        \/ \E t \in Threads : ThreadStep(t) \/ WakeUp(t)

Spec == Init /\ [][Next]_vars

\* The system runs every thread that can run; the interval of the wait is not
\* relied on, it may be as long as the configuration says.
FairSpec == Spec /\ \A t \in Threads : WF_vars(ThreadStep(t))
                 /\ \A w \in Writers : WF_vars(WriterStep(w))
=============================================================================
