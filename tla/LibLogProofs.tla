---------------------------- MODULE LibLogProofs ----------------------------
(***************************************************************************)
(* Machine-checked facts about LibLog, for any number of writers, logs,    *)
(* flush threads, entries, days and crashes.                               *)
(***************************************************************************)
EXTENDS MCLibLog, FiniteSetTheorems, SequenceTheorems, WellFoundedInduction, TLAPS

-----------------------------------------------------------------------------
(* The types. *)

Record == [by : Writers \cup {None}, no : Nat, day : Nat]
Paths == [log : Logs, day : Nat, part : Nat]
Stream == [open : BOOLEAN, day : Nat, size : Nat, passDay : Nat, partNo : Nat, buf : Seq(Record)]
InRound == {"test", "flush", "write", "copied", "deleted", "reopened", "wait"}
AtFile == {"write", "copied", "deleted", "reopened"}
Flusher == [at : InRound \cup {"none", "done"}, todo : SUBSET Logs, log : Logs \cup {None},
            last : BOOLEAN]
Pen == [at : {"idle"}, done : Nat]
       \cup [at : {"push"}, done : Nat, all : Nat, entry : Record]
       \cup [at : {"signal", "limit"}, done : Nat, all : Nat, log : Logs]

DiskType(store) ==
    /\ IsFiniteSet(DOMAIN store) /\ DOMAIN store \subseteq Paths
    /\ \A p \in DOMAIN store : store[p] \in Seq(Record)

LogTypes ==
    /\ day \in Nat /\ crashes \in Nat /\ cacheCount \in Nat /\ DiskType(disk)
    /\ relation \in [Logs -> Threads] /\ maxFileSize \in Nat
    /\ owner \in {"new", "opened", "init", "up", "closing", "closed"}
    /\ isClose \in [Logs -> BOOLEAN] /\ destroy \in [Threads -> BOOLEAN]
    /\ logData \in [Logs -> Seq(Record)] /\ swapData \in [Logs -> Seq(Record)]
    /\ accepted \in [Logs -> Seq(Record)]
    /\ file \in [Logs -> Stream] /\ thread \in [Threads -> Flusher]
    /\ writer \in [Writers -> Pen]
    /\ split \in BOOLEAN

-----------------------------------------------------------------------------
(* The inductive invariant. *)

\* The flush thread of log l is writing its list.
Busy(l) == thread[relation[l]].at \in AtFile /\ thread[relation[l]].log = l
DoingTo(l, places) == Busy(l) /\ thread[relation[l]].at \in places

\* Flush threads run between Start and the second half of Close, each on its own
\* logs; the list being written is empty when nobody writes it.
Rounds ==
    /\ \A t \in Threads :
          /\ thread[t].at \in InRound => owner \in {"up", "closing"} /\ LogsOf(t) # {}
          /\ thread[t].todo \subseteq LogsOf(t)
          /\ thread[t].at \in AtFile => thread[t].log \in thread[t].todo
    /\ \A l \in Logs :
          /\ swapData[l] # <<>> => Busy(l)
          /\ DoingTo(l, {"copied", "deleted", "reopened"}) => swapData[l] # <<>>

\* Nobody writes while the logs are closed, and a log is closed when its thread stopped.
Closing ==
    /\ owner \in {"closing", "closed"} => \A w \in Writers : writer[w].at = "idle"
    /\ owner \notin {"closing", "closed"} =>
          /\ \A t \in Threads : ~destroy[t]
          /\ \A l \in Logs : ~isClose[l]
    /\ \A l \in Logs : isClose[l] => \A t \in Threads : thread[t].at \notin InRound
    /\ owner = "closed" => \A l \in Logs : isClose[l]

\* The file of a log is on the disk while it is open, and it is open except
\* between its deletion and its opening again.
OpenFile(l) ==
    /\ file[l].open => Current(l) \in DOMAIN disk
    /\ owner = "new" => file[l] = NoFile
    /\ owner \in {"opened", "init", "up", "closing"} /\ ~isClose[l] =>
          file[l].open \/ DoingTo(l, {"deleted"})

\* A part is a copy of the file until the file is deleted.
Copied(l) ==
    /\ DoingTo(l, {"copied", "deleted"}) => file[l].buf = <<>>
    /\ DoingTo(l, {"copied"}) =>
          LET part == At(l, file[l].day, file[l].partNo)
          IN  file[l].partNo # 0 /\ part \in DOMAIN disk /\ disk[part] = disk[Current(l)]

\* The entries of a file, of a stream and the stream itself agree on the day, and
\* so does the day by which the stream is opened anew.
DiskDays == \A p \in DOMAIN disk : \A i \in 1..Len(disk[p]) : disk[p][i].day = p.day
StreamDays(l) ==
    /\ \A i \in 1..Len(file[l].buf) : file[l].buf[i].day = file[l].day
    /\ owner \notin {"new", "opened"} => file[l].passDay = file[l].day
    /\ DoingTo(l, {"copied", "deleted", "reopened"}) => swapData[l][1].day = file[l].day

\* After the last round nothing is left to be written.
LastRound ==
    \A t \in Threads :
        /\ thread[t].last => destroy[t]
        /\ thread[t].at \in {"test", "wait"} => ~thread[t].last
        /\ thread[t].at = "done" => thread[t].last /\ thread[t].todo = {}
        /\ thread[t].at # "none" /\ thread[t].last =>
              \A l \in LogsOf(t) : l \notin thread[t].todo \/ Busy(l) => logData[l] = <<>>

InSeq(e, s) == \E i \in 1..Len(s) : s[i] = e

\* An accepted entry waits, is being written, is in the stream or on the disk.
Kept(l, e) ==
    InSeq(e, logData[l]) \/ InSeq(e, swapData[l]) \/ InSeq(e, file[l].buf) \/ OnDisk(e)

Safe(l) ==
    \A i \in 1..Len(accepted[l]) :
        /\ ~isClose[l] => Kept(l, accepted[l][i])
        /\ isClose[l] /\ thread[relation[l]].at = "done" => OnDisk(accepted[l][i])

LogInv ==
    /\ LogTypes /\ Rounds /\ Closing /\ LastRound
    /\ \A l \in Logs : OpenFile(l) /\ Copied(l) /\ (crashes = 0 => Safe(l))
    /\ ~split => DiskDays /\ \A l \in Logs : StreamDays(l)

\* What was accepted before Close is on the disk after it, unless the process
\* died in between, or the flush threads were never started.
NothingLost ==
    owner = "closed" /\ crashes = 0 =>
        \A l \in Logs : thread[relation[l]].at = "done" =>
            \A i \in DOMAIN accepted[l] : OnDisk(accepted[l][i])

-----------------------------------------------------------------------------
(* The disk. *)

\* One disk holds at least what the other does: files only grow at their ends.
Grown(old, new) ==
    \A p \in DOMAIN old :
        /\ p \in DOMAIN new
        /\ Len(old[p]) <= Len(new[p])
        /\ \A i \in 1..Len(old[p]) : new[p][i] = old[p][i]

Persists == \A e : OnDisk(e) => OnDisk(e)'

LEMMA EmptyIsSeq == <<>> \in Seq(Record) /\ Len(<<>>) = 0
  OBVIOUS

LEMMA WithStore ==
    ASSUME NEW store, DiskType(store), NEW path \in Paths, NEW entries \in Seq(Record)
    PROVE  /\ DiskType(With(store, path, entries))
           /\ DOMAIN With(store, path, entries) = DOMAIN store \cup {path}
           /\ With(store, path, entries)[path] = entries
           /\ \A p \in DOMAIN store : p # path => With(store, path, entries)[p] = store[p]
  <1>1. IsFiniteSet(DOMAIN store \cup {path})
    BY FS_AddElement DEF DiskType
  <1> QED BY <1>1 DEF DiskType, With

LEMMA ContentType ==
    ASSUME NEW store, DiskType(store), NEW path
    PROVE  ContentOf(store, path) \in Seq(Record)
  BY DEF ContentOf, DiskType

LEMMA GrownPersists ==
    ASSUME DiskType(disk), DiskType(disk'), Grown(disk, disk')
    PROVE  Persists
  <1> SUFFICES ASSUME NEW e, OnDisk(e) PROVE OnDisk(e)'
    BY DEF Persists
  <1>1. PICK p \in DOMAIN disk : e \in Range(disk[p])
    BY DEF OnDisk
  <1>2. PICK i \in 1..Len(disk[p]) : e = disk[p][i]
    BY <1>1 DEF Range, DiskType
  <1>3. p \in DOMAIN disk' /\ i \in 1..Len(disk'[p]) /\ e = disk'[p][i]
    BY <1>2 DEF Grown, DiskType
  <1> QED BY <1>3 DEF OnDisk, Range, DiskType

LEMMA FilePersists == DiskType(disk) /\ UNCHANGED disk => Persists
  BY DEF Persists, OnDisk

\* What a file on the disk holds is on the disk.
LEMMA InFileOnDisk ==
    ASSUME DiskType(disk), NEW p \in DOMAIN disk, NEW e, InSeq(e, disk[p])
    PROVE  OnDisk(e)
  BY DEF InSeq, OnDisk, Range, DiskType

LEMMA InFileOnDiskNext ==
    ASSUME DiskType(disk'), NEW p \in DOMAIN disk', NEW e, InSeq(e, disk'[p])
    PROVE  OnDisk(e)'
  BY DEF InSeq, OnDisk, Range, DiskType

-----------------------------------------------------------------------------
(* What steps that do not touch a part of the invariant leave of it. *)

LEMMA RoundsFrame ==
    Rounds /\ UNCHANGED <<thread, owner, swapData, relation>> => Rounds'
  BY DEF Rounds, LogsOf, Busy, DoingTo

LEMMA ClosingFrame ==
    Closing /\ UNCHANGED <<owner, writer, destroy, isClose, thread>> => Closing'
  BY DEF Closing

LEMMA LastFrame ==
    LastRound /\ UNCHANGED <<thread, relation, destroy, logData>> => LastRound'
  BY DEF LastRound, LogsOf, Busy

LEMMA OpenFrame ==
    ASSUME NEW l, OpenFile(l), UNCHANGED <<disk, owner, file, isClose, thread, relation>>
    PROVE  OpenFile(l)'
  BY DEF OpenFile, Current, DoingTo, Busy

LEMMA CopiedFrame ==
    ASSUME NEW l, Copied(l), UNCHANGED <<disk, file, thread, relation>>
    PROVE  Copied(l)'
  BY DEF Copied, Current, DoingTo, Busy

LEMMA DaysFrame ==
    DiskDays /\ UNCHANGED disk => DiskDays'
  BY DEF DiskDays

LEMMA StreamFrame ==
    ASSUME NEW l, StreamDays(l), UNCHANGED <<owner, file, thread, relation, swapData>>
    PROVE  StreamDays(l)'
  BY DEF StreamDays, DoingTo, Busy

LEMMA SafeFrame ==
    ASSUME NEW l, Safe(l),
           UNCHANGED <<accepted, isClose, thread, relation, logData, swapData, file, disk>>
    PROVE  Safe(l)'
  BY DEF Safe, Kept, OnDisk

-----------------------------------------------------------------------------
(* The invariant holds at the beginning. *)

LEMMA InitInv == Init => LogInv
  <1> SUFFICES ASSUME Init PROVE LogInv
    OBVIOUS
  <1>1. LogTypes
    <2>1. DiskType(disk)
      <3>1. CASE disk = <<>>
        BY <3>1, FS_EmptySet DEF DiskType
      <3>2. CASE disk = [p \in {At(l, 0, 1) : l \in Logs} |-> <<Earlier>>]
        <4> DEFINE parts == {At(l, 0, 1) : l \in Logs}
                   named == [l \in Logs |-> At(l, 0, 1)]
        <4>1. IsFiniteSet(parts)
          <5>1. named \in Surjection(Logs, parts)
            BY DEF Surjection
          <5> QED BY <5>1, FS_Surjection, LogAssumption
        <4>2. Earlier \in Record
          BY DEF Earlier, Record
        <4> QED BY <3>2, <4>1, <4>2 DEF DiskType, Paths, At
      <3> QED BY <3>1, <3>2 DEF Init
    <2>2. NoFile \in Stream /\ Idle \in Flusher
      BY EmptyIsSeq DEF NoFile, Stream, Idle, Flusher
    <2>3. \A w \in Writers : [at |-> "idle", done |-> 0] \in Pen
      BY DEF Pen
    <2> QED BY <2>1, <2>2, <2>3, EmptyIsSeq, LogAssumption DEF LogTypes, Init
  <1>2. Rounds
    BY DEF Init, Rounds, Idle, InRound, AtFile, DoingTo, Busy
  <1>3. Closing
    BY DEF Init, Closing
  <1>4. LastRound
    BY DEF Init, LastRound, Idle
  <1>5. ASSUME NEW l \in Logs
        PROVE  OpenFile(l) /\ Copied(l) /\ Safe(l) /\ StreamDays(l)
    <2>1. file[l] = NoFile /\ ~NoFile.open /\ NoFile.buf = <<>> /\ accepted[l] = <<>>
      BY DEF Init, NoFile
    <2>2. \A places : ~DoingTo(l, places)
      BY DEF Init, Idle, DoingTo, Busy, AtFile
    <2> QED BY <2>1, <2>2, EmptyIsSeq DEF Init, OpenFile, Copied, Safe, StreamDays
  <1>6. DiskDays
    <2>1. CASE disk = <<>>
      BY <2>1 DEF DiskDays
    <2>2. CASE disk = [p \in {At(l, 0, 1) : l \in Logs} |-> <<Earlier>>]
      BY <2>2 DEF DiskDays, At, Earlier
    <2> QED BY <2>1, <2>2 DEF Init
  <1> QED BY <1>1, <1>2, <1>3, <1>4, <1>5, <1>6 DEF LogInv

-----------------------------------------------------------------------------
(* The owner and the clock. *)

LEMMA MidnightInv == LogInv /\ Midnight => LogInv' /\ Persists
  <1> SUFFICES ASSUME LogInv, Midnight PROVE LogInv' /\ Persists
    OBVIOUS
  <1> USE DEF Midnight, config, history
  <1>1. LogTypes'
    BY DEF LogInv, LogTypes
  <1>2. Rounds' /\ Closing' /\ LastRound'
    BY RoundsFrame, ClosingFrame, LastFrame DEF LogInv
  <1>3. ASSUME NEW l \in Logs
        PROVE  OpenFile(l)' /\ Copied(l)' /\ (crashes = 0 => Safe(l)')
               /\ (~split => StreamDays(l)')
    BY OpenFrame, CopiedFrame, SafeFrame, StreamFrame DEF LogInv
  <1>4. ~split => DiskDays'
    BY DaysFrame DEF LogInv
  <1> QED BY <1>1, <1>2, <1>3, <1>4, FilePersists DEF LogInv, LogTypes

LEMMA StartInv == LogInv /\ Start => LogInv' /\ Persists
  <1> SUFFICES ASSUME LogInv, Start PROVE LogInv' /\ Persists
    OBVIOUS
  <1> USE DEF Start, config, history
  <1>1. ASSUME NEW t \in Threads
        PROVE  /\ thread'[t] \in Flusher
               /\ thread[t].at \notin InRound
               /\ thread'[t].todo = thread[t].todo /\ thread'[t].last = thread[t].last
               /\ thread'[t].log = thread[t].log
               /\ thread'[t].at \in {thread[t].at, "test"}
               /\ ~thread[t].last
    <2>1. PICK f \in Flusher : f = thread[t]
      BY DEF LogInv, LogTypes
    <2>2. [f EXCEPT !.at = "test"] \in Flusher
      BY DEF Flusher, InRound
    <2>3. thread'[t] \in {f, [f EXCEPT !.at = "test"]}
      BY <2>1
    <2>4. f.at \notin InRound /\ ~f.last
      BY <2>1 DEF LogInv, Rounds, LastRound, Closing
    <2> QED BY <2>1, <2>2, <2>3, <2>4 DEF Flusher
  <1>2. LogTypes'
    BY <1>1 DEF LogInv, LogTypes
  <1>3. ASSUME NEW l \in Logs, NEW places
        PROVE  ~Busy(l) /\ ~Busy(l)' /\ ~DoingTo(l, places) /\ ~DoingTo(l, places)'
    <2>1. relation[l] \in Threads /\ relation' = relation
      BY DEF LogInv, LogTypes
    <2>2. PICK t \in Threads : t = relation[l]
      BY <2>1
    <2>3. thread[t].at \notin AtFile /\ thread'[t].at \notin AtFile
      <3> HIDE DEF Start, config, history
      <3>1. thread[t].at \notin InRound /\ thread'[t].at \in {thread[t].at, "test"}
        BY <1>1
      <3> QED BY <3>1 DEF AtFile, InRound
    <2>4. ~Busy(l) /\ ~Busy(l)'
      BY <2>1, <2>2, <2>3 DEF Busy
    <2> QED BY <2>4 DEF DoingTo
  <1>4. Rounds'
    <2>1. ASSUME NEW t \in Threads
          PROVE  /\ thread'[t].at \in InRound => owner' \in {"up", "closing"} /\ LogsOf(t)' # {}
                 /\ thread'[t].todo \subseteq LogsOf(t)'
                 /\ thread'[t].at \notin AtFile
      <3>1. LogsOf(t)' = LogsOf(t) /\ owner' = "up" /\ thread[t].todo \subseteq LogsOf(t)
        BY DEF LogsOf, LogInv, Rounds
      <3>2. LogsOf(t) = {} => thread'[t] = thread[t]
        BY DEF LogInv, LogTypes
      <3> QED BY <1>1, <3>1, <3>2 DEF AtFile, InRound
    <2>2. \A l \in Logs : swapData'[l] = <<>> /\ ~DoingTo(l, {"copied", "deleted", "reopened"})'
      BY <1>3 DEF LogInv, Rounds
    <2> QED BY <2>1, <2>2 DEF Rounds
  <1>5. Closing'
    BY DEF LogInv, Closing
  <1>6. LastRound'
    BY <1>1 DEF LogInv, LastRound
  <1>7. ASSUME NEW l \in Logs
        PROVE  OpenFile(l)' /\ Copied(l)' /\ (crashes = 0 => Safe(l)')
               /\ (~split => StreamDays(l)')
    <2>1. OpenFile(l)'
      BY <1>3 DEF LogInv, OpenFile, Current
    <2>2. Copied(l)'
      BY <1>3 DEF Copied
    <2>3. Safe(l) => Safe(l)'
      BY <1>1 DEF LogInv, Closing, Safe, Kept, OnDisk
    <2>4. StreamDays(l) => StreamDays(l)'
      BY <1>3 DEF LogInv, StreamDays
    <2> QED BY <2>1, <2>2, <2>3, <2>4 DEF LogInv
  <1>8. ~split => DiskDays'
    BY DaysFrame DEF LogInv
  <1> QED BY <1>2, <1>4, <1>5, <1>6, <1>7, <1>8, FilePersists DEF LogInv, LogTypes

LEMMA HalfCloseInv == LogInv /\ HalfClose => LogInv' /\ Persists
  <1> SUFFICES ASSUME LogInv, HalfClose PROVE LogInv' /\ Persists
    OBVIOUS
  <1> USE DEF HalfClose, config, history
  <1>1. LogTypes'
    BY DEF LogInv, LogTypes
  <1>2. Rounds'
    BY DEF LogInv, Rounds, LogsOf, Busy, DoingTo
  <1>3. Closing'
    BY DEF LogInv, Closing
  <1>4. LastRound'
    BY DEF LogInv, LastRound, Closing
  <1>5. ASSUME NEW l \in Logs
        PROVE  OpenFile(l)' /\ Copied(l)' /\ (crashes = 0 => Safe(l)')
               /\ (~split => StreamDays(l)')
    <2>1. OpenFile(l)'
      BY DEF LogInv, OpenFile, Current, DoingTo, Busy
    <2>2. StreamDays(l) => StreamDays(l)'
      BY DEF StreamDays, DoingTo, Busy
    <2> QED BY <2>1, <2>2, CopiedFrame, SafeFrame DEF LogInv
  <1>6. ~split => DiskDays'
    BY DaysFrame DEF LogInv
  <1> QED BY <1>1, <1>2, <1>3, <1>4, <1>5, <1>6, FilePersists DEF LogInv, LogTypes

LEMMA CloseEndsInv == LogInv /\ CloseEnds => LogInv' /\ Persists
  <1> SUFFICES ASSUME LogInv, CloseEnds PROVE LogInv' /\ Persists
    OBVIOUS
  <1> USE DEF CloseEnds, config, history
  <1>1. LogTypes'
    BY DEF LogInv, LogTypes
  <1>2. Rounds'
    <2>1. \A t \in Threads : thread[t].at \notin InRound
      BY DEF LogInv, Closing, Rounds, LogsOf
    <2> QED BY <2>1 DEF LogInv, Rounds, LogsOf, Busy, DoingTo
  <1>3. Closing'
    BY DEF LogInv, Closing
  <1>4. LastRound'
    BY LastFrame DEF LogInv
  <1>5. ASSUME NEW l \in Logs
        PROVE  OpenFile(l)' /\ Copied(l)' /\ (crashes = 0 => Safe(l)')
               /\ (~split => StreamDays(l)')
    <2>1. OpenFile(l)'
      BY DEF LogInv, OpenFile, Current, DoingTo, Busy
    <2>2. StreamDays(l) => StreamDays(l)'
      BY DEF StreamDays, DoingTo, Busy
    <2> QED BY <2>1, <2>2, CopiedFrame, SafeFrame DEF LogInv
  <1>6. ~split => DiskDays'
    BY DaysFrame DEF LogInv
  <1> QED BY <1>1, <1>2, <1>3, <1>4, <1>5, <1>6, FilePersists DEF LogInv, LogTypes

LEMMA UpdateLastPassDayTimeInv == LogInv /\ UpdateLastPassDayTime => LogInv' /\ Persists
  <1> SUFFICES ASSUME LogInv, UpdateLastPassDayTime PROVE LogInv' /\ Persists
    OBVIOUS
  <1> USE DEF UpdateLastPassDayTime, config, history
  <1>1. ASSUME NEW l \in Logs
        PROVE  /\ file'[l] \in Stream /\ file'[l].passDay = day
               /\ file'[l].day = file[l].day /\ file'[l].open = file[l].open
               /\ file'[l].buf = file[l].buf /\ file'[l].partNo = file[l].partNo
    <2>1. PICK f \in Stream : f = file[l]
      BY DEF LogInv, LogTypes
    <2>2. file'[l] = [f EXCEPT !.passDay = day] /\ day \in Nat
      BY <2>1 DEF LogInv, LogTypes
    <2> QED BY <2>1, <2>2 DEF Stream
  <1>2. LogTypes'
    BY <1>1 DEF LogInv, LogTypes
  <1>3. Rounds' /\ Closing' /\ LastRound'
    BY LastFrame DEF LogInv, Rounds, Closing, LogsOf, Busy, DoingTo
  <1>4. \A l \in Logs : \A places : (DoingTo(l, places)' <=> DoingTo(l, places))
    BY DEF DoingTo, Busy
  <1>5. ASSUME NEW l \in Logs
        PROVE  OpenFile(l)' /\ Copied(l)' /\ (crashes = 0 => Safe(l)')
               /\ (~split' => StreamDays(l)')
    <2>1. OpenFile(l)'
      BY <1>1, <1>4 DEF LogInv, OpenFile, Current
    <2>2. Copied(l)'
      BY <1>1, <1>4 DEF LogInv, Copied, Current
    <2>3. Safe(l) => Safe(l)'
      BY <1>1 DEF Safe, Kept, OnDisk
    <2>4. ~split' => StreamDays(l)'
      <3> SUFFICES ASSUME ~split' PROVE StreamDays(l)'
        OBVIOUS
      <3>1. ~split /\ file[l].day = day
        OBVIOUS
      <3>2. DoingTo(l, {"copied", "deleted", "reopened"})' <=> DoingTo(l, {"copied", "deleted", "reopened"})
        BY <1>4
      <3> QED BY <1>1, <3>1, <3>2 DEF LogInv, StreamDays
    <2> QED BY <2>1, <2>2, <2>3, <2>4 DEF LogInv
  <1>6. ~split' => DiskDays'
    BY DaysFrame DEF LogInv
  <1> QED BY <1>2, <1>3, <1>5, <1>6, FilePersists DEF LogInv, LogTypes

-----------------------------------------------------------------------------
(* The writers. *)

\* Steps that change no more than where writers stand and the count.
LEMMA WriterFrame ==
    ASSUME LogInv, writer' \in [Writers -> Pen], cacheCount' \in Nat,
           owner \in {"closing", "closed"} => \A w \in Writers : writer'[w].at = "idle",
           UNCHANGED <<day, disk, config, owner, isClose, logData, swapData, file, destroy, thread,
                       history>>
    PROVE  LogInv' /\ Persists
  <1> USE DEF config, history
  <1>1. LogTypes'
    BY DEF LogInv, LogTypes
  <1>2. Rounds' /\ LastRound'
    BY RoundsFrame, LastFrame DEF LogInv
  <1>3. Closing'
    BY DEF LogInv, Closing
  <1>4. ASSUME NEW l \in Logs
        PROVE  OpenFile(l)' /\ Copied(l)' /\ (crashes = 0 => Safe(l)')
               /\ (~split => StreamDays(l)')
    BY OpenFrame, CopiedFrame, SafeFrame, StreamFrame DEF LogInv
  <1>5. ~split => DiskDays'
    BY DaysFrame DEF LogInv
  <1> QED BY <1>1, <1>2, <1>3, <1>4, <1>5, FilePersists DEF LogInv, LogTypes

LEMMA NewLogDataInv ==
    ASSUME LogInv, NEW w \in Writers, NewLogData(w)
    PROVE  LogInv' /\ Persists
  <1>1. PICK pen \in Pen : pen = writer[w]
    BY DEF LogInv, LogTypes
  <1>2. pen.done \in Nat /\ cacheCount \in Nat /\ day \in Nat
    BY <1>1 DEF Pen, LogInv, LogTypes
  <1> DEFINE entry == [by |-> w, no |-> pen.done + 1, day |-> day]
             new == [at |-> "push", done |-> pen.done + 1, all |-> cacheCount + 1, entry |-> entry]
  <1>3. entry \in Record
    BY <1>2 DEF Record
  <1>4. new \in Pen
    BY <1>2, <1>3 DEF Pen
  <1>5. writer' = [writer EXCEPT ![w] = new] /\ cacheCount' = cacheCount + 1
    BY <1>1 DEF NewLogData
  <1>6. writer' \in [Writers -> Pen] /\ cacheCount' \in Nat
    BY <1>2, <1>4, <1>5 DEF LogInv, LogTypes
  <1>7. owner \notin {"closing", "closed"}
    BY DEF NewLogData
  <1> QED BY <1>6, <1>7, WriterFrame DEF NewLogData

LEMMA SinalInv ==
    ASSUME LogInv, NEW w \in Writers, Sinal(w)
    PROVE  LogInv' /\ Persists
  <1>1. PICK pen \in Pen : pen = writer[w]
    BY DEF LogInv, LogTypes
  <1>2. [pen EXCEPT !.at = "limit"] \in Pen
    BY <1>1 DEF Sinal, Pen
  <1>3. writer' \in [Writers -> Pen]
    BY <1>1, <1>2 DEF Sinal, LogInv, LogTypes
  <1>4. owner \notin {"closing", "closed"}
    BY DEF Sinal, LogInv, Closing
  <1> QED BY <1>3, <1>4, WriterFrame DEF Sinal, LogInv, LogTypes

LEMMA FlushAllInv ==
    ASSUME LogInv, NEW w \in Writers, FlushAll(w)
    PROVE  LogInv' /\ Persists
  <1>1. PICK pen \in Pen : pen = writer[w]
    BY DEF LogInv, LogTypes
  <1>2. [at |-> "idle", done |-> pen.done] \in Pen
    BY DEF Pen
  <1>3. writer' \in [Writers -> Pen]
    BY <1>1, <1>2 DEF FlushAll, LogInv, LogTypes
  <1>4. owner \notin {"closing", "closed"}
    BY DEF FlushAll, LogInv, Closing
  <1>5. cacheCount' \in Nat
    BY DEF FlushAll, LogInv, LogTypes
  <1> QED BY <1>3, <1>4, <1>5, WriterFrame DEF FlushAll

LEMMA WriteLogInv ==
    ASSUME LogInv, NEW w \in Writers, NEW l \in Logs, WriteLog(w, l)
    PROVE  LogInv' /\ Persists
  <1>1. PICK pen \in Pen : pen = writer[w]
    BY DEF LogInv, LogTypes
  <1>2. PICK entry \in Record : entry = pen.entry
    BY <1>1 DEF WriteLog, Pen
  <1>3. PICK queue \in Seq(Record) : queue = logData[l]
    BY DEF LogInv, LogTypes
  <1>4. PICK all \in Seq(Record) : all = accepted[l]
    BY DEF LogInv, LogTypes
  <1>5. /\ UNCHANGED <<day, disk, config, owner, cacheCount, isClose, swapData, file, destroy,
                       thread, crashes, unclean, split>>
        /\ pen.at = "push" /\ ~isClose[l]
        /\ logData' = [logData EXCEPT ![l] = Append(queue, entry)]
        /\ accepted' = [accepted EXCEPT ![l] = Append(all, entry)]
    BY <1>1, <1>2, <1>3, <1>4 DEF WriteLog
  <1>6. Append(queue, entry) \in Seq(Record) /\ Append(all, entry) \in Seq(Record)
    OBVIOUS
  <1>7. writer' \in [Writers -> Pen]
    <2> DEFINE new == [at |-> IF w \in Realtime THEN "signal" ELSE "limit",
                       done |-> pen.done, all |-> pen.all, log |-> l]
    <2>1. new \in Pen
      BY <1>5 DEF Pen
    <2>2. writer' = [writer EXCEPT ![w] = new]
      BY <1>1 DEF WriteLog
    <2> QED BY <2>1, <2>2 DEF LogInv, LogTypes
  <1>8. LogTypes'
    BY <1>5, <1>6, <1>7 DEF LogInv, LogTypes, config
  <1>9. owner \notin {"closing", "closed"}
    BY <1>1, <1>5 DEF LogInv, Closing
  <1>10. Rounds' /\ Closing'
    BY <1>5, <1>9, RoundsFrame DEF LogInv, Closing, config
  <1>11. LastRound'
    BY <1>5, <1>9 DEF LogInv, LastRound, Closing
  <1>12. ASSUME NEW r \in Logs
         PROVE  OpenFile(r)' /\ Copied(r)' /\ (~split => StreamDays(r)')
    BY <1>5, OpenFrame, CopiedFrame, StreamFrame DEF LogInv, config
  <1>13. Persists
    BY <1>5, FilePersists DEF LogInv, LogTypes
  <1>14. ASSUME NEW r \in Logs, Safe(r)
         PROVE  Safe(r)'
    <2>1. CASE r # l
      BY <1>5, <1>14, <2>1 DEF LogInv, LogTypes, Safe, Kept, OnDisk, config
    <2>2. CASE r = l
      <3>1. /\ accepted'[l] = Append(all, entry) /\ logData'[l] = Append(queue, entry)
            /\ swapData'[l] = swapData[l] /\ file'[l] = file[l] /\ ~isClose'[l]
        BY <1>5 DEF LogInv, LogTypes
      <3>2. ASSUME NEW i \in 1..Len(accepted'[l])
            PROVE  Kept(l, accepted[l][i])'
        <4>1. PICK e : e = accepted'[l][i]
          OBVIOUS
        <4>2. CASE i \in 1..Len(all)
          <5>1. e = accepted[l][i]
            BY <1>4, <3>1, <4>1, <4>2
          <5>2. Kept(l, e)
            BY <1>4, <1>5, <1>14, <2>2, <4>2, <5>1 DEF Safe
          <5>3. InSeq(e, queue) => InSeq(e, Append(queue, entry))
            BY DEF InSeq
          <5>4. OnDisk(e) => OnDisk(e)'
            BY <1>13 DEF Persists
          <5> QED BY <1>3, <3>1, <4>1, <5>2, <5>3, <5>4 DEF Kept
        <4>3. CASE i = Len(all) + 1
          <5>1. e = entry
            BY <3>1, <4>1, <4>3
          <5>2. InSeq(entry, Append(queue, entry))
            BY DEF InSeq
          <5> QED BY <3>1, <4>1, <5>1, <5>2 DEF Kept
        <4> QED BY <3>1, <4>2, <4>3
      <3> QED BY <2>2, <3>1, <3>2 DEF Safe
    <2> QED BY <2>1, <2>2
  <1>15. ~split => DiskDays'
    BY <1>5, DaysFrame DEF LogInv
  <1> QED BY <1>5, <1>8, <1>10, <1>11, <1>12, <1>13, <1>14, <1>15 DEF LogInv

-----------------------------------------------------------------------------
(* The rounds of a flush thread, outside the files. *)

\* Which logs are being written depends on the threads alone.
LEMMA BusyElsewhere ==
    ASSUME LogInv, NEW t \in Threads, relation' = relation,
           thread' = [thread EXCEPT ![t] = thread'[t]],
           thread[t].at \notin AtFile, thread'[t].at \notin AtFile
    PROVE  \A l \in Logs : /\ relation[l] \in Threads
                           /\ (Busy(l)' <=> Busy(l))
                           /\ \A places : (DoingTo(l, places)' <=> DoingTo(l, places))
                           /\ relation[l] = t => ~Busy(l) /\ \A places : ~DoingTo(l, places)
  <1> SUFFICES ASSUME NEW l \in Logs
               PROVE  /\ relation[l] \in Threads
                      /\ (Busy(l)' <=> Busy(l))
                      /\ \A places : (DoingTo(l, places)' <=> DoingTo(l, places))
                      /\ relation[l] = t => ~Busy(l) /\ \A places : ~DoingTo(l, places)
    OBVIOUS
  <1>1. relation[l] \in Threads
    BY DEF LogInv, LogTypes
  <1>2. CASE relation[l] = t
    <2>1. ~Busy(l)
      BY <1>2 DEF Busy
    <2>2. ~Busy(l)'
      BY <1>2 DEF Busy
    <2>3. \A places : ~DoingTo(l, places) /\ ~DoingTo(l, places)'
      BY <2>1, <2>2 DEF DoingTo
    <2> QED BY <1>1, <2>1, <2>2, <2>3
  <1>3. CASE relation[l] # t
    <2>1. thread'[relation[l]] = thread[relation[l]]
      BY <1>1, <1>3 DEF LogInv, LogTypes
    <2> QED BY <1>1, <1>3, <2>1 DEF DoingTo, Busy
  <1> QED BY <1>2, <1>3

LEMMA ThreadFrame ==
    ASSUME LogInv, NEW t \in Threads, NEW new \in Flusher,
           thread' = [thread EXCEPT ![t] = new],
           thread[t].at \in InRound, thread[t].at \notin AtFile, new.at \notin AtFile,
           new.todo \subseteq LogsOf(t), LastRound',
           UNCHANGED <<day, disk, config, owner, cacheCount, isClose, logData, swapData, file,
                       destroy, writer, history>>
    PROVE  LogInv' /\ Persists
  <1> USE DEF config, history
  <1>1. thread'[t] = new /\ \A u \in Threads : u # t => thread'[u] = thread[u]
    BY DEF LogInv, LogTypes
  <1>2. LogTypes'
    BY DEF LogInv, LogTypes
  <1>3. \A l \in Logs : /\ relation[l] \in Threads
                        /\ (Busy(l)' <=> Busy(l))
                        /\ \A places : (DoingTo(l, places)' <=> DoingTo(l, places))
                        /\ relation[l] = t => ~Busy(l) /\ \A places : ~DoingTo(l, places)
    BY <1>1, BusyElsewhere
  <1>4. Rounds'
    <2>1. \A u \in Threads : LogsOf(u)' = LogsOf(u)
      BY DEF LogsOf
    <2>2. ASSUME NEW u \in Threads
          PROVE  /\ thread'[u].at \in InRound => owner' \in {"up", "closing"} /\ LogsOf(u)' # {}
                 /\ thread'[u].todo \subseteq LogsOf(u)'
                 /\ thread'[u].at \in AtFile => thread'[u].log \in thread'[u].todo
      BY <1>1, <2>1 DEF LogInv, Rounds
    <2>3. \A l \in Logs :
             /\ swapData'[l] # <<>> => Busy(l)'
             /\ DoingTo(l, {"copied", "deleted", "reopened"})' => swapData'[l] # <<>>
      BY <1>3 DEF LogInv, Rounds
    <2> QED BY <2>2, <2>3 DEF Rounds
  <1>5. ~\E l \in Logs : isClose[l]
    BY DEF LogInv, Closing
  <1>6. owner = "closed" => FALSE
    BY DEF LogInv, Rounds
  <1>7. Closing'
    BY <1>5, <1>6 DEF LogInv, Closing
  <1>8. ASSUME NEW l \in Logs
        PROVE  OpenFile(l)' /\ Copied(l)' /\ (crashes = 0 => Safe(l)')
               /\ (~split => StreamDays(l)')
    <2>1. OpenFile(l)'
      BY <1>3 DEF LogInv, OpenFile, Current
    <2>2. Copied(l)'
      BY <1>3 DEF LogInv, Copied, Current
    <2>3. Safe(l) => Safe(l)'
      BY <1>5 DEF Safe, Kept, OnDisk
    <2>4. StreamDays(l) => StreamDays(l)'
      BY <1>3 DEF StreamDays
    <2> QED BY <2>1, <2>2, <2>3, <2>4 DEF LogInv
  <1>9. ~split => DiskDays'
    BY DaysFrame DEF LogInv
  <1> QED BY <1>2, <1>4, <1>7, <1>8, <1>9, FilePersists DEF LogInv, LogTypes

LEMMA RoundBeginsInv ==
    ASSUME LogInv, NEW t \in Threads, RoundBegins(t)
    PROVE  LogInv' /\ Persists
  <1>1. PICK f \in Flusher : f = thread[t]
    BY DEF LogInv, LogTypes
  <1>2. PICK todo \in SUBSET Logs, last \in BOOLEAN : todo = LogsOf(t) /\ last = destroy[t]
    BY DEF LogsOf, LogInv, LogTypes
  <1> DEFINE new == [f EXCEPT !.at = "flush", !.todo = todo, !.last = last]
  <1>3. /\ new \in Flusher /\ new.at = "flush" /\ new.todo = todo /\ new.last = last
        /\ new.log = f.log
    BY DEF Flusher, InRound
  <1>4. thread' = [thread EXCEPT ![t] = new]
    BY <1>1, <1>2 DEF RoundBegins, LogInv, LogTypes
  <1>5. thread'[t] = new /\ \A u \in Threads : u # t => thread'[u] = thread[u]
    BY <1>4 DEF LogInv, LogTypes
  <1> HIDE DEF new
  <1>6. LastRound'
    <2>1. /\ UNCHANGED <<relation, destroy, logData>> /\ thread[t].at = "test"
          /\ \A u \in Threads : LogsOf(u)' = LogsOf(u)
      BY DEF RoundBegins, config, LogsOf
    <2>2. \A l \in Logs : /\ relation[l] \in Threads
                          /\ (Busy(l)' <=> Busy(l))
                          /\ relation[l] = t => ~Busy(l)
      BY <1>3, <1>5, <1>4, <2>1, BusyElsewhere DEF AtFile
    <2>3. ASSUME NEW u \in Threads
          PROVE  /\ thread'[u].last => destroy'[u]
                 /\ thread'[u].at \in {"test", "wait"} => ~thread'[u].last
                 /\ thread'[u].at = "done" => thread'[u].last /\ thread'[u].todo = {}
                 /\ thread'[u].at # "none" /\ thread'[u].last =>
                       \A l \in LogsOf(u) : l \notin thread'[u].todo \/ Busy(l)' => logData'[l] = <<>>
      <3>1. CASE u = t
        BY <1>2, <1>3, <1>5, <2>1, <2>2, <3>1 DEF LogsOf
      <3>2. CASE u # t
        BY <1>5, <2>1, <2>2, <3>2 DEF LogInv, LastRound, LogsOf
      <3> QED BY <3>1, <3>2
    <2> QED BY <2>1, <2>3 DEF LastRound
  <1>7. thread[t].at \in InRound /\ thread[t].at \notin AtFile /\ new.at \notin AtFile
        /\ new.todo \subseteq LogsOf(t)
    BY <1>2, <1>3 DEF RoundBegins, InRound, AtFile
  <1> QED BY <1>3, <1>4, <1>6, <1>7, ThreadFrame DEF RoundBegins

LEMMA RoundEndsInv ==
    ASSUME LogInv, NEW t \in Threads, RoundEnds(t)
    PROVE  LogInv' /\ Persists
  <1>1. PICK f \in Flusher : f = thread[t]
    BY DEF LogInv, LogTypes
  <1> DEFINE new == [f EXCEPT !.at = IF f.last THEN "done" ELSE "wait"]
  <1>2. /\ new \in Flusher /\ new.at = (IF f.last THEN "done" ELSE "wait")
        /\ new.todo = f.todo /\ new.last = f.last /\ new.log = f.log
    BY DEF Flusher, InRound
  <1>3. thread' = [thread EXCEPT ![t] = new] /\ f.at = "flush" /\ f.todo = {}
    BY <1>1 DEF RoundEnds, LogInv, LogTypes
  <1>4. thread'[t] = new /\ \A u \in Threads : u # t => thread'[u] = thread[u]
    BY <1>3 DEF LogInv, LogTypes
  <1> HIDE DEF new
  <1>5. LastRound'
    <2>1. /\ UNCHANGED <<relation, destroy, logData>>
          /\ \A u \in Threads : LogsOf(u)' = LogsOf(u)
      BY DEF RoundEnds, config, LogsOf
    <2>2. \A l \in Logs : (Busy(l)' <=> Busy(l))
      BY <1>1, <1>2, <1>3, <1>4, <2>1, BusyElsewhere DEF AtFile
    <2>3. ASSUME NEW u \in Threads
          PROVE  /\ thread'[u].last => destroy'[u]
                 /\ thread'[u].at \in {"test", "wait"} => ~thread'[u].last
                 /\ thread'[u].at = "done" => thread'[u].last /\ thread'[u].todo = {}
                 /\ thread'[u].at # "none" /\ thread'[u].last =>
                       \A l \in LogsOf(u) : l \notin thread'[u].todo \/ Busy(l)' => logData'[l] = <<>>
      <3>1. CASE u = t
        BY <1>1, <1>2, <1>3, <1>4, <2>1, <2>2, <3>1 DEF LogInv, LastRound, LogsOf
      <3>2. CASE u # t
        BY <1>4, <2>1, <2>2, <3>2 DEF LogInv, LastRound, LogsOf
      <3> QED BY <3>1, <3>2
    <2> QED BY <2>1, <2>3 DEF LastRound
  <1>6. thread[t].at \in InRound /\ thread[t].at \notin AtFile /\ new.at \notin AtFile
        /\ new.todo \subseteq LogsOf(t)
    BY <1>1, <1>2, <1>3 DEF InRound, AtFile
  <1> QED BY <1>2, <1>3, <1>5, <1>6, ThreadFrame DEF RoundEnds

LEMMA WakeUpInv ==
    ASSUME LogInv, NEW t \in Threads, WakeUp(t)
    PROVE  LogInv' /\ Persists
  <1>1. PICK f \in Flusher : f = thread[t]
    BY DEF LogInv, LogTypes
  <1> DEFINE new == [f EXCEPT !.at = "test"]
  <1>2. /\ new \in Flusher /\ new.at = "test"
        /\ new.todo = f.todo /\ new.last = f.last /\ new.log = f.log
    BY DEF Flusher, InRound
  <1>3. thread' = [thread EXCEPT ![t] = new] /\ f.at = "wait"
    BY <1>1 DEF WakeUp, LogInv, LogTypes
  <1>4. thread'[t] = new /\ \A u \in Threads : u # t => thread'[u] = thread[u]
    BY <1>3 DEF LogInv, LogTypes
  <1> HIDE DEF new
  <1>5. LastRound'
    <2>1. /\ UNCHANGED <<relation, destroy, logData>>
          /\ \A u \in Threads : LogsOf(u)' = LogsOf(u)
      BY DEF WakeUp, config, LogsOf
    <2>2. \A l \in Logs : (Busy(l)' <=> Busy(l))
      BY <1>1, <1>2, <1>3, <1>4, <2>1, BusyElsewhere DEF AtFile
    <2>3. ASSUME NEW u \in Threads
          PROVE  /\ thread'[u].last => destroy'[u]
                 /\ thread'[u].at \in {"test", "wait"} => ~thread'[u].last
                 /\ thread'[u].at = "done" => thread'[u].last /\ thread'[u].todo = {}
                 /\ thread'[u].at # "none" /\ thread'[u].last =>
                       \A l \in LogsOf(u) : l \notin thread'[u].todo \/ Busy(l)' => logData'[l] = <<>>
      <3>1. CASE u = t
        BY <1>1, <1>2, <1>3, <1>4, <2>1, <2>2, <3>1 DEF LogInv, LastRound, LogsOf
      <3>2. CASE u # t
        BY <1>4, <2>1, <2>2, <3>2 DEF LogInv, LastRound, LogsOf
      <3> QED BY <3>1, <3>2
    <2> QED BY <2>1, <2>3 DEF LastRound
  <1>6. thread[t].at \in InRound /\ thread[t].at \notin AtFile /\ new.at \notin AtFile
        /\ new.todo \subseteq LogsOf(t)
    BY <1>1, <1>2, <1>3 DEF InRound, AtFile, LogInv, Rounds
  <1> QED BY <1>2, <1>3, <1>5, <1>6, ThreadFrame DEF WakeUp
\* The two lists change places: what was queued is now being written.
LEMMA SwapInv ==
    ASSUME LogInv, NEW t \in Threads, NEW l \in Logs, Swap(t, l)
    PROVE  LogInv' /\ Persists
  <1>1. PICK f \in Flusher : f = thread[t]
    BY DEF LogInv, LogTypes
  <1>2. /\ f.at = "flush" /\ l \in f.todo /\ relation[l] = t /\ thread[t].at \in InRound
        /\ thread[t].at \notin AtFile
    BY <1>1 DEF Swap, LogInv, Rounds, LogsOf, InRound, AtFile
  <1>3. CASE logData[l] = <<>>
    <2> DEFINE new == [f EXCEPT !.todo = f.todo \ {l}]
    <2>1. /\ new \in Flusher /\ new.at = "flush" /\ new.todo = f.todo \ {l}
          /\ new.last = f.last /\ new.log = f.log
      BY <1>2 DEF Flusher
    <2>2. thread' = [thread EXCEPT ![t] = new]
      BY <1>1, <1>3 DEF Swap, LogInv, LogTypes
    <2>3. thread'[t] = new /\ \A u \in Threads : u # t => thread'[u] = thread[u]
      BY <2>2 DEF LogInv, LogTypes
    <2> HIDE DEF new
    <2>4. LastRound'
      <3>1. /\ UNCHANGED <<relation, destroy, logData>>
            /\ \A u \in Threads : LogsOf(u)' = LogsOf(u)
        BY <1>3 DEF Swap, config, LogsOf
      <3>2. \A r \in Logs : /\ Busy(r)' <=> Busy(r)
                            /\ relation[r] = t => ~Busy(r)
        BY <1>1, <1>2, <2>1, <2>2, <2>3, <3>1, BusyElsewhere DEF AtFile
      <3>3. ASSUME NEW u \in Threads
            PROVE  /\ thread'[u].last => destroy'[u]
                   /\ thread'[u].at \in {"test", "wait"} => ~thread'[u].last
                   /\ thread'[u].at = "done" => thread'[u].last /\ thread'[u].todo = {}
                   /\ thread'[u].at # "none" /\ thread'[u].last =>
                         \A r \in LogsOf(u) : r \notin thread'[u].todo \/ Busy(r)' => logData'[r] = <<>>
        <4>1. CASE u = t
          BY <1>1, <1>2, <1>3, <2>1, <2>3, <3>1, <3>2, <4>1 DEF LogInv, LastRound, LogsOf
        <4>2. CASE u # t
          BY <2>3, <3>1, <3>2, <4>2 DEF LogInv, LastRound, LogsOf
        <4> QED BY <4>1, <4>2
      <3> QED BY <3>1, <3>3 DEF LastRound
    <2>5. new.at \notin AtFile /\ new.todo \subseteq LogsOf(t)
      BY <1>1, <2>1 DEF AtFile, LogInv, Rounds
    <2> QED BY <1>2, <1>3, <2>1, <2>2, <2>4, <2>5, ThreadFrame DEF Swap
  <1>4. CASE logData[l] # <<>>
    <2> DEFINE new == [f EXCEPT !.at = "write", !.log = l]
    <2>1. /\ new \in Flusher /\ new.at = "write" /\ new.todo = f.todo /\ new.last = f.last
          /\ new.log = l
      BY DEF Flusher, InRound
    <2>2. /\ thread' = [thread EXCEPT ![t] = new]
          /\ swapData' = [swapData EXCEPT ![l] = logData[l]]
          /\ logData' = [logData EXCEPT ![l] = swapData[l]]
          /\ UNCHANGED <<day, disk, config, owner, cacheCount, isClose, file, flag, destroy,
                         writer, history>>
      BY <1>1, <1>4 DEF Swap, LogInv, LogTypes
    <2>3. thread'[t] = new /\ \A u \in Threads : u # t => thread'[u] = thread[u]
      BY <2>2 DEF LogInv, LogTypes
    <2> HIDE DEF new
    <2>4. ASSUME NEW r \in Logs, r # l
          PROVE  /\ swapData'[r] = swapData[r] /\ logData'[r] = logData[r]
                 /\ Busy(r)' <=> Busy(r)
                 /\ \A places : DoingTo(r, places)' <=> DoingTo(r, places)
      <3>1. relation[r] \in Threads /\ relation' = relation
        BY <2>2 DEF LogInv, LogTypes, config
      <3>2. Busy(r)' <=> Busy(r)
        <4>1. CASE relation[r] = t
          <5>1. ~Busy(r)
            BY <1>2, <4>1 DEF Busy
          <5>2. ~Busy(r)'
            BY <2>1, <2>3, <2>4, <3>1, <4>1 DEF Busy
          <5> QED BY <5>1, <5>2
        <4>2. CASE relation[r] # t
          BY <2>3, <3>1, <4>2 DEF Busy
        <4> QED BY <4>1, <4>2
      <3>3. \A places : DoingTo(r, places)' <=> DoingTo(r, places)
        <4>1. CASE relation[r] = t
          <5>1. ~Busy(r) /\ ~Busy(r)'
            BY <1>2, <3>2, <4>1 DEF Busy
          <5> QED BY <5>1 DEF DoingTo
        <4>2. CASE relation[r] # t
          BY <2>3, <3>1, <3>2, <4>2 DEF DoingTo
        <4> QED BY <4>1, <4>2
      <3>4. swapData'[r] = swapData[r] /\ logData'[r] = logData[r]
        BY <2>2, <2>4 DEF LogInv, LogTypes
      <3> QED BY <3>2, <3>3, <3>4
    <2>5. /\ swapData[l] = <<>> /\ swapData'[l] = logData[l] /\ logData'[l] = <<>>
          /\ \A places : ~DoingTo(l, places)
          /\ Busy(l)' /\ \A places : DoingTo(l, places)' <=> "write" \in places
      <3>1. ~Busy(l)
        BY <1>2 DEF Busy
      <3>2. Busy(l)'
        BY <1>2, <2>1, <2>2, <2>3 DEF Busy, AtFile, config
      <3>3. \A places : DoingTo(l, places)' <=> "write" \in places
        BY <1>2, <2>1, <2>2, <2>3, <3>2 DEF DoingTo, config
      <3>4. \A places : ~DoingTo(l, places)
        BY <3>1 DEF DoingTo
      <3>5. swapData[l] = <<>>
        BY <3>1 DEF LogInv, Rounds
      <3>6. swapData'[l] = logData[l] /\ logData'[l] = swapData[l]
        BY <2>2 DEF LogInv, LogTypes
      <3> QED BY <3>2, <3>3, <3>4, <3>5, <3>6
    <2>6. LogTypes'
      <3>1. logData[l] \in Seq(Record) /\ swapData[l] \in Seq(Record)
        BY DEF LogInv, LogTypes
      <3> QED BY <2>1, <2>2, <3>1 DEF LogInv, LogTypes, config, history
    <2>7. Rounds'
      <3>1. \A u \in Threads : LogsOf(u)' = LogsOf(u)
        BY <2>2 DEF LogsOf, config
      <3>2. ASSUME NEW u \in Threads
            PROVE  /\ thread'[u].at \in InRound => owner' \in {"up", "closing"} /\ LogsOf(u)' # {}
                   /\ thread'[u].todo \subseteq LogsOf(u)'
                   /\ thread'[u].at \in AtFile => thread'[u].log \in thread'[u].todo
        <4>1. CASE u = t
          BY <1>1, <1>2, <2>1, <2>2, <2>3, <3>1, <4>1 DEF LogInv, Rounds
        <4>2. CASE u # t
          BY <2>2, <2>3, <3>1, <4>2 DEF LogInv, Rounds
        <4> QED BY <4>1, <4>2
      <3>3. ASSUME NEW r \in Logs
            PROVE  /\ swapData'[r] # <<>> => Busy(r)'
                   /\ DoingTo(r, {"copied", "deleted", "reopened"})' => swapData'[r] # <<>>
        BY <2>4, <2>5 DEF LogInv, Rounds
      <3> QED BY <3>2, <3>3 DEF Rounds
    <2>8. ~isClose[l] /\ ~\E r \in Logs : isClose[r]
      BY <1>2 DEF LogInv, Closing
    <2>9. Closing'
      <3>1. owner # "closed"
        BY <1>2 DEF LogInv, Rounds
      <3> QED BY <2>2, <2>8, <3>1 DEF LogInv, Closing
    <2>10. LastRound'
      <3>1. \A u \in Threads : LogsOf(u)' = LogsOf(u)
        BY <2>2 DEF LogsOf, config
      <3>2. ASSUME NEW u \in Threads
            PROVE  /\ thread'[u].last => destroy'[u]
                   /\ thread'[u].at \in {"test", "wait"} => ~thread'[u].last
                   /\ thread'[u].at = "done" => thread'[u].last /\ thread'[u].todo = {}
                   /\ thread'[u].at # "none" /\ thread'[u].last =>
                         \A r \in LogsOf(u) : r \notin thread'[u].todo \/ Busy(r)' => logData'[r] = <<>>
        <4>1. CASE u = t
          BY <1>1, <1>2, <2>1, <2>2, <2>3, <2>4, <2>5, <4>1 DEF LogInv, LastRound, LogsOf
        <4>2. CASE u # t
          BY <1>2, <2>2, <2>3, <2>4, <2>5, <4>2 DEF LogInv, LastRound, LogsOf
        <4> QED BY <4>1, <4>2
      <3> QED BY <3>1, <3>2 DEF LastRound
    <2>11. Persists
      BY <2>2, FilePersists DEF LogInv, LogTypes
    <2>12. ASSUME NEW r \in Logs
           PROVE  OpenFile(r)' /\ Copied(r)' /\ (crashes = 0 => Safe(r)')
                  /\ (~split => StreamDays(r)')
      <3>1. \A places : DoingTo(r, places)' /\ "write" \notin places => DoingTo(r, places)
        BY <2>4, <2>5
      <3>2. \A places : DoingTo(r, places) => DoingTo(r, places)' /\ r # l
        BY <2>4, <2>5
      <3>3. OpenFile(r)'
        BY <2>2, <3>2 DEF LogInv, OpenFile, Current
      <3>4. Copied(r)'
        BY <2>2, <3>1 DEF LogInv, Copied, Current
      <3>5. StreamDays(r) => StreamDays(r)'
        <4>1. DoingTo(r, {"copied", "deleted", "reopened"})' =>
                 DoingTo(r, {"copied", "deleted", "reopened"}) /\ r # l
          BY <3>1, <3>2
        <4> QED BY <2>2, <2>4, <4>1 DEF StreamDays
      <3>6. Safe(r) => Safe(r)'
        <4>1. \A e : Kept(r, e) => Kept(r, e)'
          <5>1. CASE r # l
            BY <2>2, <2>4, <2>11, <5>1 DEF Kept, Persists
          <5>2. CASE r = l
            <6>1. \A e : ~InSeq(e, swapData[l])
              BY <2>5, EmptyIsSeq DEF InSeq
            <6> QED BY <2>2, <2>5, <2>11, <5>2, <6>1 DEF Kept, Persists
          <5> QED BY <5>1, <5>2
        <4> QED BY <2>2, <2>8, <4>1 DEF Safe, Kept, OnDisk, history
      <3> QED BY <3>3, <3>4, <3>5, <3>6 DEF LogInv
    <2>13. ~split => DiskDays'
      BY <2>2, DaysFrame DEF LogInv
    <2> QED BY <2>2, <2>6, <2>7, <2>9, <2>10, <2>11, <2>12, <2>13 DEF LogInv, history
  <1> QED BY <1>3, <1>4

-----------------------------------------------------------------------------
(* The files. *)

\* While a thread writes to the file of a log, that log is its business alone.
LEMMA Focus ==
    ASSUME LogInv, NEW t \in Threads, NEW l \in Logs, thread[t].at \in AtFile, thread[t].log = l
    PROVE  /\ relation[l] = t /\ Busy(l) /\ l \in thread[t].todo
           /\ thread[t].at \in InRound /\ owner \in {"up", "closing"}
           /\ \A r \in Logs : ~isClose[r]
           /\ \A places : DoingTo(l, places) <=> thread[t].at \in places
           /\ \A r \in Logs : relation[r] = t /\ r # l => ~Busy(r)
  <1>1. thread[t].at \in InRound /\ l \in thread[t].todo /\ l \in LogsOf(t)
    BY DEF LogInv, Rounds, InRound, AtFile
  <1>2. relation[l] = t
    BY <1>1 DEF LogsOf
  <1>3. Busy(l)
    BY <1>2 DEF Busy
  <1>4. \A places : DoingTo(l, places) <=> thread[t].at \in places
    BY <1>2, <1>3 DEF DoingTo
  <1>5. \A r \in Logs : ~isClose[r]
    BY <1>1 DEF LogInv, Closing
  <1>6. \A r \in Logs : relation[r] = t /\ r # l => ~Busy(r)
    BY DEF Busy
  <1> QED BY <1>1, <1>2, <1>3, <1>4, <1>5, <1>6 DEF LogInv, Rounds

\* A step that works for one log leaves what is said of the others.
LEMMA OthersKept ==
    ASSUME LogInv, NEW l \in Logs, NEW r \in Logs, r # l, Persists,
           UNCHANGED <<owner, relation, accepted>>,
           logData'[r] = logData[r], swapData'[r] = swapData[r], file'[r] = file[r],
           isClose'[r] <=> isClose[r], Busy(r)' <=> Busy(r),
           \A places : DoingTo(r, places)' <=> DoingTo(r, places),
           isClose[r] => thread' = thread,
           \A p \in Paths : p.log # l =>
               /\ p \in DOMAIN disk' <=> p \in DOMAIN disk
               /\ p \in DOMAIN disk => disk'[p] = disk[p]
    PROVE  OpenFile(r)' /\ Copied(r)' /\ (crashes = 0 => Safe(r)')
           /\ (~split => StreamDays(r)')
  <1>1. PICK g \in Stream : g = file[r] /\ file'[r] = g /\ g.day \in Nat /\ g.partNo \in Nat
    BY DEF LogInv, LogTypes, Stream
  <1>2. \A n \in Nat : At(r, g.day, n) \in Paths /\ At(r, g.day, n).log = r
    BY <1>1 DEF At, Paths
  <1>3. \A n \in Nat : /\ At(r, g.day, n) \in DOMAIN disk' <=> At(r, g.day, n) \in DOMAIN disk
                       /\ At(r, g.day, n) \in DOMAIN disk =>
                              disk'[At(r, g.day, n)] = disk[At(r, g.day, n)]
    BY <1>2
  <1>4. OpenFile(r)'
    BY <1>1, <1>3 DEF LogInv, OpenFile, Current
  <1>5. Copied(r)'
    <2>1. CASE DoingTo(r, {"copied"})
      <3>1. PICK t \in Threads : t = relation[r] /\ thread[t].at = "copied" /\ thread[t].log = r
        BY <2>1 DEF DoingTo, Busy, LogInv, LogTypes
      <3>2. /\ g.partNo # 0 /\ At(r, g.day, g.partNo) \in DOMAIN disk
            /\ disk[At(r, g.day, g.partNo)] = disk[At(r, g.day, 0)]
        BY <1>1, <2>1 DEF LogInv, Copied, Current
      <3>3. At(r, g.day, 0) \in DOMAIN disk
        <4>1. owner \in {"up", "closing"} /\ ~isClose[r]
          BY <3>1, Focus DEF AtFile
        <4>2. ~DoingTo(r, {"deleted"})
          BY <3>1 DEF DoingTo
        <4> QED BY <1>1, <4>1, <4>2 DEF LogInv, OpenFile, Current
      <3> QED BY <1>1, <1>3, <2>1, <3>2, <3>3 DEF LogInv, Copied, Current
    <2>2. CASE ~DoingTo(r, {"copied"})
      BY <1>1, <2>2 DEF LogInv, Copied
    <2> QED BY <2>1, <2>2
  <1>6. StreamDays(r) => StreamDays(r)'
    BY DEF StreamDays
  <1>7. ASSUME NEW e, Kept(r, e)
        PROVE  Kept(r, e)'
    BY <1>7 DEF Kept, Persists
  <1>8. Safe(r) => Safe(r)'
    BY <1>7 DEF Safe, Persists
  <1> QED BY <1>4, <1>5, <1>6, <1>8 DEF LogInv

\* A step of thread t in the file of its log l, after which the thread stands at
\* x, the file is new and the list being written holds words.
FileStep(t, l, x, new, words) ==
    /\ thread[t].at \in AtFile /\ thread[t].log = l
    /\ thread'[t] = [thread[t] EXCEPT !.at = x] /\ thread' \in [Threads -> Flusher]
    /\ \A u \in Threads : u # t => thread'[u] = thread[u]
    /\ file' = [file EXCEPT ![l] = new] /\ swapData' = [swapData EXCEPT ![l] = words]
    /\ DiskType(disk') /\ Persists
    /\ \A p \in Paths : p.log # l =>
           /\ p \in DOMAIN disk' <=> p \in DOMAIN disk
           /\ p \in DOMAIN disk => disk'[p] = disk[p]
    /\ new.open => At(l, new.day, 0) \in DOMAIN disk'
    /\ new.open \/ x = "deleted"
    /\ \A e : InSeq(e, swapData[l]) \/ InSeq(e, file[l].buf) =>
                  InSeq(e, words) \/ InSeq(e, new.buf) \/ OnDisk(e)'
    /\ UNCHANGED <<day, config, owner, cacheCount, isClose, logData, destroy, writer, accepted,
                   crashes, split>>

\* What it leaves of the rotation, and of the days.
StepCopied(l, x, new, words) ==
    /\ x \in {"copied", "deleted", "reopened"} => words # <<>>
    /\ x \in {"copied", "deleted"} => new.buf = <<>>
    /\ x = "copied" =>
          /\ new.partNo # 0 /\ At(l, new.day, new.partNo) \in DOMAIN disk'
          /\ disk'[At(l, new.day, new.partNo)] = disk'[At(l, new.day, 0)]

StepDays(l, x, new, words) ==
    /\ \A p \in DOMAIN disk' : p.log = l => \A i \in 1..Len(disk'[p]) : disk'[p][i].day = p.day
    /\ \A i \in 1..Len(new.buf) : new.buf[i].day = new.day
    /\ new.passDay = new.day
    /\ x \in {"copied", "deleted", "reopened"} => words[1].day = new.day

\* Such a step keeps the invariant if it does so for this log.
LEMMA FileFrame ==
    ASSUME LogInv, NEW t \in Threads, NEW l \in Logs, NEW x \in AtFile, NEW new \in Stream,
           NEW words \in Seq(Record), FileStep(t, l, x, new, words),
           StepCopied(l, x, new, words), ~split => StepDays(l, x, new, words)
    PROVE  LogInv'
  <1> USE DEF config, FileStep, StepCopied, StepDays
  <1>1. PICK f \in Flusher : f = thread[t]
    BY DEF LogInv, LogTypes
  <1>2. /\ thread'[t].at = x /\ thread'[t].log = l /\ thread'[t].todo = f.todo
        /\ thread'[t].last = f.last
    BY <1>1 DEF Flusher
  <1>3. /\ relation[l] = t /\ Busy(l) /\ l \in f.todo /\ owner \in {"up", "closing"}
        /\ \A r \in Logs : ~isClose[r]
        /\ \A r \in Logs : relation[r] = t /\ r # l => ~Busy(r)
    BY <1>1, Focus
  <1>4. /\ Busy(l)' /\ \A places : DoingTo(l, places)' <=> x \in places
        /\ swapData'[l] = words /\ file'[l] = new
    <2>1. Busy(l)'
      BY <1>2, <1>3 DEF Busy
    <2>2. \A places : DoingTo(l, places)' <=> x \in places
      BY <1>2, <1>3, <2>1 DEF DoingTo
    <2>3. swapData'[l] = words /\ file'[l] = new
      BY DEF LogInv, LogTypes
    <2> QED BY <2>1, <2>2, <2>3
  <1>5. ASSUME NEW r \in Logs, r # l
        PROVE  /\ swapData'[r] = swapData[r] /\ file'[r] = file[r]
               /\ Busy(r)' <=> Busy(r)
               /\ \A places : DoingTo(r, places)' <=> DoingTo(r, places)
    <2>1. relation[r] \in Threads
      BY DEF LogInv, LogTypes
    <2>2. Busy(r)' <=> Busy(r)
      <3>1. CASE relation[r] = t
        <4>1. ~Busy(r)
          BY <1>3, <1>5, <3>1
        <4>2. ~Busy(r)'
          BY <1>2, <1>5, <3>1 DEF Busy
        <4> QED BY <4>1, <4>2
      <3>2. CASE relation[r] # t
        BY <2>1, <3>2 DEF Busy
      <3> QED BY <3>1, <3>2
    <2>3. \A places : DoingTo(r, places)' <=> DoingTo(r, places)
      <3>1. CASE relation[r] = t
        <4>1. ~Busy(r) /\ ~Busy(r)'
          BY <1>3, <1>5, <2>2, <3>1
        <4> QED BY <4>1 DEF DoingTo
      <3>2. CASE relation[r] # t
        BY <2>1, <2>2, <3>2 DEF DoingTo
      <3> QED BY <3>1, <3>2
    <2>4. swapData'[r] = swapData[r] /\ file'[r] = file[r]
      BY <1>5 DEF LogInv, LogTypes
    <2> QED BY <2>2, <2>3, <2>4
  <1>6. LogTypes'
    BY DEF LogInv, LogTypes
  <1>7. \A u \in Threads : LogsOf(u)' = LogsOf(u)
    BY DEF LogsOf
  <1>8. Rounds'
    <2>1. ASSUME NEW u \in Threads
          PROVE  /\ thread'[u].at \in InRound => owner' \in {"up", "closing"} /\ LogsOf(u)' # {}
                 /\ thread'[u].todo \subseteq LogsOf(u)'
                 /\ thread'[u].at \in AtFile => thread'[u].log \in thread'[u].todo
      <3>1. CASE u = t
        <4>1. l \in LogsOf(t) /\ LogsOf(t)' = LogsOf(t)
          BY <1>3, <1>7 DEF LogsOf
        <4>2. f.todo \subseteq LogsOf(t)
          BY <1>1 DEF LogInv, Rounds
        <4>3. owner' = owner
          OBVIOUS
        <4> HIDE DEF config, FileStep, StepCopied, StepDays
        <4>4. owner' \in {"up", "closing"} /\ LogsOf(t)' # {}
          BY <1>3, <4>1, <4>3
        <4>5. thread'[t].todo \subseteq LogsOf(t)' /\ thread'[t].log \in thread'[t].todo
          BY <1>2, <1>3, <4>1, <4>2
        <4> QED BY <3>1, <4>4, <4>5
      <3>2. CASE u # t
        BY <1>7, <3>2 DEF LogInv, Rounds
      <3> QED BY <3>1, <3>2
    <2>2. ASSUME NEW r \in Logs
          PROVE  /\ swapData'[r] # <<>> => Busy(r)'
                 /\ DoingTo(r, {"copied", "deleted", "reopened"})' => swapData'[r] # <<>>
      BY <1>4, <1>5 DEF LogInv, Rounds
    <2> QED BY <2>1, <2>2 DEF Rounds
  <1>9. Closing'
    BY <1>3 DEF LogInv, Closing
  <1>10. LastRound'
    <2>1. ASSUME NEW u \in Threads
          PROVE  /\ thread'[u].last => destroy'[u]
                 /\ thread'[u].at \in {"test", "wait"} => ~thread'[u].last
                 /\ thread'[u].at = "done" => thread'[u].last /\ thread'[u].todo = {}
                 /\ thread'[u].at # "none" /\ thread'[u].last =>
                       \A r \in LogsOf(u) : r \notin thread'[u].todo \/ Busy(r)' => logData'[r] = <<>>
      <3>1. \A r \in Logs : Busy(r)' <=> Busy(r)
        BY <1>3, <1>4, <1>5
      <3>2. CASE u = t
        BY <1>1, <1>2, <1>3, <3>1, <3>2 DEF LogInv, LastRound, AtFile, LogsOf
      <3>3. CASE u # t
        BY <3>1, <3>3 DEF LogInv, LastRound, LogsOf
      <3> QED BY <3>2, <3>3
    <2> QED BY <1>7, <2>1 DEF LastRound
  <1>11. ASSUME NEW r \in Logs
         PROVE  OpenFile(r)' /\ Copied(r)' /\ (crashes = 0 => Safe(r)')
                /\ (~split => StreamDays(r)')
    <2>1. CASE r = l
      <3>1. OpenFile(l)'
        BY <1>3, <1>4 DEF OpenFile, Current
      <3>2. Copied(l)'
        BY <1>4 DEF Copied, Current
      <3>3. ~split => StreamDays(l)'
        BY <1>3, <1>4 DEF StreamDays
      <3>4. ASSUME NEW e, Kept(l, e)
            PROVE  Kept(l, e)'
        BY <1>4, <3>4 DEF Kept, Persists
      <3>5. Safe(l) => Safe(l)'
        BY <1>3, <3>4 DEF Safe, Kept, OnDisk
      <3> QED BY <2>1, <3>1, <3>2, <3>3, <3>5 DEF LogInv
    <2>2. CASE r # l
      BY <1>3, <1>5, <2>2, OthersKept
    <2> QED BY <2>1, <2>2
  <1>12. ~split => DiskDays'
    BY DEF LogInv, DiskDays, DiskType
  <1> QED BY <1>6, <1>8, <1>9, <1>10, <1>11, <1>12 DEF LogInv

LEMMA GrownTransitive ==
    ASSUME NEW one, NEW two, NEW three, DiskType(one), DiskType(two), DiskType(three),
           Grown(one, two), Grown(two, three)
    PROVE  Grown(one, three)
  BY DEF Grown, DiskType

LEMMA OpenedStore ==
    ASSUME NEW store, DiskType(store), NEW l \in Logs, NEW d \in Nat
    PROVE  /\ DiskType(Opened(store, l, d)) /\ Grown(store, Opened(store, l, d))
           /\ DOMAIN Opened(store, l, d) = DOMAIN store \cup {At(l, d, 0)}
           /\ \A p \in DOMAIN store : Opened(store, l, d)[p] = store[p]
           /\ \A p \in DOMAIN Opened(store, l, d) :
                  p \notin DOMAIN store => Opened(store, l, d)[p] = <<>>
           /\ ContentOf(store, At(l, d, 0)) \in Seq(Record)
  <1> DEFINE path == At(l, d, 0)
             content == ContentOf(store, path)
  <1>1. path \in Paths
    BY DEF At, Paths
  <1>2. content \in Seq(Record) /\ content = IF path \in DOMAIN store THEN store[path] ELSE <<>>
    BY ContentType DEF ContentOf
  <1>3. /\ DiskType(With(store, path, content))
        /\ DOMAIN With(store, path, content) = DOMAIN store \cup {path}
        /\ With(store, path, content)[path] = content
        /\ \A p \in DOMAIN store : p # path => With(store, path, content)[p] = store[p]
    <2>1. content \in Seq(Record)
      BY <1>2
    <2> HIDE DEF path, content
    <2> QED BY <1>1, <2>1, WithStore, Zenon
  <1>4. PICK new : new = With(store, path, content)
    OBVIOUS
  <1>5. \A p \in DOMAIN store : new[p] = store[p]
    BY <1>2, <1>3, <1>4
  <1>6. Grown(store, new)
    BY <1>3, <1>4, <1>5 DEF Grown, DiskType
  <1>7. \A p \in DOMAIN new : p \notin DOMAIN store => new[p] = <<>>
    BY <1>2, <1>3, <1>4
  <1>8. Opened(store, l, d) = new
    BY <1>4 DEF Opened
  <1> QED BY <1>2, <1>3, <1>4, <1>5, <1>6, <1>7, <1>8

\* What fflush makes of the disk: the entries of the stream follow those of the file.
LEMMA FlushedStore ==
    ASSUME LogInv, NEW l \in Logs, file[l].open
    PROVE  /\ DiskType(Flushed(disk, l)) /\ Grown(disk, Flushed(disk, l))
           /\ DOMAIN Flushed(disk, l) = DOMAIN disk
           /\ Current(l) \in DOMAIN disk /\ Current(l) \in Paths /\ Current(l).log = l
           /\ \A p \in DOMAIN disk : p # Current(l) => Flushed(disk, l)[p] = disk[p]
           /\ \A e : InSeq(e, file[l].buf) => InSeq(e, Flushed(disk, l)[Current(l)])
           /\ file[l].buf = <<>> => Flushed(disk, l)[Current(l)] = disk[Current(l)]
           /\ ~split => \A p \in DOMAIN disk : \A i \in 1..Len(Flushed(disk, l)[p]) :
                            Flushed(disk, l)[p][i].day = p.day
  <1>1. PICK f \in Stream : f = file[l]
    BY DEF LogInv, LogTypes
  <1>2. f.day \in Nat /\ f.buf \in Seq(Record)
    BY DEF Stream
  <1>3. PICK path \in Paths : path = Current(l) /\ path.log = l /\ path.day = f.day
    <2>1. /\ At(l, f.day, 0) \in Paths
          /\ At(l, f.day, 0).log = l /\ At(l, f.day, 0).day = f.day
      BY <1>2 DEF At, Paths
    <2> QED BY <1>1, <2>1 DEF Current
  <1>4. path \in DOMAIN disk
    BY <1>3 DEF LogInv, OpenFile
  <1>5. PICK old \in Seq(Record) : old = disk[path]
    BY <1>4 DEF LogInv, LogTypes, DiskType
  <1> DEFINE all == old \o f.buf
  <1>6. /\ all \in Seq(Record) /\ Len(all) = Len(old) + Len(f.buf)
        /\ \A i \in 1..Len(old) : all[i] = old[i]
        /\ \A i \in 1..Len(f.buf) : all[Len(old) + i] = f.buf[i]
        /\ \A i \in 1..Len(all) : i \in 1..Len(old) \/ i - Len(old) \in 1..Len(f.buf)
    BY <1>2
  <1>7. PICK new : new = Flushed(disk, l)
    OBVIOUS
  <1>8. new = With(disk, path, all)
    BY <1>1, <1>3, <1>5, <1>7 DEF Flushed
  <1>9. PICK store : store = disk
    OBVIOUS
  <1>10. DiskType(store)
    BY <1>9 DEF LogInv, LogTypes
  <1> HIDE DEF all
  <1>11. /\ DiskType(new) /\ DOMAIN new = DOMAIN disk \cup {path} /\ new[path] = all
         /\ \A p \in DOMAIN disk : p # path => new[p] = disk[p]
    <2>1. new = With(store, path, all)
      BY <1>8, <1>9
    <2>2. all \in Seq(Record)
      BY <1>6
    <2>3. /\ DiskType(With(store, path, all))
          /\ DOMAIN With(store, path, all) = DOMAIN store \cup {path}
          /\ With(store, path, all)[path] = all
          /\ \A p \in DOMAIN store : p # path => With(store, path, all)[p] = store[p]
      BY <1>10, <2>2, WithStore
    <2> HIDE DEF all
    <2> QED BY <1>9, <2>1, <2>3
  <1>12. Grown(disk, new)
    <2> SUFFICES ASSUME NEW p \in DOMAIN disk
                 PROVE  /\ p \in DOMAIN new
                        /\ Len(disk[p]) <= Len(new[p])
                        /\ \A i \in 1..Len(disk[p]) : new[p][i] = disk[p][i]
      BY DEF Grown
    <2>1. CASE p = path
      BY <1>2, <1>5, <1>6, <1>11, <2>1
    <2>2. CASE p # path
      <3>1. PICK words \in Seq(Record) : words = disk[p]
        BY <1>9, <1>10 DEF DiskType
      <3> QED BY <1>11, <2>2, <3>1
    <2> QED BY <2>1, <2>2
  <1>13. \A e : InSeq(e, f.buf) => InSeq(e, all)
    <2> SUFFICES ASSUME NEW e, NEW i \in 1..Len(f.buf), e = f.buf[i] PROVE InSeq(e, all)
      BY DEF InSeq
    <2>1. Len(old) + i \in 1..Len(all) /\ all[Len(old) + i] = e
      BY <1>2, <1>6
    <2> QED BY <2>1 DEF InSeq
  <1>14. f.buf = <<>> => all = old
    BY <1>6, EmptyIsSeq DEF all
  <1>15. ASSUME ~split, NEW p \in DOMAIN disk, NEW i \in 1..Len(new[p])
         PROVE  new[p][i].day = p.day
    <2>1. CASE p # path
      BY <1>11, <1>15, <2>1 DEF LogInv, DiskDays
    <2>2. CASE p = path
      <3>1. CASE i \in 1..Len(old)
        BY <1>5, <1>6, <1>11, <1>15, <2>2, <3>1 DEF LogInv, DiskDays
      <3>2. CASE i - Len(old) \in 1..Len(f.buf)
        <4>0. PICK n \in Nat, k \in Nat : n = Len(old) /\ k = i
          BY <1>2, <1>6, <1>11, <2>2
        <4>1. PICK j \in 1..Len(f.buf) : i = Len(old) + j
          <5>1. PICK j \in 1..Len(f.buf) : j = k - n
            BY <3>2, <4>0
          <5>2. k = n + j
            BY <4>0, <5>1
          <5> QED BY <4>0, <5>1, <5>2
        <4>2. f.buf[j].day = f.day
          BY <1>1, <1>15 DEF LogInv, StreamDays
        <4> QED BY <1>3, <1>6, <1>11, <2>2, <4>1, <4>2
      <3> QED BY <1>6, <1>11, <2>2, <3>1, <3>2
    <2> QED BY <2>1, <2>2
  <1> QED BY <1>1, <1>3, <1>4, <1>5, <1>7, <1>11, <1>12, <1>13, <1>14, <1>15

\* An entry of another day: the file is closed, the one of its day is opened.
LEMMA ReopenForDayInv ==
    ASSUME LogInv, NEW t \in Threads, NEW l \in Logs, ReopenForDay(t, l)
    PROVE  LogInv' /\ Persists
  <1>1. PICK f \in Stream : f = file[l]
    BY DEF LogInv, LogTypes
  <1>2. PICK words \in Seq(Record) : words = swapData[l]
    BY DEF LogInv, LogTypes
  <1>3. /\ thread[t].at = "write" /\ thread[t].log = l /\ words # <<>>
        /\ thread[t].at \in AtFile
    BY <1>2 DEF ReopenForDay, Writing, AtFile
  <1>4. PICK d \in Nat : d = Head(swapData[l]).day
    <2>1. Head(words) \in Record
      BY <1>3
    <2> QED BY <1>2, <2>1 DEF Record
  <1>5. PICK closed : closed = Flushed(disk, l)
    OBVIOUS
  <1> DEFINE new == [OpenedFile(closed, f, l, d) EXCEPT !.passDay = d]
  <1>6. /\ disk' = Opened(closed, l, d)
        /\ file' = [file EXCEPT ![l] = new]
        /\ UNCHANGED <<day, config, owner, cacheCount, isClose, logData, swapData, destroy,
                       thread, writer, history>>
    BY <1>1, <1>4, <1>5 DEF ReopenForDay, LogInv, LogTypes
  <1>7. file[l].open
    <2>1. /\ owner \in {"up", "closing"} /\ ~isClose[l]
          /\ \A places : DoingTo(l, places) <=> thread[t].at \in places
      BY <1>3, Focus
    <2>2. ~DoingTo(l, {"deleted"})
      BY <1>3, <2>1
    <2> QED BY <2>1, <2>2 DEF LogInv, OpenFile
  <1>8. /\ DiskType(closed) /\ Grown(disk, closed) /\ DOMAIN closed = DOMAIN disk
        /\ Current(l) \in DOMAIN disk /\ Current(l).log = l
        /\ \A p \in DOMAIN disk : p # Current(l) => closed[p] = disk[p]
        /\ \A e : InSeq(e, f.buf) => InSeq(e, closed[Current(l)])
        /\ ~split => \A p \in DOMAIN disk : \A i \in 1..Len(closed[p]) : closed[p][i].day = p.day
    BY <1>1, <1>5, <1>7, FlushedStore
  <1>9. PICK after : after = disk'
    OBVIOUS
  <1>10. /\ DiskType(after) /\ Grown(closed, after)
         /\ DOMAIN after = DOMAIN closed \cup {At(l, d, 0)}
         /\ \A p \in DOMAIN closed : after[p] = closed[p]
         /\ \A p \in DOMAIN after : p \notin DOMAIN closed => after[p] = <<>>
         /\ ContentOf(closed, At(l, d, 0)) \in Seq(Record)
    <2>1. after = Opened(closed, l, d)
      BY <1>6, <1>9
    <2>2. /\ DiskType(Opened(closed, l, d)) /\ Grown(closed, Opened(closed, l, d))
          /\ DOMAIN Opened(closed, l, d) = DOMAIN closed \cup {At(l, d, 0)}
          /\ \A p \in DOMAIN closed : Opened(closed, l, d)[p] = closed[p]
          /\ \A p \in DOMAIN Opened(closed, l, d) :
                 p \notin DOMAIN closed => Opened(closed, l, d)[p] = <<>>
          /\ ContentOf(closed, At(l, d, 0)) \in Seq(Record)
      BY <1>8, OpenedStore
    <2> QED BY <2>1, <2>2
  <1>11. /\ new \in Stream /\ new.open /\ new.day = d /\ new.passDay = d /\ new.buf = <<>>
    <2>1. PICK size \in Nat : size = Len(ContentOf(closed, At(l, d, 0)))
      BY <1>10
    <2>2. new = [f EXCEPT !.open = TRUE, !.day = d, !.buf = <<>>, !.size = size, !.passDay = d]
      BY <2>1 DEF OpenedFile, Stream
    <2> QED BY <2>1, <2>2, EmptyIsSeq DEF Stream
  <1> HIDE DEF new
  <1>12. DiskType(disk') /\ Persists
    <2>1. DiskType(disk) /\ DiskType(disk')
      BY <1>9, <1>10 DEF LogInv, LogTypes
    <2>2. PICK before : before = disk
      OBVIOUS
    <2>3. Grown(before, after)
      BY <1>8, <1>10, <2>1, <2>2, GrownTransitive
    <2> QED BY <1>9, <2>1, <2>2, <2>3, GrownPersists
  <1>13. thread'[t] = [thread[t] EXCEPT !.at = "write"] /\ thread' \in [Threads -> Flusher]
    <2>1. PICK g \in Flusher : g = thread[t]
      BY DEF LogInv, LogTypes
    <2>2. g = [g EXCEPT !.at = "write"]
      BY <1>3, <2>1 DEF Flusher
    <2> QED BY <1>6, <2>1, <2>2 DEF LogInv, LogTypes
  <1>14. swapData' = [swapData EXCEPT ![l] = words]
    BY <1>2, <1>6 DEF LogInv, LogTypes
  <1>15. \A p \in Paths : p.log # l =>
               /\ p \in DOMAIN disk' <=> p \in DOMAIN disk
               /\ p \in DOMAIN disk => disk'[p] = disk[p]
    BY <1>8, <1>9, <1>10 DEF At
  <1>16. ASSUME NEW e, InSeq(e, swapData[l]) \/ InSeq(e, file[l].buf)
         PROVE  InSeq(e, words) \/ InSeq(e, new.buf) \/ OnDisk(e)'
    <2>1. CASE InSeq(e, swapData[l])
      BY <1>2, <2>1
    <2>2. CASE InSeq(e, file[l].buf)
      <3>1. PICK path : path = Current(l)
        OBVIOUS
      <3>2. path \in DOMAIN disk' /\ InSeq(e, disk'[path])
        BY <1>1, <1>8, <1>9, <1>10, <2>2, <3>1
      <3> QED BY <1>12, <3>2, InFileOnDiskNext
    <2> QED BY <1>16, <2>1, <2>2
  <1>17. ~split => \A p \in DOMAIN disk' : \A i \in 1..Len(disk'[p]) : disk'[p][i].day = p.day
    BY <1>8, <1>9, <1>10, EmptyIsSeq
  <1>18. At(l, new.day, 0) \in DOMAIN disk' /\ "write" \in AtFile
    BY <1>9, <1>10, <1>11 DEF AtFile
  <1>19. \A i \in 1..Len(new.buf) : new.buf[i].day = new.day
    BY <1>11, EmptyIsSeq
  <1>20. LogInv'
    <2>1. FileStep(t, l, "write", new, words)
      BY <1>3, <1>6, <1>11, <1>12, <1>13, <1>14, <1>15, <1>16, <1>18 DEF FileStep, history
    <2>2. StepCopied(l, "write", new, words)
      BY DEF StepCopied
    <2>3. ~split => StepDays(l, "write", new, words)
      BY <1>11, <1>17, <1>19 DEF StepDays
    <2> QED BY <1>11, <1>18, <2>1, <2>2, <2>3, FileFrame
  <1> QED BY <1>12, <1>20

\* The first name that is not taken is free.
LEMMA FreePartIsFree ==
    ASSUME LogInv, NEW l \in Logs
    PROVE  /\ FreePart(l) \in Nat /\ FreePart(l) # 0
           /\ file[l].partNo < FreePart(l)
           /\ At(l, file[l].day, FreePart(l)) \notin DOMAIN disk
  <1>1. PICK f \in Stream : f = file[l]
    BY DEF LogInv, LogTypes
  <1>2. PICK paths : paths = DOMAIN disk
    OBVIOUS
  <1>3. IsFiniteSet(paths)
    BY <1>2 DEF LogInv, LogTypes, DiskType
  <1>4. PICK c \in Nat : c = Cardinality(paths)
    BY <1>3, FS_CardinalityType
  <1> DEFINE numbers == (f.partNo + 1)..(f.partNo + c + 1)
             free == {n \in numbers : At(l, f.day, n) \notin paths}
  <1>5. f.partNo \in Nat
    BY DEF Stream
  <1>6. IsFiniteSet(numbers) /\ Cardinality(numbers) = c + 1
    <2>1. PICK a \in Int, b \in Int : a = f.partNo + 1 /\ b = f.partNo + c + 1
      BY <1>5
    <2>2. IsFiniteSet(a..b) /\ Cardinality(a..b) = IF a > b THEN 0 ELSE b - a + 1
      BY FS_Interval
    <2>3. ~(a > b) /\ b - a + 1 = c + 1
      BY <1>5, <2>1
    <2>4. a..b = numbers
      BY <2>1
    <2> HIDE DEF numbers
    <2> QED BY <2>2, <2>3, <2>4
  <1>7. free # {}
    <2> SUFFICES ASSUME free = {} PROVE FALSE
      OBVIOUS
    <2> DEFINE named == [n \in numbers |-> At(l, f.day, n)]
    <2>1. named \in [numbers -> paths]
      OBVIOUS
    <2>2. Cardinality(paths) < Cardinality(numbers)
      BY <1>4, <1>6
    <2> HIDE DEF numbers
    <2>3. \E x, y \in numbers : x # y /\ named[x] = named[y]
      <3> HIDE DEF named
      <3> QED BY <1>3, <1>6, <2>1, <2>2, FS_PigeonHole
    <2> QED BY <2>3 DEF At
  <1>8. PICK least \in free : \A n \in free : least <= n
    <2>1. free \in SUBSET Nat
      BY <1>5
    <2> HIDE DEF free
    <2>2. PICK x \in free : \A y \in free : ~(<<y, x>> \in OpToRel(<, Nat))
      BY <1>7, <2>1, NatLessThanWellFounded, WFMin
    <2>3. ASSUME NEW y \in free
          PROVE  x <= y
      <3>1. y \in Nat /\ x \in Nat
        BY <2>1
      <3>2. y < x => <<y, x>> \in OpToRel(<, Nat)
        BY <3>1 DEF OpToRel
      <3>3. ~(y < x)
        BY <2>2, <3>2
      <3> QED BY <3>1, <3>3
    <2> QED BY <2>2, <2>3
  <1>9. \A m \in (f.partNo + 1)..(least - 1) : At(l, f.day, m) \in paths
    BY <1>4, <1>5, <1>8
  <1>10. \E n \in (file[l].partNo + 1)..(file[l].partNo + Cardinality(DOMAIN disk) + 1) :
            /\ At(l, file[l].day, n) \notin DOMAIN disk
            /\ \A m \in (file[l].partNo + 1)..(n - 1) : At(l, file[l].day, m) \in DOMAIN disk
    BY <1>1, <1>2, <1>4, <1>8, <1>9
  <1>11. /\ FreePart(l) \in (file[l].partNo + 1)..(file[l].partNo + Cardinality(DOMAIN disk) + 1)
         /\ At(l, file[l].day, FreePart(l)) \notin DOMAIN disk
    BY <1>10 DEF FreePart
  <1> QED BY <1>1, <1>2, <1>4, <1>5, <1>11

\* What the steps of the rotation find: the thread stands at its file.
LEMMA AtItsFile ==
    ASSUME LogInv, NEW t \in Threads, NEW l \in Logs, thread[t].at \in AtFile, thread[t].log = l
    PROVE  /\ thread[t].at # "deleted" => file[l].open
           /\ thread[t].at \in {"copied", "deleted"} => file[l].buf = <<>>
           /\ thread[t].at \in {"copied", "deleted", "reopened"} => swapData[l] # <<>>
           /\ thread[t].at = "copied" =>
                 LET part == At(l, file[l].day, file[l].partNo)
                 IN  file[l].partNo # 0 /\ part \in DOMAIN disk /\ disk[part] = disk[Current(l)]
           /\ file[l].open => Current(l) \in DOMAIN disk
           /\ ~split =>
                 /\ \A i \in 1..Len(file[l].buf) : file[l].buf[i].day = file[l].day
                 /\ file[l].passDay = file[l].day
                 /\ thread[t].at \in {"copied", "deleted", "reopened"} =>
                       swapData[l][1].day = file[l].day
  <1>1. /\ owner \in {"up", "closing"} /\ ~isClose[l]
        /\ \A places : DoingTo(l, places) <=> thread[t].at \in places
    BY Focus
  <1>2. OpenFile(l) /\ Copied(l) /\ (~split => StreamDays(l)) /\ Rounds
    BY DEF LogInv
  <1>3. thread[t].at # "deleted" => file[l].open
    BY <1>1, <1>2 DEF OpenFile
  <1>4. DoingTo(l, {"copied", "deleted"}) <=> thread[t].at \in {"copied", "deleted"}
    BY <1>1
  <1>5. DoingTo(l, {"copied"}) <=> thread[t].at = "copied"
    BY <1>1
  <1>6. DoingTo(l, {"copied", "deleted", "reopened"})
            <=> thread[t].at \in {"copied", "deleted", "reopened"}
    BY <1>1
  <1>7. swapData[l] # <<>> \/ thread[t].at \notin {"copied", "deleted", "reopened"}
    BY <1>2, <1>6 DEF Rounds
  <1>8. ~split =>
           /\ \A i \in 1..Len(file[l].buf) : file[l].buf[i].day = file[l].day
           /\ file[l].passDay = file[l].day
           /\ thread[t].at \in {"copied", "deleted", "reopened"} =>
                 swapData[l][1].day = file[l].day
    BY <1>1, <1>2, <1>6 DEF StreamDays
  <1> QED BY <1>2, <1>3, <1>4, <1>5, <1>7, <1>8 DEF OpenFile, Copied

\* A thread that goes to another place keeps the rest of what it does.
LEMMA ThreadMoves ==
    ASSUME LogInv, NEW t \in Threads, NEW x \in AtFile, thread' = [thread EXCEPT ![t].at = x]
    PROVE  /\ thread'[t] = [thread[t] EXCEPT !.at = x] /\ thread' \in [Threads -> Flusher]
           /\ \A u \in Threads : u # t => thread'[u] = thread[u]
  <1>1. thread \in [Threads -> Flusher]
    BY DEF LogInv, LogTypes
  <1>2. PICK g \in Flusher : g = thread[t]
    BY <1>1
  <1>3. [g EXCEPT !.at = x] \in Flusher
    BY DEF Flusher, InRound, AtFile
  <1>4. thread' = [thread EXCEPT ![t] = [g EXCEPT !.at = x]]
    BY <1>1, <1>2
  <1>5. thread' \in [Threads -> Flusher]
    <2> HIDE DEF Flusher
    <2> QED BY <1>1, <1>3, <1>4
  <1> QED BY <1>1, <1>2, <1>4, <1>5

\* Rotation, first: the file is copied under a free name.
LEMMA CopyFileInv ==
    ASSUME LogInv, NEW t \in Threads, NEW l \in Logs, CopyFile(t, l)
    PROVE  LogInv' /\ Persists
  <1>1. PICK f \in Stream : f = file[l]
    BY DEF LogInv, LogTypes
  <1>2. PICK words \in Seq(Record) : words = swapData[l]
    BY DEF LogInv, LogTypes
  <1>3. /\ thread[t].at = "write" /\ thread[t].log = l /\ words # <<>>
        /\ thread[t].at \in AtFile /\ "copied" \in AtFile /\ ~IsDayPass(l)
    BY <1>2 DEF CopyFile, Writing, AtFile
  <1>4. f.open /\ Current(l) \in DOMAIN disk
    BY <1>1, <1>3, AtItsFile
  <1>5. PICK now : now = Flushed(disk, l)
    OBVIOUS
  <1>6. PICK n \in Nat : n = FreePart(l) /\ n # 0 /\ At(l, f.day, n) \notin DOMAIN disk
    BY <1>1, FreePartIsFree
  <1>7. PICK path : path = Current(l)
    OBVIOUS
  <1>8. /\ DiskType(now) /\ Grown(disk, now) /\ DOMAIN now = DOMAIN disk
        /\ path \in DOMAIN disk /\ path.log = l /\ path = At(l, f.day, 0)
        /\ \A p \in DOMAIN disk : p # path => now[p] = disk[p]
        /\ \A e : InSeq(e, f.buf) => InSeq(e, now[path])
        /\ ~split => \A p \in DOMAIN disk : \A i \in 1..Len(now[p]) : now[p][i].day = p.day
    BY <1>1, <1>4, <1>5, <1>7, FlushedStore DEF Current
  <1>9. PICK part \in Paths : part = At(l, f.day, n) /\ part.log = l /\ part.day = f.day
    <2>1. /\ At(l, f.day, n) \in Paths
          /\ At(l, f.day, n).log = l /\ At(l, f.day, n).day = f.day
      BY DEF At, Paths, Stream
    <2> QED BY <2>1
  <1>10. PICK copy \in Seq(Record) : copy = now[path]
    BY <1>8 DEF DiskType
  <1>11. PICK after : after = disk'
    OBVIOUS
  <1>12. after = With(now, part, copy)
    BY <1>1, <1>5, <1>6, <1>7, <1>9, <1>10, <1>11 DEF CopyFile
  <1>13. /\ DiskType(after) /\ DOMAIN after = DOMAIN disk \cup {part} /\ after[part] = copy
         /\ \A p \in DOMAIN disk : after[p] = now[p]
    <2>1. /\ DiskType(With(now, part, copy))
          /\ DOMAIN With(now, part, copy) = DOMAIN now \cup {part}
          /\ With(now, part, copy)[part] = copy
          /\ \A p \in DOMAIN now : p # part => With(now, part, copy)[p] = now[p]
      BY <1>8, WithStore
    <2> QED BY <1>6, <1>8, <1>9, <1>12, <2>1
  <1> DEFINE new == [f EXCEPT !.partNo = n, !.buf = <<>>]
  <1>14. /\ new \in Stream /\ new.open /\ new.day = f.day /\ new.passDay = f.passDay
         /\ new.buf = <<>> /\ new.partNo = n
    BY <1>4, EmptyIsSeq DEF Stream
  <1>15. file' = [file EXCEPT ![l] = new] /\ swapData' = [swapData EXCEPT ![l] = words]
    BY <1>1, <1>2, <1>6 DEF CopyFile, LogInv, LogTypes
  <1> HIDE DEF new
  <1>16. DiskType(disk') /\ Persists
    <2>1. DiskType(disk) /\ DiskType(disk')
      BY <1>11, <1>13 DEF LogInv, LogTypes
    <2>2. Grown(disk, disk')
      BY <1>8, <1>11, <1>13 DEF Grown
    <2> QED BY <2>1, <2>2, GrownPersists
  <1>17. ASSUME NEW e, InSeq(e, swapData[l]) \/ InSeq(e, file[l].buf)
         PROVE  InSeq(e, words) \/ InSeq(e, new.buf) \/ OnDisk(e)'
    <2>1. CASE InSeq(e, swapData[l])
      BY <1>2, <2>1
    <2>2. CASE InSeq(e, file[l].buf)
      <3>1. path \in DOMAIN disk' /\ InSeq(e, disk'[path])
        BY <1>1, <1>8, <1>11, <1>13, <2>2
      <3> QED BY <1>16, <3>1, InFileOnDiskNext
    <2> QED BY <1>17, <2>1, <2>2
  <1>18. FileStep(t, l, "copied", new, words)
    <2>1. thread' = [thread EXCEPT ![t].at = "copied"]
      BY DEF CopyFile
    <2>2. /\ thread'[t] = [thread[t] EXCEPT !.at = "copied"] /\ thread' \in [Threads -> Flusher]
          /\ \A u \in Threads : u # t => thread'[u] = thread[u]
      BY <1>3, <2>1, ThreadMoves
    <2>3. \A p \in Paths : p.log # l =>
               /\ p \in DOMAIN disk' <=> p \in DOMAIN disk
               /\ p \in DOMAIN disk => disk'[p] = disk[p]
      BY <1>8, <1>9, <1>11, <1>13
    <2>4. At(l, new.day, 0) \in DOMAIN disk'
      BY <1>8, <1>11, <1>13, <1>14
    <2>5. UNCHANGED <<day, config, owner, cacheCount, isClose, logData, destroy, writer, accepted,
                      crashes, split>>
      BY DEF CopyFile, history
    <2> QED BY <1>3, <1>14, <1>15, <1>16, <1>17, <2>2, <2>3, <2>4, <2>5 DEF FileStep
  <1>19. StepCopied(l, "copied", new, words)
    BY <1>3, <1>6, <1>8, <1>9, <1>10, <1>11, <1>13, <1>14 DEF StepCopied
  <1>20. ASSUME ~split PROVE StepDays(l, "copied", new, words)
    <2>1. \A p \in DOMAIN disk' : \A i \in 1..Len(disk'[p]) : disk'[p][i].day = p.day
      <3>1. path.day = f.day
        BY <1>8 DEF At
      <3> QED BY <1>8, <1>9, <1>10, <1>11, <1>13, <1>20, <3>1
    <2>2. f.passDay = f.day
      BY <1>1, <1>3, <1>20, AtItsFile
    <2>3. words[1].day = new.day
      BY <1>1, <1>2, <1>3, <1>14, <2>2 DEF IsDayPass
    <2> QED BY <1>14, <2>1, <2>2, <2>3, EmptyIsSeq DEF StepDays
  <1>21. LogInv'
    BY <1>3, <1>14, <1>18, <1>19, <1>20, FileFrame
  <1> QED BY <1>16, <1>21

\* Second: the file is deleted, or the deletion fails; the copy has what it held.
LEMMA DelFileInv ==
    ASSUME LogInv, NEW t \in Threads, NEW l \in Logs, DelFile(t, l)
    PROVE  LogInv' /\ Persists
  <1>1. PICK f \in Stream : f = file[l]
    BY DEF LogInv, LogTypes
  <1>2. PICK words \in Seq(Record) : words = swapData[l]
    BY DEF LogInv, LogTypes
  <1>3. /\ thread[t].at = "copied" /\ thread[t].log = l
        /\ thread[t].at \in AtFile /\ "deleted" \in AtFile
    BY DEF DelFile, AtFile
  <1>4. PICK path \in Paths : path = Current(l) /\ path.log = l /\ path.part = 0
    <2>1. /\ At(l, f.day, 0) \in Paths
          /\ At(l, f.day, 0).log = l /\ At(l, f.day, 0).part = 0
      BY DEF At, Paths, Stream
    <2> QED BY <1>1, <2>1 DEF Current
  <1>5. PICK part \in DOMAIN disk : disk[part] = disk[path] /\ part # path
    <2>1. f.partNo # 0 /\ At(l, f.day, f.partNo) \in DOMAIN disk
      BY <1>1, <1>3, AtItsFile
    <2>2. disk[At(l, f.day, f.partNo)] = disk[path]
      BY <1>1, <1>3, <1>4, AtItsFile
    <2>3. At(l, f.day, f.partNo).part = f.partNo
      BY DEF At
    <2> QED BY <1>4, <2>1, <2>2, <2>3
  <1>6. /\ f.buf = <<>> /\ words # <<>>
        /\ ~split => f.passDay = f.day /\ words[1].day = f.day
    BY <1>1, <1>2, <1>3, AtItsFile
  <1> DEFINE new == [f EXCEPT !.open = FALSE]
  <1>7. /\ new \in Stream /\ ~new.open /\ new.day = f.day /\ new.passDay = f.passDay
        /\ new.buf = <<>>
    BY <1>6 DEF Stream
  <1>8. file' = [file EXCEPT ![l] = new] /\ swapData' = [swapData EXCEPT ![l] = words]
    BY <1>1, <1>2 DEF DelFile, LogInv, LogTypes
  <1> HIDE DEF new
  <1>9. \/ disk' = [p \in DOMAIN disk \ {path} |-> disk[p]]
        \/ UNCHANGED disk
    BY <1>4 DEF DelFile
  <1>10. /\ DOMAIN disk' \subseteq DOMAIN disk
         /\ \A p \in DOMAIN disk : p # path => p \in DOMAIN disk'
         /\ \A p \in DOMAIN disk' : disk'[p] = disk[p]
    BY <1>9
  <1>11. DiskType(disk) /\ DiskType(disk')
    <2>1. DiskType(disk)
      BY DEF LogInv, LogTypes
    <2>2. IsFiniteSet(DOMAIN disk')
      BY <1>10, <2>1, FS_Subset DEF DiskType
    <2> QED BY <1>10, <2>1, <2>2 DEF DiskType
  <1>12. Persists
    <2> SUFFICES ASSUME NEW e, OnDisk(e) PROVE OnDisk(e)'
      BY DEF Persists
    <2>1. PICK p \in DOMAIN disk : e \in Range(disk[p])
      BY DEF OnDisk
    <2>2. CASE p # path
      BY <1>10, <2>1, <2>2 DEF OnDisk
    <2>3. CASE p = path
      BY <1>5, <1>10, <2>1, <2>3 DEF OnDisk
    <2> QED BY <2>2, <2>3
  <1>13. FileStep(t, l, "deleted", new, words)
    <2>1. thread' = [thread EXCEPT ![t].at = "deleted"]
      BY DEF DelFile
    <2>2. /\ thread'[t] = [thread[t] EXCEPT !.at = "deleted"] /\ thread' \in [Threads -> Flusher]
          /\ \A u \in Threads : u # t => thread'[u] = thread[u]
      BY <1>3, <2>1, ThreadMoves
    <2>3. \A p \in Paths : p.log # l =>
               /\ p \in DOMAIN disk' <=> p \in DOMAIN disk
               /\ p \in DOMAIN disk => disk'[p] = disk[p]
      BY <1>4, <1>10
    <2>4. UNCHANGED <<day, config, owner, cacheCount, isClose, logData, destroy, writer, accepted,
                      crashes, split>>
      BY DEF DelFile
    <2>5. \A e : ~InSeq(e, file[l].buf)
      BY <1>1, <1>6, EmptyIsSeq DEF InSeq
    <2> QED BY <1>2, <1>3, <1>7, <1>8, <1>11, <1>12, <2>2, <2>3, <2>4, <2>5 DEF FileStep
  <1>14. StepCopied(l, "deleted", new, words)
    BY <1>6, <1>7 DEF StepCopied
  <1>15. ASSUME ~split PROVE StepDays(l, "deleted", new, words)
    <2>1. \A p \in DOMAIN disk' : \A i \in 1..Len(disk'[p]) : disk'[p][i].day = p.day
      BY <1>10, <1>15 DEF LogInv, DiskDays
    <2> QED BY <1>6, <1>7, <1>15, <2>1, EmptyIsSeq DEF StepDays
  <1>16. LogInv'
    BY <1>3, <1>7, <1>13, <1>14, <1>15, FileFrame
  <1> QED BY <1>12, <1>16

\* Third: the file of the entry's day is opened again.
LEMMA ReopenPartInv ==
    ASSUME LogInv, NEW t \in Threads, NEW l \in Logs, ReopenPart(t, l)
    PROVE  LogInv' /\ Persists
  <1>1. PICK f \in Stream : f = file[l]
    BY DEF LogInv, LogTypes
  <1>2. PICK words \in Seq(Record) : words = swapData[l]
    BY DEF LogInv, LogTypes
  <1>3. /\ thread[t].at = "deleted" /\ thread[t].log = l
        /\ thread[t].at \in AtFile /\ "reopened" \in AtFile
    BY DEF ReopenPart, AtFile
  <1>4. /\ f.buf = <<>> /\ words # <<>>
        /\ ~split => f.passDay = f.day /\ words[1].day = f.day
    BY <1>1, <1>2, <1>3, AtItsFile
  <1>5. PICK d \in Nat : d = Head(swapData[l]).day /\ (~split => d = f.day)
    <2>1. Head(words) \in Record /\ Head(words) = words[1]
      BY <1>4
    <2> QED BY <1>2, <1>4, <2>1 DEF Record
  <1>6. PICK store : store = disk
    OBVIOUS
  <1>7. PICK after : after = disk'
    OBVIOUS
  <1>8. /\ DiskType(store) /\ DiskType(after) /\ Grown(store, after)
        /\ DOMAIN after = DOMAIN store \cup {At(l, d, 0)}
        /\ \A p \in DOMAIN store : after[p] = store[p]
        /\ \A p \in DOMAIN after : p \notin DOMAIN store => after[p] = <<>>
        /\ ContentOf(store, At(l, d, 0)) \in Seq(Record)
    <2>1. DiskType(store)
      BY <1>6 DEF LogInv, LogTypes
    <2>2. after = Opened(store, l, d)
      BY <1>5, <1>6, <1>7 DEF ReopenPart
    <2>3. /\ DiskType(Opened(store, l, d)) /\ Grown(store, Opened(store, l, d))
          /\ DOMAIN Opened(store, l, d) = DOMAIN store \cup {At(l, d, 0)}
          /\ \A p \in DOMAIN store : Opened(store, l, d)[p] = store[p]
          /\ \A p \in DOMAIN Opened(store, l, d) :
                 p \notin DOMAIN store => Opened(store, l, d)[p] = <<>>
          /\ ContentOf(store, At(l, d, 0)) \in Seq(Record)
      BY <2>1, OpenedStore
    <2> QED BY <2>1, <2>2, <2>3
  <1>9. PICK size \in Nat : size = Len(ContentOf(store, At(l, d, 0)))
    BY <1>8
  <1> DEFINE new == [f EXCEPT !.open = TRUE, !.day = d, !.buf = <<>>, !.size = size]
  <1>10. /\ new \in Stream /\ new.open /\ new.day = d /\ new.passDay = f.passDay
         /\ new.buf = <<>>
    BY EmptyIsSeq DEF Stream
  <1>11. file' = [file EXCEPT ![l] = new] /\ swapData' = [swapData EXCEPT ![l] = words]
    <2>1. new = OpenedFile(store, f, l, d)
      BY <1>9 DEF OpenedFile
    <2>2. file' = [file EXCEPT ![l] = OpenedFile(store, f, l, d)]
      BY <1>1, <1>5, <1>6 DEF ReopenPart, LogInv, LogTypes
    <2>3. swapData' = [swapData EXCEPT ![l] = words]
      BY <1>2 DEF ReopenPart, LogInv, LogTypes
    <2> QED BY <2>1, <2>2, <2>3
  <1> HIDE DEF new
  <1>12. DiskType(disk') /\ Persists
    <2>1. Grown(disk, disk') /\ DiskType(disk) /\ DiskType(disk')
      BY <1>6, <1>7, <1>8
    <2> QED BY <2>1, GrownPersists
  <1>13. FileStep(t, l, "reopened", new, words)
    <2>1. thread' = [thread EXCEPT ![t].at = "reopened"]
      BY DEF ReopenPart
    <2>2. /\ thread'[t] = [thread[t] EXCEPT !.at = "reopened"] /\ thread' \in [Threads -> Flusher]
          /\ \A u \in Threads : u # t => thread'[u] = thread[u]
      BY <1>3, <2>1, ThreadMoves
    <2>3. \A p \in Paths : p.log # l =>
               /\ p \in DOMAIN disk' <=> p \in DOMAIN disk
               /\ p \in DOMAIN disk => disk'[p] = disk[p]
      BY <1>6, <1>7, <1>8 DEF At
    <2>4. UNCHANGED <<day, config, owner, cacheCount, isClose, logData, destroy, writer, accepted,
                      crashes, split>>
      BY DEF ReopenPart, history
    <2>5. \A e : ~InSeq(e, file[l].buf)
      BY <1>1, <1>4, EmptyIsSeq DEF InSeq
    <2>6. At(l, new.day, 0) \in DOMAIN disk'
      BY <1>7, <1>8, <1>10
    <2> QED BY <1>2, <1>3, <1>10, <1>11, <1>12, <2>2, <2>3, <2>4, <2>5, <2>6 DEF FileStep
  <1>14. StepCopied(l, "reopened", new, words)
    BY <1>4 DEF StepCopied
  <1>15. ASSUME ~split PROVE StepDays(l, "reopened", new, words)
    <2>1. \A p \in DOMAIN disk' : \A i \in 1..Len(disk'[p]) : disk'[p][i].day = p.day
      BY <1>6, <1>7, <1>8, <1>15, EmptyIsSeq DEF LogInv, DiskDays
    <2> QED BY <1>4, <1>5, <1>10, <1>15, <2>1, EmptyIsSeq DEF StepDays
  <1>16. LogInv'
    BY <1>3, <1>10, <1>13, <1>14, <1>15, FileFrame
  <1> QED BY <1>12, <1>16

\* An entry goes from the list to the buffer of the stream.
LEMMA WriteInv ==
    ASSUME LogInv, NEW t \in Threads, NEW l \in Logs, Write(t, l)
    PROVE  LogInv' /\ Persists
  <1>1. PICK f \in Stream : f = file[l]
    BY DEF LogInv, LogTypes
  <1>2. PICK words \in Seq(Record) : words = swapData[l]
    BY DEF LogInv, LogTypes
  <1>3. /\ thread[t].at \in {"write", "reopened"} /\ thread[t].log = l
        /\ thread[t].at \in AtFile /\ "write" \in AtFile
    BY DEF Write, Writing, AtFile
  <1>4. words # <<>> /\ f.open /\ Current(l) \in DOMAIN disk
    <2>1. thread[t].at = "reopened" => words # <<>>
      BY <1>2, <1>3, AtItsFile
    <2>2. thread[t].at = "write" => words # <<>>
      BY <1>2 DEF Write, Writing
    <2>3. file[l].open /\ (file[l].open => Current(l) \in DOMAIN disk)
      BY <1>3, AtItsFile
    <2> QED BY <1>1, <1>3, <2>1, <2>2, <2>3
  <1>5. PICK first \in Record, rest \in Seq(Record) :
            /\ first = Head(words) /\ rest = Tail(words) /\ first = words[1]
            /\ Len(words) = Len(rest) + 1
            /\ \A i \in 1..Len(rest) : rest[i] = words[i + 1]
    <2>1. Head(words) \in Record /\ Head(words) = words[1]
      BY <1>4
    <2>2. /\ Tail(words) \in Seq(Record) /\ Len(words) = Len(Tail(words)) + 1
          /\ \A i \in 1..Len(Tail(words)) : Tail(words)[i] = words[i + 1]
      BY <1>4
    <2> QED BY <2>1, <2>2
  <1>6. PICK buf \in Seq(Record) :
            /\ buf = Append(f.buf, first) /\ Len(buf) = Len(f.buf) + 1
            /\ \A i \in 1..Len(f.buf) : buf[i] = f.buf[i]
            /\ buf[Len(f.buf) + 1] = first
    <2>1. PICK old \in Seq(Record) : old = f.buf
      BY DEF Stream
    <2>2. /\ Append(old, first) \in Seq(Record) /\ Len(Append(old, first)) = Len(old) + 1
          /\ \A i \in 1..Len(old) : Append(old, first)[i] = old[i]
          /\ Append(old, first)[Len(old) + 1] = first
      BY <2>1
    <2> QED BY <2>1, <2>2
  <1>size. PICK size \in Nat : size = f.size + 1
    BY DEF Stream
  <1> DEFINE new == [f EXCEPT !.buf = buf, !.size = size]
  <1>7. /\ new \in Stream /\ new.open /\ new.day = f.day /\ new.passDay = f.passDay
        /\ new.buf = buf
    BY <1>4 DEF Stream
  <1>8. file' = [file EXCEPT ![l] = new] /\ swapData' = [swapData EXCEPT ![l] = rest]
    <2>1. swapData' = [swapData EXCEPT ![l] = rest]
      BY <1>2, <1>5 DEF Write, LogInv, LogTypes
    <2>2. file' = [file EXCEPT ![l] = new]
      <3>1. [f EXCEPT !.buf = Append(f.buf, first), !.size = f.size + 1] = new
        BY <1>6, <1>size DEF Stream
      <3>2. first = Head(swapData[l]) /\ file \in [Logs -> Stream]
        BY <1>2, <1>5 DEF LogInv, LogTypes
      <3>3. file' = [file EXCEPT ![l].buf = Append(@, first), ![l].size = @ + 1]
        BY <3>2 DEF Write
      <3>4. file' = [file EXCEPT ![l] = [f EXCEPT !.buf = Append(f.buf, first), !.size = f.size + 1]]
        BY <1>1, <3>2, <3>3
      <3> QED BY <3>1, <3>4
    <2> QED BY <2>1, <2>2
  <1> HIDE DEF new
  <1>9. UNCHANGED disk /\ DiskType(disk) /\ DiskType(disk') /\ Persists
    BY FilePersists DEF Write, LogInv, LogTypes
  <1>10. ASSUME NEW e, InSeq(e, words) \/ InSeq(e, f.buf)
         PROVE  InSeq(e, rest) \/ InSeq(e, buf)
    <2>1. PICK n \in Nat, m \in Nat : n = Len(rest) /\ m = Len(f.buf)
      BY DEF Stream
    <2>2. CASE InSeq(e, words)
      <3>1. PICK i \in 1..Len(words) : e = words[i]
        BY <2>2 DEF InSeq
      <3>2. CASE i = 1
        <4>1. e = buf[m + 1] /\ m + 1 \in 1..Len(buf)
          BY <1>5, <1>6, <2>1, <3>1, <3>2
        <4> QED BY <4>1 DEF InSeq
      <3>3. CASE i # 1
        <4>1. i - 1 \in 1..Len(rest) /\ i = (i - 1) + 1
          BY <1>5, <2>1, <3>1, <3>3
        <4>2. e = rest[i - 1]
          BY <1>5, <3>1, <4>1
        <4> QED BY <4>1, <4>2 DEF InSeq
      <3> QED BY <3>2, <3>3
    <2>3. CASE InSeq(e, f.buf)
      <3>1. PICK i \in 1..Len(f.buf) : e = f.buf[i]
        BY <2>3 DEF InSeq
      <3>2. i \in 1..Len(buf) /\ e = buf[i]
        BY <1>6, <2>1, <3>1
      <3> QED BY <3>2 DEF InSeq
    <2> QED BY <1>10, <2>2, <2>3
  <1>11. FileStep(t, l, "write", new, rest)
    <2>1. thread' = [thread EXCEPT ![t].at = "write"]
      BY DEF Write
    <2>2. /\ thread'[t] = [thread[t] EXCEPT !.at = "write"] /\ thread' \in [Threads -> Flusher]
          /\ \A u \in Threads : u # t => thread'[u] = thread[u]
      BY <1>3, <2>1, ThreadMoves
    <2>3. UNCHANGED <<day, config, owner, cacheCount, isClose, logData, destroy, writer, accepted,
                      crashes, split>>
      BY DEF Write, history
    <2>4. At(l, new.day, 0) \in DOMAIN disk'
      BY <1>1, <1>4, <1>7, <1>9 DEF Current
    <2>5. \A e : InSeq(e, swapData[l]) \/ InSeq(e, file[l].buf) =>
                     InSeq(e, rest) \/ InSeq(e, new.buf) \/ OnDisk(e)'
      BY <1>1, <1>2, <1>7, <1>10
    <2> QED BY <1>3, <1>7, <1>8, <1>9, <2>2, <2>3, <2>4, <2>5 DEF FileStep
  <1>12. StepCopied(l, "write", new, rest)
    BY DEF StepCopied
  <1>13. ASSUME ~split PROVE StepDays(l, "write", new, rest)
    <2>1. \A p \in DOMAIN disk' : \A i \in 1..Len(disk'[p]) : disk'[p][i].day = p.day
      BY <1>9, <1>13 DEF LogInv, DiskDays
    <2>2. /\ \A i \in 1..Len(f.buf) : f.buf[i].day = f.day
          /\ f.passDay = f.day
          /\ thread[t].at = "reopened" => words[1].day = f.day
      BY <1>1, <1>2, <1>3, <1>13, AtItsFile
    <2>3. thread[t].at = "write" => words[1].day = f.passDay
      BY <1>1, <1>2, <1>5 DEF Write, IsDayPass
    <2>4. first.day = f.day
      BY <1>3, <1>5, <2>2, <2>3
    <2>5. \A i \in 1..Len(buf) : buf[i].day = f.day
      <3>1. PICK m \in Nat : m = Len(f.buf)
        BY DEF Stream
      <3>2. \A i \in 1..(m + 1) : i \in 1..m \/ i = m + 1
        OBVIOUS
      <3> QED BY <1>6, <2>2, <2>4, <3>1, <3>2
    <2> QED BY <1>7, <2>1, <2>2, <2>5 DEF StepDays
  <1>14. LogInv'
    BY <1>3, <1>7, <1>11, <1>12, <1>13, FileFrame
  <1> QED BY <1>9, <1>14

\* The list is written: what is in the stream goes to the disk.
LEMMA FlushInv ==
    ASSUME LogInv, NEW t \in Threads, NEW l \in Logs, Flush(t, l)
    PROVE  LogInv' /\ Persists
  <1> USE DEF config, history
  <1>1. PICK f \in Stream : f = file[l]
    BY DEF LogInv, LogTypes
  <1>2. PICK g \in Flusher : g = thread[t] /\ g.at = "write" /\ g.log = l
    BY DEF Flush, LogInv, LogTypes
  <1>3. /\ relation[l] = t /\ l \in g.todo /\ owner \in {"up", "closing"}
        /\ \A r \in Logs : ~isClose[r]
        /\ Busy(l) /\ \A r \in Logs : relation[r] = t /\ r # l => ~Busy(r)
    BY <1>2, Focus DEF AtFile
  <1>4. f.open /\ Current(l) \in DOMAIN disk
    <2>1. file[l].open /\ (file[l].open => Current(l) \in DOMAIN disk)
      BY <1>2, AtItsFile DEF AtFile
    <2> QED BY <1>1, <2>1
  <1>5. PICK path : path = Current(l)
    OBVIOUS
  <1>6. /\ DiskType(disk') /\ Grown(disk, disk') /\ DOMAIN disk' = DOMAIN disk
        /\ path \in DOMAIN disk /\ path.log = l /\ path = At(l, f.day, 0)
        /\ \A p \in DOMAIN disk : p # path => disk'[p] = disk[p]
        /\ \A e : InSeq(e, f.buf) => InSeq(e, disk'[path])
        /\ ~split => \A p \in DOMAIN disk : \A i \in 1..Len(disk'[p]) : disk'[p][i].day = p.day
    <2>1. disk' = Flushed(disk, l)
      BY DEF Flush
    <2>2. PICK now : now = Flushed(disk, l)
      OBVIOUS
    <2>3. /\ DiskType(now) /\ Grown(disk, now) /\ DOMAIN now = DOMAIN disk
          /\ path \in DOMAIN disk /\ path.log = l
          /\ \A p \in DOMAIN disk : p # path => now[p] = disk[p]
          /\ \A e : InSeq(e, f.buf) => InSeq(e, now[path])
          /\ ~split => \A p \in DOMAIN disk : \A i \in 1..Len(now[p]) : now[p][i].day = p.day
      BY <1>1, <1>4, <1>5, <2>2, FlushedStore
    <2>4. path = At(l, f.day, 0)
      BY <1>1, <1>5 DEF Current
    <2> QED BY <2>1, <2>2, <2>3, <2>4
  <1>7. Persists
    BY <1>6, GrownPersists DEF LogInv, LogTypes
  <1> DEFINE new == [f EXCEPT !.buf = <<>>]
  <1>8. /\ new \in Stream /\ new.open /\ new.day = f.day /\ new.passDay = f.passDay
        /\ new.buf = <<>> /\ new.partNo = f.partNo
    BY <1>4, EmptyIsSeq DEF Stream
  <1>9. /\ file' = [file EXCEPT ![l] = new] /\ file'[l] = new
        /\ \A r \in Logs : r # l => file'[r] = file[r]
    BY <1>1 DEF Flush, LogInv, LogTypes
  <1> HIDE DEF new
  <1> DEFINE h == [g EXCEPT !.at = "flush", !.todo = g.todo \ {l}, !.log = None]
  <1>10. /\ h \in Flusher /\ h.at = "flush" /\ h.todo = g.todo \ {l} /\ h.last = g.last
         /\ h.log = None
    BY DEF Flusher, InRound
  <1>11. /\ thread' = [thread EXCEPT ![t] = h] /\ thread'[t] = h
         /\ \A u \in Threads : u # t => thread'[u] = thread[u]
    BY <1>2 DEF Flush, LogInv, LogTypes
  <1> HIDE DEF h
  <1>12. UNCHANGED <<day, config, owner, cacheCount, isClose, logData, swapData, destroy, writer,
                     history>> /\ swapData[l] = <<>>
    BY DEF Flush
  <1>13. LogTypes'
    BY <1>6, <1>8, <1>9, <1>10, <1>11, <1>12 DEF LogInv, LogTypes
  <1>14. \A u \in Threads : LogsOf(u)' = LogsOf(u)
    BY <1>12 DEF LogsOf
  <1>15. ~Busy(l)' /\ \A places : ~DoingTo(l, places)'
    BY <1>3, <1>10, <1>11, <1>12 DEF Busy, DoingTo, AtFile
  <1>16. ASSUME NEW r \in Logs, r # l
         PROVE  /\ Busy(r)' <=> Busy(r)
                /\ \A places : DoingTo(r, places)' <=> DoingTo(r, places)
    <2>1. relation[r] \in Threads /\ relation'[r] = relation[r]
      BY <1>12 DEF LogInv, LogTypes
    <2>2. CASE relation[r] = t
      <3>1. ~Busy(r) /\ ~Busy(r)'
        BY <1>3, <1>10, <1>11, <1>16, <2>1, <2>2 DEF Busy, AtFile
      <3> QED BY <3>1 DEF DoingTo
    <2>3. CASE relation[r] # t
      BY <1>11, <2>1, <2>3 DEF Busy, DoingTo
    <2> QED BY <2>2, <2>3
  <1>17. Rounds'
    <2>1. ASSUME NEW u \in Threads
          PROVE  /\ thread'[u].at \in InRound => owner' \in {"up", "closing"} /\ LogsOf(u)' # {}
                 /\ thread'[u].todo \subseteq LogsOf(u)'
                 /\ thread'[u].at \in AtFile => thread'[u].log \in thread'[u].todo
      <3>1. CASE u = t
        <4>1. l \in LogsOf(t) /\ LogsOf(t)' = LogsOf(t) /\ g.todo \subseteq LogsOf(t)
          BY <1>2, <1>3, <1>14 DEF LogsOf, LogInv, Rounds
        <4> QED BY <1>3, <1>10, <1>11, <1>12, <3>1, <4>1 DEF AtFile
      <3>2. CASE u # t
        BY <1>11, <1>12, <1>14, <3>2 DEF LogInv, Rounds
      <3> QED BY <3>1, <3>2
    <2>2. ASSUME NEW r \in Logs
          PROVE  /\ swapData'[r] # <<>> => Busy(r)'
                 /\ DoingTo(r, {"copied", "deleted", "reopened"})' => swapData'[r] # <<>>
      BY <1>12, <1>15, <1>16 DEF LogInv, Rounds
    <2> QED BY <2>1, <2>2 DEF Rounds
  <1>18. Closing'
    BY <1>3, <1>12 DEF LogInv, Closing
  <1>19. LastRound'
    <2>1. ASSUME NEW u \in Threads
          PROVE  /\ thread'[u].last => destroy'[u]
                 /\ thread'[u].at \in {"test", "wait"} => ~thread'[u].last
                 /\ thread'[u].at = "done" => thread'[u].last /\ thread'[u].todo = {}
                 /\ thread'[u].at # "none" /\ thread'[u].last =>
                       \A r \in LogsOf(u) : r \notin thread'[u].todo \/ Busy(r)' => logData'[r] = <<>>
      <3>1. CASE u = t
        <4>1. g.last => destroy[t] /\ \A r \in LogsOf(t) :
                                          r \notin g.todo \/ Busy(r) => logData[r] = <<>>
          BY <1>2 DEF LogInv, LastRound
        <4>2. \A r \in LogsOf(t) : r \in Logs
          BY DEF LogsOf
        <4> QED BY <1>3, <1>10, <1>11, <1>12, <1>15, <1>16, <3>1, <4>1, <4>2
      <3>2. CASE u # t
        <4>1. \A r \in LogsOf(u) : r \in Logs /\ r # l
          BY <1>3, <3>2 DEF LogsOf
        <4>2. /\ thread[u].last => destroy[u]
              /\ thread[u].at \in {"test", "wait"} => ~thread[u].last
              /\ thread[u].at = "done" => thread[u].last /\ thread[u].todo = {}
              /\ thread[u].at # "none" /\ thread[u].last =>
                    \A r \in LogsOf(u) : r \notin thread[u].todo \/ Busy(r) => logData[r] = <<>>
          BY DEF LogInv, LastRound
        <4> QED BY <1>11, <1>12, <1>16, <3>2, <4>1, <4>2
      <3> QED BY <3>1, <3>2
    <2> QED BY <1>14, <2>1 DEF LastRound
  <1>20. ASSUME NEW r \in Logs
         PROVE  OpenFile(r)' /\ Copied(r)' /\ (crashes = 0 => Safe(r)')
                /\ (~split => StreamDays(r)')
    <2>1. CASE r = l
      <3>1. OpenFile(l)'
        BY <1>3, <1>6, <1>8, <1>9, <1>12 DEF OpenFile, Current
      <3>2. Copied(l)'
        BY <1>15 DEF Copied
      <3>3. ASSUME ~split PROVE StreamDays(l)'
        <4>1. f.passDay = f.day
          BY <1>1, <1>3, <3>3 DEF LogInv, StreamDays
        <4> QED BY <1>8, <1>9, <1>15, <4>1, EmptyIsSeq DEF StreamDays
      <3>4. ASSUME NEW e, Kept(l, e)
            PROVE  Kept(l, e)'
        <4>1. ~InSeq(e, swapData[l])
          BY <1>12, EmptyIsSeq DEF InSeq
        <4>2. InSeq(e, file[l].buf) => OnDisk(e)'
          <5>1. InSeq(e, f.buf) => path \in DOMAIN disk' /\ InSeq(e, disk'[path])
            BY <1>6
          <5> QED BY <1>1, <1>6, <5>1, InFileOnDiskNext
        <4>3. OnDisk(e) => OnDisk(e)'
          BY <1>7 DEF Persists
        <4> QED BY <1>12, <3>4, <4>1, <4>2, <4>3 DEF Kept
      <3>5. Safe(l) => Safe(l)'
        BY <1>3, <1>12, <3>4 DEF Safe
      <3> QED BY <2>1, <3>1, <3>2, <3>3, <3>5 DEF LogInv
    <2>2. CASE r # l
      <3>1. \A p \in Paths : p.log # l =>
                 /\ p \in DOMAIN disk' <=> p \in DOMAIN disk
                 /\ p \in DOMAIN disk => disk'[p] = disk[p]
        BY <1>6
      <3> QED BY <1>3, <1>7, <1>9, <1>12, <1>16, <2>2, <3>1, OthersKept
    <2> QED BY <2>1, <2>2
  <1>21. ~split => DiskDays'
    BY <1>6 DEF DiskDays
  <1> QED BY <1>7, <1>12, <1>13, <1>17, <1>18, <1>19, <1>20, <1>21 DEF LogInv

-----------------------------------------------------------------------------
(* The logs are opened and closed, and the process may die. *)

\* Close: what is still in the stream goes to the disk, and the lists are empty
\* already where the flush thread made its last round.
LEMMA CloseLogInv ==
    ASSUME LogInv, NEW l \in Logs, CloseLog(l)
    PROVE  LogInv' /\ Persists
  <1> USE DEF config, history
  <1>1. PICK f \in Stream : f = file[l]
    BY DEF LogInv, LogTypes
  <1>2. \A t \in Threads : thread[t].at \in {"none", "done"}
    BY DEF CloseLog
  <1>3. ASSUME NEW r \in Logs
        PROVE  /\ relation[r] \in Threads /\ ~Busy(r) /\ ~Busy(r)'
               /\ \A places : ~DoingTo(r, places) /\ ~DoingTo(r, places)'
    BY <1>2 DEF CloseLog, Busy, DoingTo, AtFile, LogInv, LogTypes
  <1>4. f.open
    <2>1. owner = "closing" /\ ~isClose[l]
      BY DEF CloseLog
    <2> QED BY <1>1, <1>3, <2>1 DEF LogInv, OpenFile
  <1>5. PICK path : path = Current(l)
    OBVIOUS
  <1>6. /\ DiskType(disk') /\ Grown(disk, disk') /\ DOMAIN disk' = DOMAIN disk
        /\ path \in DOMAIN disk /\ path.log = l
        /\ \A p \in DOMAIN disk : p # path => disk'[p] = disk[p]
        /\ \A e : InSeq(e, f.buf) => InSeq(e, disk'[path])
        /\ ~split => \A p \in DOMAIN disk : \A i \in 1..Len(disk'[p]) : disk'[p][i].day = p.day
    <2>1. disk' = Flushed(disk, l)
      BY DEF CloseLog
    <2>2. PICK now : now = Flushed(disk, l)
      OBVIOUS
    <2>3. /\ DiskType(now) /\ Grown(disk, now) /\ DOMAIN now = DOMAIN disk
          /\ path \in DOMAIN disk /\ path.log = l
          /\ \A p \in DOMAIN disk : p # path => now[p] = disk[p]
          /\ \A e : InSeq(e, f.buf) => InSeq(e, now[path])
          /\ ~split => \A p \in DOMAIN disk : \A i \in 1..Len(now[p]) : now[p][i].day = p.day
      BY <1>1, <1>4, <1>5, <2>2, FlushedStore
    <2> QED BY <2>1, <2>2, <2>3
  <1>7. Persists
    BY <1>6, GrownPersists DEF LogInv, LogTypes
  <1>8. NoFile \in Stream /\ ~NoFile.open /\ NoFile.buf = <<>>
        /\ NoFile.day = 0 /\ NoFile.passDay = 0
    BY EmptyIsSeq DEF NoFile, Stream
  <1>9. /\ file'[l] = NoFile /\ logData'[l] = <<>> /\ swapData'[l] = <<>> /\ isClose'[l] = TRUE
        /\ \A r \in Logs : r # l =>
               /\ file'[r] = file[r] /\ logData'[r] = logData[r] /\ swapData'[r] = swapData[r]
               /\ isClose'[r] = isClose[r]
    BY DEF CloseLog, LogInv, LogTypes
  <1>10. LogTypes'
    <2>1. /\ file' \in [Logs -> Stream] /\ logData' \in [Logs -> Seq(Record)]
          /\ swapData' \in [Logs -> Seq(Record)] /\ isClose' \in [Logs -> BOOLEAN]
      BY <1>8, EmptyIsSeq DEF CloseLog, LogInv, LogTypes
    <2>2. UNCHANGED <<day, config, owner, cacheCount, destroy, thread, writer, history>>
      BY DEF CloseLog
    <2> QED BY <1>6, <2>1, <2>2 DEF LogInv, LogTypes
  <1>11. UNCHANGED <<config, owner, destroy, thread, writer, history>> /\ owner = "closing"
    BY DEF CloseLog
  <1>12. \A u \in Threads : LogsOf(u)' = LogsOf(u)
    BY <1>11 DEF LogsOf
  <1>13. Rounds'
    <2>1. \A r \in Logs : swapData'[r] = <<>>
      BY <1>3, <1>9 DEF LogInv, Rounds
    <2> QED BY <1>3, <1>11, <1>12, <2>1 DEF LogInv, Rounds
  <1>14. Closing'
    BY <1>2, <1>11 DEF LogInv, Closing, InRound
  <1>15. LastRound'
    <2>1. ASSUME NEW r \in Logs, logData[r] = <<>>
          PROVE  logData'[r] = <<>>
      BY <1>9, <2>1
    <2>2. \A u \in Threads : \A r \in LogsOf(u) : r \in Logs
      BY DEF LogsOf
    <2> QED BY <1>3, <1>11, <1>12, <2>1, <2>2 DEF LogInv, LastRound
  <1>16. ASSUME NEW r \in Logs
         PROVE  OpenFile(r)' /\ Copied(r)' /\ (crashes = 0 => Safe(r)')
                /\ (~split => StreamDays(r)')
    <2>1. CASE r = l
      <3>1. OpenFile(l)'
        BY <1>8, <1>9, <1>11 DEF OpenFile
      <3>2. Copied(l)'
        BY <1>3 DEF Copied
      <3>3. StreamDays(l)'
        BY <1>3, <1>8, <1>9, EmptyIsSeq DEF StreamDays
      <3>4. ASSUME NEW e, Kept(l, e), thread[relation[l]].at = "done"
            PROVE  OnDisk(e)'
        <4>1. logData[l] = <<>>
          <5>1. PICK t \in Threads : t = relation[l]
            BY <1>3
          <5>2. l \in LogsOf(t) /\ thread[t].last /\ thread[t].todo = {}
            BY <3>4, <5>1 DEF LogsOf, LogInv, LastRound
          <5> QED BY <3>4, <5>1, <5>2 DEF LogInv, LastRound
        <4>2. swapData[l] = <<>>
          BY <1>3 DEF LogInv, Rounds
        <4>3. ~InSeq(e, logData[l]) /\ ~InSeq(e, swapData[l])
          BY <4>1, <4>2, EmptyIsSeq DEF InSeq
        <4>4. InSeq(e, file[l].buf) => OnDisk(e)'
          <5>1. InSeq(e, f.buf) => path \in DOMAIN disk' /\ InSeq(e, disk'[path])
            BY <1>6
          <5> QED BY <1>1, <1>6, <5>1, InFileOnDiskNext
        <4>5. OnDisk(e) => OnDisk(e)'
          BY <1>7 DEF Persists
        <4> QED BY <3>4, <4>3, <4>4, <4>5 DEF Kept
      <3>5. Safe(l) => Safe(l)'
        <4>1. ~isClose[l]
          BY DEF CloseLog
        <4> QED BY <1>9, <1>11, <3>4, <4>1 DEF Safe
      <3> QED BY <2>1, <3>1, <3>2, <3>3, <3>5 DEF LogInv
    <2>2. CASE r # l
      <3>1. \A p \in Paths : p.log # l =>
                 /\ p \in DOMAIN disk' <=> p \in DOMAIN disk
                 /\ p \in DOMAIN disk => disk'[p] = disk[p]
        BY <1>6
      <3>2. \A places : DoingTo(r, places)' <=> DoingTo(r, places)
        BY <1>3
      <3> QED BY <1>3, <1>7, <1>9, <1>11, <2>2, <3>1, <3>2, OthersKept
    <2> QED BY <2>1, <2>2
  <1>17. ~split => DiskDays'
    BY <1>6 DEF DiskDays
  <1> QED BY <1>7, <1>10, <1>11, <1>13, <1>14, <1>15, <1>16, <1>17 DEF LogInv

LEMMA OpenLogsInv == LogInv /\ OpenLogs => LogInv' /\ Persists
  <1> SUFFICES ASSUME LogInv, OpenLogs PROVE LogInv' /\ Persists
    OBVIOUS
  <1> USE DEF config, history
  <1> DEFINE todays == {At(l, day, 0) : l \in Logs}
             named == [l \in Logs |-> At(l, day, 0)]
  <1>1. /\ owner = "new" /\ owner' = "opened" /\ crashes \in Nat /\ day \in Nat
        /\ UNCHANGED <<day, config, cacheCount, isClose, logData, swapData, destroy, thread,
                       writer, history>>
        /\ DOMAIN disk' = DOMAIN disk \cup todays
        /\ \A p \in DOMAIN disk : disk'[p] = disk[p]
        /\ \A p \in DOMAIN disk' : p \notin DOMAIN disk => disk'[p] = <<>>
    BY DEF OpenLogs, ContentOf, LogInv, LogTypes
  <1>2. DiskType(disk) /\ DiskType(disk')
    <2>1. DiskType(disk)
      BY DEF LogInv, LogTypes
    <2>2. IsFiniteSet(todays)
      <3>1. named \in Surjection(Logs, todays)
        BY DEF Surjection
      <3> QED BY <3>1, FS_Surjection, LogAssumption
    <2>3. IsFiniteSet(DOMAIN disk')
      BY <1>1, <2>1, <2>2, FS_Union DEF DiskType
    <2>4. todays \subseteq Paths
      BY <1>1 DEF At, Paths
    <2>5. \A p \in DOMAIN disk' : disk'[p] \in Seq(Record)
      BY <1>1, <2>1, EmptyIsSeq DEF DiskType
    <2> HIDE DEF todays
    <2> QED BY <1>1, <2>1, <2>3, <2>4, <2>5 DEF DiskType
  <1>3. Persists
    <2>1. Grown(disk, disk')
      BY <1>1, <1>2 DEF Grown, DiskType
    <2> QED BY <1>2, <2>1, GrownPersists
  <1>4. ASSUME NEW l \in Logs
        PROVE  /\ file'[l] \in Stream /\ file'[l].day = day /\ file'[l].buf = <<>>
               /\ file'[l].open /\ At(l, day, 0) \in DOMAIN disk' /\ file[l] = NoFile
    <2>1. PICK size \in Nat : size = Len(ContentOf(disk, At(l, day, 0)))
      BY <1>2, ContentType
    <2>2. file'[l] = [NoFile EXCEPT !.open = TRUE, !.day = day, !.buf = <<>>, !.size = size]
      BY <2>1 DEF OpenLogs, OpenedFile
    <2>3. file[l] = NoFile
      BY <1>1 DEF LogInv, OpenFile
    <2>4. NoFile \in Stream
      BY EmptyIsSeq DEF NoFile, Stream
    <2>5. PICK new : new = [NoFile EXCEPT !.open = TRUE, !.day = day, !.buf = <<>>, !.size = size]
      OBVIOUS
    <2>6. new \in Stream /\ new.day = day /\ new.buf = <<>> /\ new.open
      BY <1>1, <2>1, <2>4, <2>5, EmptyIsSeq DEF Stream
    <2>7. At(l, day, 0) \in DOMAIN disk'
      BY <1>1
    <2> QED BY <2>2, <2>3, <2>5, <2>6, <2>7
  <1>5. LogTypes'
    <2>1. file' \in [Logs -> Stream]
      BY <1>4 DEF OpenLogs
    <2> QED BY <1>1, <1>2, <2>1 DEF LogInv, LogTypes
  <1>6. ASSUME NEW l \in Logs
        PROVE  /\ ~Busy(l) /\ ~Busy(l)'
               /\ \A places : ~DoingTo(l, places) /\ ~DoingTo(l, places)'
    BY <1>1 DEF Busy, DoingTo, AtFile, InRound, LogInv, Rounds, LogTypes
  <1>7. Rounds'
    BY <1>1, <1>6 DEF Rounds, LogsOf, LogInv
  <1>8. Closing'
    BY <1>1 DEF Closing, LogInv
  <1>9. LastRound'
    BY <1>1, LastFrame DEF LogInv
  <1>10. ASSUME NEW l \in Logs
         PROVE  OpenFile(l)' /\ Copied(l)' /\ (crashes = 0 => Safe(l)') /\ StreamDays(l)'
    <2>1. OpenFile(l)'
      BY <1>1, <1>4 DEF OpenFile, Current
    <2>2. Copied(l)'
      BY <1>6 DEF Copied
    <2>3. StreamDays(l)'
      BY <1>1, <1>4, <1>6, EmptyIsSeq DEF StreamDays
    <2>4. ASSUME NEW e, Kept(l, e)
          PROVE  Kept(l, e)'
      <3>1. ~InSeq(e, file[l].buf)
        BY <1>4, EmptyIsSeq DEF InSeq, NoFile
      <3> QED BY <1>1, <1>3, <2>4, <3>1 DEF Kept, Persists
    <2>5. Safe(l) => Safe(l)'
      BY <1>1, <1>3, <2>4 DEF Safe, Persists
    <2> QED BY <2>1, <2>2, <2>3, <2>5 DEF LogInv
  <1>11. ~split => DiskDays'
    BY <1>1, EmptyIsSeq DEF LogInv, DiskDays
  <1> QED BY <1>1, <1>3, <1>5, <1>7, <1>8, <1>9, <1>10, <1>11 DEF LogInv

\* A crash: the system may have written a part of each stream.
LEMMA CrashInv == LogInv /\ Crash => LogInv' /\ Persists
  <1> SUFFICES ASSUME LogInv, Crash PROVE LogInv' /\ Persists
    OBVIOUS
  <1> USE DEF config, history
  <1>1. PICK kept \in [Logs -> 0..MaxEntries] :
            /\ \A l \in Logs : kept[l] <= Len(file[l].buf)
            /\ disk' = [p \in DOMAIN disk |->
                           IF file[p.log].open /\ p = Current(p.log)
                           THEN disk[p] \o SubSeq(file[p.log].buf, 1, kept[p.log]) ELSE disk[p]]
    BY DEF Crash
  <1>2. DiskType(disk) /\ DOMAIN disk' = DOMAIN disk
    BY <1>1 DEF LogInv, LogTypes
  <1>3. ASSUME NEW p \in DOMAIN disk
        PROVE  /\ disk'[p] \in Seq(Record) /\ Len(disk[p]) <= Len(disk'[p])
               /\ \A i \in 1..Len(disk[p]) : disk'[p][i] = disk[p][i]
               /\ ~split => \A i \in 1..Len(disk'[p]) : disk'[p][i].day = p.day
    <2>1. PICK old \in Seq(Record) : old = disk[p]
      BY <1>2 DEF DiskType
    <2>2. PICK l \in Logs : l = p.log
      BY <1>2 DEF DiskType, Paths
    <2>3. ~split => \A i \in 1..Len(old) : old[i].day = p.day
      BY <2>1 DEF LogInv, DiskDays
    <2>4. CASE file[l].open /\ p = Current(l)
      <3>1. PICK f \in Stream : f = file[l]
        BY DEF LogInv, LogTypes
      <3>2. PICK buf \in Seq(Record) : buf = f.buf
        BY DEF Stream
      <3>3. PICK n \in Nat : n = kept[l] /\ n <= Len(buf)
        <4>1. kept[l] \in 0..MaxEntries
          BY <1>1
        <4> QED BY <1>1, <3>1, <3>2, <4>1, LogAssumption
      <3>4. /\ SubSeq(buf, 1, n) \in Seq(Record) /\ Len(SubSeq(buf, 1, n)) = n
            /\ \A i \in 1..n : SubSeq(buf, 1, n)[i] = buf[i]
        BY <3>3
      <3>5. PICK part \in Seq(Record) :
                /\ part = SubSeq(buf, 1, n) /\ Len(part) = n
                /\ \A i \in 1..n : part[i] = buf[i]
        BY <3>4
      <3>6. disk'[p] = old \o part
        BY <1>1, <2>1, <2>2, <2>4, <3>1, <3>2, <3>3, <3>5
      <3>7. /\ old \o part \in Seq(Record) /\ Len(old \o part) = Len(old) + n
            /\ \A i \in 1..Len(old) : (old \o part)[i] = old[i]
            /\ \A i \in 1..n : (old \o part)[Len(old) + i] = part[i]
        BY <3>5
      <3>8. PICK all \in Seq(Record), m \in Nat : all = old \o part /\ m = Len(old)
        <4>1. Len(old) \in Nat
          OBVIOUS
        <4> QED BY <3>7, <4>1
      <3>9. ASSUME ~split, NEW i \in 1..Len(all)
            PROVE  all[i].day = p.day
        <4>1. CASE i \in 1..m
          BY <2>3, <3>7, <3>8, <3>9, <4>1
        <4>2. CASE i \notin 1..m
          <5>1. PICK j \in 1..n : i = m + j
            <6>1. i - m \in 1..n /\ i = m + (i - m)
              BY <3>7, <3>8, <4>2
            <6> QED BY <6>1
          <5>2. all[i] = buf[j]
            BY <3>5, <3>7, <3>8, <5>1
          <5>3. j \in 1..Len(buf) /\ buf[j].day = f.day
            <6>1. j \in 1..Len(buf)
              BY <3>3
            <6> QED BY <3>1, <3>2, <3>9, <6>1 DEF LogInv, StreamDays
          <5>4. p.day = f.day
            BY <2>4, <3>1 DEF Current, At
          <5> QED BY <5>2, <5>3, <5>4
        <4> QED BY <4>1, <4>2
      <3> QED BY <2>1, <3>6, <3>7, <3>8, <3>9
    <2>5. CASE ~(file[l].open /\ p = Current(l))
      <3>1. disk'[p] = old
        BY <1>1, <2>1, <2>2, <2>5
      <3> QED BY <2>1, <2>3, <3>1
    <2> QED BY <2>4, <2>5
  <1>4. DiskType(disk')
    BY <1>2, <1>3 DEF DiskType
  <1>5. Persists
    <2>1. Grown(disk, disk')
      BY <1>2, <1>3 DEF Grown
    <2> QED BY <1>2, <1>4, <2>1, GrownPersists
  <1>6. /\ crashes' \in Nat /\ crashes' # 0 /\ owner' = "new" /\ cacheCount' = 0
        /\ \A l \in Logs : /\ isClose'[l] = FALSE /\ logData'[l] = <<>> /\ swapData'[l] = <<>>
                           /\ file'[l] = NoFile
        /\ \A t \in Threads : destroy'[t] = FALSE /\ thread'[t] = Idle
        /\ UNCHANGED <<day, config, accepted, split>>
    BY DEF Crash, LogInv, LogTypes
  <1>7. NoFile \in Stream /\ ~NoFile.open /\ NoFile.buf = <<>>
    BY EmptyIsSeq DEF NoFile, Stream
  <1>8. LogTypes'
    <2>1. \A w \in Writers : writer'[w] \in Pen
      <3> SUFFICES ASSUME NEW w \in Writers PROVE writer'[w] \in Pen
        OBVIOUS
      <3>1. PICK n \in Nat : n = writer[w].done
        BY DEF LogInv, LogTypes, Pen
      <3>2. writer'[w] = [at |-> "idle", done |-> n]
        BY <3>1 DEF Crash
      <3> QED BY <3>2 DEF Pen
    <2>2. writer' \in [Writers -> Pen]
      BY <2>1 DEF Crash
    <2>3. Idle \in Flusher
      BY DEF Idle, Flusher
    <2>4. /\ file' \in [Logs -> Stream] /\ logData' \in [Logs -> Seq(Record)]
          /\ swapData' \in [Logs -> Seq(Record)] /\ isClose' \in [Logs -> BOOLEAN]
          /\ destroy' \in [Threads -> BOOLEAN] /\ thread' \in [Threads -> Flusher]
      BY <1>7, <2>3, EmptyIsSeq DEF Crash
    <2> QED BY <1>4, <1>6, <2>2, <2>4 DEF LogInv, LogTypes
  <1>9. ASSUME NEW l \in Logs
        PROVE  ~Busy(l)' /\ \A places : ~DoingTo(l, places)'
    BY <1>6 DEF Idle, Busy, DoingTo, AtFile, LogInv, LogTypes
  <1>10. Rounds'
    BY <1>6, <1>9 DEF Rounds, Idle, InRound, AtFile
  <1>11. Closing'
    BY <1>6 DEF Closing
  <1>12. LastRound'
    BY <1>6 DEF LastRound, Idle
  <1>13. ASSUME NEW l \in Logs
         PROVE  OpenFile(l)' /\ Copied(l)' /\ StreamDays(l)'
    BY <1>6, <1>7, <1>9, EmptyIsSeq DEF OpenFile, Copied, StreamDays
  <1>14. ~split => DiskDays'
    BY <1>2, <1>3 DEF DiskDays
  <1> QED BY <1>5, <1>6, <1>8, <1>10, <1>11, <1>12, <1>13, <1>14 DEF LogInv

-----------------------------------------------------------------------------
(* The theorems about the types, the disk and the days. *)

\* No step breaks the invariant or takes an entry off the disk.
LEMMA StepInv == LogInv /\ [Next]_vars => LogInv' /\ Persists
  <1> SUFFICES ASSUME LogInv, [Next]_vars PROVE LogInv' /\ Persists
    OBVIOUS
  <1>1. CASE OwnerStep
    <2>1. CASE OpenLogs
      BY <2>1, OpenLogsInv
    <2>2. CASE UpdateLastPassDayTime
      BY <2>2, UpdateLastPassDayTimeInv
    <2>3. CASE Start
      BY <2>3, StartInv
    <2>4. CASE HalfClose
      BY <2>4, HalfCloseInv
    <2>5. CASE CloseEnds
      BY <2>5, CloseEndsInv
    <2>6. CASE \E l \in Logs : CloseLog(l)
      BY <2>6, CloseLogInv
    <2> QED BY <1>1, <2>1, <2>2, <2>3, <2>4, <2>5, <2>6 DEF OwnerStep
  <1>2. CASE Midnight
    BY <1>2, MidnightInv
  <1>3. CASE Crash
    BY <1>3, CrashInv
  <1>4. ASSUME NEW w \in Writers, NewLogData(w) \/ WriterStep(w)
        PROVE  LogInv' /\ Persists
    BY <1>4, NewLogDataInv, SinalInv, FlushAllInv, WriteLogInv DEF WriterStep
  <1>5. ASSUME NEW t \in Threads, ThreadStep(t) \/ WakeUp(t)
        PROVE  LogInv' /\ Persists
    <2>1. CASE RoundBegins(t)
      BY <2>1, RoundBeginsInv
    <2>2. CASE RoundEnds(t)
      BY <2>2, RoundEndsInv
    <2>3. CASE WakeUp(t)
      BY <2>3, WakeUpInv
    <2>4. ASSUME NEW l \in Logs,
                 \/ Swap(t, l) \/ ReopenForDay(t, l) \/ CopyFile(t, l) \/ DelFile(t, l)
                 \/ ReopenPart(t, l) \/ Write(t, l) \/ Flush(t, l)
          PROVE  LogInv' /\ Persists
      BY <2>4, SwapInv, ReopenForDayInv, CopyFileInv, DelFileInv, ReopenPartInv, WriteInv, FlushInv
    <2> QED BY <1>5, <2>1, <2>2, <2>3, <2>4 DEF ThreadStep
  <1>6. CASE UNCHANGED vars
    <2> USE <1>6 DEF vars, config, history
    <2>1. LogTypes'
      BY DEF LogInv, LogTypes
    <2>2. Rounds' /\ Closing' /\ LastRound'
      BY RoundsFrame, ClosingFrame, LastFrame DEF LogInv
    <2>3. ASSUME NEW l \in Logs
          PROVE  OpenFile(l)' /\ Copied(l)' /\ (crashes = 0 => Safe(l)')
                 /\ (~split => StreamDays(l)')
      BY OpenFrame, CopiedFrame, SafeFrame, StreamFrame DEF LogInv
    <2>4. ~split => DiskDays'
      BY DaysFrame DEF LogInv
    <2> QED BY <2>1, <2>2, <2>3, <2>4, FilePersists DEF LogInv, LogTypes
  <1> QED BY <1>1, <1>2, <1>3, <1>4, <1>5, <1>6 DEF Next

\* The inductive invariant of the logger: where each accepted entry is, which
\* thread works on which file, what a rotation has done, on which day a file is.
THEOREM Inductive == Spec => []LogInv
  <1>1. LogInv /\ [Next]_vars => LogInv'
    BY StepInv
  <1> QED BY InitInv, <1>1, PTL DEF Spec

\* Rotation, reopening, closing and crashes never take an entry off the disk
\* (SpecifyLog::PartitionFile, LibLogFile, Close).
THEOREM StaysOnDisk == Spec => Durable
  <1>1. LogInv /\ [Next]_vars
            => [\A p \in DOMAIN disk : \A e \in Range(disk[p]) : OnDisk(e)']_vars
    BY StepInv DEF Persists, OnDisk
  <1> QED BY Inductive, <1>1, PTL DEF Spec, Durable

\* An entry lies in the file of its day, however the writers' entries arrive
\* across midnight, unless midnight passed between the two readings of the clock
\* in SpecifyLog::Init.
THEOREM InTheirDay == Spec => []InItsDay
  <1>1. LogInv => InItsDay
    <2> SUFFICES ASSUME LogInv, ~split, NEW p \in DOMAIN disk, NEW i \in DOMAIN disk[p]
                 PROVE  disk[p][i].day = p.day
      BY DEF InItsDay
    <2>1. disk[p] \in Seq(Record)
      BY DEF LogInv, LogTypes, DiskType
    <2>2. i \in 1..Len(disk[p])
      BY <2>1
    <2>3. DiskDays
      BY DEF LogInv
    <2> QED BY <2>2, <2>3 DEF DiskDays
  <1> QED BY Inductive, <1>1, PTL

\* Close loses nothing (LibLog::Close, SpecifyLog::Close, _OnLogThreadFlush):
\* where the flush threads ran, every accepted entry is on the disk at the end.
THEOREM NothingIsLost == Spec => []NothingLost
  <1>1. LogInv => NothingLost
    <2> SUFFICES ASSUME LogInv, owner = "closed", crashes = 0, NEW l \in Logs,
                        thread[relation[l]].at = "done", NEW i \in DOMAIN accepted[l]
                 PROVE  OnDisk(accepted[l][i])
      BY DEF NothingLost
    <2>1. i \in 1..Len(accepted[l])
      BY DEF LogInv, LogTypes
    <2>2. isClose[l]
      BY DEF LogInv, Closing
    <2> QED BY <2>1, <2>2 DEF LogInv, Safe
  <1> QED BY Inductive, <1>1, PTL

-----------------------------------------------------------------------------
(* Sequences of entries, one after the other.  FlattenSeq is a recursive   *)
(* function: what it computes is proved by induction over its rounds.      *)

\* A set of numbers has a least one.
LEMMA Least ==
    ASSUME NEW T, T \subseteq Nat, T # {}
    PROVE  \E x \in T : \A y \in T : x <= y
  <1>1. PICK x \in T : \A y \in T : <<y, x>> \notin OpToRel(<, Nat)
    BY NatLessThanWellFounded, WFMin
  <1>2. \A y \in T : ~(y < x)
    BY <1>1 DEF OpToRel
  <1> QED BY <1>2

\* What holds at the start and is kept by every round holds after every round.
LEMMA RoundsInduction ==
    ASSUME NEW n \in Nat, NEW P, 0 \in P,
           \A i \in 1..n : i - 1 \in P => i \in P
    PROVE  0..n \subseteq P
  <1> SUFFICES ASSUME NEW bad \in 0..n, bad \notin P PROVE FALSE
    OBVIOUS
  <1> DEFINE T == {i \in 0..n : i \notin P}
  <1>1. PICK x \in T : \A y \in T : x <= y
    <2>1. T \subseteq Nat /\ T # {}
      OBVIOUS
    <2> HIDE DEF T
    <2> QED BY <2>1, Least
  <1>2. x \in 1..n /\ x \notin P
    <2>1. x # 0 /\ x \in 0..n
      OBVIOUS
    <2> QED BY <2>1
  <1>3. x - 1 \in Nat /\ x - 1 < x /\ x - 1 \in 0..n
    BY <1>2
  <1>4. x - 1 \in P
    BY <1>1, <1>3
  <1> QED BY <1>2, <1>4

\* Sequences of entries under concatenation; Regrouped is a name that the provers find
\* instances for.
Text == Seq(Record)

Regrouped(a, b, c) == (a \o b) \o c = a \o (b \o c)

LEMMA TextConcat ==
    \A a, b \in Text : /\ a \o b \in Text /\ Len(a \o b) = Len(a) + Len(b)
                       /\ Len(a) \in Nat /\ Len(b) \in Nat
  BY ConcatProperties, LenProperties DEF Text

LEMMA TextRegrouped == \A a, b, c \in Text : Regrouped(a, b, c)
  <1>1. \A a, b, c \in Seq(Record) : (a \o b) \o c = a \o (b \o c)
    BY ConcatAssociative
  <1> QED BY <1>1 DEF Text, Regrouped

LEMMA TextEmpty ==
    /\ <<>> \in Text /\ Len(<<>>) = 0
    /\ \A a \in Text : a \o <<>> = a /\ <<>> \o a = a /\ (Len(a) = 0 => a = <<>>)
  <1>1. <<>> \in Text /\ Len(<<>>) = 0
    BY EmptySeq DEF Text
  <1>2. \A a \in Text : a \o <<>> = a /\ <<>> \o a = a
    BY ConcatEmptySeq DEF Text
  <1>3. \A a \in Text : Len(a) = 0 => a = <<>>
    BY EmptySeq DEF Text
  <1> QED BY <1>1, <1>2, <1>3

\* The states of FlattenSeq.
FlatRounds(c, f) ==
    /\ f \in [0..Len(c) -> Text]
    /\ f[0] = <<>>
    /\ \A i \in 1..Len(c) : f[i] = f[i - 1] \o c[i]

LEMMA FlatExists ==
    ASSUME NEW c \in Seq(Text)
    PROVE  \E f : FlatRounds(c, f)
  <1> DEFINE n == Len(c)
             Good(k, f) == /\ f \in [0..n -> Text] /\ f[0] = <<>>
                           /\ \A i \in 1..n : i <= k => f[i] = f[i - 1] \o c[i]
             P == {k \in 0..n : \E f : Good(k, f)}
  <1>1. n \in Nat /\ \A i \in 1..n : c[i] \in Text
    BY LenProperties, ElementOfSeq
  <1> HIDE DEF n
  <1>2. 0 \in P
    <2>1. <<>> \in Text
      BY TextEmpty
    <2> DEFINE start == [i \in 0..n |-> <<>>]
    <2>2. Good(0, start)
      <3>1. start \in [0..n -> Text] /\ start[0] = <<>>
        BY <1>1, <2>1
      <3>2. \A i \in 1..n : ~(i <= 0)
        BY <1>1
      <3> HIDE DEF start
      <3> QED BY <3>1, <3>2
    <2>3. 0 \in 0..n
      BY <1>1
    <2> HIDE DEF Good
    <2>4. \E f : Good(0, f)
      BY <2>2, Zenon
    <2> QED BY <2>3, <2>4
  <1>3. ASSUME NEW k \in 1..n, k - 1 \in P
        PROVE  k \in P
    <2>1. PICK f : Good(k - 1, f)
      BY <1>3
    <2> DEFINE x == f[k - 1] \o c[k]
               g == [f EXCEPT ![k] = x]
    <2>2. k \in 0..n /\ k - 1 \in 0..n
      BY <1>1
    <2>3. x \in Text
      BY <1>1, <2>1, <2>2, TextConcat
    <2>4. g \in [0..n -> Text] /\ g[0] = <<>>
      <3> HIDE DEF x
      <3> QED BY <2>1, <2>2, <2>3
    <2>5. ASSUME NEW i \in 1..n, i <= k
          PROVE  g[i] = g[i - 1] \o c[i]
      <3>1. i - 1 \in 0..n /\ i - 1 # k
        BY <1>1, <2>5
      <3>2. g[i - 1] = f[i - 1]
        BY <2>1, <3>1
      <3>3. CASE i = k
        BY <2>1, <2>2, <3>2, <3>3
      <3>4. CASE i # k
        <4>1. i <= k - 1 /\ g[i] = f[i]
          BY <1>1, <2>1, <2>5, <3>4
        <4> QED BY <2>1, <3>2, <4>1
      <3> QED BY <3>3, <3>4
    <2>6. Good(k, g)
      BY <2>4, <2>5
    <2> QED BY <2>2, <2>6
  <1>4. 0..n \subseteq P
    <2> HIDE DEF P
    <2> QED BY <1>1, <1>2, <1>3, RoundsInduction
  <1>5. PICK f : Good(n, f)
    <2>1. n \in P
      <3> HIDE DEF P
      <3> QED BY <1>1, <1>4
    <2> HIDE DEF Good
    <2> QED BY <2>1
  <1>6. \A i \in 1..n : i <= n
    BY <1>1
  <1> QED BY <1>5, <1>6 DEF FlatRounds, n

LEMMA FlatIs ==
    ASSUME NEW c \in Seq(Text), NEW f, FlatRounds(c, f)
    PROVE  FlattenSeq(c) = f[Len(c)]
  <1> DEFINE n == Len(c)
             Loop(g) == g = [i \in 1..Len(c) |-> IF i = 1 THEN c[i] ELSE g[i - 1] \o c[i]]
  <1>1. n \in Nat /\ \A i \in 1..n : c[i] \in Text
    BY LenProperties, ElementOfSeq
  <1>2. CASE n = 0
    <2>1. c = <<>>
      BY <1>2, EmptySeq
    <2> QED BY <1>2, <2>1 DEF FlattenSeq, FlatRounds
  <1>3. CASE n # 0
    <2> DEFINE h == [i \in 1..n |-> f[i]]
    <2>1. ASSUME NEW i \in 1..n
          PROVE  h[i] = IF i = 1 THEN c[i] ELSE h[i - 1] \o c[i]
      <3>1. f[i] = f[i - 1] \o c[i]
        BY DEF FlatRounds
      <3>2. CASE i = 1
        <4>1. f[i - 1] = <<>>
          BY <3>2 DEF FlatRounds
        <4>2. f[i - 1] \o c[i] = c[i]
          BY <1>1, <4>1, TextEmpty
        <4> QED BY <3>1, <3>2, <4>2
      <3>3. CASE i # 1
        <4>1. i - 1 \in 1..n
          BY <1>1, <3>3
        <4> QED BY <3>1, <3>3, <4>1
      <3> QED BY <3>2, <3>3
    <2>2. Loop(h)
      BY <2>1
    <2> DEFINE flatten == CHOOSE g : Loop(g)
    <2>3. Loop(flatten)
      <3> HIDE DEF Loop
      <3> QED BY <2>2
    <2>4. FlattenSeq(c) = flatten[n]
      BY <1>3 DEF FlattenSeq
    <2>5. \A i \in 1..n : flatten[i] = IF i = 1 THEN c[i] ELSE flatten[i - 1] \o c[i]
      <3> HIDE DEF flatten
      <3> QED BY <2>3
    <2> DEFINE P == {i \in 0..n : i = 0 \/ flatten[i] = h[i]}
    <2> HIDE DEF flatten, h
    <2>6. ASSUME NEW i \in 1..n, i - 1 \in P
          PROVE  i \in P
      <3>1. CASE i = 1
        BY <2>1, <2>5, <3>1
      <3>2. CASE i # 1
        BY <2>1, <2>5, <2>6, <3>2
      <3> QED BY <3>1, <3>2
    <2>7. n \in P
      <3>1. 0 \in P
        BY <1>1
      <3>2. \A i \in 1..n : i - 1 \in P => i \in P
        BY <2>6
      <3>3. 0..n \subseteq P
        <4> HIDE DEF P
        <4> QED BY <1>1, <3>1, <3>2, RoundsInduction
      <3> HIDE DEF P
      <3> QED BY <1>1, <3>3
    <2> QED BY <1>1, <1>3, <2>4, <2>7 DEF h
  <1> QED BY <1>2, <1>3

LEMMA FlatText ==
    ASSUME NEW c \in Seq(Text)
    PROVE  FlattenSeq(c) \in Text
  <1>1. PICK f : FlatRounds(c, f)
    BY FlatExists
  <1>2. Len(c) \in 0..Len(c)
    BY LenProperties
  <1> QED BY <1>1, <1>2, FlatIs DEF FlatRounds

\* Nothing but empty sequences.
LEMMA FlatNothing ==
    ASSUME NEW c \in Seq(Text), \A i \in 1..Len(c) : c[i] = <<>>
    PROVE  FlattenSeq(c) = <<>>
  <1>1. PICK f : FlatRounds(c, f)
    BY FlatExists
  <1> DEFINE n == Len(c)
             P == {i \in 0..n : f[i] = <<>>}
  <1>2. n \in Nat
    BY LenProperties
  <1>3. 0 \in P
    BY <1>1, <1>2 DEF FlatRounds
  <1>4. ASSUME NEW i \in 1..n, i - 1 \in P
        PROVE  i \in P
    <2>1. f[i] = f[i - 1] \o c[i] /\ c[i] = <<>> /\ f[i - 1] = <<>>
      BY <1>1, <1>4 DEF FlatRounds
    <2>2. <<>> \o <<>> = <<>>
      BY TextEmpty
    <2> QED BY <2>1, <2>2
  <1>5. 0..n \subseteq P
    <2> HIDE DEF P, n
    <2> QED BY <1>2, <1>3, <1>4, RoundsInduction
  <1>6. f[n] = <<>>
    BY <1>2, <1>5
  <1> QED BY <1>1, <1>6, FlatIs

LEMMA FlatOne ==
    ASSUME NEW x \in Text
    PROVE  FlattenSeq(<<x>>) = x
  <1>1. <<x>> \in Seq(Text) /\ Len(<<x>>) = 1 /\ <<x>>[1] = x
    OBVIOUS
  <1>2. PICK f : FlatRounds(<<x>>, f)
    BY <1>1, FlatExists
  <1>3. f[0] = <<>> /\ \A i \in 1..1 : f[i] = f[i - 1] \o <<x>>[i]
    BY <1>1, <1>2 DEF FlatRounds
  <1>4. f[1] = f[0] \o <<x>>[1]
    <2>1. 1 \in 1..1 /\ 1 - 1 = 0
      OBVIOUS
    <2>2. f[1] = f[1 - 1] \o <<x>>[1]
      BY <1>3, <2>1, Zenon
    <2> QED BY <2>1, <2>2, Zenon
  <1>5. <<>> \o x = x
    BY TextEmpty
  <1>6. f[1] = x
    BY <1>1, <1>3, <1>4, <1>5
  <1>7. FlattenSeq(<<x>>) = f[Len(<<x>>)]
    BY ONLY <1>1, <1>2, FlatIs
  <1> QED BY <1>1, <1>6, <1>7

LEMMA FlatConcat ==
    ASSUME NEW a \in Seq(Text), NEW b \in Seq(Text)
    PROVE  FlattenSeq(a \o b) = FlattenSeq(a) \o FlattenSeq(b)
  <1>1. PICK f : FlatRounds(a, f)
    BY FlatExists
  <1>2. PICK g : FlatRounds(b, g)
    BY FlatExists
  <1> DEFINE x == FlattenSeq(a)
  <1>3. /\ Len(a) \in Nat /\ Len(b) \in Nat
        /\ a \o b \in Seq(Text) /\ Len(a \o b) = Len(a) + Len(b)
    BY LenProperties, ConcatProperties
  <1>4. \A i \in 1..(Len(a) + Len(b)) : (a \o b)[i] = IF i <= Len(a) THEN a[i] ELSE b[i - Len(a)]
    BY ConcatProperties
  <1>5. x \in Text /\ x = f[Len(a)] /\ FlattenSeq(b) = g[Len(b)]
    BY <1>1, <1>2, FlatIs, FlatText
  <1> HIDE DEF x
  <1> DEFINE n == Len(a) + Len(b)
             h == [i \in 0..n |-> IF i <= Len(a) THEN f[i] ELSE x \o g[i - Len(a)]]
  <1>6. h \in [0..n -> Text]
    <2>1. ASSUME NEW i \in 0..n
          PROVE  (IF i <= Len(a) THEN f[i] ELSE x \o g[i - Len(a)]) \in Text
      <3>1. CASE i <= Len(a)
        <4>1. i \in 0..Len(a)
          BY <1>3, <3>1
        <4> QED BY <1>1, <3>1, <4>1 DEF FlatRounds
      <3>2. CASE i > Len(a)
        <4>1. i - Len(a) \in 0..Len(b) /\ ~(i <= Len(a))
          BY <1>3, <3>2
        <4>2. g[i - Len(a)] \in Text
          BY <1>2, <4>1 DEF FlatRounds
        <4> QED BY <1>5, <4>1, <4>2, TextConcat
      <3> QED BY <1>3, <3>1, <3>2
    <2> QED BY <2>1
  <1>7. ASSUME NEW i \in 1..n
        PROVE  h[i] = h[i - 1] \o (a \o b)[i]
    <2>1. i \in 0..n /\ i - 1 \in 0..n
      BY <1>3
    <2>2. CASE i <= Len(a)
      <3>1. i \in 1..Len(a) /\ i - 1 <= Len(a)
        BY <1>3, <2>2
      <3>2. f[i] = f[i - 1] \o a[i]
        BY <1>1, <3>1 DEF FlatRounds
      <3>3. h[i] = f[i] /\ h[i - 1] = f[i - 1]
        BY <2>1, <2>2, <3>1
      <3> QED BY <1>4, <2>2, <3>2, <3>3
    <2>3. CASE i > Len(a)
      <3>1. i - Len(a) \in 1..Len(b) /\ ~(i <= Len(a)) /\ (i - Len(a)) - 1 \in 0..Len(b)
        BY <1>3, <2>3
      <3> DEFINE y == g[(i - Len(a)) - 1]
                 z == b[i - Len(a)]
      <3>2. g[i - Len(a)] = y \o z
        BY <1>2, <3>1 DEF FlatRounds
      <3>3. y \in Text /\ z \in Text
        BY <1>2, <3>1, ElementOfSeq DEF FlatRounds
      <3>4. h[i] = x \o (y \o z)
        BY <2>1, <3>1, <3>2
      <3>5. h[i - 1] = x \o y
        <4>1. CASE i - 1 <= Len(a)
          <5>1. i - 1 = Len(a) /\ (i - Len(a)) - 1 = 0
            BY <1>3, <2>3, <4>1
          <5>2. h[i - 1] = x
            BY <1>5, <2>1, <4>1, <5>1
          <5>3. y = <<>>
            BY <1>2, <5>1 DEF FlatRounds
          <5> QED BY <1>5, <5>2, <5>3, TextEmpty
        <4>2. CASE ~(i - 1 <= Len(a))
          <5>1. (i - 1) - Len(a) = (i - Len(a)) - 1
            BY <1>3
          <5> QED BY <2>1, <4>2, <5>1
        <4> QED BY <4>1, <4>2
      <3>6. (a \o b)[i] = z
        BY <1>4, <3>1
      <3> HIDE DEF y, z, h
      <3>7. Regrouped(x, y, z)
        BY <1>5, <3>3, TextRegrouped
      <3>8. (x \o y) \o z = x \o (y \o z)
        BY <3>7 DEF Regrouped
      <3> QED BY <3>4, <3>5, <3>6, <3>8, Zenon
    <2>4. i <= Len(a) \/ i > Len(a)
      BY <1>3
    <2> HIDE DEF h
    <2> QED BY <2>2, <2>3, <2>4
  <1>8. h[0] = <<>>
    <2>1. 0 \in 0..n /\ 0 <= Len(a)
      BY <1>3
    <2> QED BY <1>1, <2>1 DEF FlatRounds
  <1>9. FlatRounds(a \o b, h)
    <2> HIDE DEF h
    <2> QED BY <1>3, <1>6, <1>7, <1>8 DEF FlatRounds
  <1>10. h[n] = x \o g[Len(b)]
    <2>1. CASE Len(b) = 0
      <3>1. n \in 0..n /\ n <= Len(a) /\ n = Len(a)
        BY <1>3, <2>1
      <3>2. g[Len(b)] = <<>>
        BY <1>2, <2>1 DEF FlatRounds
      <3>3. h[n] = x
        BY <1>5, <3>1
      <3> QED BY <1>5, <3>2, <3>3, TextEmpty
    <2>2. CASE Len(b) # 0
      <3>1. n \in 0..n /\ ~(n <= Len(a)) /\ n - Len(a) = Len(b)
        BY <1>3, <2>2
      <3> QED BY <3>1
    <2> QED BY <2>1, <2>2
  <1> HIDE DEF h
  <1>11. FlattenSeq(a \o b) = h[Len(a \o b)]
    BY <1>3, <1>9, FlatIs
  <1> QED BY <1>3, <1>5, <1>10, <1>11 DEF x

-----------------------------------------------------------------------------
(* The entries of a day, and the parts of a file. *)

\* The entries of s of day d that this process or an earlier one of the run wrote.
Own(s, d) == Chosen(s, {i \in DOMAIN s : s[i].day = d /\ s[i] # Earlier})

Picks(s, d) ==
    [i \in 1..Len(s) |-> IF s[i].day = d /\ s[i] # Earlier THEN <<s[i]>> ELSE <<>>]

LEMMA PicksAre ==
    ASSUME NEW s \in Text, NEW d
    PROVE  /\ Picks(s, d) \in Seq(Text) /\ Len(Picks(s, d)) = Len(s)
           /\ \A i \in 1..Len(s) :
                 Picks(s, d)[i] = IF s[i].day = d /\ s[i] # Earlier THEN <<s[i]>> ELSE <<>>
           /\ Own(s, d) = FlattenSeq(Picks(s, d))
  <1>1. Len(s) \in Nat /\ DOMAIN s = 1..Len(s) /\ \A i \in 1..Len(s) : s[i] \in Record
    BY LenProperties, ElementOfSeq DEF Text
  <1>2. \A i \in 1..Len(s) :
           (IF s[i].day = d /\ s[i] # Earlier THEN <<s[i]>> ELSE <<>>) \in Text
    BY <1>1, TextEmpty DEF Text
  <1>3. Picks(s, d) \in [1..Len(s) -> Text]
    BY <1>2 DEF Picks
  <1>4. Picks(s, d) \in Seq(Text)
    BY <1>1, <1>3, SeqDef
  <1>5. 1..Len(Picks(s, d)) = 1..Len(s) /\ Len(Picks(s, d)) \in Nat
    BY <1>3, <1>4, LenProperties
  <1>6. Len(Picks(s, d)) = Len(s)
    BY <1>1, <1>5
  <1>7. Own(s, d) = FlattenSeq(Picks(s, d))
    <2>1. \A i \in 1..Len(s) : i \in {j \in DOMAIN s : s[j].day = d /\ s[j] # Earlier}
                                 <=> s[i].day = d /\ s[i] # Earlier
      BY <1>1
    <2> DEFINE places == {j \in DOMAIN s : s[j].day = d /\ s[j] # Earlier}
    <2>2. [i \in 1..Len(s) |-> IF i \in places THEN <<s[i]>> ELSE <<>>] = Picks(s, d)
      BY <2>1 DEF Picks
    <2> QED BY <2>2 DEF Own, Chosen
  <1> QED BY <1>4, <1>6, <1>7 DEF Picks

\* What is chosen at the places of the day's own entries.
LEMMA ChosenIsOwn ==
    ASSUME NEW s \in Text, NEW d, NEW places,
           \A i \in 1..Len(s) : i \in places <=> s[i].day = d /\ s[i] # Earlier
    PROVE  Chosen(s, places) = Own(s, d)
  <1>1. [i \in 1..Len(s) |-> IF i \in places THEN <<s[i]>> ELSE <<>>] = Picks(s, d)
    BY DEF Picks
  <1> QED BY <1>1, PicksAre DEF Chosen

LEMMA OwnText ==
    ASSUME NEW s \in Text, NEW d
    PROVE  Own(s, d) \in Text
  BY PicksAre, FlatText

LEMMA OwnNothing ==
    ASSUME NEW s \in Text, NEW d, \A i \in 1..Len(s) : ~(s[i].day = d /\ s[i] # Earlier)
    PROVE  Own(s, d) = <<>>
  <1>1. Picks(s, d) \in Seq(Text) /\ Len(Picks(s, d)) = Len(s)
    BY PicksAre
  <1>2. ASSUME NEW i \in 1..Len(Picks(s, d))
        PROVE  Picks(s, d)[i] = <<>>
    <2>1. i \in 1..Len(s)
      BY <1>1
    <2>2. Picks(s, d)[i] = IF s[i].day = d /\ s[i] # Earlier THEN <<s[i]>> ELSE <<>>
      BY <2>1, PicksAre
    <2> QED BY <2>1, <2>2
  <1>3. FlattenSeq(Picks(s, d)) = <<>>
    BY <1>1, <1>2, FlatNothing
  <1> QED BY <1>3, PicksAre

\* Equations between texts have names, by which the provers find the lemmas' instances.
OwnSplits(a, b, d) == Own(a \o b, d) = Own(a, d) \o Own(b, d)

LEMMA OwnConcat ==
    ASSUME NEW a \in Text, NEW b \in Text, NEW d
    PROVE  OwnSplits(a, b, d)
  <1>1. /\ a \o b \in Text /\ Len(a \o b) = Len(a) + Len(b)
        /\ Len(a) \in Nat /\ Len(b) \in Nat
    BY TextConcat
  <1>2. \A i \in 1..(Len(a) + Len(b)) : (a \o b)[i] = IF i <= Len(a) THEN a[i] ELSE b[i - Len(a)]
    BY ConcatProperties DEF Text
  <1> DEFINE p == Picks(a, d)
             q == Picks(b, d)
             r == Picks(a \o b, d)
  <1>3. /\ p \in Seq(Text) /\ Len(p) = Len(a) /\ q \in Seq(Text) /\ Len(q) = Len(b)
        /\ r \in Seq(Text) /\ Len(r) = Len(a) + Len(b)
    BY <1>1, PicksAre
  <1>4. /\ p \o q \in Seq(Text) /\ Len(p \o q) = Len(a) + Len(b)
        /\ \A i \in 1..(Len(a) + Len(b)) : (p \o q)[i] = IF i <= Len(a) THEN p[i] ELSE q[i - Len(a)]
    <2> HIDE DEF p, q
    <2>1. p \in Seq(Text) /\ q \in Seq(Text)
      BY <1>3
    <2>2. /\ p \o q \in Seq(Text) /\ Len(p \o q) = Len(p) + Len(q)
          /\ \A i \in 1..(Len(p) + Len(q)) :
                (p \o q)[i] = IF i <= Len(p) THEN p[i] ELSE q[i - Len(p)]
      BY <2>1, ConcatProperties
    <2> QED BY <1>3, <2>2
  <1>5. ASSUME NEW i \in 1..(Len(a) + Len(b))
        PROVE  r[i] = (p \o q)[i]
    <2>1. r[i] = IF (a \o b)[i].day = d /\ (a \o b)[i] # Earlier THEN <<(a \o b)[i]>> ELSE <<>>
      <3>1. i \in 1..Len(a \o b)
        BY <1>1
      <3> QED BY <3>1 DEF Picks
    <2>2. CASE i <= Len(a)
      <3>1. i \in 1..Len(a)
        BY <1>1, <2>2
      <3>2. p[i] = IF a[i].day = d /\ a[i] # Earlier THEN <<a[i]>> ELSE <<>>
        BY <3>1, PicksAre
      <3>3. (a \o b)[i] = a[i] /\ (p \o q)[i] = p[i]
        BY <1>2, <1>4, <2>2
      <3> HIDE DEF p, q, r
      <3> QED BY <2>1, <3>2, <3>3, Zenon
    <2>3. CASE ~(i <= Len(a))
      <3>1. i - Len(a) \in 1..Len(b)
        BY <1>1, <2>3
      <3> DEFINE k == i - Len(a)
      <3>2. q[k] = IF b[k].day = d /\ b[k] # Earlier THEN <<b[k]>> ELSE <<>>
        BY <3>1, PicksAre
      <3>3. (a \o b)[i] = b[k] /\ (p \o q)[i] = q[k]
        BY <1>2, <1>4, <2>3
      <3> HIDE DEF p, q, r, k
      <3> QED BY <2>1, <3>2, <3>3, Zenon
    <2> QED BY <2>2, <2>3
  <1>6. r = p \o q
    <2> HIDE DEF p, q, r
    <2> QED BY <1>3, <1>4, <1>5, SeqEqual
  <1>7. FlattenSeq(p \o q) = FlattenSeq(p) \o FlattenSeq(q)
    <2> HIDE DEF p, q
    <2> QED BY <1>3, FlatConcat
  <1>8. /\ Own(a, d) = FlattenSeq(p) /\ Own(b, d) = FlattenSeq(q)
        /\ Own(a \o b, d) = FlattenSeq(r)
    BY <1>1, PicksAre
  <1> HIDE DEF p, q, r
  <1> QED BY <1>6, <1>7, <1>8 DEF OwnSplits

\* The first n parts of the file of day d, one after the other.
PartList(store, l, d, n) == [i \in 1..n |-> ContentOf(store, At(l, d, i))]
Parts(store, l, d, n) == FlattenSeq(PartList(store, l, d, n))

\* All parts have numbers up to n.
Above(store, l, d, n) == \A p \in DOMAIN store : p.log = l /\ p.day = d => p.part <= n

LEMMA ContentText ==
    ASSUME NEW store, DiskType(store), NEW path
    PROVE  ContentOf(store, path) \in Text
  BY ContentType DEF Text

LEMMA PartsList ==
    ASSUME NEW store, DiskType(store), NEW l, NEW d, NEW n \in Nat
    PROVE  PartList(store, l, d, n) \in Seq(Text) /\ Len(PartList(store, l, d, n)) = n
  <1> DEFINE c == PartList(store, l, d, n)
  <1>1. c \in [1..n -> Text]
    BY ContentText DEF PartList
  <1> HIDE DEF c
  <1>2. c \in Seq(Text)
    BY <1>1, SeqDef
  <1>3. 1..Len(c) = 1..n /\ Len(c) \in Nat
    BY <1>1, <1>2, LenProperties
  <1>4. Len(c) = n
    BY <1>3
  <1> QED BY <1>2, <1>4 DEF c

LEMMA PartsText ==
    ASSUME NEW store, DiskType(store), NEW l, NEW d, NEW n \in Nat
    PROVE  Parts(store, l, d, n) \in Text
  BY PartsList, FlatText DEF Parts

LEMMA PartsNone ==
    ASSUME NEW store, NEW l, NEW d
    PROVE  Parts(store, l, d, 0) = <<>>
  <1>1. [i \in 1..0 |-> ContentOf(store, At(l, d, i))] = <<>>
    OBVIOUS
  <1>2. <<>> \in Seq(Text) /\ \A i \in 1..Len(<<>>) : <<>>[i] = <<>>
    OBVIOUS
  <1>3. FlattenSeq(<<>>) = <<>>
    BY <1>2, FlatNothing
  <1> QED BY <1>1, <1>3 DEF Parts, PartList

LEMMA PartsNext ==
    ASSUME NEW store, DiskType(store), NEW l, NEW d, NEW n \in Nat
    PROVE  Parts(store, l, d, n + 1) = Parts(store, l, d, n) \o ContentOf(store, At(l, d, n + 1))
  <1> DEFINE c == PartList(store, l, d, n)
             e == PartList(store, l, d, n + 1)
             x == ContentOf(store, At(l, d, n + 1))
  <1>1. c \in Seq(Text) /\ Len(c) = n /\ e \in Seq(Text) /\ Len(e) = n + 1 /\ x \in Text
    BY PartsList, ContentText
  <1>2. \A i \in 1..n : e[i] = c[i]
    BY DEF PartList
  <1>3. e[n + 1] = x
    BY <1>1 DEF PartList
  <1>4. Parts(store, l, d, n) = FlattenSeq(c) /\ Parts(store, l, d, n + 1) = FlattenSeq(e)
    BY DEF Parts
  <1> HIDE DEF c, e, x
  <1>5. <<x>> \in Seq(Text) /\ Len(<<x>>) = 1 /\ <<x>>[1] = x
    BY <1>1
  <1>6. /\ c \o <<x>> \in Seq(Text) /\ Len(c \o <<x>>) = n + 1
        /\ \A i \in 1..(n + 1) : (c \o <<x>>)[i] = IF i <= n THEN c[i] ELSE <<x>>[i - n]
    BY <1>1, <1>5, ConcatProperties
  <1>7. ASSUME NEW i \in 1..(n + 1)
        PROVE  e[i] = (c \o <<x>>)[i]
    <2>1. CASE i <= n
      <3>1. i \in 1..n
        BY <2>1
      <3> QED BY <1>2, <1>6, <2>1, <3>1
    <2>2. CASE ~(i <= n)
      <3>1. i = n + 1 /\ i - n = 1
        BY <2>2
      <3> QED BY <1>3, <1>5, <1>6, <2>2, <3>1
    <2> QED BY <2>1, <2>2
  <1>8. e = c \o <<x>>
    BY <1>1, <1>6, <1>7, SeqEqual
  <1>9. FlattenSeq(c \o <<x>>) = FlattenSeq(c) \o x
    BY <1>1, <1>5, FlatConcat, FlatOne
  <1> QED BY <1>4, <1>8, <1>9 DEF x

LEMMA PartsSame ==
    ASSUME NEW old, NEW new, NEW l, NEW d, NEW n,
           \A i \in 1..n : ContentOf(new, At(l, d, i)) = ContentOf(old, At(l, d, i))
    PROVE  Parts(new, l, d, n) = Parts(old, l, d, n)
  <1>1. [i \in 1..n |-> ContentOf(new, At(l, d, i))] = [i \in 1..n |-> ContentOf(old, At(l, d, i))]
    OBVIOUS
  <1> QED BY <1>1 DEF Parts, PartList

\* There is nothing behind the last part.
LEMMA PartsAbove ==
    ASSUME NEW store, DiskType(store), NEW l \in Logs, NEW d \in Nat, NEW n \in Nat, NEW m \in Nat,
           Above(store, l, d, n), n <= m
    PROVE  Parts(store, l, d, m) = Parts(store, l, d, n)
  <1> DEFINE x == Parts(store, l, d, n)
             P == {k \in 0..(m - n) : Parts(store, l, d, n + k) = x}
  <1>1. m - n \in Nat /\ x \in Text
    BY PartsText
  <1>2. 0 \in P
    <2>1. n + 0 = n /\ 0 \in 0..(m - n)
      BY <1>1
    <2> QED BY <2>1
  <1>3. ASSUME NEW k \in 1..(m - n), k - 1 \in P
        PROVE  k \in P
    <2>1. k - 1 \in Nat /\ n + (k - 1) \in Nat /\ (n + (k - 1)) + 1 = n + k /\ n + k > n
      BY <1>1
    <2>2. At(l, d, n + k) \notin DOMAIN store
      BY <2>1 DEF Above, At
    <2>3. ContentOf(store, At(l, d, n + k)) = <<>>
      BY <2>2 DEF ContentOf
    <2>4. Parts(store, l, d, n + k) = Parts(store, l, d, n + (k - 1)) \o <<>>
      <3>1. Parts(store, l, d, (n + (k - 1)) + 1)
               = Parts(store, l, d, n + (k - 1)) \o ContentOf(store, At(l, d, (n + (k - 1)) + 1))
        BY <2>1, PartsNext
      <3> QED BY <2>1, <2>3, <3>1
    <2>5. Parts(store, l, d, n + (k - 1)) = x
      BY <1>3
    <2>6. x \o <<>> = x
      BY <1>1, TextEmpty
    <2>7. Parts(store, l, d, n + k) = x /\ k \in 0..(m - n)
      BY <1>1, <2>4, <2>5, <2>6
    <2> QED BY <2>7
  <1>4. m - n \in P
    <2>1. 0..(m - n) \subseteq P
      <3> HIDE DEF P
      <3> QED BY <1>1, <1>2, <1>3, RoundsInduction
    <2> HIDE DEF P
    <2> QED BY <1>1, <2>1
  <1>5. n + (m - n) = m
    OBVIOUS
  <1> QED BY <1>4, <1>5

\* Concatenation of five texts, and how a piece moves from one to the next.
Row(p, t, b, s, q) == p \o (t \o (b \o (s \o q)))

LEMMA RowText ==
    ASSUME NEW p \in Text, NEW t \in Text, NEW b \in Text, NEW s \in Text, NEW q \in Text
    PROVE  /\ s \o q \in Text /\ b \o (s \o q) \in Text /\ t \o (b \o (s \o q)) \in Text
           /\ Row(p, t, b, s, q) \in Text
  <1>1. s \o q \in Text
    BY TextConcat
  <1>2. b \o (s \o q) \in Text
    BY <1>1, TextConcat
  <1>3. t \o (b \o (s \o q)) \in Text
    BY <1>2, TextConcat
  <1>4. p \o (t \o (b \o (s \o q))) \in Text
    BY <1>3, TextConcat
  <1> QED BY <1>1, <1>2, <1>3, <1>4 DEF Row

RowGrows(p, t, b, s, q, e) == Row(p, t, b, s, q \o e) = Row(p, t, b, s, q) \o e

LEMMA RowAppend ==
    ASSUME NEW p \in Text, NEW t \in Text, NEW b \in Text, NEW s \in Text, NEW q \in Text,
           NEW e \in Text
    PROVE  RowGrows(p, t, b, s, q, e)
  <1> DEFINE x == s \o q
             y == b \o x
             z == t \o y
  <1>1. x \in Text /\ y \in Text /\ z \in Text
    BY RowText
  <1>2. Row(p, t, b, s, q) = p \o z
    BY DEF Row
  <1>3. Row(p, t, b, s, q \o e) = p \o (t \o (b \o (s \o (q \o e))))
    BY DEF Row
  <1>4. Regrouped(s, q, e)
    BY TextRegrouped
  <1>5. x \o e = s \o (q \o e)
    BY <1>4 DEF Regrouped
  <1> HIDE DEF x
  <1>6. Regrouped(b, x, e)
    BY <1>1, TextRegrouped
  <1>7. y \o e = b \o (x \o e)
    BY <1>6 DEF Regrouped
  <1> HIDE DEF y
  <1>8. Regrouped(t, y, e)
    BY <1>1, TextRegrouped
  <1>9. z \o e = t \o (y \o e)
    BY <1>8 DEF Regrouped
  <1> HIDE DEF z
  <1>10. Regrouped(p, z, e)
    BY <1>1, TextRegrouped
  <1>11. (p \o z) \o e = p \o (z \o e)
    BY <1>10 DEF Regrouped
  <1> QED BY <1>2, <1>3, <1>5, <1>7, <1>9, <1>11, Zenon DEF RowGrows

LEMMA RowSwap ==
    ASSUME NEW p \in Text, NEW t \in Text, NEW b \in Text, NEW q \in Text
    PROVE  Row(p, t, b, q, <<>>) = Row(p, t, b, <<>>, q)
  <1>1. q \o <<>> = <<>> \o q
    BY TextEmpty
  <1> QED BY <1>1, Zenon DEF Row

RowShifts(p, t, b, e, s, q) == Row(p, t, b \o e, s, q) = Row(p, t, b, e \o s, q)

LEMMA RowWrite ==
    ASSUME NEW p \in Text, NEW t \in Text, NEW b \in Text, NEW e \in Text, NEW s \in Text,
           NEW q \in Text
    PROVE  RowShifts(p, t, b, e, s, q)
  <1> DEFINE x == s \o q
  <1>1. x \in Text
    BY RowText
  <1>2. Regrouped(e, s, q)
    BY TextRegrouped
  <1>3. (e \o s) \o q = e \o x
    BY <1>2 DEF Regrouped
  <1>4. /\ Row(p, t, b \o e, s, q) = p \o (t \o ((b \o e) \o x))
        /\ Row(p, t, b, e \o s, q) = p \o (t \o (b \o ((e \o s) \o q)))
    BY DEF Row
  <1> HIDE DEF x
  <1>5. Regrouped(b, e, x)
    BY <1>1, TextRegrouped
  <1>6. (b \o e) \o x = b \o (e \o x)
    BY <1>5 DEF Regrouped
  <1> QED BY <1>3, <1>4, <1>6, Zenon DEF RowShifts

RowFlushes(p, t, b, s, q) == Row(p, t \o b, <<>>, s, q) = Row(p, t, b, s, q)

LEMMA RowFlush ==
    ASSUME NEW p \in Text, NEW t \in Text, NEW b \in Text, NEW s \in Text, NEW q \in Text
    PROVE  RowFlushes(p, t, b, s, q)
  <1> DEFINE x == s \o q
  <1>1. x \in Text
    BY RowText
  <1>2. <<>> \o x = x
    BY <1>1, TextEmpty
  <1>3. /\ Row(p, t \o b, <<>>, s, q) = p \o ((t \o b) \o (<<>> \o x))
        /\ Row(p, t, b, s, q) = p \o (t \o (b \o x))
    BY DEF Row
  <1> HIDE DEF x
  <1>4. Regrouped(t, b, x)
    BY <1>1, TextRegrouped
  <1>5. (t \o b) \o x = t \o (b \o x)
    BY <1>4 DEF Regrouped
  <1> QED BY <1>2, <1>3, <1>5, Zenon DEF RowFlushes

RowCopies(p, t, s, q) == Row(p \o t, <<>>, <<>>, s, q) = Row(p, t, <<>>, s, q)

LEMMA RowCopy ==
    ASSUME NEW p \in Text, NEW t \in Text, NEW s \in Text, NEW q \in Text
    PROVE  RowCopies(p, t, s, q)
  <1> DEFINE x == s \o q
  <1>1. x \in Text
    BY RowText
  <1>2. <<>> \o x = x
    BY <1>1, TextEmpty
  <1>3. /\ Row(p \o t, <<>>, <<>>, s, q) = (p \o t) \o (<<>> \o (<<>> \o x))
        /\ Row(p, t, <<>>, s, q) = p \o (t \o (<<>> \o x))
    BY DEF Row
  <1> HIDE DEF x
  <1>4. Regrouped(p, t, x)
    BY <1>1, TextRegrouped
  <1>5. (p \o t) \o x = p \o (t \o x)
    BY <1>4 DEF Regrouped
  <1> QED BY <1>2, <1>3, <1>5, Zenon DEF RowCopies

LEMMA RowClosed ==
    ASSUME NEW p \in Text, NEW t \in Text
    PROVE  Row(p, t, <<>>, <<>>, <<>>) = p \o t
  <1>1. <<>> \in Text /\ <<>> \o <<>> = <<>>
    BY TextEmpty
  <1>2. t \o <<>> = t
    BY TextEmpty
  <1> QED BY <1>1, <1>2, Zenon DEF Row

\* A list is its first entry and the rest, and one entry more at the end.
LEMMA HeadAndTail ==
    ASSUME NEW s \in Text, s # <<>>
    PROVE  Head(s) \in Record /\ <<Head(s)>> \in Text /\ Tail(s) \in Text
           /\ s = <<Head(s)>> \o Tail(s)
  <1>1. Head(s) \in Record /\ Tail(s) \in Text /\ Len(s) \in Nat /\ Len(s) # 0
        /\ Len(Tail(s)) = Len(s) - 1
        /\ \A i \in 1..Len(Tail(s)) : Tail(s)[i] = s[i + 1]
    BY HeadTailProperties, LenProperties, TextEmpty DEF Text
  <1>2. <<Head(s)>> \in Text /\ Len(<<Head(s)>>) = 1 /\ <<Head(s)>>[1] = Head(s)
    BY <1>1 DEF Text
  <1> DEFINE h == <<Head(s)>>
             r == Tail(s)
  <1>3. Head(s) = s[1]
    BY DEF Text
  <1>4. /\ h \in Seq(Record) /\ r \in Seq(Record) /\ Len(h) = 1 /\ Len(r) = Len(s) - 1
        /\ h[1] = s[1] /\ \A i \in 1..Len(r) : r[i] = s[i + 1]
    BY <1>1, <1>2, <1>3 DEF Text
  <1> HIDE DEF h, r
  <1>5. /\ h \o r \in Seq(Record) /\ Len(h \o r) = Len(h) + Len(r)
        /\ \A i \in 1..(Len(h) + Len(r)) : (h \o r)[i] = IF i <= Len(h) THEN h[i] ELSE r[i - Len(h)]
    <2>1. h \in Seq(Record) /\ r \in Seq(Record)
      BY <1>4
    <2> QED BY <2>1, ConcatProperties
  <1>6. Len(h \o r) = Len(s)
    BY <1>1, <1>4, <1>5
  <1>7. ASSUME NEW i \in 1..Len(s)
        PROVE  s[i] = (h \o r)[i]
    <2>1. CASE i = 1
      BY <1>1, <1>4, <1>5, <2>1
    <2>2. CASE i # 1
      <3>1. i - 1 \in 1..Len(r) /\ (i - 1) + 1 = i /\ ~(i <= 1) /\ i \in 1..(Len(h) + Len(r))
        BY <1>1, <1>4, <2>2
      <3>2. r[i - 1] = s[i]
        BY <1>4, <3>1
      <3> QED BY <1>4, <1>5, <3>1, <3>2
    <2> QED BY <2>1, <2>2
  <1>8. s \in Seq(Record)
    BY DEF Text
  <1>9. s = h \o r
    BY <1>5, <1>6, <1>7, <1>8, SeqEqual
  <1> QED BY <1>1, <1>2, <1>9 DEF h, r

LEMMA TextAppend ==
    ASSUME NEW s \in Text, NEW e \in Record
    PROVE  <<e>> \in Text /\ Append(s, e) = s \o <<e>>
  <1>1. s \in Seq(Record) /\ <<e>> \in Seq(Record)
    BY DEF Text
  <1>2. Append(s, e) = s \o <<e>>
    BY <1>1, AppendIsConcat
  <1> QED BY <1>1, <1>2 DEF Text

-----------------------------------------------------------------------------
(* The order of the entries.                                               *)

\* The open file of day d, unless it has been copied and is about to be deleted.
Today(l, d) ==
    IF DoingTo(l, {"copied"}) /\ file[l].day = d THEN <<>> ELSE ContentOf(disk, At(l, d, 0))

\* The day's entries where they are: in n parts, in the open file, in the stream,
\* in the list being written and in the queue.
OnTheWay(l, d, n) ==
    Row(Own(Parts(disk, l, d, n), d), Own(Today(l, d), d), Own(file[l].buf, d),
        Own(swapData[l], d), Own(logData[l], d))

InTurn(l) ==
    \A d \in Nat, n \in Nat : Above(disk, l, d, n) => OnTheWay(l, d, n) = Own(accepted[l], d)

\* A log is closed after its last entries were written, or its thread never ran.
Ordered(l) == (isClose[l] => thread[relation[l]].at = "done") => InTurn(l)

\* This process made all parts but the first, and numbered them upwards.
Numbered(l) ==
    /\ ~isClose[l] => \A p \in DOMAIN disk : p.log = l => p.part \in {0, 1} \/ p.part <= file[l].partNo
    /\ isClose[l] => file[l].buf = <<>>

OrderInv ==
    /\ \A w \in Writers : writer[w].at = "push" => writer[w].entry.no # 0
    /\ \A l \in Logs : \A i \in 1..Len(accepted[l]) : accepted[l][i].no # 0
    /\ crashes = 0 /\ ~unclean /\ ~split => \A l \in Logs : Numbered(l) /\ Ordered(l)

LEMMA PathOf ==
    ASSUME NEW l \in Logs, NEW d \in Nat, NEW n \in Nat
    PROVE  /\ At(l, d, n) \in Paths
           /\ At(l, d, n).log = l /\ At(l, d, n).day = d /\ At(l, d, n).part = n
  BY DEF At, Paths

LEMMA AboveZero ==
    ASSUME NEW old, NEW new, DOMAIN old \subseteq Paths, NEW l, NEW d, NEW n \in Nat,
           \A p \in DOMAIN old : p.log = l /\ p.part # 0 => p \in DOMAIN new,
           Above(new, l, d, n)
    PROVE  Above(old, l, d, n)
  BY DEF Above, Paths

\* What a step that is no business of log l leaves as it was.
SameFiles(l) ==
    \A p \in Paths : p.log = l =>
        /\ ContentOf(disk', p) = ContentOf(disk, p)
        /\ p.part # 0 => (p \in DOMAIN disk' <=> p \in DOMAIN disk)

SameLists(l) ==
    /\ accepted'[l] = accepted[l] /\ logData'[l] = logData[l] /\ swapData'[l] = swapData[l]

SameStream(l) == file'[l].buf = file[l].buf /\ file'[l].partNo = file[l].partNo

SamePlace(l) ==
    /\ DoingTo(l, {"copied"})' <=> DoingTo(l, {"copied"})
    /\ DoingTo(l, {"copied"}) => file'[l].day = file[l].day
    /\ relation' = relation /\ (isClose'[l] <=> isClose[l])
    /\ isClose[l] => thread'[relation[l]].at = thread[relation[l]].at

LEMMA TodayText ==
    ASSUME LogInv, NEW l, NEW d
    PROVE  Today(l, d) \in Text
  <1>1. DiskType(disk)
    BY DEF LogInv, LogTypes
  <1>2. ContentOf(disk, At(l, d, 0)) \in Text
    <2>1. PICK store : store = disk
      OBVIOUS
    <2>2. ContentOf(store, At(l, d, 0)) \in Text
      BY <1>1, <2>1, ContentText
    <2> QED BY <2>1, <2>2
  <1> QED BY <1>2, TextEmpty DEF Today

LEMMA SameParts ==
    ASSUME LogInv, NEW l \in Logs, SameFiles(l), NEW d \in Nat, NEW n \in Nat,
           Above(disk', l, d, n)
    PROVE  /\ Above(disk, l, d, n) /\ Parts(disk', l, d, n) = Parts(disk, l, d, n)
           /\ ContentOf(disk', At(l, d, 0)) = ContentOf(disk, At(l, d, 0))
  <1>1. DOMAIN disk \subseteq Paths
    BY DEF LogInv, LogTypes, DiskType
  <1>2. PICK old, new : old = disk /\ new = disk'
    OBVIOUS
  <1>3. \A p \in DOMAIN old : p.log = l /\ p.part # 0 => p \in DOMAIN new
    BY <1>1, <1>2 DEF SameFiles
  <1>4. Above(old, l, d, n)
    BY <1>1, <1>2, <1>3, AboveZero
  <1>5. \A i \in Nat : ContentOf(new, At(l, d, i)) = ContentOf(old, At(l, d, i))
    BY <1>2, PathOf DEF SameFiles
  <1>6. Parts(new, l, d, n) = Parts(old, l, d, n)
    BY <1>5, PartsSame
  <1> QED BY <1>2, <1>4, <1>5, <1>6

LEMMA QuietTurn ==
    ASSUME LogInv, NEW l \in Logs, SameFiles(l), SameLists(l), SameStream(l), SamePlace(l),
           InTurn(l)
    PROVE  InTurn(l)'
  <1> SUFFICES ASSUME NEW d \in Nat, NEW n \in Nat, Above(disk', l, d, n)
               PROVE  OnTheWay(l, d, n)' = Own(accepted[l], d)'
    BY DEF InTurn
  <1>1. /\ Above(disk, l, d, n) /\ Parts(disk', l, d, n) = Parts(disk, l, d, n)
        /\ ContentOf(disk', At(l, d, 0)) = ContentOf(disk, At(l, d, 0))
    BY SameParts
  <1>2. Today(l, d)' = Today(l, d)
    BY <1>1 DEF Today, SamePlace
  <1>3. OnTheWay(l, d, n)' = OnTheWay(l, d, n)
    BY <1>1, <1>2 DEF OnTheWay, SameLists, SameStream
  <1>4. OnTheWay(l, d, n) = Own(accepted[l], d)
    BY <1>1 DEF InTurn
  <1>5. Own(accepted[l], d)' = Own(accepted[l], d)
    BY DEF SameLists
  <1> QED BY <1>3, <1>4, <1>5

LEMMA QuietStep ==
    ASSUME LogInv, LogInv', NEW l \in Logs, SameFiles(l), SameLists(l), SameStream(l), SamePlace(l),
           Numbered(l), Ordered(l)
    PROVE  Numbered(l)' /\ Ordered(l)'
  <1>1. Numbered(l)'
    <2>1. ASSUME ~isClose'[l], NEW p \in DOMAIN disk', p.log = l
          PROVE  p.part \in {0, 1} \/ p.part <= file'[l].partNo
      <3>1. p \in Paths
        BY DEF LogInv, LogTypes, DiskType
      <3> QED BY <2>1, <3>1 DEF SameFiles, SameStream, SamePlace, Numbered
    <2>2. isClose'[l] => file'[l].buf = <<>>
      BY DEF SameStream, SamePlace, Numbered
    <2> QED BY <2>1, <2>2 DEF Numbered
  <1>2. Ordered(l)'
    <2> SUFFICES ASSUME isClose'[l] => thread'[relation'[l]].at = "done" PROVE InTurn(l)'
      BY DEF Ordered
    <2>1. InTurn(l)
      BY DEF Ordered, SamePlace
    <2> QED BY <2>1, QuietTurn
  <1> QED BY <1>1, <1>2

\* A step during which no file changes.
LEMMA SameDisk ==
    ASSUME NEW l \in Logs, UNCHANGED disk
    PROVE  SameFiles(l)
  BY DEF SameFiles

\* A thread begins or ends a copy of the file of log l only in steps that work on it.
LEMMA SameCopied ==
    ASSUME LogInv, NEW l \in Logs, relation' = relation,
           \A t \in Threads : thread'[t].at = "copied" /\ thread'[t].log = l
                                 <=> thread[t].at = "copied" /\ thread[t].log = l
    PROVE  DoingTo(l, {"copied"})' <=> DoingTo(l, {"copied"})
  <1>1. PICK t \in Threads : t = relation[l] /\ t = relation'[l]
    BY DEF LogInv, LogTypes
  <1>2. DoingTo(l, {"copied"}) <=> thread[t].at = "copied" /\ thread[t].log = l
    BY <1>1 DEF DoingTo, Busy, AtFile
  <1>3. DoingTo(l, {"copied"})' <=> thread'[t].at = "copied" /\ thread'[t].log = l
    BY <1>1 DEF DoingTo, Busy, AtFile
  <1> QED BY <1>2, <1>3

\* A step that is no business of any log keeps the order.
LEMMA QuietOrder ==
    ASSUME LogInv, LogInv', OrderInv, UNCHANGED <<crashes, unclean>>, split => split',
           \A w \in Writers : writer'[w].at = "push" => writer'[w].entry.no # 0,
           \A l \in Logs : SameFiles(l) /\ SameLists(l) /\ SameStream(l) /\ SamePlace(l)
    PROVE  OrderInv'
  <1>1. \A l \in Logs : \A i \in 1..Len(accepted'[l]) : accepted'[l][i].no # 0
    BY DEF OrderInv, SameLists
  <1>2. ASSUME crashes' = 0 /\ ~unclean' /\ ~split', NEW l \in Logs
        PROVE  Numbered(l)' /\ Ordered(l)'
    <2>1. Numbered(l) /\ Ordered(l)
      BY <1>2 DEF OrderInv
    <2> QED BY <2>1, QuietStep
  <1> QED BY <1>1, <1>2 DEF OrderInv

LEMMA SameOwner ==
    ASSUME LogInv, LogInv', OrderInv, UNCHANGED <<disk, config, isClose, logData, swapData, file,
                                                  thread, history>>,
           \A w \in Writers : writer'[w].at = "push" => writer'[w].entry.no # 0
    PROVE  OrderInv'
  <1> USE DEF config, history
  <1>1. ASSUME NEW l \in Logs
        PROVE  SameFiles(l) /\ SameLists(l) /\ SameStream(l) /\ SamePlace(l)
    BY SameDisk DEF SameLists, SameStream, SamePlace, DoingTo, Busy
  <1> QED BY <1>1, QuietOrder

LEMMA OpenLogsOrder ==
    ASSUME LogInv, LogInv', OrderInv, OpenLogs
    PROVE  OrderInv'
  <1> USE DEF config, history
  <1>1. ASSUME NEW l \in Logs
        PROVE  SameFiles(l) /\ SameLists(l) /\ SameStream(l) /\ SamePlace(l)
    <2>1. PICK old, new : old = disk /\ new = disk'
      OBVIOUS
    <2>2. new = [p \in DOMAIN old \cup {At(r, day, 0) : r \in Logs} |-> ContentOf(old, p)]
      BY <2>1 DEF OpenLogs
    <2>3. \A p : ContentOf(new, p) = ContentOf(old, p)
      BY <2>2 DEF ContentOf
    <2>4. \A p : p.part # 0 => (p \in DOMAIN new <=> p \in DOMAIN old)
      BY <2>2 DEF At
    <2>5. SameFiles(l)
      BY <2>1, <2>3, <2>4 DEF SameFiles
    <2>6. file[l] = NoFile
      BY DEF LogInv, OpenFile, OpenLogs
    <2>7. file'[l].buf = <<>> /\ file'[l].partNo = 0
      BY DEF OpenLogs, OpenedFile, NoFile
    <2>8. SameStream(l)
      BY <2>6, <2>7 DEF SameStream, NoFile
    <2>9. ~DoingTo(l, {"copied"}) /\ ~isClose[l]
      <3>1. \A t \in Threads : thread[t].at \notin InRound
        BY DEF LogInv, Rounds, OpenLogs
      <3>2. thread[relation[l]].at # "copied"
        BY <3>1 DEF LogInv, LogTypes, InRound
      <3> QED BY <3>2 DEF LogInv, Closing, OpenLogs, DoingTo
    <2>10. SamePlace(l)
      BY <2>9 DEF OpenLogs, SamePlace, DoingTo, Busy
    <2> QED BY <2>5, <2>8, <2>10 DEF OpenLogs, SameLists
  <1>2. UNCHANGED <<crashes, unclean, split, writer>>
    BY DEF OpenLogs
  <1> QED BY <1>1, <1>2, QuietOrder DEF OrderInv

LEMMA UpdateLastPassDayTimeOrder ==
    ASSUME LogInv, LogInv', OrderInv, UpdateLastPassDayTime
    PROVE  OrderInv'
  <1> USE DEF config, history
  <1>1. ASSUME NEW l \in Logs
        PROVE  SameFiles(l) /\ SameLists(l) /\ SameStream(l) /\ SamePlace(l)
    <2>1. PICK f \in Stream : f = file[l]
      BY DEF LogInv, LogTypes
    <2>2. file'[l] = [f EXCEPT !.passDay = day]
      BY <2>1 DEF UpdateLastPassDayTime
    <2>3. file'[l].buf = f.buf /\ file'[l].partNo = f.partNo /\ file'[l].day = f.day
      BY <2>2 DEF Stream
    <2>4. SameStream(l) /\ file'[l].day = file[l].day
      BY <2>1, <2>3 DEF SameStream
    <2> QED BY <2>4, SameDisk
            DEF UpdateLastPassDayTime, SameLists, SamePlace, DoingTo, Busy
  <1>2. UNCHANGED <<crashes, unclean, writer>> /\ (split => split')
    BY DEF UpdateLastPassDayTime
  <1> QED BY <1>1, <1>2, QuietOrder DEF OrderInv

LEMMA StartOrder ==
    ASSUME LogInv, LogInv', OrderInv, Start
    PROVE  OrderInv'
  <1> USE DEF config, history
  <1>1. ASSUME NEW t \in Threads
        PROVE  thread[t].at # "copied" /\ thread'[t].at # "copied"
    <2>1. PICK f \in Flusher : f = thread[t]
      BY DEF LogInv, LogTypes
    <2>2. f.at \notin InRound
      BY <2>1 DEF LogInv, Rounds, Start
    <2>3. thread'[t] \in {f, [f EXCEPT !.at = "test"]}
      BY <2>1 DEF Start
    <2>4. [f EXCEPT !.at = "test"].at = "test"
      BY DEF Flusher
    <2> QED BY <2>1, <2>2, <2>3, <2>4 DEF InRound
  <1>2. ASSUME NEW l \in Logs
        PROVE  SameFiles(l) /\ SameLists(l) /\ SameStream(l) /\ SamePlace(l)
    <2>1. /\ UNCHANGED <<disk, relation, isClose, logData, swapData, file, accepted>> /\ ~isClose[l]
      BY DEF Start, LogInv, Closing
    <2>2. DoingTo(l, {"copied"})' <=> DoingTo(l, {"copied"})
      BY <1>1, <2>1, SameCopied
    <2> QED BY <2>1, <2>2, SameDisk DEF SameLists, SameStream, SamePlace
  <1>3. UNCHANGED <<crashes, unclean, split, writer>>
    BY DEF Start
  <1> QED BY <1>2, <1>3, QuietOrder DEF OrderInv

LEMMA OwnerOrder ==
    ASSUME LogInv, LogInv', OrderInv, HalfClose \/ CloseEnds \/ Midnight
    PROVE  OrderInv'
  <1>1. UNCHANGED <<disk, config, isClose, logData, swapData, file, thread, writer, history>>
    BY DEF HalfClose, CloseEnds, Midnight, history
  <1> QED BY <1>1, SameOwner DEF OrderInv

LEMMA NewLogDataOrder ==
    ASSUME LogInv, LogInv', OrderInv, NEW w \in Writers, NewLogData(w)
    PROVE  OrderInv'
  <1>1. PICK pen \in Pen : pen = writer[w]
    BY DEF LogInv, LogTypes
  <1>2. pen.done \in Nat
    BY DEF Pen
  <1>3. writer'[w].entry.no = pen.done + 1 /\ \A v \in Writers : v # w => writer'[v] = writer[v]
    BY <1>1 DEF NewLogData, LogInv, LogTypes
  <1>4. \A v \in Writers : writer'[v].at = "push" => writer'[v].entry.no # 0
    BY <1>2, <1>3 DEF OrderInv
  <1> QED BY <1>4, SameOwner DEF NewLogData

LEMMA WriterOrder ==
    ASSUME LogInv, LogInv', OrderInv, NEW w \in Writers, Sinal(w) \/ FlushAll(w)
    PROVE  OrderInv'
  <1>1. PICK pen \in Pen : pen = writer[w]
    BY DEF LogInv, LogTypes
  <1>2. writer'[w].at # "push" /\ \A v \in Writers : v # w => writer'[v] = writer[v]
    <2>1. CASE Sinal(w)
      <3>1. [pen EXCEPT !.at = "limit"].at = "limit"
        BY DEF Pen
      <3>2. writer'[w] = [pen EXCEPT !.at = "limit"]
        BY <1>1, <2>1 DEF Sinal, LogInv, LogTypes
      <3> QED BY <2>1, <3>1, <3>2 DEF Sinal, LogInv, LogTypes
    <2>2. CASE FlushAll(w)
      BY <2>2 DEF FlushAll, LogInv, LogTypes
    <2> QED BY <2>1, <2>2
  <1>3. \A v \in Writers : writer'[v].at = "push" => writer'[v].entry.no # 0
    BY <1>2 DEF OrderInv
  <1>4. UNCHANGED <<disk, config, isClose, logData, swapData, file, thread, history>>
    BY DEF Sinal, FlushAll
  <1> QED BY <1>3, <1>4, SameOwner

\* A thread that goes on to or from nothing but its round.
LEMMA RoundOrder ==
    ASSUME LogInv, LogInv', OrderInv, NEW t \in Threads, thread[t].at \in InRound,
           thread[t].at # "copied", thread'[t].at # "copied",
           \A u \in Threads : u # t => thread'[u] = thread[u],
           UNCHANGED <<disk, config, isClose, logData, swapData, file, writer, history>>
    PROVE  OrderInv'
  <1> USE DEF config, history
  <1>1. ASSUME NEW l \in Logs
        PROVE  SameFiles(l) /\ SameLists(l) /\ SameStream(l) /\ SamePlace(l)
    <2>1. ~isClose[l]
      BY DEF LogInv, Closing
    <2>2. DoingTo(l, {"copied"})' <=> DoingTo(l, {"copied"})
      BY SameCopied
    <2> QED BY <2>1, <2>2, SameDisk DEF SameLists, SameStream, SamePlace
  <1> QED BY <1>1, QuietOrder DEF OrderInv

LEMMA ThreadOrder ==
    ASSUME LogInv, LogInv', OrderInv, NEW t \in Threads,
           RoundBegins(t) \/ RoundEnds(t) \/ WakeUp(t)
    PROVE  OrderInv'
  <1>1. PICK f \in Flusher : f = thread[t]
    BY DEF LogInv, LogTypes
  <1>2. thread'[t].at # "copied" /\ \A u \in Threads : u # t => thread'[u] = thread[u]
    BY <1>1 DEF RoundBegins, RoundEnds, WakeUp, LogInv, LogTypes, Flusher
  <1>3. thread[t].at \in InRound /\ thread[t].at # "copied"
    BY DEF RoundBegins, RoundEnds, WakeUp, InRound
  <1>4. UNCHANGED <<disk, config, isClose, logData, swapData, file, writer, history>>
    BY DEF RoundBegins, RoundEnds, WakeUp
  <1> QED BY <1>2, <1>3, <1>4, RoundOrder

LEMMA ListTexts ==
    ASSUME LogInv, NEW l \in Logs
    PROVE  /\ logData[l] \in Text /\ swapData[l] \in Text /\ accepted[l] \in Text
           /\ file[l].buf \in Text
  BY DEF LogInv, LogTypes, Stream, Text

LEMMA OwnEmpty == \A d : Own(<<>>, d) = <<>>
  BY OwnNothing, TextEmpty

\* What the terms of OnTheWay are.
LEMMA WayTexts ==
    ASSUME LogInv, NEW l \in Logs, NEW d \in Nat, NEW n \in Nat
    PROVE  /\ Own(Parts(disk, l, d, n), d) \in Text /\ Own(Today(l, d), d) \in Text
           /\ Own(file[l].buf, d) \in Text /\ Own(swapData[l], d) \in Text
           /\ Own(logData[l], d) \in Text
  <1>1. DiskType(disk)
    BY DEF LogInv, LogTypes
  <1>2. PICK store : store = disk
    OBVIOUS
  <1>3. Parts(store, l, d, n) \in Text
    BY <1>1, <1>2, PartsText
  <1>4. Own(Parts(disk, l, d, n), d) \in Text
    BY <1>2, <1>3, OwnText
  <1>5. Today(l, d) \in Text
    BY TodayText
  <1>6. Own(Today(l, d), d) \in Text
    BY <1>5, OwnText
  <1>7. Own(file[l].buf, d) \in Text /\ Own(swapData[l], d) \in Text /\ Own(logData[l], d) \in Text
    BY ListTexts, OwnText
  <1> QED BY <1>4, <1>6, <1>7

\* A step that is the business of log l alone keeps the order if it does so there.
LEMMA OneOrder ==
    ASSUME LogInv, LogInv', OrderInv, NEW l \in Logs, crashes' = crashes, split' = split,
           unclean => unclean',
           \A w \in Writers : writer'[w].at = "push" => writer'[w].entry.no # 0,
           \A i \in 1..Len(accepted'[l]) : accepted'[l][i].no # 0,
           \A r \in Logs : r # l => SameFiles(r) /\ SameLists(r) /\ SameStream(r) /\ SamePlace(r),
           ~unclean' /\ ~split /\ Numbered(l) /\ Ordered(l) => Numbered(l)' /\ Ordered(l)'
    PROVE  OrderInv'
  <1>1. \A r \in Logs : \A i \in 1..Len(accepted'[r]) : accepted'[r][i].no # 0
    <2> TAKE r \in Logs
    <2>1. CASE r = l
      BY <2>1
    <2>2. CASE r # l
      BY <2>2 DEF OrderInv, SameLists
    <2> QED BY <2>1, <2>2
  <1>2. ASSUME crashes' = 0 /\ ~unclean' /\ ~split', NEW r \in Logs
        PROVE  Numbered(r)' /\ Ordered(r)'
    <2>1. Numbered(r) /\ Ordered(r)
      BY <1>2 DEF OrderInv
    <2>2. CASE r = l
      BY <1>2, <2>1, <2>2
    <2>3. CASE r # l
      BY <2>1, <2>3, QuietStep
    <2> QED BY <2>2, <2>3
  <1> QED BY <1>1, <1>2 DEF OrderInv

LEMMA NumberedKept ==
    ASSUME LogInv', NEW l \in Logs, Numbered(l), isClose'[l] <=> isClose[l],
           \A p \in Paths : p.log = l /\ p.part # 0 /\ p \in DOMAIN disk' => p \in DOMAIN disk,
           file'[l].partNo = file[l].partNo, isClose'[l] => file'[l].buf = <<>>
    PROVE  Numbered(l)'
  <1>1. ASSUME ~isClose'[l], NEW p \in DOMAIN disk', p.log = l
        PROVE  p.part \in {0, 1} \/ p.part <= file'[l].partNo
    <2>1. p \in Paths
      BY DEF LogInv, LogTypes, DiskType
    <2> QED BY <1>1, <2>1 DEF Numbered
  <1> QED BY <1>1 DEF Numbered

\* An entry joins the queue.
LEMMA WriteLogOrder ==
    ASSUME LogInv, LogInv', OrderInv, NEW w \in Writers, NEW l \in Logs, WriteLog(w, l)
    PROVE  OrderInv'
  <1>1. PICK pen \in Pen : pen = writer[w]
    BY DEF LogInv, LogTypes
  <1>2. PICK e \in Record : e = pen.entry /\ e.no # 0
    BY <1>1 DEF WriteLog, Pen, OrderInv
  <1>3. /\ UNCHANGED <<disk, isClose, swapData, file, thread, crashes, unclean, split, relation>>
        /\ ~isClose[l]
    BY DEF WriteLog, config
  <1>4. /\ logData'[l] = Append(logData[l], e) /\ accepted'[l] = Append(accepted[l], e)
        /\ \A r \in Logs : r # l => logData'[r] = logData[r] /\ accepted'[r] = accepted[r]
    BY <1>1, <1>2 DEF WriteLog, LogInv, LogTypes
  <1>5. \A v \in Writers : writer'[v].at = "push" => writer'[v].entry.no # 0
    <2>1. writer'[w].at # "push" /\ \A v \in Writers : v # w => writer'[v] = writer[v]
      BY DEF WriteLog, LogInv, LogTypes
    <2> QED BY <2>1 DEF OrderInv
  <1>6. \A i \in 1..Len(accepted'[l]) : accepted'[l][i].no # 0
    <2>1. PICK all \in Seq(Record) : all = accepted[l]
      BY DEF LogInv, LogTypes
    <2>2. accepted'[l] = Append(all, e) /\ \A i \in 1..Len(all) : all[i].no # 0
      BY <1>4, <2>1 DEF OrderInv
    <2> QED BY <1>2, <2>2
  <1>7. \A r \in Logs : SameFiles(r) /\ SameStream(r) /\ SamePlace(r)
    BY <1>3, SameDisk DEF SameStream, SamePlace, DoingTo, Busy
  <1>8. \A r \in Logs : r # l => SameLists(r)
    BY <1>3, <1>4 DEF SameLists
  <1>9. ASSUME Numbered(l), Ordered(l)
        PROVE  Numbered(l)' /\ Ordered(l)'
    <2>1. Numbered(l)'
      BY <1>3, <1>7, <1>9, NumberedKept DEF SameFiles
    <2>2. InTurn(l)
      BY <1>3, <1>9 DEF Ordered
    <2>3. ASSUME NEW d \in Nat, NEW n \in Nat, Above(disk', l, d, n)
          PROVE  OnTheWay(l, d, n)' = Own(accepted[l], d)'
      <3>1. PICK p \in Text, t \in Text, b \in Text, s \in Text, q \in Text :
                /\ p = Own(Parts(disk, l, d, n), d) /\ t = Own(Today(l, d), d)
                /\ b = Own(file[l].buf, d) /\ s = Own(swapData[l], d) /\ q = Own(logData[l], d)
        BY WayTexts
      <3>2. Today(l, d)' = Today(l, d)
        BY <1>3 DEF Today, DoingTo, Busy
      <3>3. <<e>> \in Text
        BY <1>2 DEF Text
      <3>4. PICK x \in Text : x = Own(<<e>>, d)
        BY <3>3, OwnText
      <3>5. Own(logData'[l], d) = q \o x
        <4>1. logData[l] \in Text /\ logData'[l] = logData[l] \o <<e>>
          BY <1>2, <1>4, ListTexts, TextAppend
        <4>2. OwnSplits(logData[l], <<e>>, d)
          BY <3>3, <4>1, OwnConcat
        <4> QED BY <3>1, <3>4, <4>1, <4>2 DEF OwnSplits
      <3>6. Own(accepted'[l], d) = Own(accepted[l], d) \o x
        <4>1. accepted[l] \in Text /\ accepted'[l] = accepted[l] \o <<e>>
          BY <1>2, <1>4, ListTexts, TextAppend
        <4>2. OwnSplits(accepted[l], <<e>>, d)
          BY <3>3, <4>1, OwnConcat
        <4> QED BY <3>4, <4>1, <4>2 DEF OwnSplits
      <3>7. Row(p, t, b, s, q) = Own(accepted[l], d)
        <4>1. OnTheWay(l, d, n) = Own(accepted[l], d)
          BY <1>3, <2>2, <2>3 DEF InTurn
        <4> QED BY <3>1, <4>1 DEF OnTheWay
      <3>8. Row(p, t, b, s, q \o x) = Row(p, t, b, s, q) \o x
        <4>1. RowGrows(p, t, b, s, q, x)
          BY <3>1, <3>4, RowAppend
        <4> QED BY <4>1 DEF RowGrows
      <3>9. OnTheWay(l, d, n)' = Row(p, t, b, s, q \o x)
        BY <1>3, <3>1, <3>2, <3>5 DEF OnTheWay
      <3> QED BY <3>6, <3>7, <3>8, <3>9
    <2> QED BY <2>1, <2>3 DEF Ordered, InTurn
  <1> QED BY <1>3, <1>5, <1>6, <1>7, <1>8, <1>9, OneOrder

\* The queue becomes the list that is written.
LEMMA SwapOrder ==
    ASSUME LogInv, LogInv', OrderInv, NEW t \in Threads, NEW l \in Logs, Swap(t, l)
    PROVE  OrderInv'
  <1>1. PICK f \in Flusher : f = thread[t]
    BY DEF LogInv, LogTypes
  <1>2. /\ f.at = "flush" /\ l \in f.todo /\ relation[l] = t /\ thread[t].at \in InRound
    BY <1>1 DEF Swap, LogInv, Rounds, LogsOf, InRound
  <1>3. thread'[t].at # "copied" /\ \A u \in Threads : u # t => thread'[u] = thread[u]
    <2>1. PICK to \in {[f EXCEPT !.todo = f.todo \ {l}], [f EXCEPT !.at = "write", !.log = l]} :
             thread' = [thread EXCEPT ![t] = to]
      BY <1>1 DEF Swap
    <2>2. to.at # "copied"
      BY <1>2 DEF Flusher
    <2> QED BY <2>1, <2>2 DEF LogInv, LogTypes
  <1>4. CASE logData[l] = <<>>
    <2>1. UNCHANGED <<disk, config, isClose, logData, swapData, file, writer, history>>
      BY <1>4 DEF Swap
    <2> QED BY <1>1, <1>2, <1>3, <2>1, RoundOrder
  <1>5. CASE logData[l] # <<>>
    <2>1. /\ UNCHANGED <<disk, relation, isClose, file, writer, accepted, crashes, unclean, split>>
          /\ \A r \in Logs : ~isClose[r]
      BY <1>2 DEF Swap, config, history, LogInv, Closing
    <2>2. swapData[l] = <<>>
      BY <1>1, <1>2 DEF LogInv, Rounds, Busy, AtFile
    <2>3. /\ swapData'[l] = logData[l] /\ logData'[l] = <<>>
          /\ \A r \in Logs : r # l => swapData'[r] = swapData[r] /\ logData'[r] = logData[r]
      BY <1>5, <2>2 DEF Swap, LogInv, LogTypes
    <2>4. \A r \in Logs : DoingTo(r, {"copied"})' <=> DoingTo(r, {"copied"})
      BY <1>1, <1>2, <1>3, <2>1, SameCopied
    <2>5. \A r \in Logs : SameFiles(r) /\ SameStream(r) /\ SamePlace(r)
      BY <2>1, <2>4, SameDisk DEF SameStream, SamePlace
    <2>6. \A r \in Logs : r # l => SameLists(r)
      BY <2>1, <2>3 DEF SameLists
    <2>7. ASSUME Numbered(l), Ordered(l)
          PROVE  Numbered(l)' /\ Ordered(l)'
      <3>1. Numbered(l)'
        BY <2>1, <2>5, <2>7, NumberedKept DEF SameFiles
      <3>2. InTurn(l)
        BY <2>1, <2>7 DEF Ordered
      <3>3. ASSUME NEW d \in Nat, NEW n \in Nat, Above(disk', l, d, n)
            PROVE  OnTheWay(l, d, n)' = Own(accepted[l], d)'
        <4>1. PICK p \in Text, y \in Text, b \in Text, q \in Text :
                  /\ p = Own(Parts(disk, l, d, n), d) /\ y = Own(Today(l, d), d)
                  /\ b = Own(file[l].buf, d) /\ q = Own(logData[l], d)
          BY WayTexts
        <4>2. Today(l, d)' = Today(l, d)
          BY <2>1, <2>4 DEF Today
        <4>3. Row(p, y, b, <<>>, q) = Own(accepted[l], d)
          <5>1. OnTheWay(l, d, n) = Own(accepted[l], d)
            BY <2>1, <3>2, <3>3 DEF InTurn
          <5> QED BY <2>2, <4>1, <5>1, OwnEmpty DEF OnTheWay
        <4>4. Row(p, y, b, q, <<>>) = Row(p, y, b, <<>>, q)
          BY <4>1, RowSwap
        <4>5. OnTheWay(l, d, n)' = Row(p, y, b, q, <<>>)
          BY <2>1, <2>3, <4>1, <4>2, OwnEmpty DEF OnTheWay
        <4> QED BY <2>1, <4>3, <4>4, <4>5
      <3> QED BY <3>1, <3>3 DEF Ordered, InTurn
    <2>8. /\ \A w \in Writers : writer'[w].at = "push" => writer'[w].entry.no # 0
          /\ \A i \in 1..Len(accepted'[l]) : accepted'[l][i].no # 0
      BY <2>1 DEF OrderInv
    <2> QED BY <2>1, <2>5, <2>6, <2>7, <2>8, OneOrder
  <1> QED BY <1>4, <1>5

\* A step of thread t in the files of its log l.
Works(t, l) ==
    /\ thread[t].at \in AtFile /\ thread[t].log = l
    /\ \A u \in Threads : u # t => thread'[u] = thread[u]
    /\ thread'[t].at = "copied" => thread'[t].log = l
    /\ \A r \in Logs : r # l => file'[r] = file[r] /\ swapData'[r] = swapData[r]
    /\ UNCHANGED <<logData, accepted, relation, isClose, writer, crashes, split>>
    /\ \A p \in Paths : p.log # l =>
           /\ ContentOf(disk', p) = ContentOf(disk, p)
           /\ p \in DOMAIN disk' <=> p \in DOMAIN disk

LEMMA WorkPlace ==
    ASSUME LogInv, NEW t \in Threads, NEW l \in Logs, Works(t, l)
    PROVE  /\ DoingTo(l, {"copied"}) <=> thread[t].at = "copied"
           /\ DoingTo(l, {"copied"})' <=> thread'[t].at = "copied"
           /\ relation[l] = t /\ \A r \in Logs : ~isClose[r]
  <1>1. relation[l] = t /\ \A r \in Logs : ~isClose[r]
    BY Focus DEF Works
  <1>2. relation'[l] = t
    BY <1>1 DEF Works
  <1>3. DoingTo(l, {"copied"})' <=> thread'[t].at = "copied"
    BY <1>2 DEF Works, DoingTo, Busy, AtFile
  <1>4. DoingTo(l, {"copied"}) <=> thread[t].at = "copied"
    BY <1>1 DEF Works, DoingTo, Busy, AtFile
  <1> QED BY <1>1, <1>3, <1>4

LEMMA WorkOrder ==
    ASSUME LogInv, LogInv', OrderInv, NEW t \in Threads, NEW l \in Logs, Works(t, l),
           unclean => unclean',
           ~unclean' /\ ~split /\ Numbered(l) /\ InTurn(l) => Numbered(l)' /\ InTurn(l)'
    PROVE  OrderInv'
  <1>1. relation[l] = t /\ relation' = relation /\ \A r \in Logs : ~isClose[r] /\ ~isClose'[r]
    BY WorkPlace DEF Works
  <1>2. ASSUME NEW r \in Logs, r # l
        PROVE  SameFiles(r) /\ SameLists(r) /\ SameStream(r) /\ SamePlace(r)
    <2>1. SameFiles(r)
      BY <1>2 DEF Works, SameFiles
    <2>2. SameLists(r) /\ SameStream(r)
      BY <1>2 DEF Works, SameLists, SameStream
    <2>3. relation[r] \in Threads
      BY DEF LogInv, LogTypes
    <2>4. DoingTo(r, {"copied"})' <=> DoingTo(r, {"copied"})
      <3>1. CASE relation[r] = t
        BY <1>1, <1>2, <3>1 DEF Works, DoingTo, Busy
      <3>2. CASE relation[r] # t
        BY <1>1, <2>3, <3>2 DEF Works, DoingTo, Busy
      <3> QED BY <3>1, <3>2
    <2>5. SamePlace(r)
      BY <1>1, <1>2, <2>4 DEF Works, SamePlace
    <2> QED BY <2>1, <2>2, <2>5
  <1>3. Ordered(l) => InTurn(l)
    BY <1>1 DEF Ordered
  <1>4. InTurn(l)' => Ordered(l)'
    BY DEF Ordered
  <1>5. /\ crashes' = crashes /\ split' = split
        /\ \A w \in Writers : writer'[w].at = "push" => writer'[w].entry.no # 0
        /\ \A i \in 1..Len(accepted'[l]) : accepted'[l][i].no # 0
    BY DEF Works, OrderInv
  <1> QED BY <1>2, <1>3, <1>4, <1>5, OneOrder

LEMMA FlushContent ==
    ASSUME LogInv, NEW l \in Logs, file[l].open
    PROVE  /\ \A p : p \in DOMAIN Flushed(disk, l) <=> p \in DOMAIN disk
           /\ \A p : ContentOf(Flushed(disk, l), p)
                        = IF p = Current(l) THEN ContentOf(disk, p) \o file[l].buf
                          ELSE ContentOf(disk, p)
           /\ Current(l) \in DOMAIN disk
  <1>1. PICK old, new, path, all :
            /\ old = disk /\ new = Flushed(disk, l) /\ path = Current(l)
            /\ all = disk[Current(l)] \o file[l].buf
    OBVIOUS
  <1>2. path \in DOMAIN old
    BY <1>1 DEF LogInv, OpenFile
  <1>3. new = [p \in DOMAIN old \cup {path} |-> IF p = path THEN all ELSE old[p]]
    BY <1>1 DEF Flushed, With
  <1>4. \A p : p \in DOMAIN new <=> p \in DOMAIN old
    BY <1>2, <1>3
  <1>5. \A p : ContentOf(new, p) = IF p = path THEN all ELSE ContentOf(old, p)
    BY <1>2, <1>3 DEF ContentOf
  <1>6. ContentOf(old, path) = disk[Current(l)]
    BY <1>1, <1>2 DEF ContentOf
  <1> QED BY <1>1, <1>2, <1>4, <1>5, <1>6

LEMMA OpenContent ==
    ASSUME NEW store, NEW l, NEW d
    PROVE  /\ \A p : p \in DOMAIN Opened(store, l, d) <=> p \in DOMAIN store \/ p = At(l, d, 0)
           /\ \A p : ContentOf(Opened(store, l, d), p) = ContentOf(store, p)
  <1>1. PICK new, path, all : /\ new = Opened(store, l, d) /\ path = At(l, d, 0)
                              /\ all = ContentOf(store, At(l, d, 0))
    OBVIOUS
  <1>2. new = [p \in DOMAIN store \cup {path} |-> IF p = path THEN all ELSE store[p]]
    BY <1>1 DEF Opened, With
  <1>3. \A p : p \in DOMAIN new <=> p \in DOMAIN store \/ p = path
    BY <1>2
  <1>4. \A p : ContentOf(new, p) = ContentOf(store, p)
    BY <1>1, <1>2 DEF ContentOf
  <1> QED BY <1>1, <1>3, <1>4

\* The parts of log l are as they were.
SameLater(l) ==
    \A p \in Paths : p.log = l /\ p.part # 0 =>
        /\ ContentOf(disk', p) = ContentOf(disk, p)
        /\ p \in DOMAIN disk' <=> p \in DOMAIN disk

\* And its files have what was in its stream.
Emptied(l) ==
    /\ SameLater(l)
    /\ \A d \in Nat : ContentOf(disk', At(l, d, 0))
                         = IF d = file[l].day THEN ContentOf(disk, At(l, d, 0)) \o file[l].buf
                           ELSE ContentOf(disk, At(l, d, 0))
    /\ file'[l].buf = <<>>

LEMMA LaterParts ==
    ASSUME LogInv, NEW l \in Logs, SameLater(l), NEW d \in Nat, NEW n \in Nat,
           Above(disk', l, d, n)
    PROVE  Above(disk, l, d, n) /\ Parts(disk', l, d, n) = Parts(disk, l, d, n)
  <1>1. DOMAIN disk \subseteq Paths
    BY DEF LogInv, LogTypes, DiskType
  <1>2. PICK old, new : old = disk /\ new = disk'
    OBVIOUS
  <1>3. \A p \in DOMAIN old : p.log = l /\ p.part # 0 => p \in DOMAIN new
    BY <1>1, <1>2 DEF SameLater
  <1>4. Above(old, l, d, n)
    BY <1>1, <1>2, <1>3, AboveZero
  <1>5. \A i \in 1..n : ContentOf(new, At(l, d, i)) = ContentOf(old, At(l, d, i))
    <2> TAKE i \in 1..n
    <2>1. i \in Nat /\ i # 0
      OBVIOUS
    <2>2. At(l, d, i) \in Paths /\ At(l, d, i).log = l /\ At(l, d, i).part # 0
      BY <2>1, PathOf
    <2> QED BY <1>2, <2>2 DEF SameLater
  <1>6. Parts(new, l, d, n) = Parts(old, l, d, n)
    BY <1>5, PartsSame
  <1> QED BY <1>2, <1>4, <1>6

\* The entries of the stream are of the day of its file.
LEMMA StreamIsOfItsDay ==
    ASSUME LogInv, ~split, NEW l \in Logs, NEW d \in Nat, d # file[l].day
    PROVE  Own(file[l].buf, d) = <<>>
  <1>1. \A i \in 1..Len(file[l].buf) : file[l].buf[i].day = file[l].day
    BY DEF LogInv, StreamDays
  <1>2. file[l].buf \in Text
    BY ListTexts
  <1>3. \A i \in 1..Len(file[l].buf) : ~(file[l].buf[i].day = d /\ file[l].buf[i] # Earlier)
    BY <1>1
  <1> QED BY <1>2, <1>3, OwnNothing

LEMMA EmptiedTurn ==
    ASSUME LogInv, ~split, NEW l \in Logs, Emptied(l), SameLists(l),
           ~DoingTo(l, {"copied"}), ~DoingTo(l, {"copied"})', InTurn(l)
    PROVE  InTurn(l)'
  <1> SUFFICES ASSUME NEW d \in Nat, NEW n \in Nat, Above(disk', l, d, n)
               PROVE  OnTheWay(l, d, n)' = Own(accepted[l], d)'
    BY DEF InTurn
  <1>1. Above(disk, l, d, n) /\ Parts(disk', l, d, n) = Parts(disk, l, d, n)
    BY LaterParts DEF Emptied
  <1>2. PICK p \in Text, t \in Text, b \in Text, s \in Text, q \in Text :
            /\ p = Own(Parts(disk, l, d, n), d) /\ t = Own(Today(l, d), d)
            /\ b = Own(file[l].buf, d) /\ s = Own(swapData[l], d) /\ q = Own(logData[l], d)
    BY WayTexts
  <1>3. Row(p, t, b, s, q) = Own(accepted[l], d)
    <2>1. OnTheWay(l, d, n) = Own(accepted[l], d)
      BY <1>1 DEF InTurn
    <2> QED BY <1>2, <2>1 DEF OnTheWay
  <1>4. /\ Today(l, d) = ContentOf(disk, At(l, d, 0))
        /\ Today(l, d)' = ContentOf(disk', At(l, d, 0))
    BY DEF Today
  <1>5. ASSUME NEW x, x = Own(Today(l, d)', d)
        PROVE  OnTheWay(l, d, n)' = Row(p, x, <<>>, s, q)
    BY <1>1, <1>2, <1>5, OwnEmpty DEF OnTheWay, SameLists, Emptied
  <1>6. CASE d = file[l].day
    <2>1. Today(l, d)' = Today(l, d) \o file[l].buf
      BY <1>4, <1>6 DEF Emptied
    <2>2. OwnSplits(Today(l, d), file[l].buf, d)
      BY TodayText, ListTexts, OwnConcat
    <2>3. t \o b = Own(Today(l, d)', d)
      BY <1>2, <2>1, <2>2 DEF OwnSplits
    <2>4. OnTheWay(l, d, n)' = Row(p, t \o b, <<>>, s, q)
      BY <1>5, <2>3
    <2>5. RowFlushes(p, t, b, s, q)
      BY <1>2, RowFlush
    <2> QED BY <1>3, <2>4, <2>5 DEF RowFlushes, SameLists
  <1>7. CASE d # file[l].day
    <2>1. Today(l, d)' = Today(l, d)
      BY <1>4, <1>7 DEF Emptied
    <2>2. t = Own(Today(l, d)', d) /\ b = <<>>
      BY <1>2, <1>7, <2>1, StreamIsOfItsDay
    <2>3. OnTheWay(l, d, n)' = Row(p, t, <<>>, s, q)
      BY <1>5, <2>2
    <2> QED BY <1>3, <2>2, <2>3 DEF SameLists
  <1> QED BY <1>6, <1>7

LEMMA ReopenForDayOrder ==
    ASSUME LogInv, LogInv', OrderInv, NEW t \in Threads, NEW l \in Logs, ReopenForDay(t, l)
    PROVE  OrderInv'
  <1>1. thread[t].at = "write" /\ thread[t].log = l /\ thread[t].at \in AtFile
    BY DEF ReopenForDay, Writing, AtFile
  <1>2. file[l].open
    BY <1>1, AtItsFile
  <1>3. PICK d, closed, after :
           d = Head(swapData[l]).day /\ closed = Flushed(disk, l) /\ after = disk'
    OBVIOUS
  <1>0. PICK f \in Stream : f = file[l]
    BY DEF LogInv, LogTypes
  <1>4. /\ after = Opened(closed, l, d)
        /\ file' = [file EXCEPT ![l] = [OpenedFile(closed, f, l, d) EXCEPT !.passDay = d]]
        /\ UNCHANGED <<config, isClose, logData, swapData, thread, writer, history>>
    BY <1>3, <1>0 DEF ReopenForDay, LogInv, LogTypes
  <1>5. file'[l].buf = <<>> /\ file'[l].partNo = file[l].partNo
    <2>1. PICK size : size = Len(ContentOf(closed, At(l, d, 0)))
      OBVIOUS
    <2>2. file'[l] = [f EXCEPT !.open = TRUE, !.day = d, !.buf = <<>>, !.size = size, !.passDay = d]
      BY <1>4, <2>1 DEF OpenedFile, Stream, LogInv, LogTypes
    <2> QED BY <1>0, <2>2 DEF Stream
  <1>6. /\ \A p : p \in DOMAIN after <=> p \in DOMAIN disk \/ p = At(l, d, 0)
        /\ \A p : ContentOf(after, p) = IF p = Current(l) THEN ContentOf(disk, p) \o file[l].buf
                                        ELSE ContentOf(disk, p)
    <2>1. /\ \A p : p \in DOMAIN after <=> p \in DOMAIN closed \/ p = At(l, d, 0)
          /\ \A p : ContentOf(after, p) = ContentOf(closed, p)
      BY <1>4, OpenContent
    <2>2. /\ \A p : p \in DOMAIN closed <=> p \in DOMAIN disk
          /\ \A p : ContentOf(closed, p) = IF p = Current(l) THEN ContentOf(disk, p) \o file[l].buf
                                           ELSE ContentOf(disk, p)
      BY <1>2, <1>3, FlushContent
    <2> QED BY <2>1, <2>2
  <1>7. Works(t, l)
    <2>1. \A p \in Paths : p.log # l =>
             /\ ContentOf(disk', p) = ContentOf(disk, p)
             /\ p \in DOMAIN disk' <=> p \in DOMAIN disk
      BY <1>3, <1>6 DEF Current, At
    <2>2. \A r \in Logs : r # l => file'[r] = file[r]
      BY <1>4 DEF LogInv, LogTypes
    <2> QED BY <1>1, <1>4, <2>1, <2>2 DEF Works, config, history
  <1>8. Emptied(l)
    <2>1. SameLater(l)
      BY <1>3, <1>6 DEF SameLater, Current, At
    <2>2. \A x \in Nat : ContentOf(disk', At(l, x, 0))
                            = IF x = file[l].day THEN ContentOf(disk, At(l, x, 0)) \o file[l].buf
                              ELSE ContentOf(disk, At(l, x, 0))
      BY <1>3, <1>6 DEF Current, At
    <2> QED BY <1>5, <2>1, <2>2 DEF Emptied
  <1>9. /\ SameLists(l) /\ ~DoingTo(l, {"copied"}) /\ ~DoingTo(l, {"copied"})'
        /\ unclean' = unclean
    BY <1>1, <1>4, <1>7, WorkPlace DEF SameLists, history
  <1>10. ~split /\ InTurn(l) => InTurn(l)'
    BY <1>8, <1>9, EmptiedTurn
  <1>11. Numbered(l) => Numbered(l)'
    BY <1>4, <1>5, <1>8, NumberedKept DEF Emptied, SameLater
  <1> QED BY <1>7, <1>9, <1>10, <1>11, WorkOrder

LEMMA FlushOrder ==
    ASSUME LogInv, LogInv', OrderInv, NEW t \in Threads, NEW l \in Logs, Flush(t, l)
    PROVE  OrderInv'
  <1>1. thread[t].at = "write" /\ thread[t].log = l /\ thread[t].at \in AtFile
    BY DEF Flush, AtFile
  <1>2. file[l].open
    BY <1>1, AtItsFile
  <1>3. PICK f \in Stream, g \in Flusher : f = file[l] /\ g = thread[t]
    BY DEF LogInv, LogTypes
  <1>0. PICK after : after = disk'
    OBVIOUS
  <1>4. /\ after = Flushed(disk, l) /\ file' = [file EXCEPT ![l] = [f EXCEPT !.buf = <<>>]]
        /\ thread' = [thread EXCEPT ![t] =
                         [g EXCEPT !.at = "flush", !.todo = g.todo \ {l}, !.log = None]]
        /\ UNCHANGED <<config, isClose, logData, swapData, writer, history>>
    BY <1>3, <1>0 DEF Flush, LogInv, LogTypes
  <1>5. file'[l].buf = <<>> /\ file'[l].partNo = file[l].partNo
    BY <1>3, <1>4 DEF Stream, LogInv, LogTypes
  <1>6. /\ \A p : p \in DOMAIN after <=> p \in DOMAIN disk
        /\ \A p : ContentOf(after, p) = IF p = Current(l) THEN ContentOf(disk, p) \o file[l].buf
                                        ELSE ContentOf(disk, p)
    BY <1>2, <1>4, FlushContent
  <1>7. thread'[t].at = "flush" /\ \A u \in Threads : u # t => thread'[u] = thread[u]
    BY <1>4 DEF LogInv, LogTypes, Flusher
  <1>8. Works(t, l)
    <2>1. \A p \in Paths : p.log # l =>
             /\ ContentOf(disk', p) = ContentOf(disk, p)
             /\ p \in DOMAIN disk' <=> p \in DOMAIN disk
      BY <1>0, <1>6 DEF Current, At
    <2>2. \A r \in Logs : r # l => file'[r] = file[r]
      BY <1>4 DEF LogInv, LogTypes
    <2> QED BY <1>1, <1>4, <1>7, <2>1, <2>2 DEF Works, config, history
  <1>9. Emptied(l)
    <2>1. SameLater(l)
      BY <1>0, <1>6 DEF SameLater, Current, At
    <2>2. \A x \in Nat : ContentOf(disk', At(l, x, 0))
                            = IF x = file[l].day THEN ContentOf(disk, At(l, x, 0)) \o file[l].buf
                              ELSE ContentOf(disk, At(l, x, 0))
      BY <1>0, <1>6 DEF Current, At
    <2> QED BY <1>5, <2>1, <2>2 DEF Emptied
  <1>10. /\ SameLists(l) /\ ~DoingTo(l, {"copied"}) /\ ~DoingTo(l, {"copied"})'
         /\ unclean' = unclean
    BY <1>1, <1>4, <1>7, <1>8, WorkPlace DEF SameLists, history
  <1>11. ~split /\ InTurn(l) => InTurn(l)'
    BY <1>9, <1>10, EmptiedTurn
  <1>12. Numbered(l) => Numbered(l)'
    BY <1>4, <1>5, <1>9, NumberedKept DEF Emptied, SameLater
  <1> QED BY <1>8, <1>10, <1>11, <1>12, WorkOrder

\* The file is closed with the log: nothing waited any more.
LEMMA CloseLogOrder ==
    ASSUME LogInv, LogInv', OrderInv, NEW l \in Logs, CloseLog(l)
    PROVE  OrderInv'
  <1>1. PICK after : after = disk'
    OBVIOUS
  <1>2. /\ after = Flushed(disk, l) /\ file' = [file EXCEPT ![l] = NoFile]
        /\ isClose' = [isClose EXCEPT ![l] = TRUE] /\ ~isClose[l] /\ owner = "closing"
        /\ logData' = [logData EXCEPT ![l] = <<>>] /\ swapData' = [swapData EXCEPT ![l] = <<>>]
        /\ \A t \in Threads : thread[t].at \in {"none", "done"}
        /\ UNCHANGED <<relation, thread, writer, accepted, crashes, unclean, split>>
    BY <1>1 DEF CloseLog, config, history
  <1>3. /\ file'[l] = NoFile /\ isClose'[l] /\ logData'[l] = <<>> /\ swapData'[l] = <<>>
        /\ \A r \in Logs : r # l => /\ file'[r] = file[r] /\ isClose'[r] = isClose[r]
                                    /\ logData'[r] = logData[r] /\ swapData'[r] = swapData[r]
    BY <1>2 DEF LogInv, LogTypes
  <1>4. \A r \in Logs : relation[r] \in Threads /\ ~Busy(r)
    BY <1>2 DEF LogInv, LogTypes, Busy, AtFile
  <1>5. file[l].open
    BY <1>2, <1>4 DEF LogInv, OpenFile, DoingTo
  <1>6. /\ \A p : p \in DOMAIN after <=> p \in DOMAIN disk
        /\ \A p : ContentOf(after, p) = IF p = Current(l) THEN ContentOf(disk, p) \o file[l].buf
                                        ELSE ContentOf(disk, p)
    BY <1>1, <1>2, <1>5, FlushContent
  <1>7. ASSUME NEW r \in Logs, r # l
        PROVE  SameFiles(r) /\ SameLists(r) /\ SameStream(r) /\ SamePlace(r)
    <2>1. SameFiles(r)
      BY <1>1, <1>6, <1>7 DEF SameFiles, Current, At
    <2> QED BY <1>2, <1>3, <1>7, <2>1 DEF SameLists, SameStream, SamePlace, DoingTo, Busy
  <1>8. Numbered(l)'
    BY <1>3 DEF Numbered, NoFile
  <1>9. ASSUME ~split, Ordered(l)
        PROVE  Ordered(l)'
    <2> SUFFICES ASSUME thread[relation[l]].at = "done" PROVE InTurn(l)'
      BY <1>2, <1>3 DEF Ordered
    <2>1. logData[l] = <<>> /\ swapData[l] = <<>>
      <3>1. PICK t \in Threads : t = relation[l]
        BY <1>4
      <3>2. thread[t].last /\ thread[t].todo = {} /\ l \in LogsOf(t) /\ thread[t].at # "none"
        BY <3>1 DEF LogInv, LastRound, LogsOf
      <3>3. logData[l] = <<>>
        BY <3>2 DEF LogInv, LastRound
      <3> QED BY <1>4, <3>3 DEF LogInv, Rounds
    <2>2. SameLists(l)
      BY <1>2, <1>3, <2>1 DEF SameLists
    <2>3. Emptied(l)
      <3>1. SameLater(l)
        BY <1>1, <1>6 DEF SameLater, Current, At
      <3>2. \A x \in Nat : ContentOf(disk', At(l, x, 0))
                              = IF x = file[l].day THEN ContentOf(disk, At(l, x, 0)) \o file[l].buf
                                ELSE ContentOf(disk, At(l, x, 0))
        BY <1>1, <1>6 DEF Current, At
      <3> QED BY <1>3, <3>1, <3>2 DEF Emptied, NoFile
    <2>4. ~DoingTo(l, {"copied"}) /\ ~DoingTo(l, {"copied"})'
      BY <1>2, <1>4 DEF DoingTo, Busy
    <2>5. InTurn(l)
      BY <1>2, <1>9 DEF Ordered
    <2> QED BY <1>9, <2>2, <2>3, <2>4, <2>5, EmptiedTurn
  <1>10. /\ \A w \in Writers : writer'[w].at = "push" => writer'[w].entry.no # 0
         /\ \A i \in 1..Len(accepted'[l]) : accepted'[l][i].no # 0
    BY <1>2 DEF OrderInv
  <1> QED BY <1>2, <1>7, <1>8, <1>9, <1>10, OneOrder

\* The first entry of the list goes to the stream.
LEMMA WriteOrder ==
    ASSUME LogInv, LogInv', OrderInv, NEW t \in Threads, NEW l \in Logs, Write(t, l)
    PROVE  OrderInv'
  <1>1. /\ thread[t].at \in AtFile /\ thread[t].log = l /\ thread[t].at # "copied"
        /\ swapData[l] # <<>>
    <2>1. CASE Writing(t, l)
      BY <2>1 DEF Writing, AtFile
    <2>2. CASE thread[t].at = "reopened" /\ thread[t].log = l
      BY <2>2, AtItsFile DEF AtFile
    <2> QED BY <2>1, <2>2 DEF Write
  <1>2. PICK f \in Stream, g \in Flusher, words \in Text :
            f = file[l] /\ g = thread[t] /\ words = swapData[l]
    BY DEF LogInv, LogTypes, Text
  <1>3. PICK e \in Record, rest \in Text :
            e = Head(words) /\ rest = Tail(words) /\ <<e>> \in Text /\ words = <<e>> \o rest
    BY <1>1, <1>2, HeadAndTail
  <1>4. /\ file' = [file EXCEPT ![l] = [f EXCEPT !.buf = Append(f.buf, e), !.size = f.size + 1]]
        /\ swapData' = [swapData EXCEPT ![l] = rest]
        /\ thread' = [thread EXCEPT ![t] = [g EXCEPT !.at = "write"]]
        /\ UNCHANGED <<disk, config, isClose, logData, writer, history>>
    BY <1>2, <1>3 DEF Write, LogInv, LogTypes
  <1>5. /\ file'[l].buf = Append(file[l].buf, e) /\ file'[l].partNo = file[l].partNo
        /\ swapData'[l] = rest
    BY <1>2, <1>4 DEF Stream, LogInv, LogTypes
  <1>6. /\ thread'[t].at = "write" /\ thread'[t].log = l
        /\ \A u \in Threads : u # t => thread'[u] = thread[u]
    BY <1>1, <1>2, <1>4 DEF LogInv, LogTypes, Flusher
  <1>7. Works(t, l)
    <2>1. \A r \in Logs : r # l => file'[r] = file[r] /\ swapData'[r] = swapData[r]
      BY <1>4 DEF LogInv, LogTypes
    <2> QED BY <1>1, <1>4, <1>6, <2>1 DEF Works, config, history
  <1>8. /\ ~DoingTo(l, {"copied"}) /\ ~DoingTo(l, {"copied"})' /\ ~isClose[l]
        /\ UNCHANGED <<unclean, isClose, disk, logData, accepted>>
    BY <1>1, <1>4, <1>6, <1>7, WorkPlace DEF history
  <1>9. Numbered(l) => Numbered(l)'
    BY <1>5, <1>8, NumberedKept
  <1>10. ASSUME InTurn(l), NEW d \in Nat, NEW n \in Nat, Above(disk', l, d, n)
         PROVE  OnTheWay(l, d, n)' = Own(accepted[l], d)'
    <2>1. PICK p \in Text, y \in Text, b \in Text, s \in Text, q \in Text :
              /\ p = Own(Parts(disk, l, d, n), d) /\ y = Own(Today(l, d), d)
              /\ b = Own(file[l].buf, d) /\ s = Own(swapData[l], d) /\ q = Own(logData[l], d)
      BY WayTexts
    <2>2. Today(l, d)' = Today(l, d)
      BY <1>8 DEF Today
    <2>3. PICK x \in Text, z \in Text : x = Own(<<e>>, d) /\ z = Own(rest, d)
      BY <1>3, OwnText
    <2>4. s = x \o z
      <3>1. OwnSplits(<<e>>, rest, d)
        BY <1>3, OwnConcat
      <3> QED BY <1>2, <1>3, <2>1, <2>3, <3>1 DEF OwnSplits
    <2>5. Own(file'[l].buf, d) = b \o x
      <3>1. file[l].buf \in Text /\ file'[l].buf = file[l].buf \o <<e>>
        BY <1>5, ListTexts, TextAppend
      <3>2. OwnSplits(file[l].buf, <<e>>, d)
        BY <1>3, <3>1, OwnConcat
      <3> QED BY <2>1, <2>3, <3>1, <3>2 DEF OwnSplits
    <2>6. Row(p, y, b, s, q) = Own(accepted[l], d)
      <3>1. OnTheWay(l, d, n) = Own(accepted[l], d)
        BY <1>8, <1>10 DEF InTurn
      <3> QED BY <2>1, <3>1 DEF OnTheWay
    <2>7. OnTheWay(l, d, n)' = Row(p, y, b \o x, z, q)
      BY <1>5, <1>8, <2>1, <2>2, <2>3, <2>5 DEF OnTheWay
    <2>8. Row(p, y, b \o x, z, q) = Row(p, y, b, x \o z, q)
      <3>1. RowShifts(p, y, b, x, z, q)
        BY <2>1, <2>3, RowWrite
      <3> QED BY <3>1 DEF RowShifts
    <2> QED BY <1>8, <2>4, <2>6, <2>7, <2>8
  <1>11. InTurn(l) => InTurn(l)'
    BY <1>10 DEF InTurn
  <1> QED BY <1>7, <1>8, <1>9, <1>11, WorkOrder

LEMMA ReopenPartOrder ==
    ASSUME LogInv, LogInv', OrderInv, NEW t \in Threads, NEW l \in Logs, ReopenPart(t, l)
    PROVE  OrderInv'
  <1>1. thread[t].at = "deleted" /\ thread[t].log = l /\ thread[t].at \in AtFile
    BY DEF ReopenPart, AtFile
  <1>2. file[l].buf = <<>>
    BY <1>1, AtItsFile
  <1>3. PICK f \in Stream, g \in Flusher : f = file[l] /\ g = thread[t]
    BY DEF LogInv, LogTypes
  <1>4. PICK d, after : d = Head(swapData[l]).day /\ after = disk'
    OBVIOUS
  <1>5. /\ after = Opened(disk, l, d) /\ file' = [file EXCEPT ![l] = OpenedFile(disk, f, l, d)]
        /\ thread' = [thread EXCEPT ![t] = [g EXCEPT !.at = "reopened"]]
        /\ UNCHANGED <<config, isClose, logData, swapData, writer, history>>
    BY <1>3, <1>4 DEF ReopenPart, LogInv, LogTypes
  <1>6. file'[l].buf = <<>> /\ file'[l].partNo = file[l].partNo
    <2>1. PICK size : size = Len(ContentOf(disk, At(l, d, 0)))
      OBVIOUS
    <2>2. file'[l] = [f EXCEPT !.open = TRUE, !.day = d, !.buf = <<>>, !.size = size]
      BY <1>5, <2>1 DEF OpenedFile, LogInv, LogTypes
    <2> QED BY <1>3, <2>2 DEF Stream
  <1>7. /\ \A p : p \in DOMAIN after <=> p \in DOMAIN disk \/ p = At(l, d, 0)
        /\ \A p : ContentOf(after, p) = ContentOf(disk, p)
    BY <1>5, OpenContent
  <1>8. thread'[t].at = "reopened" /\ \A u \in Threads : u # t => thread'[u] = thread[u]
    BY <1>3, <1>5 DEF LogInv, LogTypes, Flusher
  <1>9. Works(t, l)
    <2>1. \A p \in Paths : p.log # l =>
             /\ ContentOf(disk', p) = ContentOf(disk, p)
             /\ p \in DOMAIN disk' <=> p \in DOMAIN disk
      BY <1>4, <1>7 DEF At
    <2>2. \A r \in Logs : r # l => file'[r] = file[r]
      BY <1>5 DEF LogInv, LogTypes
    <2> QED BY <1>1, <1>5, <1>8, <2>1, <2>2 DEF Works, config, history
  <1>10. SameFiles(l)
    BY <1>4, <1>7 DEF SameFiles, At
  <1>11. /\ ~DoingTo(l, {"copied"}) /\ ~DoingTo(l, {"copied"})' /\ ~isClose[l]
         /\ UNCHANGED <<unclean, isClose, relation>>
    BY <1>1, <1>5, <1>8, <1>9, WorkPlace DEF history, config
  <1>12. SameLists(l) /\ SameStream(l) /\ SamePlace(l)
    BY <1>2, <1>5, <1>6, <1>11 DEF SameLists, SameStream, SamePlace, history
  <1>13. InTurn(l) => InTurn(l)'
    BY <1>10, <1>12, QuietTurn
  <1>14. Numbered(l) => Numbered(l)'
    BY <1>6, <1>10, <1>11, NumberedKept DEF SameFiles
  <1> QED BY <1>9, <1>11, <1>13, <1>14, WorkOrder

\* What is deleted has been copied.
LEMMA DelFileOrder ==
    ASSUME LogInv, LogInv', OrderInv, NEW t \in Threads, NEW l \in Logs, DelFile(t, l)
    PROVE  OrderInv'
  <1>1. thread[t].at = "copied" /\ thread[t].log = l /\ thread[t].at \in AtFile
    BY DEF DelFile, AtFile
  <1>2. PICK f \in Stream, g \in Flusher : f = file[l] /\ g = thread[t]
    BY DEF LogInv, LogTypes
  <1>3. PICK path, before, after : path = Current(l) /\ before = disk /\ after = disk'
    OBVIOUS
  <1>4. /\ file' = [file EXCEPT ![l] = [f EXCEPT !.open = FALSE]]
        /\ thread' = [thread EXCEPT ![t] = [g EXCEPT !.at = "deleted"]]
        /\ UNCHANGED <<config, isClose, logData, swapData, writer, accepted, crashes, split>>
        /\ unclean => unclean'
    BY <1>2 DEF DelFile, LogInv, LogTypes
  <1>5. after = before \/ after = [p \in DOMAIN before \ {path} |-> before[p]]
    BY <1>3 DEF DelFile
  <1>6. \A p : p # path => /\ ContentOf(after, p) = ContentOf(before, p)
                           /\ p \in DOMAIN after <=> p \in DOMAIN before
    BY <1>5 DEF ContentOf
  <1>7. /\ file'[l].buf = file[l].buf /\ file'[l].partNo = file[l].partNo
        /\ file'[l].day = file[l].day
    BY <1>2, <1>4 DEF Stream, LogInv, LogTypes
  <1>8. thread'[t].at = "deleted" /\ \A u \in Threads : u # t => thread'[u] = thread[u]
    BY <1>2, <1>4 DEF LogInv, LogTypes, Flusher
  <1>9. Works(t, l)
    <2>1. \A p \in Paths : p.log # l =>
             /\ ContentOf(disk', p) = ContentOf(disk, p)
             /\ p \in DOMAIN disk' <=> p \in DOMAIN disk
      BY <1>3, <1>6 DEF Current, At
    <2>2. \A r \in Logs : r # l => file'[r] = file[r]
      BY <1>4 DEF LogInv, LogTypes
    <2> QED BY <1>1, <1>4, <1>8, <2>1, <2>2 DEF Works, config
  <1>10. SameLater(l)
    BY <1>3, <1>6 DEF SameLater, Current, At
  <1>11. DoingTo(l, {"copied"}) /\ ~DoingTo(l, {"copied"})' /\ ~isClose[l]
    BY <1>1, <1>8, <1>9, WorkPlace
  <1>12. Numbered(l) => Numbered(l)'
    BY <1>4, <1>7, <1>10, <1>11, NumberedKept DEF SameLater
  <1>13. ASSUME ~unclean', InTurn(l), NEW d \in Nat, NEW n \in Nat, Above(disk', l, d, n)
         PROVE  OnTheWay(l, d, n)' = Own(accepted[l], d)'
    <2>1. Above(disk, l, d, n) /\ Parts(disk', l, d, n) = Parts(disk, l, d, n)
      BY <1>10, <1>13, LaterParts
    <2>2. Today(l, d)' = Today(l, d)
      <3>1. Today(l, d)' = ContentOf(disk', At(l, d, 0))
        BY <1>11 DEF Today
      <3>2. CASE d = file[l].day
        <4>1. Today(l, d) = <<>>
          BY <1>11, <3>2 DEF Today
        <4>2. after = [p \in DOMAIN before \ {path} |-> before[p]]
          BY <1>3, <1>13 DEF DelFile
        <4>3. path \notin DOMAIN after
          BY <4>2
        <4>4. path = At(l, d, 0)
          BY <1>3, <3>2 DEF Current
        <4>5. ContentOf(disk', At(l, d, 0)) = <<>>
          BY <1>3, <4>3, <4>4 DEF ContentOf
        <4> QED BY <3>1, <4>1, <4>5
      <3>3. CASE d # file[l].day
        <4>1. Today(l, d) = ContentOf(disk, At(l, d, 0))
          BY <3>3 DEF Today
        <4>2. At(l, d, 0) # path
          BY <1>3, <3>3 DEF Current, At
        <4> QED BY <1>3, <1>6, <3>1, <4>1, <4>2
      <3> QED BY <3>2, <3>3
    <2>3. OnTheWay(l, d, n)' = OnTheWay(l, d, n)
      BY <1>4, <1>7, <2>1, <2>2 DEF OnTheWay
    <2>4. OnTheWay(l, d, n) = Own(accepted[l], d)
      BY <1>13, <2>1 DEF InTurn
    <2> QED BY <1>4, <2>3, <2>4
  <1>14. ~unclean' /\ InTurn(l) => InTurn(l)'
    BY <1>13 DEF InTurn
  <1> QED BY <1>4, <1>9, <1>12, <1>14, WorkOrder

\* The parts before the free number: there are no others.
LEMMA PartsBefore ==
    ASSUME LogInv, NEW l \in Logs, Numbered(l), ~isClose[l]
    PROVE  /\ FreePart(l) \in Nat /\ FreePart(l) - 1 \in Nat
           /\ Above(disk, l, file[l].day, FreePart(l) - 1)
           /\ \A p \in DOMAIN disk : p.log = l => p.part \in {0, 1} \/ p.part < FreePart(l)
           /\ At(l, file[l].day, FreePart(l)) \notin DOMAIN disk
  <1>1. PICK k \in Nat, d \in Nat, no \in Nat :
            k = FreePart(l) /\ d = file[l].day /\ no = file[l].partNo
    BY FreePartIsFree DEF LogInv, LogTypes, Stream
  <1>2. no < k /\ k - 1 \in Nat /\ At(l, d, k) \notin DOMAIN disk
    BY <1>1, FreePartIsFree
  <1>3. ASSUME NEW p \in DOMAIN disk, p.log = l
        PROVE  p.part \in {0, 1} \/ p.part < k
    <2>1. p \in Paths
      BY DEF LogInv, LogTypes, DiskType
    <2> QED BY <1>1, <1>2, <1>3, <2>1 DEF Numbered, Paths
  <1>4. ASSUME NEW p \in DOMAIN disk, p.log = l, p.day = d
        PROVE  p.part <= k - 1
    <2>1. p \in Paths
      BY DEF LogInv, LogTypes, DiskType
    <2>2. p = At(l, d, p.part) /\ p.part \in Nat
      BY <1>4, <2>1 DEF Paths, At
    <2>3. p.part # k
      BY <1>2, <2>2
    <2> QED BY <1>2, <1>3, <1>4, <2>2, <2>3
  <1> QED BY <1>1, <1>2, <1>3, <1>4 DEF Above

LEMMA CopyFileOrder ==
    ASSUME LogInv, LogInv', OrderInv, NEW t \in Threads, NEW l \in Logs, CopyFile(t, l)
    PROVE  OrderInv'
  <1>1. thread[t].at = "write" /\ thread[t].log = l /\ thread[t].at \in AtFile
    BY DEF CopyFile, Writing, AtFile
  <1>2. file[l].open
    BY <1>1, AtItsFile
  <1>3. PICK f \in Stream, g \in Flusher, k \in Nat : f = file[l] /\ g = thread[t] /\ k = FreePart(l)
    BY FreePartIsFree DEF LogInv, LogTypes
  <1>4. PICK before, now, after, path, part :
            /\ before = disk /\ now = Flushed(disk, l) /\ after = disk'
            /\ path = Current(l) /\ part = At(l, f.day, k)
    OBVIOUS
  <1>5. /\ file' = [file EXCEPT ![l] = [f EXCEPT !.partNo = k, !.buf = <<>>]]
        /\ thread' = [thread EXCEPT ![t] = [g EXCEPT !.at = "copied"]]
        /\ after = With(now, part, now[path])
        /\ UNCHANGED <<config, isClose, logData, swapData, writer, history>>
    BY <1>3, <1>4 DEF CopyFile, LogInv, LogTypes
  <1>6. file'[l].buf = <<>> /\ file'[l].partNo = k /\ file'[l].day = file[l].day
    BY <1>3, <1>5 DEF Stream, LogInv, LogTypes
  <1>7. /\ thread'[t].at = "copied" /\ thread'[t].log = l
        /\ \A u \in Threads : u # t => thread'[u] = thread[u]
    BY <1>1, <1>3, <1>5 DEF LogInv, LogTypes, Flusher
  <1>8. /\ \A p : p \in DOMAIN now <=> p \in DOMAIN before
        /\ \A p : ContentOf(now, p) = IF p = path THEN ContentOf(before, p) \o f.buf
                                      ELSE ContentOf(before, p)
        /\ path \in DOMAIN before
    BY <1>2, <1>3, <1>4, FlushContent
  <1>9. k # 0 /\ path = At(l, f.day, 0)
    BY <1>3, <1>4, FreePartIsFree DEF Current
  <1>10. path # part
    BY <1>4, <1>9 DEF At
  <1>11. /\ \A p : p \in DOMAIN after <=> p \in DOMAIN before \/ p = part
         /\ \A p : p # part /\ p # path => ContentOf(after, p) = ContentOf(before, p)
         /\ ContentOf(after, path) = ContentOf(before, path) \o f.buf
         /\ ContentOf(after, part) = ContentOf(before, path) \o f.buf
    <2>1. after = [p \in DOMAIN now \cup {part} |-> IF p = part THEN now[path] ELSE now[p]]
      BY <1>5 DEF With
    <2>2. now[path] = ContentOf(now, path)
      BY <1>8 DEF ContentOf
    <2>3. \A p : p # part => ContentOf(after, p) = ContentOf(now, p)
      BY <2>1 DEF ContentOf
    <2>4. ContentOf(after, part) = now[path]
      BY <2>1 DEF ContentOf
    <2> QED BY <1>8, <1>10, <2>1, <2>2, <2>3, <2>4
  <1>12. Works(t, l)
    <2>1. \A p \in Paths : p.log # l =>
             /\ ContentOf(disk', p) = ContentOf(disk, p)
             /\ p \in DOMAIN disk' <=> p \in DOMAIN disk
      BY <1>4, <1>9, <1>11 DEF At
    <2>2. \A r \in Logs : r # l => file'[r] = file[r]
      BY <1>5 DEF LogInv, LogTypes
    <2> QED BY <1>1, <1>5, <1>7, <2>1, <2>2 DEF Works, config, history
  <1>13. ~DoingTo(l, {"copied"}) /\ DoingTo(l, {"copied"})' /\ ~isClose[l] /\ ~isClose'[l]
         /\ unclean' = unclean
    BY <1>1, <1>5, <1>7, <1>12, WorkPlace DEF history
  <1>14. ASSUME Numbered(l)
         PROVE  Numbered(l)'
    <2>1. \A p \in DOMAIN before : p.log = l => p.part \in {0, 1} \/ p.part < k
      BY <1>3, <1>4, <1>13, <1>14, PartsBefore
    <2>2. part.part = k
      BY <1>4 DEF At
    <2>3. \A p \in DOMAIN before : p.part \in Nat
      BY <1>4 DEF LogInv, LogTypes, DiskType, Paths
    <2>4. \A p \in DOMAIN after : p.log = l => p.part \in {0, 1} \/ p.part <= k
      BY <1>11, <2>1, <2>2, <2>3
    <2> QED BY <1>4, <1>6, <1>13, <2>4 DEF Numbered
  <1>15. ASSUME ~split, Numbered(l), InTurn(l), NEW d \in Nat, NEW n \in Nat, Above(disk', l, d, n)
         PROVE  OnTheWay(l, d, n)' = Own(accepted[l], d)'
    <2>1. DiskType(before) /\ DiskType(after) /\ DOMAIN before \subseteq Paths
      BY <1>4 DEF LogInv, LogTypes, DiskType
    <2>2. Above(before, l, d, n)
      <3>1. \A p \in DOMAIN before : p.log = l /\ p.part # 0 => p \in DOMAIN after
        BY <1>11
      <3>2. Above(after, l, d, n)
        BY <1>4, <1>15
      <3> QED BY <2>1, <3>1, <3>2, AboveZero
    <2>3. CASE d # f.day
      <3>1. \A i \in Nat : ContentOf(after, At(l, d, i)) = ContentOf(before, At(l, d, i))
        <4>1. \A i \in Nat : At(l, d, i) # part /\ At(l, d, i) # path
          BY <1>4, <1>9, <2>3 DEF At
        <4> QED BY <1>11, <4>1
      <3>2. Parts(after, l, d, n) = Parts(before, l, d, n)
        BY <3>1, PartsSame
      <3>3. Today(l, d)' = Today(l, d)
        <4>1. Today(l, d) = ContentOf(before, At(l, d, 0))
          BY <1>4, <1>13 DEF Today
        <4>2. Today(l, d)' = ContentOf(after, At(l, d, 0))
          BY <1>3, <1>4, <1>6, <2>3 DEF Today
        <4> QED BY <3>1, <4>1, <4>2
      <3>4. Own(file'[l].buf, d) = Own(file[l].buf, d)
        BY <1>3, <1>6, <1>15, <2>3, OwnEmpty, StreamIsOfItsDay
      <3>5. OnTheWay(l, d, n)' = OnTheWay(l, d, n)
        BY <1>4, <1>5, <3>2, <3>3, <3>4 DEF OnTheWay
      <3>6. OnTheWay(l, d, n) = Own(accepted[l], d)
        BY <1>4, <1>15, <2>2 DEF InTurn
      <3> QED BY <1>5, <3>5, <3>6 DEF history
    <2>4. CASE d = f.day
      <3>1. k - 1 \in Nat /\ Above(before, l, d, k - 1) /\ (k - 1) + 1 = k
        BY <1>3, <1>4, <1>13, <1>15, <2>4, PartsBefore
      <3>2. Above(after, l, d, k)
        <4>1. \A p \in DOMAIN before : p.part \in Nat
          BY <2>1 DEF Paths
        <4>2. part.part = k
          BY <1>4 DEF At
        <4> QED BY <1>11, <3>1, <4>1, <4>2 DEF Above
      <3>3. k <= n
        <4>1. part \in DOMAIN after /\ part.log = l /\ part.day = d /\ part.part = k
          BY <1>4, <1>11, <2>4 DEF At
        <4> QED BY <1>4, <1>15, <4>1 DEF Above
      <3>4. PICK parts \in Text, today \in Text, buf \in Text :
                parts = Parts(before, l, d, k - 1) /\ today = ContentOf(before, path) /\ buf = f.buf
        BY <1>3, <2>1, <3>1, PartsText, ContentText, ListTexts
      <3>5. Parts(after, l, d, n) = parts \o (today \o buf)
        <4>1. Parts(after, l, d, n) = Parts(after, l, d, k)
          BY <2>1, <3>2, <3>3, PartsAbove
        <4>2. Parts(after, l, d, (k - 1) + 1)
                 = Parts(after, l, d, k - 1) \o ContentOf(after, At(l, d, (k - 1) + 1))
          BY <2>1, <3>1, PartsNext
        <4>3. \A i \in 1..(k - 1) : ContentOf(after, At(l, d, i)) = ContentOf(before, At(l, d, i))
          <5>1. \A i \in 1..(k - 1) : At(l, d, i) # part /\ At(l, d, i) # path
            BY <1>4, <1>9, <3>1 DEF At
          <5> QED BY <1>11, <5>1
        <4>4. Parts(after, l, d, k - 1) = parts
          BY <3>4, <4>3, PartsSame
        <4>5. ContentOf(after, At(l, d, k)) = today \o buf
          BY <1>4, <1>11, <2>4, <3>4
        <4> QED BY <3>1, <4>1, <4>2, <4>4, <4>5
      <3>6. PICK p \in Text, y \in Text, b \in Text, s \in Text, q \in Text :
                /\ p = Own(parts, d) /\ y = Own(today, d) /\ b = Own(buf, d)
                /\ s = Own(swapData[l], d) /\ q = Own(logData[l], d)
        BY <3>4, ListTexts, OwnText
      <3>7. Row(p, y, b, s, q) = Own(accepted[l], d)
        <4>1. Today(l, d) = today
          BY <1>4, <1>9, <1>13, <2>4, <3>4 DEF Today
        <4>2. OnTheWay(l, d, k - 1) = Own(accepted[l], d)
          BY <1>4, <1>15, <3>1 DEF InTurn
        <4> QED BY <1>3, <1>4, <3>4, <3>6, <4>1, <4>2 DEF OnTheWay
      <3>8. Own(parts \o (today \o buf), d) = p \o (y \o b)
        <4>1. today \o buf \in Text
          BY <3>4, TextConcat
        <4>2. OwnSplits(today, buf, d) /\ OwnSplits(parts, today \o buf, d)
          BY <3>4, <4>1, OwnConcat
        <4> QED BY <3>6, <4>2 DEF OwnSplits
      <3>9. Today(l, d)' = <<>>
        BY <1>3, <1>6, <1>13, <2>4 DEF Today
      <3>10. OnTheWay(l, d, n)' = Row(p \o (y \o b), <<>>, <<>>, s, q)
        BY <1>4, <1>5, <1>6, <3>5, <3>6, <3>8, <3>9, OwnEmpty DEF OnTheWay
      <3>11. PICK z \in Text : z = y \o b
        BY <3>6, TextConcat
      <3>12. RowCopies(p, z, s, q) /\ RowFlushes(p, y, b, s, q)
        BY <3>6, <3>11, RowCopy, RowFlush
      <3>13. Row(p \o z, <<>>, <<>>, s, q) = Row(p, y, b, s, q)
        BY <3>11, <3>12 DEF RowCopies, RowFlushes
      <3> QED BY <1>5, <3>7, <3>10, <3>11, <3>13 DEF history
    <2> QED BY <2>3, <2>4
  <1>16. ~split /\ Numbered(l) /\ InTurn(l) => InTurn(l)'
    BY <1>15 DEF InTurn
  <1> QED BY <1>12, <1>13, <1>14, <1>16, WorkOrder

-----------------------------------------------------------------------------
(* The order holds in every state, and at the end it is the files'.        *)

\* The greatest of finitely many numbers.
LEMMA FiniteMax ==
    ASSUME NEW T, T \subseteq Nat, T # {}, IsFiniteSet(T)
    PROVE  Max(T) \in T /\ \A x \in T : x <= Max(T)
  <1>1. PICK n \in Nat : ExistsSurjection(1..n, T)
    BY FS_NatSurjection
  <1>2. PICK f \in [1..n -> T] : \A x \in T : \E i \in 1..n : f[i] = x
    BY <1>1 DEF ExistsSurjection, Surjection
  <1> DEFINE P == {k \in 0..n : \E m \in Nat : \A i \in 1..k : f[i] <= m}
  <1>3. 0 \in P
    <2>1. 0 \in 0..n /\ 0 \in Nat /\ \A i \in 1..0 : f[i] <= 0
      OBVIOUS
    <2> QED BY <2>1
  <1>4. ASSUME NEW k \in 1..n, k - 1 \in P
        PROVE  k \in P
    <2>1. PICK m \in Nat : \A i \in 1..(k - 1) : f[i] <= m
      BY <1>4
    <2>2. f[k] \in Nat /\ \A i \in 1..n : f[i] \in Nat
      BY <1>2
    <2>3. m + f[k] \in Nat /\ \A i \in 1..k : f[i] <= m + f[k]
      <3> SUFFICES ASSUME NEW i \in 1..k PROVE f[i] <= m + f[k]
        BY <2>2
      <3>1. CASE i = k
        BY <2>2, <3>1
      <3>2. CASE i # k
        BY <2>1, <2>2, <3>2
      <3> QED BY <3>1, <3>2
    <2> QED BY <2>3
  <1>5. n \in P
    <2>1. 0..n \subseteq P
      <3> HIDE DEF P
      <3> QED BY <1>3, <1>4, RoundsInduction
    <2> HIDE DEF P
    <2> QED BY <2>1
  <1> DEFINE bounds == {m \in Nat : \A x \in T : x <= m}
  <1>6. bounds # {}
    <2>1. PICK m \in Nat : \A i \in 1..n : f[i] <= m
      BY <1>5
    <2> QED BY <1>2, <2>1
  <1>7. PICK m \in bounds : \A b \in bounds : m <= b
    <2>1. bounds \subseteq Nat
      OBVIOUS
    <2> HIDE DEF bounds
    <2> QED BY <1>6, <2>1, Least
  <1>8. m \in T
    <2> SUFFICES ASSUME m \notin T PROVE FALSE
      OBVIOUS
    <2>1. m \in Nat /\ \A x \in T : x <= m /\ x # m
      BY <1>7
    <2>2. PICK x \in T : x < m
      <3>1. PICK x \in T : TRUE
        OBVIOUS
      <3>2. x \in Nat /\ x <= m /\ x # m
        BY <2>1
      <3> QED BY <2>1, <3>2
    <2>3. m - 1 \in Nat /\ \A y \in T : y <= m - 1
      BY <2>1, <2>2
    <2>4. m - 1 \in bounds
      BY <2>3
    <2> QED BY <1>7, <2>1, <2>4
  <1>9. \E x \in T : \A y \in T : x >= y
    BY <1>7, <1>8
  <1>10. Max(T) \in T /\ \A y \in T : Max(T) >= y
    BY <1>9 DEF Max
  <1> QED BY <1>10

\* What is said of every entry of every text is said of all of them together.
LEMMA FlatAll ==
    ASSUME NEW c \in Seq(Text), NEW S,
           \A i \in 1..Len(c) : \A j \in 1..Len(c[i]) : c[i][j] \in S
    PROVE  \A j \in 1..Len(FlattenSeq(c)) : FlattenSeq(c)[j] \in S
  <1>1. PICK f : FlatRounds(c, f)
    BY FlatExists
  <1>2. FlattenSeq(c) = f[Len(c)]
    BY <1>1, FlatIs
  <1>3. Len(c) \in Nat /\ \A i \in 1..Len(c) : c[i] \in Text
    BY LenProperties, ElementOfSeq
  <1>4. PICK n \in Nat : n = Len(c)
    BY <1>3
  <1> DEFINE P == {k \in 0..n : \A j \in 1..Len(f[k]) : f[k][j] \in S}
  <1>5. 0 \in P
    <2>1. f[0] = <<>> /\ Len(f[0]) = 0
      BY <1>1, TextEmpty DEF FlatRounds
    <2> QED BY <2>1
  <1>6. ASSUME NEW k \in 1..n, k - 1 \in P
        PROVE  k \in P
    <2>1. PICK x \in Text, y \in Text : x = f[k - 1] /\ y = c[k]
      <3>1. k - 1 \in 0..n
        OBVIOUS
      <3> QED BY <1>1, <1>3, <1>4, <3>1 DEF FlatRounds
    <2>2. f[k] = x \o y
      BY <1>1, <1>4, <2>1 DEF FlatRounds
    <2>3. /\ Len(x \o y) = Len(x) + Len(y) /\ Len(x) \in Nat /\ Len(y) \in Nat
          /\ \A j \in 1..(Len(x) + Len(y)) :
                (x \o y)[j] = IF j <= Len(x) THEN x[j] ELSE y[j - Len(x)]
      <3>1. x \in Seq(Record) /\ y \in Seq(Record)
        BY DEF Text
      <3> QED BY <3>1, ConcatProperties, LenProperties
    <2>4. /\ \A j \in 1..Len(x) : x[j] \in S
          /\ \A j \in 1..Len(y) : y[j] \in S
      BY <1>4, <1>6, <2>1
    <2>5. ASSUME NEW j \in 1..(Len(x) + Len(y))
          PROVE  (x \o y)[j] \in S
      <3>1. CASE j <= Len(x)
        <4>1. j \in 1..Len(x)
          BY <2>3, <3>1
        <4> QED BY <2>3, <2>4, <3>1, <4>1
      <3>2. CASE ~(j <= Len(x))
        <4>1. j - Len(x) \in 1..Len(y)
          BY <2>3, <3>2
        <4> QED BY <2>3, <2>4, <3>2, <4>1
      <3> QED BY <3>1, <3>2
    <2>6. \A j \in 1..Len(f[k]) : f[k][j] \in S
      BY <2>2, <2>3, <2>5
    <2> QED BY <2>6
  <1>7. n \in P
    <2>1. 0..n \subseteq P
      <3> HIDE DEF P
      <3> QED BY <1>5, <1>6, RoundsInduction
    <2> HIDE DEF P
    <2> QED BY <2>1
  <1> QED BY <1>2, <1>4, <1>7

LEMMA PartsAll ==
    ASSUME NEW store, DiskType(store), NEW l, NEW d, NEW n \in Nat, NEW S,
           \A p \in DOMAIN store : p.log = l /\ p.day = d =>
               \A j \in 1..Len(store[p]) : store[p][j] \in S
    PROVE  /\ \A j \in 1..Len(Parts(store, l, d, n)) : Parts(store, l, d, n)[j] \in S
           /\ \A i : \A j \in 1..Len(ContentOf(store, At(l, d, i))) :
                 ContentOf(store, At(l, d, i))[j] \in S
  <1>1. ASSUME NEW i, NEW j \in 1..Len(ContentOf(store, At(l, d, i)))
        PROVE  ContentOf(store, At(l, d, i))[j] \in S
    <2>1. CASE At(l, d, i) \in DOMAIN store
      <3>1. ContentOf(store, At(l, d, i)) = store[At(l, d, i)]
        BY <2>1 DEF ContentOf
      <3> QED BY <1>1, <2>1, <3>1 DEF At
    <2>2. CASE At(l, d, i) \notin DOMAIN store
      <3>1. ContentOf(store, At(l, d, i)) = <<>>
        BY <2>2 DEF ContentOf
      <3> QED BY <1>1, <3>1, TextEmpty
    <2> QED BY <2>1, <2>2
  <1> DEFINE c == PartList(store, l, d, n)
  <1>2. c \in Seq(Text) /\ Len(c) = n
    BY PartsList
  <1>3. \A i \in 1..Len(c) : \A j \in 1..Len(c[i]) : c[i][j] \in S
    BY <1>1, <1>2 DEF PartList
  <1>4. \A j \in 1..Len(FlattenSeq(c)) : FlattenSeq(c)[j] \in S
    <2> HIDE DEF c
    <2> QED BY <1>2, <1>3, FlatAll
  <1> QED BY <1>1, <1>4 DEF Parts

LEMMA InitOrder == Init => OrderInv
  <1> SUFFICES ASSUME Init PROVE OrderInv
    OBVIOUS
  <1>1. LogInv
    BY InitInv
  <1>2. ASSUME NEW l \in Logs
        PROVE  Numbered(l) /\ Ordered(l)
    <2>1. \A p \in DOMAIN disk : p.part = 1 /\ \A j \in 1..Len(disk[p]) : disk[p][j] \in {Earlier}
      <3>1. CASE disk = <<>>
        BY <3>1
      <3>2. CASE disk = [p \in {At(r, 0, 1) : r \in Logs} |-> <<Earlier>>]
        BY <3>2 DEF At
      <3> QED BY <3>1, <3>2 DEF Init
    <2>2. Numbered(l)
      BY <2>1 DEF Init, Numbered
    <2>3. ~DoingTo(l, {"copied"})
      BY DEF Init, Idle, DoingTo, Busy, AtFile
    <2>4. ASSUME NEW d \in Nat, NEW n \in Nat
          PROVE  OnTheWay(l, d, n) = Own(accepted[l], d)
      <3>1. PICK store : store = disk
        OBVIOUS
      <3>2. DiskType(store)
        BY <1>1, <3>1 DEF LogInv, LogTypes
      <3>3. PICK parts \in Text, today \in Text :
                parts = Parts(store, l, d, n) /\ today = ContentOf(store, At(l, d, 0))
        BY <3>2, PartsText, ContentText
      <3>4. /\ \A j \in 1..Len(parts) : parts[j] \in {Earlier}
            /\ \A j \in 1..Len(today) : today[j] \in {Earlier}
        <4>1. \A p \in DOMAIN store : p.log = l /\ p.day = d =>
                  \A j \in 1..Len(store[p]) : store[p][j] \in {Earlier}
          BY <2>1, <3>1
        <4>2. /\ \A j \in 1..Len(Parts(store, l, d, n)) : Parts(store, l, d, n)[j] \in {Earlier}
              /\ \A i : \A j \in 1..Len(ContentOf(store, At(l, d, i))) :
                    ContentOf(store, At(l, d, i))[j] \in {Earlier}
          BY <3>2, <4>1, PartsAll
        <4> QED BY <3>3, <4>2
      <3>5. Own(parts, d) = <<>> /\ Own(today, d) = <<>>
        <4>1. /\ \A j \in 1..Len(parts) : ~(parts[j].day = d /\ parts[j] # Earlier)
              /\ \A j \in 1..Len(today) : ~(today[j].day = d /\ today[j] # Earlier)
          BY <3>4
        <4> QED BY <4>1, OwnNothing
      <3>6. Today(l, d) = today
        BY <2>3, <3>1, <3>3 DEF Today
      <3>7. file[l].buf = <<>> /\ swapData[l] = <<>> /\ logData[l] = <<>> /\ accepted[l] = <<>>
        BY DEF Init, NoFile
      <3>8. OnTheWay(l, d, n) = Row(<<>>, <<>>, <<>>, <<>>, <<>>)
        BY <3>1, <3>3, <3>5, <3>6, <3>7, OwnEmpty DEF OnTheWay
      <3>9. Row(<<>>, <<>>, <<>>, <<>>, <<>>) = <<>>
        <4>1. <<>> \in Text /\ <<>> \o <<>> = <<>>
          BY TextEmpty
        <4> QED BY <4>1, RowClosed
      <3> QED BY <3>7, <3>8, <3>9, OwnEmpty
    <2> QED BY <2>2, <2>4 DEF Ordered, InTurn
  <1>3. \A w \in Writers : writer[w].at # "push"
    BY DEF Init
  <1>4. \A l \in Logs : \A i \in 1..Len(accepted[l]) : FALSE
    BY EmptyIsSeq DEF Init
  <1> QED BY <1>2, <1>3, <1>4 DEF OrderInv

\* After a crash nothing is said of the order: what the stream held may be lost.
LEMMA CrashOrder ==
    ASSUME LogInv, OrderInv, Crash
    PROVE  OrderInv'
  <1>1. crashes' # 0
    BY DEF Crash, LogInv, LogTypes
  <1>2. accepted' = accepted /\ \A w \in Writers : writer'[w].at # "push"
    BY DEF Crash
  <1> QED BY <1>1, <1>2 DEF OrderInv

LEMMA OrderStep == LogInv /\ OrderInv /\ [Next]_vars => LogInv' /\ OrderInv'
  <1> SUFFICES ASSUME LogInv, OrderInv, [Next]_vars PROVE LogInv' /\ OrderInv'
    OBVIOUS
  <1>1. LogInv'
    BY StepInv
  <1>2. CASE OwnerStep
    <2>1. CASE OpenLogs
      BY <1>1, <2>1, OpenLogsOrder
    <2>2. CASE UpdateLastPassDayTime
      BY <1>1, <2>2, UpdateLastPassDayTimeOrder
    <2>3. CASE Start
      BY <1>1, <2>3, StartOrder
    <2>4. CASE HalfClose \/ CloseEnds
      BY <1>1, <2>4, OwnerOrder
    <2>5. CASE \E l \in Logs : CloseLog(l)
      BY <1>1, <2>5, CloseLogOrder
    <2> QED BY <1>1, <1>2, <2>1, <2>2, <2>3, <2>4, <2>5 DEF OwnerStep
  <1>3. CASE Midnight
    BY <1>1, <1>3, OwnerOrder
  <1>4. CASE Crash
    BY <1>1, <1>4, CrashOrder
  <1>5. ASSUME NEW w \in Writers, NewLogData(w) \/ WriterStep(w)
        PROVE  OrderInv'
    BY <1>1, <1>5, NewLogDataOrder, WriterOrder, WriteLogOrder DEF WriterStep
  <1>6. ASSUME NEW t \in Threads, ThreadStep(t) \/ WakeUp(t)
        PROVE  OrderInv'
    <2>1. CASE RoundBegins(t) \/ RoundEnds(t) \/ WakeUp(t)
      BY <1>1, <2>1, ThreadOrder
    <2>2. ASSUME NEW l \in Logs,
                 \/ Swap(t, l) \/ ReopenForDay(t, l) \/ CopyFile(t, l) \/ DelFile(t, l)
                 \/ ReopenPart(t, l) \/ Write(t, l) \/ Flush(t, l)
          PROVE  OrderInv'
      BY <1>1, <2>2, SwapOrder, ReopenForDayOrder, CopyFileOrder, DelFileOrder, ReopenPartOrder,
         WriteOrder, FlushOrder
    <2> QED BY <1>6, <2>1, <2>2 DEF ThreadStep
  <1>7. CASE UNCHANGED vars
    BY <1>1, <1>7, SameOwner DEF vars, config, history, OrderInv
  <1> QED BY <1>1, <1>2, <1>3, <1>4, <1>5, <1>6, <1>7 DEF Next

\* What the files of a day hold together, as ClosedComplete puts it.
LEMMA PartsOfDay ==
    ASSUME LogInv, NEW l \in Logs, NEW d \in Nat
    PROVE  \E n \in Nat : /\ Above(disk, l, d, n)
                          /\ PartsOf(l, d) = Parts(disk, l, d, n) \o ContentOf(disk, At(l, d, 0))
  <1> DEFINE files == {q \in DOMAIN disk : q.log = l /\ q.day = d}
             numbers == {p.part : p \in files}
             n == Max(numbers \cup {0})
  <1>1. IsFiniteSet(numbers \cup {0})
    <2>1. IsFiniteSet(files)
      <3>1. IsFiniteSet(DOMAIN disk) /\ files \in SUBSET (DOMAIN disk)
        BY DEF LogInv, LogTypes, DiskType
      <3> HIDE DEF files
      <3> QED BY <3>1, FS_Subset
    <2> DEFINE named == [p \in files |-> p.part]
    <2>2. named \in Surjection(files, numbers)
      BY DEF Surjection
    <2>3. IsFiniteSet(numbers)
      <3> HIDE DEF files, numbers, named
      <3> QED BY <2>1, <2>2, FS_Surjection
    <2> HIDE DEF numbers
    <2> QED BY <2>3, FS_AddElement
  <1>2. numbers \cup {0} \subseteq Nat /\ numbers \cup {0} # {}
    BY DEF LogInv, LogTypes, DiskType, Paths
  <1>3. n \in Nat /\ \A x \in numbers : x <= n
    <2> HIDE DEF numbers
    <2> QED BY <1>1, <1>2, FiniteMax
  <1>4. Above(disk, l, d, n)
    <2> HIDE DEF n
    <2> QED BY <1>3 DEF Above
  <1>5. PartsOf(l, d) = Parts(disk, l, d, n) \o ContentOf(disk, At(l, d, 0))
    BY DEF PartsOf, Parts, PartList
  <1> HIDE DEF n
  <1> QED BY <1>3, <1>4, <1>5

LEMMA OrderComplete == LogInv /\ OrderInv => ClosedComplete
  <1> SUFFICES ASSUME LogInv, OrderInv, owner = "closed", crashes = 0, ~unclean, ~split,
                      NEW l \in Logs, thread[relation[l]].at = "done", NEW d \in 0..MaxDay,
                      NEW written, written = PartsOf(l, d)
               PROVE  Chosen(written, {i \in DOMAIN written : written[i] # Earlier})
                         = Chosen(accepted[l], {i \in DOMAIN accepted[l] : accepted[l][i].day = d})
    BY DEF ClosedComplete
  <1>1. d \in Nat
    BY LogAssumption
  <1>2. PICK store : store = disk
    OBVIOUS
  <1>3. DiskType(store)
    BY <1>2 DEF LogInv, LogTypes
  <1>4. PICK n \in Nat : /\ Above(store, l, d, n)
                         /\ written = Parts(store, l, d, n) \o ContentOf(store, At(l, d, 0))
    BY <1>1, <1>2, PartsOfDay
  <1>5. PICK parts \in Text, today \in Text :
            parts = Parts(store, l, d, n) /\ today = ContentOf(store, At(l, d, 0))
    BY <1>3, PartsText, ContentText
  <1>6. written = parts \o today /\ written \in Text
    BY <1>4, <1>5, TextConcat
  <1>7. isClose[l] /\ file[l].buf = <<>> /\ ~Busy(l) /\ swapData[l] = <<>> /\ logData[l] = <<>>
    <2>1. isClose[l]
      BY DEF LogInv, Closing
    <2>2. file[l].buf = <<>>
      BY <2>1 DEF OrderInv, Numbered
    <2>3. ~Busy(l)
      BY DEF Busy, AtFile
    <2>4. swapData[l] = <<>>
      BY <2>3 DEF LogInv, Rounds
    <2>5. logData[l] = <<>>
      <3>1. PICK t \in Threads : t = relation[l]
        BY DEF LogInv, LogTypes
      <3>2. thread[t].last /\ thread[t].todo = {} /\ l \in LogsOf(t) /\ thread[t].at # "none"
        BY <3>1 DEF LogInv, LastRound, LogsOf
      <3> QED BY <3>2 DEF LogInv, LastRound
    <2> QED BY <2>1, <2>2, <2>3, <2>4, <2>5
  <1>8. Own(written, d) = Own(accepted[l], d)
    <2>1. Today(l, d) = today
      BY <1>2, <1>5, <1>7 DEF Today, DoingTo
    <2>2. OnTheWay(l, d, n) = Own(accepted[l], d)
      BY <1>1, <1>2, <1>4, <1>7 DEF OrderInv, Ordered, InTurn
    <2>3. PICK p \in Text, y \in Text : p = Own(parts, d) /\ y = Own(today, d)
      BY <1>5, OwnText
    <2>4. OnTheWay(l, d, n) = Row(p, y, <<>>, <<>>, <<>>)
      BY <1>2, <1>5, <1>7, <2>1, <2>3, OwnEmpty DEF OnTheWay
    <2>5. Row(p, y, <<>>, <<>>, <<>>) = p \o y
      BY <2>3, RowClosed
    <2>6. OwnSplits(parts, today, d)
      BY <1>5, OwnConcat
    <2> QED BY <1>6, <2>2, <2>3, <2>4, <2>5, <2>6 DEF OwnSplits
  <1>9. Chosen(written, {i \in DOMAIN written : written[i] # Earlier}) = Own(written, d)
    <2> DEFINE S == {r \in Record : r.day = d}
    <2>1. \A j \in 1..Len(written) : written[j].day = d
      <3>1. \A p \in DOMAIN store : p.log = l /\ p.day = d =>
                \A j \in 1..Len(store[p]) : store[p][j] \in S
        BY <1>2, <1>3 DEF LogInv, DiskDays, DiskType
      <3>2. /\ \A j \in 1..Len(parts) : parts[j] \in S
            /\ \A j \in 1..Len(today) : today[j] \in S
        <4> HIDE DEF S
        <4>1. /\ \A j \in 1..Len(Parts(store, l, d, n)) : Parts(store, l, d, n)[j] \in S
              /\ \A i : \A j \in 1..Len(ContentOf(store, At(l, d, i))) :
                    ContentOf(store, At(l, d, i))[j] \in S
          BY <1>3, <3>1, PartsAll
        <4> QED BY <1>5, <4>1
      <3>3. /\ Len(written) = Len(parts) + Len(today) /\ Len(parts) \in Nat /\ Len(today) \in Nat
            /\ \A j \in 1..(Len(parts) + Len(today)) :
                  written[j] = IF j <= Len(parts) THEN parts[j] ELSE today[j - Len(parts)]
        <4>1. parts \in Seq(Record) /\ today \in Seq(Record)
          BY DEF Text
        <4>2. /\ Len(parts \o today) = Len(parts) + Len(today)
              /\ \A j \in 1..(Len(parts) + Len(today)) :
                    (parts \o today)[j] = IF j <= Len(parts) THEN parts[j] ELSE today[j - Len(parts)]
          BY <4>1, ConcatProperties
        <4>3. Len(parts) \in Nat /\ Len(today) \in Nat
          BY <4>1, LenProperties
        <4> QED BY <1>6, <4>2, <4>3
      <3>4. ASSUME NEW j \in 1..Len(written)
            PROVE  written[j] \in S
        <4>1. CASE j <= Len(parts)
          <5>1. j \in 1..Len(parts)
            BY <3>3, <4>1
          <5> HIDE DEF S
          <5> QED BY <3>2, <3>3, <4>1, <5>1
        <4>2. CASE ~(j <= Len(parts))
          <5>1. j - Len(parts) \in 1..Len(today)
            BY <3>3, <4>2
          <5> HIDE DEF S
          <5> QED BY <3>2, <3>3, <4>2, <5>1
        <4> QED BY <4>1, <4>2
      <3> QED BY <3>4
    <2>2. DOMAIN written = 1..Len(written)
      BY <1>6, LenProperties DEF Text
    <2>3. \A i \in 1..Len(written) :
             i \in {j \in DOMAIN written : written[j] # Earlier}
                <=> written[i].day = d /\ written[i] # Earlier
      BY <2>1, <2>2
    <2> DEFINE places == {j \in DOMAIN written : written[j] # Earlier}
    <2> HIDE DEF places
    <2>4. Chosen(written, places) = Own(written, d)
      BY <1>6, <2>3, ChosenIsOwn DEF places
    <2> QED BY <2>4 DEF places
  <1>10. Chosen(accepted[l], {i \in DOMAIN accepted[l] : accepted[l][i].day = d}) = Own(accepted[l], d)
    <2>1. PICK all \in Text : all = accepted[l]
      BY ListTexts
    <2>2. \A i \in 1..Len(all) : all[i] # Earlier
      BY <2>1 DEF OrderInv, Earlier
    <2>3. DOMAIN all = 1..Len(all)
      BY LenProperties DEF Text
    <2> DEFINE places == {i \in DOMAIN all : all[i].day = d}
    <2>4. \A i \in 1..Len(all) : i \in places <=> all[i].day = d /\ all[i] # Earlier
      BY <2>2, <2>3
    <2> HIDE DEF places
    <2>5. Chosen(all, places) = Own(all, d)
      BY <2>4, ChosenIsOwn
    <2> QED BY <2>1, <2>5 DEF places
  <1> QED BY <1>8, <1>9, <1>10

\* Where no process died, no deletion failed and no midnight fell into Init, the
\* files of a day hold after Close (LibLog::Close) every entry accepted that day,
\* exactly once and in the order in which the queue took them: through the swap of
\* the lists, the copies of PartitionFile and the files reopened at midnight.
THEOREM EachOnceInOrder == Spec => []ClosedComplete
  <1>1. Init => LogInv /\ OrderInv
    BY InitInv, InitOrder
  <1> QED BY <1>1, OrderStep, OrderComplete, PTL DEF Spec

=============================================================================
