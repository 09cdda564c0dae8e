------------------------------ MODULE MCLibLog ------------------------------
(***************************************************************************)
(* A small instance of LibLog for TLC, and what is asked of the logger.    *)
(***************************************************************************)
EXTENDS LibLog, SequencesExt

\* The types of the variables.
TypeOK ==
    /\ day \in 0..MaxDay /\ crashes \in 0..MaxCrashes
    /\ DOMAIN disk \subseteq Path /\ \A p \in DOMAIN disk : disk[p] \in Seq(Entry)
    /\ relation \in [Logs -> Threads] /\ maxFileSize \in FileSizes
    /\ owner \in {"new", "opened", "init", "up", "closing", "closed"}
    /\ cacheCount \in Nat /\ isClose \in [Logs -> BOOLEAN]
    /\ \A l \in Logs : {logData[l], swapData[l], accepted[l], file[l].buf} \subseteq Seq(Entry)
    /\ \A l \in Logs : /\ file[l].open \in BOOLEAN /\ file[l].size \in Nat
                       /\ {file[l].day, file[l].passDay} \subseteq 0..MaxDay
    /\ flag \in [Threads -> BOOLEAN] /\ destroy \in [Threads -> BOOLEAN]
    /\ \A t \in Threads :
          /\ thread[t].at \in {"none", "test", "flush", "write", "copied", "deleted", "reopened",
                               "wait", "done"}
          /\ thread[t].todo \subseteq LogsOf(t) /\ thread[t].log \in LogsOf(t) \cup {None}
    /\ \A w \in Writers : writer[w].at \in {"idle", "push", "signal", "limit"}

\* The parts of a day's file in the order they were made, the open file last.
PartsOf(l, d) ==
    LET numbers == {p.part : p \in {q \in DOMAIN disk : q.log = l /\ q.day = d}}
    IN  FlattenSeq([n \in 1..Max(numbers \cup {0}) |-> ContentOf(disk, At(l, d, n))])
            \o ContentOf(disk, At(l, d, 0))

\* What stands at the places of s, in order.
Chosen(s, places) ==
    FlattenSeq([i \in 1..Len(s) |-> IF i \in places THEN <<s[i]>> ELSE <<>>])

OnDisk(e) == \E p \in DOMAIN disk : e \in Range(disk[p])

\* After a Close that followed a Start and found the flush threads begun, at any
\* point of their loops, the files of each day hold every entry accepted that day
\* exactly once and in order, through rotations, days that pass and late wake-ups.
ClosedComplete ==
    owner = "closed" /\ crashes = 0 /\ ~unclean /\ ~split =>
        \A l \in Logs : thread[relation[l]].at = "done" =>
            \A d \in 0..MaxDay :
                \A written \in {PartsOf(l, d)} :
                    Chosen(written, {i \in DOMAIN written : written[i] # Earlier})
                        = Chosen(accepted[l], {i \in DOMAIN accepted[l] : accepted[l][i].day = d})

\* An entry lies in a file of its own day, also when the writers' entries
\* arrive across midnight in any order, unless midnight passed while the log
\* was opened (the clock is read twice there).
InItsDay ==
    ~split => \A p \in DOMAIN disk : \A i \in DOMAIN disk[p] : disk[p][i].day = p.day

\* Rotation never loses what is on the disk, wherever the process dies in it
\* and whatever parts earlier processes left behind.
Durable == [][\A p \in DOMAIN disk : \A e \in Range(disk[p]) : OnDisk(e)']_vars

\* No signal is lost: an entry of a level that is written at once, and every
\* entry queued when the cache is found full, reaches the disk although the
\* interval never ends, and although the flush thread may be anywhere in its
\* round when the signal is given; unless the process dies first.
Urgent(w) == w \in Realtime
             \/ \E v \in Writers : writer[v].at = "limit" /\ writer[v].all >= MaxCache
EventuallyWritten ==
    \A w \in Writers : \A n \in 1..MaxEntries :
        (/\ owner = "up" /\ Urgent(w)
         /\ \E l \in Logs : \E i \in DOMAIN logData[l] : logData[l][i].by = w /\ logData[l][i].no = n)
            ~> (owner = "new" \/ \E l \in Logs : \E e \in Range(accepted[l]) :
                                     e.by = w /\ e.no = n /\ OnDisk(e))
=============================================================================
