----------------------- MODULE ConditionLockerProofs -----------------------
(***************************************************************************)
(* Machine-checked facts about ConditionLocker, for any number of threads  *)
(* that call it in any order: the mutex excludes, and although Sinal takes *)
(* no lock and wakes nobody when it finds the flag raised, no sleeper is   *)
(* forgotten, in either build.                                             *)
(***************************************************************************)
EXTENDS ConditionLocker, FiniteSetTheorems, TLAPS

\* Finitely many threads, and nobody is none of them.
LockFits == IsFiniteSet(Procs) /\ None \notin Procs

\* A thread calls one of the lock's functions, or goes on inside one.
Call(p) == Lock(p) \/ Unlock(p) \/ Enter(p) \/ Sinal(p)
LockInit == \E platform \in {"posix", "win"} : lck = Fresh(platform)
LockNext == \E p \in Procs : Call(p) \/ Inside(p) \/ Spurious(p)
LockSpec == LockInit /\ [][LockNext]_lck

-----------------------------------------------------------------------------
(* The invariant. *)

Owning == {"hold", "test", "counted", "leaving"}
Counted == IF Posix THEN {"counted", "asleep", "awake", "late", "leaving"}
                    ELSE {"asleep", "awake", "late"}
Foreign == IF Posix THEN {"test"} ELSE {"counted", "leaving", "post"}
Waiters == {p \in Procs : lck.pc[p] \in Counted}

LockRecord == [platform : {"posix", "win"}, owner : Procs \cup {None}, sinal : BOOLEAN,
               waitNum : Nat, event : BOOLEAN, pc : [Procs -> Places]]

\* The mutex has an owner exactly while a thread stands where it owns it.
Excludes == \A p \in Procs : lck.pc[p] \in Owning <=> lck.owner = p

\* The count of waiters counts them, in the build's own places.
Counts == lck.waitNum = Cardinality(Waiters)

\* A build uses its own places only, and the event is Windows'.
OwnPlaces == /\ \A p \in Procs : lck.pc[p] \notin Foreign
             /\ Posix => ~lck.event

\* While a thread sleeps the flag is not left raised behind its back: who raised
\* it, or who was woken by it, has still to act.
OnItsWay ==
    \/ \E q \in Procs : lck.pc[q] \in {"raised", "post", "awake", "late", "test"}
    \/ lck.event
NotForgotten == lck.sinal /\ (\E p \in Procs : At(p, "asleep")) => OnItsWay

LockInv == lck \in LockRecord /\ Excludes /\ Counts /\ OwnPlaces /\ NotForgotten

-----------------------------------------------------------------------------
(* One thread moves. *)

\* Thread p goes to a place, and the lock gets these values.
Becomes(p, place, owner, sinal, waitNum, event) ==
    lck' = [platform |-> lck.platform, owner |-> owner, sinal |-> sinal, waitNum |-> waitNum,
            event |-> event, pc |-> [lck.pc EXCEPT ![p] = place]]

\* By how much a place changes the count.
Share(place) == IF place \in Counted THEN 1 ELSE 0

LEMMA WaitersFinite ==
    LockFits => /\ IsFiniteSet(Waiters) /\ Cardinality(Waiters) \in 0..Cardinality(Procs)
                /\ Cardinality(Procs) \in Nat
  BY FS_Subset, FS_CardinalityType DEF LockFits, Waiters

LEMMA WaitersMove ==
    ASSUME LockFits, lck \in LockRecord, NEW p \in Procs, NEW place,
           lck'.platform = lck.platform, lck'.pc = [lck.pc EXCEPT ![p] = place]
    PROVE  Cardinality(Waiters)' = Cardinality(Waiters) + Share(place) - Share(lck.pc[p])
  <1>. DEFINE from == lck.pc[p]
  <1>1. \A q \in Procs : lck'.pc[q] = IF q = p THEN place ELSE lck.pc[q]
    BY DEF LockRecord
  <1>2. Counted' = Counted
    BY DEF Counted, Posix
  <1>3. Waiters' = IF place \in Counted THEN Waiters \cup {p} ELSE Waiters \ {p}
    BY <1>1, <1>2 DEF Waiters
  <1>4. p \in Waiters <=> from \in Counted
    BY DEF Waiters
  <1>5. IsFiniteSet(Waiters) /\ Cardinality(Waiters) \in Nat
    BY WaitersFinite
  <1>6. Cardinality(Waiters \cup {p}) = IF p \in Waiters THEN Cardinality(Waiters)
                                        ELSE Cardinality(Waiters) + 1
    BY <1>5, FS_AddElement
  <1>7. Cardinality(Waiters \ {p}) = IF p \in Waiters THEN Cardinality(Waiters) - 1
                                     ELSE Cardinality(Waiters)
    BY <1>5, FS_RemoveElement
  <1>. HIDE DEF from
  <1>8. Share(place) = IF place \in Counted THEN 1 ELSE 0
    BY DEF Share
  <1>9. Share(from) = IF p \in Waiters THEN 1 ELSE 0
    BY <1>4 DEF Share
  <1>. QED
    BY <1>3, <1>5, <1>6, <1>7, <1>8, <1>9 DEF from

\* What keeps everything but NotForgotten.
LEMMA Moved ==
    ASSUME LockFits, LockInv, NEW p \in Procs, NEW place \in Places, NEW owner,
           NEW sinal \in BOOLEAN, NEW waitNum \in Int, NEW event \in BOOLEAN,
           Becomes(p, place, owner, sinal, waitNum, event),
           place \notin Foreign, Posix => ~event,
           place \in Owning <=> owner = p,
           owner = lck.owner \/ (owner \in {p, None} /\ lck.owner \in {p, None}),
           waitNum = lck.waitNum + Share(place) - Share(lck.pc[p])
    PROVE  lck' \in LockRecord /\ Excludes' /\ Counts' /\ OwnPlaces'
  <1>1. \A q \in Procs : lck'.pc[q] = IF q = p THEN place ELSE lck.pc[q]
    BY DEF Becomes, LockInv, LockRecord
  <1>2. Counts'
    <2>1. Cardinality(Waiters)' = Cardinality(Waiters) + Share(place) - Share(lck.pc[p])
      BY WaitersMove DEF Becomes, LockInv
    <2>. QED
      BY <2>1 DEF Counts, LockInv, Becomes
  <1>3. waitNum \in Nat
    <2>1. Cardinality(Waiters') \in Nat
      <3>1. Waiters' \subseteq Procs
        BY DEF Waiters
      <3>. QED
        BY <3>1, FS_Subset, FS_CardinalityType DEF LockFits
    <2>. QED
      BY <1>2, <2>1 DEF Counts, Becomes
  <1>4. lck' \in LockRecord
    <2>1. lck'.pc \in [Procs -> Places]
      BY DEF Becomes, LockInv, LockRecord
    <2>2. lck' = [platform |-> lck.platform, owner |-> owner, sinal |-> sinal,
                  waitNum |-> waitNum, event |-> event, pc |-> lck'.pc]
      BY DEF Becomes
    <2>3. owner \in Procs \cup {None} /\ lck.platform \in {"posix", "win"}
      BY DEF LockInv, LockRecord
    <2>. QED
      BY <1>3, <2>1, <2>2, <2>3 DEF LockRecord
  <1>5. Excludes'
    BY <1>1 DEF Becomes, LockInv, Excludes, LockFits
  <1>6. OwnPlaces'
    BY <1>1 DEF Becomes, LockInv, OwnPlaces, Foreign, Posix
  <1>. QED
    BY <1>2, <1>4, <1>5, <1>6

\* A waiter is counted, and a mutex that is owned is not free.
LEMMA Sleeper == LockFits /\ LockInv /\ Waiters # {} => lck.waitNum > 0
  <1>. SUFFICES ASSUME LockFits, LockInv, NEW p \in Waiters PROVE lck.waitNum > 0
    OBVIOUS
  <1>1. IsFiniteSet(Waiters) /\ Cardinality(Waiters) \in Nat
    BY WaitersFinite
  <1>2. Cardinality(Waiters) # 0
    BY <1>1, FS_EmptySet
  <1>. QED
    BY <1>1, <1>2 DEF LockInv, Counts

\* What a call does.
LEMMA CallIs ==
    ASSUME LockFits, LockInv, NEW p \in Procs, Call(p)
    PROVE  \/ lck' = lck
           \/ /\ At(p, "out") /\ Free
              /\ Becomes(p, "hold", p, lck.sinal, lck.waitNum, lck.event)
           \/ /\ At(p, "hold")
              /\ Becomes(p, "out", None, lck.sinal, lck.waitNum, lck.event)
           \/ /\ Posix /\ At(p, "out") /\ Free
              /\ Becomes(p, "counted", p, lck.sinal, lck.waitNum + 1, lck.event)
           \/ /\ ~Posix /\ At(p, "out") /\ Free
              /\ Becomes(p, "test", p, lck.sinal, lck.waitNum, lck.event)
           \/ /\ At(p, "out") /\ ~lck.sinal
              /\ Becomes(p, "raised", lck.owner, TRUE, lck.waitNum, lck.event)
  <1>. lck \in LockRecord
    BY DEF LockInv
  <1>1. ASSUME Lock(p)
        PROVE  At(p, "out") /\ Free /\ Becomes(p, "hold", p, lck.sinal, lck.waitNum, lck.event)
    BY <1>1 DEF Lock, Move, Becomes, LockRecord
  <1>2. ASSUME Unlock(p)
        PROVE  At(p, "hold") /\ Becomes(p, "out", None, lck.sinal, lck.waitNum, lck.event)
    BY <1>2 DEF Unlock, Move, Becomes, LockRecord
  <1>3. ASSUME Enter(p), Posix
        PROVE  /\ At(p, "out") /\ Free
               /\ Becomes(p, "counted", p, lck.sinal, lck.waitNum + 1, lck.event)
    BY <1>3 DEF Enter, Move, Becomes, LockRecord
  <1>4. ASSUME Enter(p), ~Posix
        PROVE  At(p, "out") /\ Free /\ Becomes(p, "test", p, lck.sinal, lck.waitNum, lck.event)
    BY <1>4 DEF Enter, Move, Becomes, LockRecord
  <1>5. ASSUME Sinal(p), ~lck.sinal
        PROVE  At(p, "out") /\ Becomes(p, "raised", lck.owner, TRUE, lck.waitNum, lck.event)
    BY <1>5 DEF Sinal, Move, Becomes, LockRecord
  <1>6. Sinal(p) /\ lck.sinal => lck' = lck
    BY DEF Sinal
  <1>. QED
    BY <1>1, <1>2, <1>3, <1>4, <1>5, <1>6 DEF Call

\* What a step inside Wait or TimeWait does.
LEMMA WaitIs ==
    ASSUME LockFits, LockInv, NEW p \in Procs, WaitStep(p) \/ Spurious(p)
    PROVE  \/ /\ At(p, "counted") /\ lck.sinal
              /\ Becomes(p, "leaving", lck.owner, FALSE, lck.waitNum, lck.event)
           \/ /\ At(p, "counted") /\ ~lck.sinal
              /\ Becomes(p, "asleep", None, FALSE, lck.waitNum, lck.event)
           \/ /\ At(p, "test") /\ lck.sinal
              /\ Becomes(p, "hold", lck.owner, FALSE, lck.waitNum, FALSE)
           \/ /\ At(p, "test") /\ ~lck.sinal
              /\ Becomes(p, "asleep", None, FALSE, lck.waitNum + 1, lck.event)
           \/ /\ At(p, "asleep")
              /\ \E place \in {"awake", "late"} :
                    Becomes(p, place, lck.owner, lck.sinal, lck.waitNum, lck.event)
           \/ /\ Posix /\ (At(p, "awake") \/ At(p, "late")) /\ Free
              /\ Becomes(p, "leaving", p, FALSE, lck.waitNum, lck.event)
           \/ /\ ~Posix /\ At(p, "late") /\ Free
              /\ Becomes(p, "hold", p, FALSE, lck.waitNum - 1, FALSE)
           \/ /\ ~Posix /\ At(p, "awake") /\ Free
              /\ Becomes(p, "test", p, lck.sinal, lck.waitNum - 1, FALSE)
           \/ /\ At(p, "leaving")
              /\ Becomes(p, "hold", lck.owner, lck.sinal, lck.waitNum - 1, lck.event)
  <1>. lck \in LockRecord
    BY DEF LockInv
  <1>1. ASSUME Exchange(p), lck.sinal
        PROVE  At(p, "counted") /\ Becomes(p, "leaving", lck.owner, FALSE, lck.waitNum, lck.event)
    BY <1>1 DEF Exchange, Move, Becomes, LockRecord
  <1>2. ASSUME Exchange(p), ~lck.sinal
        PROVE  At(p, "counted") /\ Becomes(p, "asleep", None, FALSE, lck.waitNum, lck.event)
    BY <1>2 DEF Exchange, Move, Becomes, LockRecord
  <1>3. ASSUME TestFlag(p), lck.sinal
        PROVE  At(p, "test") /\ Becomes(p, "hold", lck.owner, FALSE, lck.waitNum, FALSE)
    BY <1>3 DEF TestFlag, Move, Becomes, LockRecord
  <1>4. ASSUME TestFlag(p), ~lck.sinal
        PROVE  At(p, "test") /\ Becomes(p, "asleep", None, FALSE, lck.waitNum + 1, lck.event)
    BY <1>4 DEF TestFlag, Move, Becomes, LockRecord
  <1>5. ASSUME SeeEvent(p) \/ TimeOut(p) \/ Spurious(p)
        PROVE  /\ At(p, "asleep")
               /\ \E place \in {"awake", "late"} :
                     Becomes(p, place, lck.owner, lck.sinal, lck.waitNum, lck.event)
    BY <1>5 DEF SeeEvent, TimeOut, Spurious, Move, Becomes, LockRecord
  <1>6. ASSUME Regain(p), Posix
        PROVE  /\ At(p, "awake") \/ At(p, "late")
               /\ Free /\ Becomes(p, "leaving", p, FALSE, lck.waitNum, lck.event)
    BY <1>6 DEF Regain, Move, Becomes, LockRecord
  <1>7. ASSUME Regain(p), ~Posix
        PROVE  /\ Free
               /\ \/ /\ At(p, "late")
                     /\ Becomes(p, "hold", p, FALSE, lck.waitNum - 1, FALSE)
                  \/ /\ At(p, "awake")
                     /\ Becomes(p, "test", p, lck.sinal, lck.waitNum - 1, FALSE)
    BY <1>7 DEF Regain, At, Move, Becomes, LockRecord
  <1>8. ASSUME LeaveWait(p)
        PROVE  /\ At(p, "leaving")
               /\ Becomes(p, "hold", lck.owner, lck.sinal, lck.waitNum - 1, lck.event)
    BY <1>8 DEF LeaveWait, Move, Becomes, LockRecord
  <1>. QED
    BY <1>1, <1>2, <1>3, <1>4, <1>5, <1>6, <1>7, <1>8 DEF WaitStep

\* What a step inside Sinal does.
LEMMA SinalIs ==
    ASSUME LockFits, LockInv, NEW p \in Procs, SinalStep(p)
    PROVE  \/ /\ Posix /\ At(p, "raised") /\ lck.waitNum > 0
              /\ Becomes(p, "post", lck.owner, lck.sinal, lck.waitNum, lck.event)
           \/ /\ Posix /\ At(p, "raised") /\ ~(lck.waitNum > 0)
              /\ Becomes(p, "out", lck.owner, lck.sinal, lck.waitNum, lck.event)
           \/ /\ At(p, "post") /\ Asleep = {}
              /\ Becomes(p, "out", lck.owner, lck.sinal, lck.waitNum, lck.event)
           \/ /\ At(p, "post")
              /\ \E q \in Asleep : lck' = [Move(p, "out") EXCEPT !.pc[q] = "awake"]
           \/ /\ ~Posix /\ At(p, "raised") /\ Free
              /\ Becomes(p, "out", None, TRUE, lck.waitNum, lck.event \/ lck.waitNum > 0)
  <1>. lck \in LockRecord
    BY DEF LockInv
  <1>1. ASSUME LookForWaiter(p), lck.waitNum > 0
        PROVE  /\ Posix /\ At(p, "raised")
               /\ Becomes(p, "post", lck.owner, lck.sinal, lck.waitNum, lck.event)
    BY <1>1 DEF LookForWaiter, Move, Becomes, LockRecord
  <1>2. ASSUME LookForWaiter(p), ~(lck.waitNum > 0)
        PROVE  /\ Posix /\ At(p, "raised")
               /\ Becomes(p, "out", lck.owner, lck.sinal, lck.waitNum, lck.event)
    BY <1>2 DEF LookForWaiter, Move, Becomes, LockRecord
  <1>3. ASSUME CondSignal(p), Asleep = {}
        PROVE  At(p, "post") /\ Becomes(p, "out", lck.owner, lck.sinal, lck.waitNum, lck.event)
    BY <1>3 DEF CondSignal, Move, Becomes, LockRecord
  <1>4. CondSignal(p) /\ Asleep # {} =>
            /\ At(p, "post")
            /\ \E q \in Asleep : lck' = [Move(p, "out") EXCEPT !.pc[q] = "awake"]
    BY DEF CondSignal
  <1>5. ASSUME SetEvent(p)
        PROVE  /\ ~Posix /\ At(p, "raised") /\ Free
               /\ Becomes(p, "out", None, TRUE, lck.waitNum, lck.event \/ lck.waitNum > 0)
    <2>1. /\ ~Posix /\ At(p, "raised") /\ Free
          /\ lck' = [Move(p, "out") EXCEPT !.sinal = TRUE,
                                           !.event = lck.event \/ lck.waitNum > 0]
      BY <1>5 DEF SetEvent, Move
    <2>. QED
      BY <2>1 DEF Move, Becomes, Free, LockRecord
  <1>. QED
    BY <1>1, <1>2, <1>3, <1>4, <1>5 DEF SinalStep

LEMMA CallKeeps ==
    ASSUME LockFits, LockInv, NEW p \in Procs, Call(p)
    PROVE  LockInv'
  <1>. lck \in LockRecord /\ Excludes /\ OwnPlaces /\ NotForgotten
    BY DEF LockInv
  <1>. lck.waitNum \in Nat /\ lck.sinal \in BOOLEAN /\ lck.event \in BOOLEAN
    BY DEF LockRecord
  <1>0. None # p
    BY DEF LockFits
  <1>1. CASE lck' = lck
    BY <1>1 DEF LockInv, LockRecord, Excludes, Counts, Waiters, Counted, OwnPlaces, Foreign,
                NotForgotten, OnItsWay, At, Posix
  <1>2. CASE At(p, "out") /\ Free /\ Becomes(p, "hold", p, lck.sinal, lck.waitNum, lck.event)
    <2>1. lck' \in LockRecord /\ Excludes' /\ Counts' /\ OwnPlaces'
      BY <1>0, <1>2, Moved DEF At, Free, Share, Counted, Foreign, Owning, Places, OwnPlaces
    <2>2. NotForgotten'
      BY <1>2 DEF Becomes, NotForgotten, OnItsWay, At, LockRecord
    <2>. QED
      BY <2>1, <2>2 DEF LockInv
  <1>3. CASE At(p, "hold") /\ Becomes(p, "out", None, lck.sinal, lck.waitNum, lck.event)
    <2>1. lck' \in LockRecord /\ Excludes' /\ Counts' /\ OwnPlaces'
      BY <1>0, <1>3, Moved DEF At, Excludes, Share, Counted, Foreign, Owning, Places, OwnPlaces
    <2>2. NotForgotten'
      BY <1>3 DEF Becomes, NotForgotten, OnItsWay, At, LockRecord
    <2>. QED
      BY <2>1, <2>2 DEF LockInv
  <1>4. CASE /\ Posix /\ At(p, "out") /\ Free
             /\ Becomes(p, "counted", p, lck.sinal, lck.waitNum + 1, lck.event)
    <2>1. lck' \in LockRecord /\ Excludes' /\ Counts' /\ OwnPlaces'
      BY <1>0, <1>4, Moved DEF At, Free, Share, Counted, Foreign, Owning, Places, OwnPlaces
    <2>2. NotForgotten'
      BY <1>4 DEF Becomes, NotForgotten, OnItsWay, At, LockRecord
    <2>. QED
      BY <2>1, <2>2 DEF LockInv
  <1>5. CASE /\ ~Posix /\ At(p, "out") /\ Free
             /\ Becomes(p, "test", p, lck.sinal, lck.waitNum, lck.event)
    <2>1. lck' \in LockRecord /\ Excludes' /\ Counts' /\ OwnPlaces'
      BY <1>0, <1>5, Moved DEF At, Free, Share, Counted, Foreign, Owning, Places, OwnPlaces
    <2>2. NotForgotten'
      BY <1>5 DEF Becomes, NotForgotten, OnItsWay, At, LockRecord
    <2>. QED
      BY <2>1, <2>2 DEF LockInv
  <1>6. CASE /\ At(p, "out") /\ ~lck.sinal
             /\ Becomes(p, "raised", lck.owner, TRUE, lck.waitNum, lck.event)
    <2>0. PICK s \in BOOLEAN :
             Becomes(p, "raised", lck.owner, s, lck.waitNum, lck.event)
      BY <1>6
    <2>3. lck.owner # p /\ "raised" \notin Owning
      BY <1>6 DEF At, Excludes, Owning
    <2>4. "raised" \in Places /\ "raised" \notin Foreign
      BY DEF Places, Foreign
    <2>5. Share("raised") = 0 /\ Share(lck.pc[p]) = 0
      BY <1>6 DEF At, Share, Counted
    <2>6. Posix => ~lck.event
      BY DEF OwnPlaces
    <2>1. lck' \in LockRecord /\ Excludes' /\ Counts' /\ OwnPlaces'
      BY <1>6, <2>3, <2>4, <2>5, <2>6, <2>0, Moved
    <2>2. NotForgotten'
      BY <1>6 DEF Becomes, NotForgotten, OnItsWay, At, LockRecord
    <2>. QED
      BY <2>1, <2>2 DEF LockInv
  <1>. QED
    BY <1>1, <1>2, <1>3, <1>4, <1>5, <1>6, CallIs

LEMMA WaitKeeps ==
    ASSUME LockFits, LockInv, NEW p \in Procs, WaitStep(p) \/ Spurious(p)
    PROVE  LockInv'
  <1>. lck \in LockRecord /\ Excludes /\ OwnPlaces /\ NotForgotten
    BY DEF LockInv
  <1>. lck.waitNum \in Nat /\ lck.sinal \in BOOLEAN /\ lck.event \in BOOLEAN
    BY DEF LockRecord
  <1>0. None # p
    BY DEF LockFits
  <1>1. CASE /\ At(p, "counted") /\ lck.sinal
             /\ Becomes(p, "leaving", lck.owner, FALSE, lck.waitNum, lck.event)
    <2>0. PICK s \in BOOLEAN :
             Becomes(p, "leaving", lck.owner, s, lck.waitNum, lck.event)
      BY <1>1
    <2>1. lck' \in LockRecord /\ Excludes' /\ Counts' /\ OwnPlaces'
      BY <1>0, <1>1, <2>0, Moved DEF At, Excludes, Share, Counted, Foreign, Owning, Places, OwnPlaces
    <2>2. NotForgotten'
      BY <1>1 DEF Becomes, NotForgotten
    <2>. QED
      BY <2>1, <2>2 DEF LockInv
  <1>2. CASE /\ At(p, "counted") /\ ~lck.sinal
             /\ Becomes(p, "asleep", None, FALSE, lck.waitNum, lck.event)
    <2>0. PICK s \in BOOLEAN :
             Becomes(p, "asleep", None, s, lck.waitNum, lck.event)
      BY <1>2
    <2>1. lck' \in LockRecord /\ Excludes' /\ Counts' /\ OwnPlaces'
      BY <1>0, <1>2, <2>0, Moved DEF At, Excludes, Share, Counted, Foreign, Owning, Places, OwnPlaces
    <2>2. NotForgotten'
      BY <1>2 DEF Becomes, NotForgotten
    <2>. QED
      BY <2>1, <2>2 DEF LockInv
  <1>3. CASE /\ At(p, "test") /\ lck.sinal
             /\ Becomes(p, "hold", lck.owner, FALSE, lck.waitNum, FALSE)
    <2>0. PICK s, e \in BOOLEAN :
             Becomes(p, "hold", lck.owner, s, lck.waitNum, e) /\ ~e
      BY <1>3
    <2>1. lck' \in LockRecord /\ Excludes' /\ Counts' /\ OwnPlaces'
      BY <1>0, <1>3, <2>0, Moved DEF At, Excludes, Share, Counted, Foreign, Owning, Places, OwnPlaces
    <2>2. NotForgotten'
      BY <1>3 DEF Becomes, NotForgotten
    <2>. QED
      BY <2>1, <2>2 DEF LockInv
  <1>4. CASE /\ At(p, "test") /\ ~lck.sinal
             /\ Becomes(p, "asleep", None, FALSE, lck.waitNum + 1, lck.event)
    <2>0. PICK s \in BOOLEAN :
             Becomes(p, "asleep", None, s, lck.waitNum + 1, lck.event)
      BY <1>4
    <2>1. lck' \in LockRecord /\ Excludes' /\ Counts' /\ OwnPlaces'
      BY <1>0, <1>4, <2>0, Moved DEF At, Excludes, Share, Counted, Foreign, Owning, Places, OwnPlaces
    <2>2. NotForgotten'
      BY <1>4 DEF Becomes, NotForgotten
    <2>. QED
      BY <2>1, <2>2 DEF LockInv
  <1>5. CASE /\ At(p, "asleep")
             /\ \E place \in {"awake", "late"} :
                   Becomes(p, place, lck.owner, lck.sinal, lck.waitNum, lck.event)
    <2>0. PICK place \in {"awake", "late"} :
             Becomes(p, place, lck.owner, lck.sinal, lck.waitNum, lck.event)
      BY <1>5
    <2>3. lck.owner # p /\ place \notin Owning /\ place \in Places /\ place \notin Foreign
      BY <1>5 DEF At, Excludes, Owning, Places, Foreign
    <2>4. Share(place) = Share(lck.pc[p]) /\ Share(place) \in Int
      BY <1>5 DEF At, Share, Counted
    <2>1. lck' \in LockRecord /\ Excludes' /\ Counts' /\ OwnPlaces'
      BY <2>0, <2>3, <2>4, Moved DEF OwnPlaces
    <2>2. NotForgotten'
      <3>1. lck'.pc[p] = place
        BY <2>0 DEF Becomes, LockRecord
      <3>. QED
        BY <3>1 DEF NotForgotten, OnItsWay
    <2>. QED
      BY <2>1, <2>2 DEF LockInv
  <1>6. CASE /\ Posix /\ (At(p, "awake") \/ At(p, "late")) /\ Free
             /\ Becomes(p, "leaving", p, FALSE, lck.waitNum, lck.event)
    <2>0. PICK s \in BOOLEAN :
             Becomes(p, "leaving", p, s, lck.waitNum, lck.event)
      BY <1>6
    <2>1. lck' \in LockRecord /\ Excludes' /\ Counts' /\ OwnPlaces'
      BY <1>0, <1>6, <2>0, Moved DEF At, Free, Share, Counted, Foreign, Owning, Places, OwnPlaces
    <2>2. NotForgotten'
      BY <1>6 DEF Becomes, NotForgotten
    <2>. QED
      BY <2>1, <2>2 DEF LockInv
  <1>7. CASE /\ ~Posix /\ At(p, "late") /\ Free
             /\ Becomes(p, "hold", p, FALSE, lck.waitNum - 1, FALSE)
    <2>0. PICK s, e \in BOOLEAN :
             Becomes(p, "hold", p, s, lck.waitNum - 1, e) /\ ~e
      BY <1>7
    <2>1. lck' \in LockRecord /\ Excludes' /\ Counts' /\ OwnPlaces'
      BY <1>0, <1>7, <2>0, Moved DEF At, Free, Share, Counted, Foreign, Owning, Places, OwnPlaces
    <2>2. NotForgotten'
      BY <1>7 DEF Becomes, NotForgotten
    <2>. QED
      BY <2>1, <2>2 DEF LockInv
  <1>8. CASE /\ ~Posix /\ At(p, "awake") /\ Free
             /\ Becomes(p, "test", p, lck.sinal, lck.waitNum - 1, FALSE)
    <2>0. PICK e \in BOOLEAN :
             Becomes(p, "test", p, lck.sinal, lck.waitNum - 1, e) /\ ~e
      BY <1>8
    <2>1. lck' \in LockRecord /\ Excludes' /\ Counts' /\ OwnPlaces'
      BY <1>0, <1>8, <2>0, Moved DEF At, Free, Share, Counted, Foreign, Owning, Places, OwnPlaces
    <2>2. NotForgotten'
      <3>1. lck'.pc[p] = "test"
        BY <1>8 DEF Becomes, LockRecord
      <3>. QED
        BY <3>1 DEF NotForgotten, OnItsWay
    <2>. QED
      BY <2>1, <2>2 DEF LockInv
  <1>9. CASE /\ At(p, "leaving")
             /\ Becomes(p, "hold", lck.owner, lck.sinal, lck.waitNum - 1, lck.event)
    <2>0. Posix
      BY <1>9 DEF At, OwnPlaces, Foreign
    <2>1. lck' \in LockRecord /\ Excludes' /\ Counts' /\ OwnPlaces'
      BY <1>0, <1>9, <2>0, Moved DEF At, Excludes, Share, Counted, Foreign, Owning, Places,
                                     OwnPlaces
    <2>2. NotForgotten'
      BY <1>9 DEF Becomes, NotForgotten, OnItsWay, At, LockRecord
    <2>. QED
      BY <2>1, <2>2 DEF LockInv
  <1>. QED
    BY <1>1, <1>2, <1>3, <1>4, <1>5, <1>6, <1>7, <1>8, <1>9, WaitIs

LEMMA SinalKeeps ==
    ASSUME LockFits, LockInv, NEW p \in Procs, SinalStep(p)
    PROVE  LockInv'
  <1>. lck \in LockRecord /\ Excludes /\ OwnPlaces /\ NotForgotten
    BY DEF LockInv
  <1>. lck.waitNum \in Nat /\ lck.sinal \in BOOLEAN /\ lck.event \in BOOLEAN
    BY DEF LockRecord
  <1>0. None # p
    BY DEF LockFits
  <1>1. CASE /\ Posix /\ At(p, "raised") /\ lck.waitNum > 0
             /\ Becomes(p, "post", lck.owner, lck.sinal, lck.waitNum, lck.event)
    <2>1. lck' \in LockRecord /\ Excludes' /\ Counts' /\ OwnPlaces'
      BY <1>0, <1>1, Moved DEF At, Excludes, Share, Counted, Foreign, Owning, Places, OwnPlaces
    <2>2. NotForgotten'
      <3>1. lck'.pc[p] = "post"
        BY <1>1 DEF Becomes, LockRecord
      <3>. QED
        BY <3>1 DEF NotForgotten, OnItsWay
    <2>. QED
      BY <2>1, <2>2 DEF LockInv
  <1>2. CASE /\ Posix /\ At(p, "raised") /\ ~(lck.waitNum > 0)
             /\ Becomes(p, "out", lck.owner, lck.sinal, lck.waitNum, lck.event)
    <2>1. lck' \in LockRecord /\ Excludes' /\ Counts' /\ OwnPlaces'
      BY <1>0, <1>2, Moved DEF At, Excludes, Share, Counted, Foreign, Owning, Places, OwnPlaces
    <2>2. NotForgotten'
      <3>1. Waiters = {}
        BY <1>2, Sleeper
      <3>2. \A q \in Procs : lck'.pc[q] # "asleep"
        BY <1>2, <3>1 DEF Becomes, LockRecord, Waiters, Counted
      <3>. QED
        BY <3>2 DEF NotForgotten, At
    <2>. QED
      BY <2>1, <2>2 DEF LockInv
  <1>3. CASE /\ At(p, "post") /\ Asleep = {}
             /\ Becomes(p, "out", lck.owner, lck.sinal, lck.waitNum, lck.event)
    <2>1. lck' \in LockRecord /\ Excludes' /\ Counts' /\ OwnPlaces'
      BY <1>0, <1>3, Moved DEF At, Excludes, Share, Counted, Foreign, Owning, Places, OwnPlaces
    <2>2. NotForgotten'
      <3>1. \A q \in Procs : lck'.pc[q] # "asleep"
        BY <1>3 DEF Becomes, LockRecord, Asleep, At
      <3>. QED
        BY <3>1 DEF NotForgotten, At
    <2>. QED
      BY <2>1, <2>2 DEF LockInv
  <1>4. CASE /\ At(p, "post")
             /\ \E q \in Asleep : lck' = [Move(p, "out") EXCEPT !.pc[q] = "awake"]
    \* The owner, the count, the flag and the event stay: two threads move.
    <2>1. PICK q \in Asleep : lck' = [Move(p, "out") EXCEPT !.pc[q] = "awake"]
      BY <1>4
    <2>2. q \in Procs /\ lck.pc[q] = "asleep" /\ q # p /\ lck.pc[p] = "post"
      BY <1>4, <2>1 DEF Asleep, At
    <2>3. lck' = [platform |-> lck.platform, owner |-> lck.owner, sinal |-> lck.sinal,
                  waitNum |-> lck.waitNum, event |-> lck.event,
                  pc |-> [[lck.pc EXCEPT ![p] = "out"] EXCEPT ![q] = "awake"]]
      BY <2>1, <2>2 DEF Move, LockRecord
    <2>4. \A r \in Procs : lck'.pc[r] = IF r = p THEN "out" ELSE IF r = q THEN "awake"
                                        ELSE lck.pc[r]
      BY <2>2, <2>3 DEF LockRecord
    <2>5. lck' \in LockRecord
      BY <2>2, <2>3 DEF LockRecord, Places
    <2>6. Excludes'
      BY <2>2, <2>3, <2>4 DEF Excludes, Owning
    <2>7. Counted' = Counted /\ Foreign' = Foreign /\ (Posix' <=> Posix)
      BY <2>3 DEF Counted, Foreign, Posix
    <2>8. Posix
      BY <2>2 DEF OwnPlaces, Foreign
    <2>9. Waiters' = Waiters
      BY <2>2, <2>4, <2>7, <2>8 DEF Waiters, Counted
    <2>10. Counts'
      BY <2>3, <2>9 DEF LockInv, Counts
    <2>11. OwnPlaces'
      BY <2>3, <2>4, <2>7, <2>8 DEF OwnPlaces, Foreign
    <2>12. NotForgotten'
      BY <2>2, <2>4 DEF NotForgotten, OnItsWay
    <2>. QED
      BY <2>5, <2>6, <2>10, <2>11, <2>12 DEF LockInv
  <1>5. CASE /\ ~Posix /\ At(p, "raised") /\ Free
             /\ Becomes(p, "out", None, TRUE, lck.waitNum, lck.event \/ lck.waitNum > 0)
    <2>3. "out" \in Places /\ "out" \notin Foreign /\ "out" \notin Owning
      BY DEF Places, Foreign, Owning
    <2>4. Share("out") = 0 /\ Share(lck.pc[p]) = 0
      BY <1>5 DEF At, Share, Counted
    <2>5. lck.owner = None
      BY <1>5 DEF Free
    <2>6. PICK s, e \in BOOLEAN : Becomes(p, "out", None, s, lck.waitNum, e)
      BY <1>5
    <2>1. lck' \in LockRecord /\ Excludes' /\ Counts' /\ OwnPlaces'
      BY <1>0, <1>5, <2>3, <2>4, <2>5, <2>6, Moved
    <2>2. NotForgotten'
      <3>. SUFFICES ASSUME NEW q \in Procs, lck'.pc[q] = "asleep" PROVE lck'.event
        BY DEF NotForgotten, OnItsWay, At
      <3>1. lck.pc[q] = "asleep"
        BY <1>5 DEF Becomes, LockRecord
      <3>2. q \in Waiters
        BY <3>1 DEF Waiters, Counted
      <3>3. lck.waitNum > 0
        BY <3>2, Sleeper
      <3>. QED
        BY <1>5, <3>3 DEF Becomes
    <2>. QED
      BY <2>1, <2>2 DEF LockInv
  <1>. QED
    BY <1>1, <1>2, <1>3, <1>4, <1>5, SinalIs

-----------------------------------------------------------------------------
(* The theorems. *)

LEMMA LockInitially == LockFits /\ LockInit => LockInv
  <1>. SUFFICES ASSUME LockFits, LockInit PROVE LockInv
    OBVIOUS
  <1>1. PICK platform \in {"posix", "win"} :
           lck = [platform |-> platform, owner |-> None, sinal |-> FALSE, waitNum |-> 0,
                  event |-> FALSE, pc |-> [p \in Procs |-> "out"]]
    BY DEF LockInit, Fresh
  <1>2. lck \in LockRecord
    BY <1>1 DEF LockRecord, Places
  <1>3. \A p \in Procs : lck.pc[p] = "out"
    BY <1>1
  <1>4. Excludes /\ OwnPlaces /\ NotForgotten
    BY <1>1, <1>3 DEF LockFits, Excludes, Owning, OwnPlaces, Foreign, NotForgotten
  <1>5. Waiters = {}
    BY <1>3 DEF Waiters, Counted
  <1>6. Counts
    BY <1>1, <1>5, FS_EmptySet DEF Counts
  <1>. QED
    BY <1>2, <1>4, <1>6 DEF LockInv

\* The invariant of the lock holds whoever calls it.
THEOREM LockInductive == LockFits => (LockSpec => []LockInv)
  <1>. SUFFICES ASSUME LockFits PROVE LockSpec => []LockInv
    OBVIOUS
  <1>1. LockInit => LockInv
    BY LockInitially
  <1>2. LockInv /\ [LockNext]_lck => LockInv'
    <2>1. LockInv /\ UNCHANGED lck => LockInv'
      BY DEF LockInv, LockRecord, Excludes, Counts, Waiters, Counted, OwnPlaces, Foreign,
             NotForgotten, OnItsWay, At, Posix
    <2>. QED
      BY <2>1, CallKeeps, WaitKeeps, SinalKeeps DEF LockNext, Inside
  <1>. QED
    BY <1>1, <1>2, PTL DEF LockSpec

\* The lock is what it is taken for: its mutex excludes, and its count of waiters
\* never exceeds the threads there are.
THEOREM LockTypeCorrect == LockFits => (LockSpec => []LockType)
  <1>. SUFFICES ASSUME LockFits PROVE LockSpec => []LockType
    OBVIOUS
  <1>1. LockInv => LockType
    BY WaitersFinite DEF LockInv, LockRecord, Counts, LockType
  <1>. QED
    BY <1>1, LockInductive, PTL

\* No wake-up is lost: Sinal takes no lock and returns at once when it finds the
\* flag raised, and yet a sleeper behind a raised flag is always about to be woken,
\* or another thread is that will lower the flag.
THEOREM NobodyForgotten == LockFits => (LockSpec => []NotForgotten)
  <1>. SUFFICES ASSUME LockFits PROVE LockSpec => []NotForgotten
    OBVIOUS
  <1>1. LockInv => NotForgotten
    BY DEF LockInv
  <1>. QED
    BY <1>1, LockInductive, PTL
=============================================================================
