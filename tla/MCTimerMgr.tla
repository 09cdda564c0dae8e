----------------------------- MODULE MCTimerMgr -----------------------------
(***************************************************************************)
(* A small instance of TimerMgr for TLC, with the liveness of its timers.  *)
(***************************************************************************)
EXTENDS TimerMgr

\* The worker loop calls Drive for ever, callbacks return, time goes on.
FairSpec == Spec /\ WF_vars(Drive) /\ WF_vars(Tick)

\* A timer that is set goes off when its time has come, unless a user sets it
\* anew, cancels or deletes it: no callback can make Drive forget it.
GoesOff ==
    \A t \in Timers : \A e \in 0..MaxTime :
        asked[t].due = e ~> asked[t].due # e \/ running = t
=============================================================================
