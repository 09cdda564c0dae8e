---------------------------- MODULE TimerService ----------------------------
(***************************************************************************)
(* What the timer manager promises its users.  A timer that is set goes    *)
(* off when its time has come, never before, and again one period later,   *)
(* until it is set anew, cancelled or deleted; each of these counts at     *)
(* once, also in the middle of the callback of a timer.                    *)
(***************************************************************************)
EXTENDS Integers

CONSTANTS Timers,
          Off        \* of a timer that is not set, and when no callback runs

VARIABLES clock,
          asked,     \* asked[t]: when t is to go off next, and its period
          running    \* the timer whose callback is executing

vars == <<clock, asked, running>>

NotSet == [due |-> Off, period |-> 0]

Init ==
    /\ clock = 0
    /\ asked = [t \in Timers |-> NotSet]
    /\ running = Off

\* A user sets t.
Set(t) ==
    /\ asked'[t].due \in Nat /\ asked'[t].period \in Nat
    /\ asked' = [asked EXCEPT ![t] = [due |-> asked'[t].due,
                                      period |-> asked'[t].period]]
    /\ UNCHANGED <<clock, running>>

\* A user cancels or deletes t.
Clear(t) ==
    /\ asked' = [asked EXCEPT ![t] = NotSet]
    /\ UNCHANGED <<clock, running>>

GoOff(t) ==
    /\ running = Off
    /\ asked[t].due # Off
    /\ asked[t].due <= clock
    /\ running' = t
    /\ asked' = [asked EXCEPT ![t].due = @ + asked[t].period]
    /\ UNCHANGED clock

Return ==
    /\ running # Off
    /\ running' = Off
    /\ UNCHANGED <<clock, asked>>

Tick ==
    /\ clock' = clock + 1
    /\ UNCHANGED <<asked, running>>

Next == (\E t \in Timers : Set(t) \/ Clear(t) \/ GoOff(t)) \/ Return \/ Tick

Spec == Init /\ [][Next]_vars
=============================================================================
