------------------------------- MODULE Timers -------------------------------
(***************************************************************************)
(* What the sleep queue of the thread library promises: every sleeping     *)
(* thread has its own remaining time; looking at the clock takes the time  *)
(* that passed since the last look from all of them, ends the sleep of     *)
(* those that had less left and of no other.  A thread whose time has just *)
(* run out is woken by this look or by the next that sees the clock move.  *)
(***************************************************************************)
EXTENDS Integers

CONSTANTS
    Thread,
    Timeout    \* the timeouts threads ask for, in microseconds

Off == -1      \* not asleep

VARIABLES remaining, clock, lastLook

\* A clock that was set back counts as no time.
Passed == IF clock > lastLook THEN clock - lastLook ELSE 0

TimeLeft(t) ==
    IF remaining[t] > Passed THEN {remaining[t] - Passed}
    ELSE IF remaining[t] = Passed THEN {0, Off}
    ELSE {Off}

Init ==
    /\ remaining = [t \in Thread |-> Off]
    /\ clock \in Nat /\ lastLook \in Nat

Look ==
    /\ remaining' \in [Thread -> Int]
    /\ \A t \in Thread : remaining'[t] \in TimeLeft(t)
    /\ lastLook' = clock
    /\ UNCHANGED clock

Sleep(t, d) ==
    /\ remaining[t] = Off
    /\ remaining' \in [Thread -> Int]
    /\ remaining'[t] = d
    /\ \A u \in Thread \ {t} : remaining'[u] \in TimeLeft(u)
    /\ lastLook' = clock
    /\ UNCHANGED clock

Cancel(t) ==
    /\ remaining[t] # Off
    /\ remaining' = [remaining EXCEPT ![t] = Off]
    /\ UNCHANGED <<clock, lastLook>>

SetClock == clock' \in Nat /\ UNCHANGED <<remaining, lastLook>>

Next ==
    \/ Look
    \/ SetClock
    \/ \E t \in Thread : Cancel(t) \/ \E d \in Timeout : Sleep(t, d)

Spec == Init /\ [][Next]_<<remaining, clock, lastLook>>
====
