---------------------------- MODULE MCTimerTable ----------------------------
(* An instance of TimerTable for TLC: a wheel of four hands and ticks of   *)
(* two clock interrupts.  The clock starts in the second turn of the wheel *)
(* and stops in the third.                                                 *)
EXTENDS TimerTable
CONSTANTS a1, a2, t1, t2

Threads == {a1, a2}
Timers == {t1, t2}
NextTimes == {1, 2}
PeriodOfT2 == [t \in Timers |-> IF t = t2 THEN 1 ELSE 0]
Calls == [a \in Threads |-> IF a = a1 THEN 2 ELSE 1]
=============================================================================
