---------------------------- MODULE MCTimerList ----------------------------
EXTENDS TimerList

CONSTANTS t1, t2, t3

\* Liveness is checked: no symmetry.
MCTimers == {t1, t2, t3}
=============================================================================
