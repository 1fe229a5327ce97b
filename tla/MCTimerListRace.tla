-------------------------- MODULE MCTimerListRace --------------------------
EXTENDS TimerListRace, TLC

CONSTANTS t1, t2, t3

MCTimers == {t1, t2, t3}
Symmetry == Permutations(MCTimers)
=============================================================================
