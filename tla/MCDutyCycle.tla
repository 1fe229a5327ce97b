---------------------------- MODULE MCDutyCycle ----------------------------
(* A day of 9 ticks of 4/9 ms, and so 4 ms at most for an alarm; years of  *)
(* two months, of three days and of one or, in years that leap, of two.    *)
EXTENDS DutyCycle

MCDaysInMonth == <<3, 1>>
MCDaysInMonthLeapYear == <<3, 2>>
MCDCycle == <<7, 6>>
=============================================================================
