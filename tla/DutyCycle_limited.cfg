CONSTANTS
  MsNum = 4
  MsDen = 9
  SecondsInDay = 9
  DaysInMonth <- MCDaysInMonth
  DaysInMonthLeapYear <- MCDaysInMonthLeapYear
  YearsInCentury = 4
  MaxNumberOfDays = 1
  MaxTime = 999
  Starts = {22, 63, 142}
  Horizon = 30
  Late = 1
  DCycle <- MCDCycle
  JoinBands = {1}
  Band0 = 1
  JoinDc = 8
  AirTimes = {1}
  MaxDCycles = {1}
SPECIFICATION Spec
INVARIANTS SentInTime
