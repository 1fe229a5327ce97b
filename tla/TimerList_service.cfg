CONSTANTS
  t1 = t1
  t2 = t2
  t3 = t3
  Timers <- MCTimers
  Values = {1, 3}
  MaxValue = 3
  McuWakeUpTime = 1
  LowPowerMin = 2
  Off = Off
SPECIFICATION Spec
INVARIANTS TypeOK NoDoubleLink NoOverflow AlarmServesHead NeverEarly
PROPERTIES Implements
