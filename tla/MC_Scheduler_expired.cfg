\* Three threads that fall asleep for the same time and wake in one slice.
CONSTANTS
  idle = idle  r1 = r1  r2 = r2  r3 = r3  a1 = a1  a2 = a2  b1 = b1
  NULL = NULL
  Thread = {idle, r1, r2, r3}
  Idle = idle
  Class <- AllClasses
  SYSTICK_RVR = 2
  SleepMs = {2}
  Sleepers = {r1, r2, r3}
  Exits = {}
  Spawners = {}
  ButtonTid = NULL
  LongISR = FALSE
  MaxTick = 8
SPECIFICATION Spec
INVARIANT AllExpiredWoken
