\* main.c: a button press blocks and unblocks r2, the thread that sleeps, while r1 creates a1.
CONSTANTS
  idle = idle  r1 = r1  r2 = r2  r3 = r3  a1 = a1  a2 = a2  b1 = b1
  NULL = NULL
  Thread = {idle, r1, r2, a1}
  Idle = idle
  Class <- AllClasses
  SYSTICK_RVR = 2
  SleepMs = {1, 2}
  Sleepers = {r2}
  Exits = {}
  Spawners = {r1}
  ButtonTid = r2
  LongISR = FALSE
  MaxTick = 6
SPECIFICATION Spec
INVARIANT ListsDisjoint
PROPERTY ImplementsLifecycle
CHECK_DEADLOCK FALSE
