\* Two real-time threads, one of which exits, an application and a background thread.
CONSTANTS
  idle = idle  r1 = r1  r2 = r2  r3 = r3  a1 = a1  a2 = a2  b1 = b1
  NULL = NULL
  Thread = {idle, r1, r2, a1, b1}
  Idle = idle
  Class <- AllClasses
  SYSTICK_RVR = 1
  SleepMs = {1, 2}
  Sleepers = {r1, r2, a1}
  Exits = {r2}
  Spawners = {r1}
  ButtonTid = NULL
  LongISR = FALSE
  MaxTick = 6
SPECIFICATION FairSpec
INVARIANTS
  TypeOK ListsDisjoint NoThreadLost NoUseAfterFree SleepQueueOrdered
  WakeLatency PriorityRespected NoPanic IInv
PROPERTIES
  NoEarlyWake ImplementsLifecycle ReadyRuns SleeperWakes ExitCompletes
