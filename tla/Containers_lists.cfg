SPECIFICATION Spec
CONSTANTS
  Word = 2
  PageSize = 8
  BlockSize = 2
  BlockRequest = 3
  NULL = NULL
  HEAD = HEAD
  DLists = {rt_rq, sleep_q}
INVARIANTS ListsSound PoolSound
PROPERTY OpsAreSequenceOps
CHECK_DEADLOCK FALSE
