\* Two memories with different smallest blocks; the first holds up to three.
CONSTANTS
  sram = sram  dram = dram  NULL = NULL  ALLOCATED = ALLOCATED
  Region = {sram, dram}
  start_addr <- Starts
  end_addr <- Ends
  min_alloc <- Mins
  Sizes = {1, 12}
  Word = 1024
  Careless = FALSE
SPECIFICATION Spec
INVARIANTS Tiling Accounting GetsItsBytes HeldCanBeFreed
PROPERTIES ImplementsHeap
CHECK_DEADLOCK FALSE
