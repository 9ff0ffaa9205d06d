--------------------------- MODULE MC_Scheduler ---------------------------
(***************************************************************************)
(* Small instances of Scheduler for TLC: the idle thread, real-time        *)
(* threads (r1 stands for the FPI thread of main.c), an application and a  *)
(* background thread.                                                      *)
(***************************************************************************)
EXTENDS SchedulerInv

CONSTANTS idle, r1, r2, r3, a1, a2, b1

AllClasses ==
  [t \in Thread |-> CASE t = idle          -> "idle"
                      [] t \in {r1, r2, r3} -> "rt"
                      [] t \in {a1, a2}     -> "app"
                      [] OTHER              -> "background"]
=============================================================================
