-------------------------- MODULE ThreadLifecycle --------------------------
(***************************************************************************)
(* What the scheduler promises to the threads, without its queues: a       *)
(* thread is created once, is then ready, running, sleeping or blocked,    *)
(* and once gone never comes back; one thread runs; a dispatch may wake    *)
(* any of the sleepers and gives the processor to a thread of the highest  *)
(* class that is ready.  Who is woken when is not said here, see NoEarly-  *)
(* Wake and WakeLatency of Scheduler.  Scheduler is shown to implement it. *)
(***************************************************************************)
EXTENDS Naturals

CONSTANTS Thread, Class

VARIABLE state

State == {"none", "ready", "running", "sleeping", "blocked", "gone"}

\* Of two classes, the lower rank is served first.
Rank(t) == CASE Class[t] = "rt"         -> 1
             [] Class[t] = "app"        -> 2
             [] Class[t] = "background" -> 3
             [] OTHER                   -> 4

In(s) == {t \in Thread : state[t] = s}

Init == state = [t \in Thread |-> "none"]

Create(t) == state[t] = "none" /\ state' = [state EXCEPT ![t] = "ready"]

\* The thread keeps the processor until the dispatch it asks for.
Sleep(t) == state[t] = "running" /\ state' = [state EXCEPT ![t] = "sleeping"]

Block(t) ==
  /\ state[t] \in {"ready", "sleeping"}
  /\ state' = [state EXCEPT ![t] = "blocked"]

Unblock(t) == state[t] = "blocked" /\ state' = [state EXCEPT ![t] = "ready"]

\* What a dispatch may turn a thread in a state into: a sleeper may wake, stay
\* asleep or, if it was the one that had just gone to sleep, be removed.
Successors ==
  [s \in State |->
     CASE s = "running"  -> {"ready", "running", "gone"}
       [] s = "sleeping" -> {"sleeping", "ready", "running", "gone"}
       [] s = "ready"    -> {"ready", "running"}
       [] OTHER          -> {s}]

Dispatch(n) ==
  /\ state'[n] = "running"
  /\ \A t \in Thread \ {n} : state'[t] # "running"
  /\ \A t \in Thread :
       /\ state'[t] \in Successors[state[t]]
       /\ state'[t] = "ready" => Rank(n) <= Rank(t)

\* The boot code creates the idle thread and dispatches in one go.
Start(i, n) ==
  /\ In("running") = {} /\ state[i] = "none"
  /\ state'[n] = "running"
  /\ \A t \in Thread \ {n} : state'[t] = IF t = i THEN "ready" ELSE state[t]
  /\ \A t \in Thread : state'[t] = "ready" => Rank(n) <= Rank(t)

Next ==
  \E t \in Thread :
    \/ Create(t) \/ Sleep(t) \/ Block(t) \/ Unblock(t)
    \/ Dispatch(t) \/ \E i \in Thread : Start(i, t)

Spec == Init /\ [][Next]_state
=============================================================================
