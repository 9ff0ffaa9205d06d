---------------------------- MODULE SchedulerInv ----------------------------
(***************************************************************************)
(* The inductive invariant behind the safety properties of Scheduler, for  *)
(* the workloads that satisfy Supported.  Its parts about the queues speak *)
(* of a kernel record, so that they can be followed through the functions  *)
(* a handler calls.                                                        *)
(***************************************************************************)
EXTENDS Scheduler

Elems(k, l) == Range(k.list[l])

\* Every list is free of repetitions and no two share a thread.
ListsOK(k) ==
  /\ \A l \in List : IsInjective(k.list[l])
  /\ \A l, m \in List : l # m => Elems(k, l) \cap Elems(k, m) = {}

\* What rq_list holds for a thread that is linked into list l.
ListField(t, l) ==
  IF l = "sleep_q" THEN "sleep_q"
  ELSE IF Class[t] = "rt" THEN "rt_rq" ELSE NULL

\* A linked thread is in the run queue of its class or asleep; the fields of a
\* thread that exists agree with the lists; only real-time threads are asked to
\* exit; a freed thread is nowhere.
ThreadOK(k, t) ==
  /\ \A l \in List : t \in Elems(k, l) =>
       /\ t # Idle
       /\ l \in {RunQueue(t), "sleep_q"}
       /\ k.rq_list[t] = ListField(t, l)
  /\ t \in Elems(k, "sleep_q") => t \in k.threads
  /\ t \in k.threads =>
       /\ k.rq_list[t] # NULL => t \in Elems(k, k.rq_list[t])
       /\ k.tick_to_wake[t] # 0 <=> t \in Elems(k, "sleep_q")
       /\ t \in k.exit_pending => Class[t] = "rt"
  /\ t \in k.freed => t \notin k.threads \cup Queued(k)

SleepOK(k) ==
  LET q == k.list["sleep_q"]
  IN  /\ \A i, j \in DOMAIN q : i < j =>
           k.tick_to_wake[q[i]] <= k.tick_to_wake[q[j]]
      /\ q # <<>> => k.wake # 0 /\ k.wake <= k.tick_to_wake[q[1]]

LateOK(k) ==
  \A i \in DOMAIN k.list["sleep_q"] :
    k.tick + i * SYSTICK_RVR <=
      k.tick_to_wake[k.list["sleep_q"][i]] + Cardinality(Thread \ {Idle}) * SYSTICK_RVR

KernelOK(k) ==
  /\ k \in KernelState /\ Fine(k)
  /\ ListsOK(k) /\ SleepOK(k)
  /\ \A t \in Thread : ThreadOK(k, t)

\* Every thread that exists is linked, except the idle thread and those in X.
LinkedExcept(k, X) ==
  \A t \in k.threads \ {Idle} : t \in Queued(k) <=> t \notin X

ModeOK ==
  /\ cpu # "halt"
  /\ cpu = "boot" => /\ kernel.curr = NULL /\ kernel.idle = NULL
                     /\ Idle \notin kernel.threads \cup kernel.freed
                     /\ kernel.list["sleep_q"] = <<>>
                     /\ kernel.rq_list[Idle] = NULL
                     /\ kernel.tick_to_wake[Idle] = 0
                     /\ Idle \notin kernel.exit_pending
  /\ cpu # "boot" => /\ kernel.idle = Idle /\ Idle \in kernel.threads
                     /\ Runner \in kernel.threads

RunnerOK ==
  /\ LinkedExcept(kernel, IF reschedule_pending THEN {} ELSE {Runner})
  /\ reschedule_pending =>
       /\ cpu = "thread"
       /\ kernel.curr \in Elems(kernel, "sleep_q")
       /\ kernel.tick + SYSTICK_RVR <= kernel.tick_to_wake[kernel.curr]

CallsOK ==
  /\ \A c \in Thread \cup {NULL} :
       /\ pc[c].at \in {"new", "kill"} =>
            /\ c = kernel.curr /\ cpu \in {"boot", "thread"}
            /\ ~scheduler_status /\ ~reschedule_pending
       /\ pc[c].at = "new" =>
            /\ pc[c].of \in Thread \ {Idle}
            /\ pc[c].of \notin kernel.threads \cup kernel.freed
            /\ pc[c].of \in Queued(kernel)
       /\ pc[c].at = "kill" => pc[c].of \in Exits \cup {NULL}
  /\ \A t \in Queued(kernel) \ kernel.threads :
       pc[kernel.curr].at = "new" /\ pc[kernel.curr].of = t

\* The inductive invariant: in every reachable state of a supported workload the
\* five queues, the fields of the thread control blocks, cpu_rq.tick_to_wake, the
\* processor mode and the calls of new_thread and kill_thread under way agree
\* (scheduler.c, thread.c, rt.c).
IInv ==
  /\ TypeOK /\ KernelOK(kernel) /\ LateOK(kernel)
  /\ ModeOK /\ RunnerOK /\ CallsOK /\ PriorityRespected
=============================================================================
