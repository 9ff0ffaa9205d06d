----------------------------- MODULE Scheduler -----------------------------
(***************************************************************************)
(* The thread scheduler of the Cortex-M7 kernel: kernel/scheduler.c,       *)
(* kernel/thread.c, the scheduling classes rt.c, app.c, background.c and   *)
(* idle.c, the dlist operations they use, and the context switch of        *)
(* context.s, under the interrupt priorities that scheduler_start sets up  *)
(* (ISR > SVC 5 > SysTick 6 > PendSV 7 > thread mode).                     *)
(*                                                                         *)
(* The globals of scheduler.c and the fields of the thread control blocks  *)
(* are one record, the variable kernel; every C function that updates them *)
(* is an operator from such a record to such a record, so that a handler   *)
(* is the composition of the functions it calls.  A panic() or a fault is  *)
(* recorded in the field panic and stops the machine.                      *)
(***************************************************************************)
EXTENDS Naturals, Sequences, FiniteSets, SequencesExt

CONSTANTS
  Thread,      \* the thread control blocks that may ever exist
  Idle,        \* the one that runs idle_thread
  Class,       \* the scheduling class of each thread
  NULL,        \* the NULL pointer
  SYSTICK_RVR, \* clock units in one time slice
  SleepMs,     \* the arguments threads pass to syscall_thread_sleep
  Sleepers,    \* the threads that call syscall_thread_sleep
  Exits,       \* the threads that may return or be killed
  Spawners,    \* the threads that call new_thread and kill_thread (the FPI)
  ButtonTid,   \* the thread main.c blocks on a button press, or NULL
  LongISR,     \* may an interrupt handler outlast a time slice?
  MaxTick      \* bound: the kernel clock stops here

\* The dlists that rq_node can be linked into.
List == {"rt_rq", "app_rq", "background_rq", "sleep_q", "blocked_q"}

Classes == {"rt", "app", "background", "idle"}

ASSUME ThreadAssumption ==
  /\ IsFiniteSet(Thread)
  /\ NULL \notin Thread \cup List
  /\ Idle \in Thread
  /\ Class \in [Thread -> Classes]
  /\ \A t \in Thread : Class[t] = "idle" <=> t = Idle

ASSUME ClockAssumption ==
  /\ SYSTICK_RVR \in Nat \ {0}
  /\ SleepMs \subseteq Nat
  /\ MaxTick \in Nat

\* The GPIO interrupt preempts the SVC and thread mode, so a system call is one
\* step only because of what main.c runs next to its button: the one thread that
\* sleeps is the one the button blocks, and a press panics while it has the
\* processor (scheduler_block_thread).
ASSUME WorkloadAssumption ==
  /\ Sleepers \subseteq Thread \ {Idle}
  /\ ButtonTid # NULL => Sleepers \subseteq {ButtonTid}
  /\ Exits \subseteq Thread \ {Idle}
  /\ Spawners \subseteq Thread \ {Idle}
  /\ ButtonTid \in (Thread \ {Idle}) \cup {NULL}
  /\ LongISR \in BOOLEAN

VARIABLES
  kernel,             \* the data of scheduler.c and of the TCBs, see below
  scheduler_status,   \* FALSE between suspend_ and resume_scheduler
  reschedule_pending, \* reschedule() was called: SysTick is pending
  cpu,                \* what the processor executes next, see CpuModes
  pc,                 \* where each thread, and main (NULL), stands
  block               \* the static toggle of thread_block_test in main.c

vars == <<kernel, scheduler_status, reschedule_pending, cpu, pc, block>>

\* boot: main, before scheduler_start; thread: curr_thread in thread mode;
\* pendsv: SysTick has returned, the context switch is pending; halt: panic().
CpuModes == {"boot", "thread", "pendsv", "halt"}

\* run: in the thread's own code; exit: in the endless loop of thread_exit;
\* new, kill: inside new_thread or kill_thread, with the scheduler suspended.
Steps == [at : {"run", "exit", "new", "kill"}, of : Thread \cup {NULL}]

\* How the machine can stop: the panic() messages, or an access through NULL.
\* The MPU stays off, so nothing defines what such an access does; the model
\* does not follow the machine any further.
Reasons == {"no", "List error", "Exiting thread exist in a list", "ERROR",
            "Core scheduler error", "fault"}

\* struct rq and the fields of struct thread, with exit_pending as the set of
\* the threads whose flag is set.  wake is cpu_rq.tick_to_wake; freed holds
\* the TCBs given back to mm_free; link is the LR a thread returns through.
KernelState ==
  [list : [List -> Seq(Thread)], rq_list : [Thread -> List \cup {NULL}],
   tick_to_wake : [Thread -> Nat], exit_pending : SUBSET Thread,
   link : [Thread -> {"thread_exit", "thread"}],
   threads : SUBSET Thread, freed : SUBSET Thread,
   idle : {NULL, Idle}, wake : Nat, tick : Nat,
   curr : Thread \cup {NULL}, next : Thread \cup {NULL}, panic : Reasons]

Panic(k, why) == [k EXCEPT !.panic = why]

Fine(k) == k.panic = "no"

-----------------------------------------------------------------------------
(* dlist.c on the run-queue nodes                                           *)

\* rq_node.next or rq_node.prev is not NULL.
Linked(k, t) == \E l \in List : Len(k.list[l]) > 1 /\ t \in Range(k.list[l])

\* The check every insertion starts with.
ListError(k, t, l) ==
  \/ Linked(k, t)
  \/ k.list[l] # <<>> /\ Head(k.list[l]) = t

\* dlist_insert_first, _before and _last: t gets position i of list l.
dlist_insert(k, t, l, i) ==
  IF ListError(k, t, l) THEN Panic(k, "List error")
  ELSE [k EXCEPT !.list[l] = InsertAt(@, i, t)]

\* Mutant: the node goes to the wrong end of the list.
dlist_insert_last_lifo(k, t, l) == dlist_insert(k, t, l, 1)

dlist_insert_last(k, t, l) == dlist_insert(k, t, l, Len(k.list[l]) + 1)

\* Removing a node through a NULL list, or through a list that does not hold
\* it, writes through a NULL prev pointer.
dlist_remove(k, t, l) ==
  IF l = NULL \/ t \notin Range(k.list[l]) THEN Panic(k, "fault")
  ELSE LET i == CHOOSE j \in DOMAIN k.list[l] : k.list[l][j] = t
       IN  [k EXCEPT !.list[l] = RemoveAt(@, i)]

-----------------------------------------------------------------------------
(* The scheduling classes                                                   *)

RunQueue(t) == CASE Class[t] = "rt"  -> "rt_rq"
                 [] Class[t] = "app" -> "app_rq"
                 [] OTHER            -> "background_rq"

\* class->enqueue: only the real-time class records rq_list.
enqueue(k, t) ==
  IF Class[t] = "idle" THEN [k EXCEPT !.idle = t]
  ELSE LET k1 == dlist_insert_last(k, t, RunQueue(t))
       IN  IF Class[t] = "rt" /\ Fine(k1)
           THEN [k1 EXCEPT !.rq_list[t] = "rt_rq"] ELSE k1

\* Mutant: the thread that is picked stays in its run queue.
pick_thread_linked(k, l) == [k EXCEPT !.next = Head(k.list[l])]

\* class->pick_thread on a run queue that is not empty.
pick_thread(k, l) ==
  LET t == Head(k.list[l])
  IN  [k EXCEPT !.list[l] = Tail(@), !.next = t,
                !.rq_list[t] = IF l = "rt_rq" THEN NULL ELSE @]

\* Mutant: the classes are chained in the wrong order.
core_scheduler_swapped(k) ==
  IF k.list["app_rq"] # <<>> THEN pick_thread(k, "app_rq")
  ELSE IF k.list["rt_rq"] # <<>> THEN pick_thread(k, "rt_rq")
  ELSE [k EXCEPT !.next = k.idle]

core_scheduler(k) ==
  IF k.list["rt_rq"] # <<>> THEN pick_thread(k, "rt_rq")
  ELSE IF k.list["app_rq"] # <<>> THEN pick_thread(k, "app_rq")
  ELSE IF k.list["background_rq"] # <<>> THEN pick_thread(k, "background_rq")
  ELSE IF k.idle # NULL THEN [k EXCEPT !.next = k.idle]
  ELSE Panic(k, "Core scheduler error")

\* Mutant: the thread leaves its list and enters none.
class_block_lost(k, t) ==
  IF k.rq_list[t] \in {NULL, "blocked_q"} THEN k
  ELSE [dlist_remove(k, t, k.rq_list[t]) EXCEPT !.rq_list[t] = "blocked_q"]

\* rt_block and rt_unblock; the other classes leave the function pointers NULL.
class_block(k, t) ==
  IF Class[t] # "rt" THEN Panic(k, "fault")
  ELSE IF k.rq_list[t] = "blocked_q" THEN k
  ELSE LET k1 == dlist_remove(k, t, k.rq_list[t])
           k2 == IF Fine(k1) THEN dlist_insert_last(k1, t, "blocked_q") ELSE k1
       IN  [k2 EXCEPT !.rq_list[t] = "blocked_q"]

\* Mutant: the node is not removed from blocked_q first.
class_unblock_linked(k, t) ==
  IF k.rq_list[t] # "blocked_q" THEN k
  ELSE [dlist_insert_last(k, t, "rt_rq") EXCEPT !.rq_list[t] = "rt_rq"]

class_unblock(k, t) ==
  IF Class[t] # "rt" THEN Panic(k, "fault")
  ELSE IF k.rq_list[t] # "blocked_q" THEN k
  ELSE LET k1 == dlist_remove(k, t, "blocked_q")
           k2 == IF Fine(k1) THEN dlist_insert_last(k1, t, "rt_rq") ELSE k1
       IN  [k2 EXCEPT !.rq_list[t] = "rt_rq", !.tick_to_wake[t] = 0]

-----------------------------------------------------------------------------
(* The sleep queue                                                          *)

tick_to_wake_update(k) ==
  [k EXCEPT !.wake = IF k.list["sleep_q"] = <<>> THEN 0
                     ELSE k.tick_to_wake[Head(k.list["sleep_q"])]]

\* Move the first sleeper to the run queue of its class.
wake_first(k) ==
  LET t  == Head(k.list["sleep_q"])
      k1 == dlist_remove(k, t, "sleep_q")
  IN  [enqueue([k1 EXCEPT !.rq_list[t] = NULL], t) EXCEPT !.tick_to_wake[t] = 0]

\* Mutant: the first sleeper counts as expired whatever its time.
process_expired_delays_early(k) ==
  IF k.wake = 0 THEN k
  ELSE tick_to_wake_update(
         IF k.list["sleep_q"] # <<>> THEN wake_first(k) ELSE k)

\* The loop follows iter->next after iter was moved to the end of a run queue,
\* where next is NULL: one call wakes at most one thread.
process_expired_delays(k) ==
  IF k.wake = 0 \/ k.tick < k.wake THEN k
  ELSE tick_to_wake_update(
         IF /\ k.list["sleep_q"] # <<>>
            /\ k.tick_to_wake[Head(k.list["sleep_q"])] < k.tick
         THEN wake_first(k) ELSE k)

\* Mutant: the sleep queue is not sorted.
sleep_position_first(k, t) == 1

\* The position of the first sleeper that wakes strictly later than t.
sleep_position(k, t) ==
  CHOOSE i \in 1 .. Len(k.list["sleep_q"]) + 1 :
    /\ \A j \in 1 .. i - 1 :
         k.tick_to_wake[k.list["sleep_q"][j]] <= k.tick_to_wake[t]
    /\ i <= Len(k.list["sleep_q"]) =>
         k.tick_to_wake[k.list["sleep_q"][i]] > k.tick_to_wake[t]

\* Mutant: cpu_rq.tick_to_wake is not brought up to date.
scheduler_enqueue_delay_stale(k, t) ==
  LET k1 == dlist_insert(k, t, "sleep_q", sleep_position(k, t))
  IN  IF Fine(k1) THEN [k1 EXCEPT !.rq_list[t] = "sleep_q"] ELSE k1

scheduler_enqueue_delay(k, t) ==
  LET k1 == dlist_insert(k, t, "sleep_q", sleep_position(k, t))
  IN  IF Fine(k1) THEN tick_to_wake_update([k1 EXCEPT !.rq_list[t] = "sleep_q"])
      ELSE k1

-----------------------------------------------------------------------------
(* The SysTick handler                                                      *)

\* Mutant: the node stays in the queue it was in.
scheduler_remove_thread_linked(k) ==
  [k EXCEPT !.threads = @ \ {k.curr}, !.freed = @ \cup {k.curr}, !.curr = NULL]

\* Takes the TCB off the lists it knows of and gives its memory back.
scheduler_remove_thread(k) ==
  LET t  == k.curr
      k1 == IF t \in k.threads THEN [k EXCEPT !.threads = @ \ {t}]
            ELSE Panic(k, "fault")
      k2 == IF k1.rq_list[t] = NULL THEN k1
            ELSE dlist_remove(k1, t, k1.rq_list[t])
  IN  IF ~Fine(k2) THEN k2
      ELSE IF Linked(k2, t) THEN Panic(k2, "Exiting thread exist in a list")
      ELSE [k2 EXCEPT !.freed = @ \cup {t}, !.curr = NULL]

\* tick += the runtime of the current thread, up to the bound.
advance_tick(k, runtime) ==
  [k EXCEPT !.tick = IF @ + runtime < MaxTick THEN @ + runtime ELSE MaxTick]

\* Mutant: the sleeping thread is not told apart.
requeue_curr_always(k) == enqueue(k, k.curr)

\* The current thread goes back to its run queue, unless it went to sleep.
requeue_curr(k) ==
  IF k.tick_to_wake[k.curr] = 0 THEN enqueue(k, k.curr) ELSE k

\* Mutant: a thread that went to sleep is not asked whether it exits.
systick_handler_awake(k, runtime) ==
  LET k1 == process_expired_delays(advance_tick(k, runtime))
      k2 == IF k1.tick_to_wake[k1.curr] # 0 THEN k1
            ELSE IF k1.curr \in k1.exit_pending
                 THEN scheduler_remove_thread(enqueue(k1, k1.curr))
                 ELSE enqueue(k1, k1.curr)
  IN  core_scheduler(k2)

\* FAULTMASK is set from the first line to the last: nothing preempts this.
systick_handler(k, runtime) ==
  IF k.curr = NULL THEN Panic(k, "fault")
  ELSE LET k1 == process_expired_delays(advance_tick(k, runtime))
           k2 == IF Fine(k1) THEN requeue_curr(k1) ELSE k1
           k3 == IF Fine(k2) /\ k2.curr \in k2.exit_pending
                 THEN scheduler_remove_thread(k2) ELSE k2
       IN  IF Fine(k3) THEN core_scheduler(k3) ELSE k3

-----------------------------------------------------------------------------
(* Actions                                                                  *)

\* A panic() in any handler writes the boot signature and resets the board.
Stops(mode) == cpu' = IF Fine(kernel') THEN mode ELSE "halt"

\* The code of curr_thread, or main, gets to execute an instruction.
Executes(t) ==
  /\ t = kernel.curr
  /\ cpu \in {"boot", "thread"}
  /\ ~reschedule_pending

Goto(t, at, of) == pc' = [pc EXCEPT ![t] = [at |-> at, of |-> of]]

Init ==
  /\ kernel = [list |-> [l \in List |-> <<>>],
               rq_list |-> [t \in Thread |-> NULL],
               tick_to_wake |-> [t \in Thread |-> 0],
               exit_pending |-> {},
               link |-> [t \in Thread |-> "thread_exit"],
               threads |-> {}, freed |-> {}, idle |-> NULL,
               wake |-> 0, tick |-> 0, curr |-> NULL, next |-> NULL,
               panic |-> "no"]
  /\ scheduler_status = FALSE
  /\ reschedule_pending = FALSE
  /\ cpu = "boot"
  /\ pc = [t \in Thread \cup {NULL} |-> [at |-> "run", of |-> NULL]]
  /\ block = FALSE

\* main creates the thread of its button last, and what is created later runs
\* outside the real-time class: new_thread and the button share no queue.
MayCreate(t, u) ==
  /\ t \in Spawners \cup {NULL}
  /\ u \notin kernel.threads \cup kernel.freed
  /\ ButtonTid \in kernel.threads => Class[u] # "rt"

\* new_thread up to class->enqueue: the TCB comes from pmalloc, which does not
\* clear it, so tick_to_wake and exit_pending hold leftovers until the return.
new_thread(t, u) ==
  /\ Executes(t) /\ pc[t].at = "run" /\ u # Idle /\ MayCreate(t, u)
  /\ \E left \in {0, SYSTICK_RVR}, flag \in SUBSET {u} :
       kernel' = enqueue([kernel EXCEPT !.rq_list[u] = NULL,
                                        !.link[u] = "thread_exit",
                                        !.tick_to_wake[u] = left,
                                        !.exit_pending = @ \cup flag], u)
  /\ scheduler_status' = FALSE
  /\ Goto(t, "new", u)
  /\ Stops(cpu)
  /\ UNCHANGED <<reschedule_pending, block>>

\* The rest of new_thread.
new_thread_return(t) ==
  /\ Executes(t) /\ pc[t].at = "new"
  /\ kernel' = [kernel EXCEPT !.threads = @ \cup {pc[t].of},
                              !.tick_to_wake[pc[t].of] = 0,
                              !.exit_pending = @ \ {pc[t].of}]
  /\ scheduler_status' = TRUE
  /\ Goto(t, "run", NULL)
  /\ UNCHANGED <<reschedule_pending, cpu, block>>

\* main ends in scheduler_start: it creates the idle thread, picks the first
\* thread and lets scheduler_run enter it.  scheduler_run pops the entry point
\* into LR to branch there, so that thread does not return to thread_exit.
scheduler_start ==
  /\ Executes(NULL) /\ cpu = "boot" /\ pc[NULL].at = "run"
  /\ LET k1 == enqueue([kernel EXCEPT !.threads = @ \cup {Idle}], Idle)
         k2 == core_scheduler(k1)
     IN  kernel' = [k2 EXCEPT !.curr = k2.next, !.link[k2.next] = "thread"]
  /\ scheduler_status' = TRUE
  /\ Stops("thread")
  /\ UNCHANGED <<reschedule_pending, pc, block>>

\* kill_thread: suspend and look the thread up ...
kill_thread(t, u) ==
  /\ Executes(t) /\ cpu = "thread" /\ pc[t].at = "run"
  /\ t \in Spawners /\ u \in Exits
  /\ scheduler_status' = FALSE
  /\ Goto(t, "kill", IF u \in kernel.threads THEN u ELSE NULL)
  /\ UNCHANGED <<kernel, reschedule_pending, cpu, block>>

\* ... and set its flag, if it was found, and resume.
kill_thread_return(t) ==
  /\ Executes(t) /\ pc[t].at = "kill"
  /\ kernel' = [kernel EXCEPT !.exit_pending = @ \cup ({pc[t].of} \ {NULL})]
  /\ scheduler_status' = TRUE
  /\ Goto(t, "run", NULL)
  /\ UNCHANGED <<reschedule_pending, cpu, block>>

\* The function of the thread returns to thread_exit.  (The first thread only
\* starts over, which changes nothing here.)
thread_return(t) ==
  /\ Executes(t) /\ pc[t].at = "run" /\ t \in Exits
  /\ kernel.link[t] = "thread_exit"
  /\ kernel' = [kernel EXCEPT !.exit_pending = @ \cup {t}]
  /\ Goto(t, "exit", NULL)
  /\ UNCHANGED <<scheduler_status, reschedule_pending, cpu, block>>

\* syscall_thread_sleep: SVC preempts nothing that touches the queues, SysTick
\* runs as soon as it returns, and a press of the button before that panics
\* (WorkloadAssumption), so the walk along the sleep queue is one step.
thread_sleep(t, ms) ==
  /\ Executes(t) /\ cpu = "thread" /\ pc[t].at = "run" /\ t \in Sleepers
  /\ kernel' = scheduler_enqueue_delay(
                 [kernel EXCEPT !.tick_to_wake[t] =
                    kernel.tick + ms * SYSTICK_RVR], t)
  /\ reschedule_pending' = TRUE
  /\ Stops(cpu)
  /\ UNCHANGED <<scheduler_status, pc, block>>

\* Mutant: the counter is read the wrong way round, cvr - SYSTICK_RVR.
runtimes_negative ==
  IF reschedule_pending THEN {cvr - SYSTICK_RVR : cvr \in 0 .. SYSTICK_RVR}
  ELSE {SYSTICK_RVR}

\* get_curr_thread_runtime: a slice that was cut short counts what the timer
\* says, 0 to SYSTICK_RVR units.
runtimes == IF reschedule_pending THEN 0 .. SYSTICK_RVR ELSE {SYSTICK_RVR}

\* SysTick fires, by the timer or by reschedule().  While the scheduler is
\* suspended the handler returns without doing anything.
systick_exception ==
  /\ cpu = "thread" \/ (LongISR /\ cpu = "pendsv")
  /\ scheduler_status
  /\ \E runtime \in runtimes : kernel' = systick_handler(kernel, runtime)
  /\ reschedule_pending' = FALSE
  /\ Stops("pendsv")
  /\ UNCHANGED <<scheduler_status, pc, block>>

\* The context switch.
pendsv_exception ==
  /\ cpu = "pendsv"
  /\ kernel' = [kernel EXCEPT !.curr = kernel.next]
  /\ cpu' = "thread"
  /\ UNCHANGED <<scheduler_status, reschedule_pending, pc, block>>

\* The GPIO interrupt, with the highest priority: main.c's thread_block_test
\* calls thread_block and thread_unblock in turn.  curr_thread cannot change
\* inside the handler, so the second test of scheduler_block_thread and of
\* scheduler_unblock_thread finds it unchanged: panic("ERROR").  Presses before
\* scheduler_start has picked the first thread are left out.
gpioa_exception ==
  /\ cpu \in {"thread", "pendsv"} /\ ButtonTid # NULL
  /\ block' = ~block
  /\ LET th == IF ButtonTid \in kernel.threads THEN ButtonTid ELSE NULL
     IN  kernel' = IF th = kernel.curr THEN Panic(kernel, "ERROR")
                   ELSE IF th = NULL THEN Panic(kernel, "fault")
                   ELSE IF ~block THEN class_block(kernel, th)
                   ELSE class_unblock(kernel, th)
  /\ Stops(cpu)
  /\ UNCHANGED <<scheduler_status, reschedule_pending, pc>>

\* One instruction of thread t (main, if t is NULL).
ThreadStep(t) ==
  \/ \E u \in Thread : new_thread(t, u)
  \/ new_thread_return(t)
  \/ \E u \in Thread : kill_thread(t, u)
  \/ kill_thread_return(t)
  \/ thread_return(t)
  \/ \E ms \in SleepMs : thread_sleep(t, ms)

Next ==
  \/ \E t \in Thread \cup {NULL} : ThreadStep(t)
  \/ scheduler_start
  \/ systick_exception
  \/ pendsv_exception
  \/ gpioa_exception

Spec == Init /\ [][Next]_vars
-----------------------------------------------------------------------------
(* Properties                                                               *)

\* The workload the scheduler handles: real-time threads only may exit, no
\* thread sleeps for zero milliseconds, nobody blocks threads from interrupt
\* handlers, and no interrupt handler outlasts a time slice.
Supported ==
  /\ \A t \in Exits : Class[t] = "rt"
  /\ 0 \notin SleepMs
  /\ ButtonTid = NULL
  /\ ~LongISR

\* The kernel data, the processor mode and the program counters have their types,
\* so that in particular the queues hold threads only and the clock never runs
\* backwards below zero (get_curr_thread_runtime).
TypeOK ==
  /\ kernel \in KernelState
  /\ scheduler_status \in BOOLEAN
  /\ reschedule_pending \in BOOLEAN
  /\ cpu \in CpuModes
  /\ pc \in [Thread \cup {NULL} -> Steps]
  /\ block \in BOOLEAN

Queued(k) == UNION {Range(k.list[l]) : l \in List}

\* The thread that has the processor, or gets it from the pending PendSV.
Runner == IF cpu = "pendsv" THEN kernel.next ELSE kernel.curr

\* No node is linked twice, in one list or in two: the dlists stay lists
\* whatever order SysTick, SVC, interrupts and threads run in (dlist.c keeps
\* one pair of links per node).
ListsDisjoint ==
  \A l, m \in List :
    \A i \in DOMAIN kernel.list[l], j \in DOMAIN kernel.list[m] :
      kernel.list[l][i] = kernel.list[m][j] => l = m /\ i = j

\* No thread is lost and none is in two places: once the system runs, a
\* created thread other than idle is linked into a queue unless it has the
\* processor; it is in both only between its sleep call and the SysTick that
\* call pends (systick_exception requeues curr_thread, core_scheduler unlinks
\* next_thread).
NoThreadLost ==
  cpu \in {"thread", "pendsv"} =>
    \A t \in kernel.threads \ {Idle} :
      t \in Queued(kernel) <=> t # Runner \/ (cpu = "thread" /\ reschedule_pending)

\* A thread control block given back to mm_free is in no queue and does not
\* run, and what runs was completely set up by new_thread.
NoUseAfterFree ==
  /\ kernel.freed \cap Queued(kernel) = {}
  /\ cpu \in {"thread", "pendsv"} => Runner \in kernel.threads
  /\ kernel.freed \cap kernel.threads = {}

\* The sleep queue is sorted by wake-up time and cpu_rq.tick_to_wake, the only
\* value SysTick looks at, is never later than the first wake-up: no sleeper
\* is overlooked.
SleepQueueOrdered ==
  LET q == kernel.list["sleep_q"]
  IN  /\ \A i, j \in DOMAIN q : i < j =>
           kernel.tick_to_wake[q[i]] <= kernel.tick_to_wake[q[j]]
      /\ q # <<>> => /\ kernel.wake # 0
                     /\ kernel.wake <= kernel.tick_to_wake[q[1]]

\* "Go over the delay queue and and enqueue all expired thread in their
\* scheduling class" (the comment on process_expired_delays): when SysTick
\* returns, every thread left asleep has its wake-up time still to come.
AllExpiredWoken ==
  cpu = "pendsv" =>
    \A t \in Range(kernel.list["sleep_q"]) : kernel.tick_to_wake[t] >= kernel.tick

\* One SysTick wakes one thread, so sleepers can be late; the i-th sleeper is
\* late by at most one time slice for each of the threads that may have stood
\* before it (process_expired_delays).
WakeLatency ==
  LET q == kernel.list["sleep_q"]
  IN  \A i \in DOMAIN q :
        kernel.tick + i * SYSTICK_RVR <=
          kernel.tick_to_wake[q[i]] + Cardinality(Thread \ {Idle}) * SYSTICK_RVR

\* A thread leaves the sleep queue no earlier than it asked for, unless it is
\* removed from the system or blocked (thread_sleep, process_expired_delays).
NoEarlyWake ==
  [][\A t \in Range(kernel.list["sleep_q"]) :
       \/ t \in Range(kernel'.list["sleep_q"])
       \/ kernel.tick_to_wake[t] <= kernel'.tick
       \/ t \in kernel'.freed
       \/ kernel'.rq_list[t] = "blocked_q"]_vars

\* The thread the context switch is about to enter belongs to the highest
\* class that has a thread ready (core_scheduler).
PriorityRespected ==
  cpu = "pendsv" =>
    /\ Class[kernel.next] # "rt" => kernel.list["rt_rq"] = <<>>
    /\ Class[kernel.next] \in {"background", "idle"} =>
         kernel.list["app_rq"] = <<>>
    /\ Class[kernel.next] = "idle" => kernel.list["background_rq"] = <<>>

\* No list assertion of dlist.c, no panic() of scheduler.c and no access
\* through a NULL pointer is ever reached.
NoPanic == Fine(kernel)

-----------------------------------------------------------------------------
(* Refinement                                                               *)

\* The state of each thread as the queues tell it; the first line that applies
\* counts.  A thread that is nowhere is in no state of the abstract
\* specification.
lifecycle ==
  [t \in Thread |->
     IF t \in kernel.freed THEN "gone"
     ELSE IF t \notin kernel.threads THEN "none"
     ELSE IF t \in Range(kernel.list["sleep_q"]) THEN "sleeping"
     ELSE IF t \in Range(kernel.list["blocked_q"]) THEN "blocked"
     ELSE IF t = Runner /\ t \notin Queued(kernel) THEN "running"
     ELSE IF t # Runner /\ t \in Queued(kernel) \cup {Idle} THEN "ready"
     ELSE "lost"]

Lifecycle == INSTANCE ThreadLifecycle WITH state <- lifecycle

\* Whatever handlers interleave, what the queues say of the threads is a
\* behaviour of ThreadLifecycle, as long as the machine has not stopped.
ImplementsLifecycle == Lifecycle!Init /\ [][Fine(kernel') => Lifecycle!Next]_lifecycle

-----------------------------------------------------------------------------
(* Liveness                                                                 *)

\* The running thread, or main, returns from new_thread or kill_thread.
CallReturns ==
  \E t \in Thread \cup {NULL} : new_thread_return(t) \/ kill_thread_return(t)

\* Strong fairness of systick_exception, with its guard written out: the timer
\* does not for ever hit just the moments when the scheduler is suspended.
TimerFires ==
  []<>(cpu = "thread" /\ scheduler_status) => []<>(cpu = "pendsv")

\* main reaches scheduler_start; a pending PendSV is taken; what runs between
\* suspend_ and resume_scheduler comes to an end.  Nothing is assumed of the
\* threads' own code.
FairSpec ==
  /\ Spec
  /\ <>(cpu # "boot")
  /\ WF_vars(pendsv_exception)
  /\ WF_vars(CallReturns)
  /\ TimerFires

\* Round robin: a ready real-time thread gets the processor, whatever the
\* other threads do.
ReadyRuns ==
  \A t \in {u \in Thread : Class[u] = "rt"} :
    t \in Range(kernel.list["rt_rq"]) ~> kernel.curr = t

\* A sleeping thread wakes up, even when several expire in the same slice.
SleeperWakes ==
  \A t \in Sleepers :
    (/\ t \in Range(kernel.list["sleep_q"])
     /\ kernel.tick_to_wake[t] < MaxTick)
      ~> t \notin Range(kernel.list["sleep_q"])

\* A thread that returned or was killed is removed and its memory given back,
\* be it ready, running or asleep at that moment.
ExitCompletes ==
  \A t \in Exits :
    (/\ t \in kernel.exit_pending \cap kernel.threads
     /\ kernel.tick_to_wake[t] < MaxTick)
      ~> t \in kernel.freed
=============================================================================
