------------------------- MODULE Scheduler_proofs ---------------------------
(***************************************************************************)
(* Type correctness of Scheduler for every workload, and that IInv is an   *)
(* invariant for every workload that satisfies Supported.  The argument    *)
(* follows a kernel record through the functions a handler calls, with a   *)
(* lemma for each function that says what it does to the queues; then come *)
(* one lemma for each action, the induction, and the safety properties as  *)
(* corollaries.  Two results about the steps follow: no thread leaves the  *)
(* sleep queue before its time, and every step is a step of                *)
(* ThreadLifecycle or changes nothing in it.                               *)
(***************************************************************************)
EXTENDS SchedulerInv, ListLemmas, FiniteSetTheorems, WellFoundedInduction, TLAPS

-----------------------------------------------------------------------------
(* Types                                                                    *)

\* Every queue of a kernel record is a sequence of threads.
LEMMA ListType ==
  ASSUME NEW k \in KernelState, NEW l \in List
  PROVE  /\ k.list[l] \in Seq(Thread)
         /\ Len(k.list[l]) \in Nat
         /\ DOMAIN k.list[l] = 1 .. Len(k.list[l])
         /\ Elems(k, l) \subseteq Thread
<1>1. k.list[l] \in Seq(Thread)
  BY DEF KernelState
<1>2. /\ Len(k.list[l]) \in Nat
      /\ DOMAIN k.list[l] = 1 .. Len(k.list[l])
      /\ \A i \in 1 .. Len(k.list[l]) : k.list[l][i] \in Thread
  BY <1>1, LenProperties, ElementOfSeq
<1>3. QED
  BY <1>1, <1>2 DEF Elems, Range

\* panic() only records why the machine stops.
LEMMA PanicType ==
  ASSUME NEW k \in KernelState, NEW why \in Reasons
  PROVE  Panic(k, why) \in KernelState
  BY DEF Panic, KernelState

\* Replacing one queue, one rq_list or one wake-up time keeps the type.
LEMMA FieldTypes ==
  ASSUME NEW k \in KernelState, NEW t \in Thread, NEW l \in List
  PROVE  /\ \A q \in Seq(Thread) : [k EXCEPT !.list[l] = q] \in KernelState
         /\ \A x \in List \cup {NULL} : [k EXCEPT !.rq_list[t] = x] \in KernelState
         /\ \A n \in Nat : [k EXCEPT !.tick_to_wake[t] = n] \in KernelState
         /\ \A n \in Nat : [k EXCEPT !.wake = n] \in KernelState
         /\ \A n \in Nat : [k EXCEPT !.tick = n] \in KernelState
  BY DEF KernelState

\* dlist_insert at a valid position returns a kernel record, panic or not.
LEMMA InsertType ==
  ASSUME NEW k \in KernelState, NEW t \in Thread, NEW l \in List,
         NEW i \in 1 .. Len(k.list[l]) + 1
  PROVE  dlist_insert(k, t, l, i) \in KernelState
<1>1. InsertAt(k.list[l], i, t) \in Seq(Thread)
  BY ListType, InsertAtFacts
<1>2. [k EXCEPT !.list[l] = InsertAt(k.list[l], i, t)] \in KernelState
  BY <1>1, FieldTypes
<1>3. QED
  BY <1>2, PanicType DEF dlist_insert, Reasons

\* dlist_insert_last returns a kernel record.
LEMMA InsertLastType ==
  ASSUME NEW k \in KernelState, NEW t \in Thread, NEW l \in List
  PROVE  dlist_insert_last(k, t, l) \in KernelState
<1>1. Len(k.list[l]) + 1 \in 1 .. Len(k.list[l]) + 1
  BY ListType
<1>2. QED
  BY <1>1, InsertType DEF dlist_insert_last

\* dlist_remove returns a kernel record, also for a NULL list.
LEMMA RemoveType ==
  ASSUME NEW k \in KernelState, NEW t \in Thread, NEW l \in List \cup {NULL}
  PROVE  dlist_remove(k, t, l) \in KernelState
<1>1. CASE l = NULL \/ t \notin Range(k.list[l])
  BY <1>1, PanicType DEF dlist_remove, Reasons
<1>2. CASE ~(l = NULL \/ t \notin Range(k.list[l]))
  <2> DEFINE i == CHOOSE j \in DOMAIN k.list[l] : k.list[l][j] = t
  <2>0. l \in List
    BY <1>2
  <2>1. \E j \in DOMAIN k.list[l] : k.list[l][j] = t
    BY <1>2 DEF Range
  <2>2. i \in 1 .. Len(k.list[l])
    BY <2>0, <2>1, ListType
  <2> HIDE DEF i
  <2>3. RemoveAt(k.list[l], i) \in Seq(Thread)
    BY <2>0, <2>2, ListType, RemoveAtFacts
  <2>4. dlist_remove(k, t, l) = [k EXCEPT !.list[l] = RemoveAt(k.list[l], i)]
    BY <1>2 DEF dlist_remove, i
  <2>5. QED
    BY <2>0, <2>3, <2>4, FieldTypes
<1>3. QED
  BY <1>1, <1>2

\* Every class has a run queue; only the real-time class has rt_rq.
LEMMA RunQueueType ==
  ASSUME NEW t \in Thread
  PROVE  /\ RunQueue(t) \in {"rt_rq", "app_rq", "background_rq"}
         /\ RunQueue(t) = "rt_rq" <=> Class[t] = "rt"
         /\ RunQueue(t) \in List
  BY DEF RunQueue, List

\* class->enqueue returns a kernel record.
LEMMA EnqueueType ==
  ASSUME NEW k \in KernelState, NEW t \in Thread
  PROVE  enqueue(k, t) \in KernelState
<1>1. CASE Class[t] = "idle"
  <2>1. t = Idle
    BY <1>1, ThreadAssumption
  <2>2. QED
    BY <1>1, <2>1 DEF enqueue, KernelState
<1>2. CASE Class[t] # "idle"
  <2> DEFINE k1 == dlist_insert_last(k, t, RunQueue(t))
  <2>1. k1 \in KernelState
    BY RunQueueType, InsertLastType
  <2> HIDE DEF k1
  <2>2. [k1 EXCEPT !.rq_list[t] = "rt_rq"] \in KernelState
    BY <2>1, FieldTypes DEF List
  <2>3. enqueue(k, t) = IF Class[t] = "rt" /\ Fine(k1)
                        THEN [k1 EXCEPT !.rq_list[t] = "rt_rq"] ELSE k1
    BY <1>2 DEF enqueue, k1
  <2>4. QED
    BY <2>1, <2>2, <2>3
<1>3. QED
  BY <1>1, <1>2

\* class->pick_thread returns a kernel record whose next thread is the old head.
LEMMA PickType ==
  ASSUME NEW k \in KernelState, NEW l \in List, k.list[l] # <<>>
  PROVE  /\ pick_thread(k, l) \in KernelState
         /\ pick_thread(k, l).next \in Thread
         /\ pick_thread(k, l).next = Head(k.list[l])
         /\ pick_thread(k, l).panic = k.panic
<1>1. Head(k.list[l]) \in Thread /\ Tail(k.list[l]) \in Seq(Thread)
  BY ListType, HeadTailProperties
<1>2. QED
  BY <1>1 DEF pick_thread, KernelState, List

\* core_scheduler returns a kernel record and, unless it panics, a thread to run.
LEMMA CoreType ==
  ASSUME NEW k \in KernelState
  PROVE  /\ core_scheduler(k) \in KernelState
         /\ Fine(core_scheduler(k)) => core_scheduler(k).next \in Thread
<1>1. \A l \in {"rt_rq", "app_rq", "background_rq"} :
        k.list[l] # <<>> => /\ pick_thread(k, l) \in KernelState
                            /\ pick_thread(k, l).next \in Thread
  BY PickType DEF List
<1>2. k.idle # NULL => /\ [k EXCEPT !.next = k.idle] \in KernelState
                       /\ [k EXCEPT !.next = k.idle].next \in Thread
  BY ThreadAssumption DEF KernelState
<1>3. /\ Panic(k, "Core scheduler error") \in KernelState
      /\ ~Fine(Panic(k, "Core scheduler error"))
  <2>1. Panic(k, "Core scheduler error").panic = "Core scheduler error"
    BY DEF Panic, KernelState
  <2>2. QED
    BY <2>1, PanicType DEF Reasons, Fine
<1>4. QED
  BY <1>1, <1>2, <1>3 DEF core_scheduler

\* Blocking and unblocking a thread of any class returns a kernel record.
LEMMA BlockType ==
  ASSUME NEW k \in KernelState, NEW t \in Thread
  PROVE  class_block(k, t) \in KernelState /\ class_unblock(k, t) \in KernelState
<1>0. /\ k.rq_list[t] \in List \cup {NULL}
      /\ {"rt_rq", "blocked_q"} \subseteq List
      /\ Panic(k, "fault") \in KernelState
  BY PanicType DEF KernelState, List, Reasons
<1>1. class_block(k, t) \in KernelState
  <2> DEFINE k1 == dlist_remove(k, t, k.rq_list[t])
             k2 == IF Fine(k1) THEN dlist_insert_last(k1, t, "blocked_q") ELSE k1
  <2>1. k1 \in KernelState
    BY <1>0, RemoveType
  <2> HIDE DEF k1
  <2>2. k2 \in KernelState
    BY <1>0, <2>1, InsertLastType
  <2> HIDE DEF k2
  <2>3. [k2 EXCEPT !.rq_list[t] = "blocked_q"] \in KernelState
    BY <1>0, <2>2, FieldTypes
  <2>4. QED
    BY <1>0, <2>3 DEF class_block, k1, k2
<1>2. class_unblock(k, t) \in KernelState
  <2> DEFINE k1 == dlist_remove(k, t, "blocked_q")
             k2 == IF Fine(k1) THEN dlist_insert_last(k1, t, "rt_rq") ELSE k1
  <2>1. k1 \in KernelState
    BY <1>0, RemoveType
  <2> HIDE DEF k1
  <2>2. k2 \in KernelState
    BY <1>0, <2>1, InsertLastType
  <2> HIDE DEF k2
  <2>3. [k2 EXCEPT !.rq_list[t] = "rt_rq", !.tick_to_wake[t] = 0] \in KernelState
    BY <1>0, <2>2 DEF KernelState
  <2>4. QED
    BY <1>0, <2>3 DEF class_unblock, k1, k2
<1>3. QED
  BY <1>1, <1>2

\* tick_to_wake_update stores a natural number.
LEMMA WakeUpdateType ==
  ASSUME NEW k \in KernelState
  PROVE  tick_to_wake_update(k) \in KernelState
<1>1. k.list["sleep_q"] # <<>> => k.tick_to_wake[Head(k.list["sleep_q"])] \in Nat
  <2>1. k.list["sleep_q"] # <<>> => Head(k.list["sleep_q"]) \in Thread
    BY ListType, HeadTailProperties DEF List
  <2>2. QED
    BY <2>1 DEF KernelState
<1>2. QED
  BY <1>1, FieldTypes, ThreadAssumption DEF tick_to_wake_update, List

\* process_expired_delays returns a kernel record.
LEMMA ExpiredType ==
  ASSUME NEW k \in KernelState
  PROVE  process_expired_delays(k) \in KernelState
<1> DEFINE t == Head(k.list["sleep_q"])
           k1 == dlist_remove(k, t, "sleep_q")
           k2 == [k1 EXCEPT !.rq_list[t] = NULL]
           k3 == enqueue(k2, t)
<1>1. ASSUME k.list["sleep_q"] # <<>> PROVE wake_first(k) \in KernelState
  <2>1. t \in Thread
    BY <1>1, ListType, HeadTailProperties DEF List
  <2> HIDE DEF t
  <2>2. k1 \in KernelState
    BY <2>1, RemoveType DEF List
  <2> HIDE DEF k1
  <2>3. k2 \in KernelState
    BY <2>1, <2>2, FieldTypes DEF List
  <2> HIDE DEF k2
  <2>4. k3 \in KernelState
    BY <2>1, <2>3, EnqueueType
  <2> HIDE DEF k3
  <2>5. [k3 EXCEPT !.tick_to_wake[t] = 0] \in KernelState
    BY <2>1, <2>4, FieldTypes DEF List
  <2>6. QED
    BY <2>5 DEF wake_first, k3, k2, k1, t
<1>2. QED
  BY <1>1, WakeUpdateType DEF process_expired_delays

-----------------------------------------------------------------------------
(* The sleep queue                                                          *)

\* A set of natural numbers that is not empty has a least element.
LEMMA LeastNat ==
  ASSUME NEW S \in SUBSET Nat, S # {}
  PROVE  \E x \in S : \A y \in S : x <= y
<1> DEFINE Less == {ss \in Nat \X Nat : ss[1] < ss[2]}
<1>1. IsWellFoundedOn(Less, Nat)
  BY NatLessThanWellFounded, Zenon DEF OpToRel
<1>2. \A x, y \in Nat : x < y => <<x, y>> \in Less
  OBVIOUS
<1> HIDE DEF Less
<1>3. PICK x \in S : \A y \in S : <<y, x>> \notin Less
  BY <1>1, WFMin
<1>4. ASSUME NEW y \in S PROVE x <= y
  <2>1. ~(y < x) /\ x \in Nat /\ y \in Nat
    BY <1>2, <1>3, Zenon
  <2>2. QED
    BY <2>1
<1>5. QED
  BY <1>4

\* scheduler_enqueue_delay finds a place that keeps a sorted queue sorted.
LEMMA PositionExists ==
  ASSUME NEW k \in KernelState, NEW t \in Thread
  PROVE  LET q == k.list["sleep_q"]
             i == sleep_position(k, t)
         IN  /\ i \in 1 .. Len(q) + 1
             /\ \A j \in 1 .. i - 1 : k.tick_to_wake[q[j]] <= k.tick_to_wake[t]
             /\ i <= Len(q) => k.tick_to_wake[q[i]] > k.tick_to_wake[t]
<1> DEFINE q == k.list["sleep_q"]
           Fits(i) == /\ \A j \in 1 .. i - 1 :
                           k.tick_to_wake[q[j]] <= k.tick_to_wake[t]
                      /\ i <= Len(q) => k.tick_to_wake[q[i]] > k.tick_to_wake[t]
           S == {i \in 1 .. Len(q) + 1 :
                   i <= Len(q) => k.tick_to_wake[q[i]] > k.tick_to_wake[t]}
<1>1. /\ q \in Seq(Thread) /\ Len(q) \in Nat
      /\ \A j \in 1 .. Len(q) : q[j] \in Thread
      /\ k.tick_to_wake \in [Thread -> Nat]
  BY ListType, ElementOfSeq DEF List, KernelState
<1> HIDE DEF q
<1>2. Len(q) + 1 \in S /\ S \in SUBSET Nat
  BY <1>1
<1>3. PICK i \in S : \A y \in S : i <= y
  BY <1>2, LeastNat
<1>4. ASSUME NEW j \in 1 .. i - 1 PROVE k.tick_to_wake[q[j]] <= k.tick_to_wake[t]
  <2>1. j \in 1 .. Len(q) /\ j \notin S
    BY <1>1, <1>3
  <2>2. k.tick_to_wake[q[j]] \in Nat /\ k.tick_to_wake[t] \in Nat
    BY <1>1, <2>1
  <2>3. QED
    BY <1>1, <2>1, <2>2
<1>5. \E n \in 1 .. Len(q) + 1 : Fits(n)
  BY <1>3, <1>4
<1>6. sleep_position(k, t) = CHOOSE n \in 1 .. Len(q) + 1 : Fits(n)
  BY DEF sleep_position, q
<1> HIDE DEF Fits
<1>7. sleep_position(k, t) \in 1 .. Len(q) + 1 /\ Fits(sleep_position(k, t))
  BY <1>5, <1>6
<1>8. QED
  BY <1>7 DEF Fits, q

\* scheduler_enqueue_delay returns a kernel record.
LEMMA EnqueueDelayType ==
  ASSUME NEW k \in KernelState, NEW t \in Thread
  PROVE  scheduler_enqueue_delay(k, t) \in KernelState
<1> DEFINE k1 == dlist_insert(k, t, "sleep_q", sleep_position(k, t))
           k2 == [k1 EXCEPT !.rq_list[t] = "sleep_q"]
<1>1. k1 \in KernelState
  <2>1. sleep_position(k, t) \in 1 .. Len(k.list["sleep_q"]) + 1
    BY PositionExists
  <2>2. QED
    BY <2>1, InsertType DEF List
<1> HIDE DEF k1
<1>2. k2 \in KernelState
  BY <1>1, FieldTypes DEF List
<1> HIDE DEF k2
<1>3. tick_to_wake_update(k2) \in KernelState
  BY <1>2, WakeUpdateType
<1>4. QED
  BY <1>1, <1>3 DEF scheduler_enqueue_delay, k1, k2

-----------------------------------------------------------------------------
(* The SysTick handler                                                      *)

\* scheduler_remove_thread returns a kernel record, with curr_thread NULL or kept.
LEMMA RemoveThreadType ==
  ASSUME NEW k \in KernelState, k.curr \in Thread
  PROVE  scheduler_remove_thread(k) \in KernelState
<1> DEFINE t  == k.curr
           k1 == IF t \in k.threads THEN [k EXCEPT !.threads = @ \ {t}]
                 ELSE Panic(k, "fault")
           k2 == IF k1.rq_list[t] = NULL THEN k1
                 ELSE dlist_remove(k1, t, k1.rq_list[t])
           k3 == [k2 EXCEPT !.freed = @ \cup {t}, !.curr = NULL]
<1>1. k1 \in KernelState
  <2>1. [k EXCEPT !.threads = @ \ {t}] \in KernelState
    BY DEF KernelState
  <2>2. Panic(k, "fault") \in KernelState
    BY PanicType DEF Reasons
  <2>3. QED
    BY <2>1, <2>2
<1> HIDE DEF k1
<1>2. k1.rq_list[t] \in List \cup {NULL}
  BY <1>1 DEF KernelState
<1>3. k2 \in KernelState
  BY <1>1, <1>2, RemoveType
<1> HIDE DEF k2
<1>4. k3 \in KernelState
  BY <1>3 DEF KernelState
<1>5. Panic(k2, "Exiting thread exist in a list") \in KernelState
  BY <1>3, PanicType DEF Reasons
<1> HIDE DEF k3
<1>6. QED
  BY <1>3, <1>4, <1>5 DEF scheduler_remove_thread, k1, k2, k3

\* The tick stays a natural number.
LEMMA AdvanceType ==
  ASSUME NEW k \in KernelState, NEW runtime \in Nat
  PROVE  advance_tick(k, runtime) \in KernelState
<1>1. k.tick \in Nat
  BY DEF KernelState
<1>2. (IF k.tick + runtime < MaxTick THEN k.tick + runtime ELSE MaxTick) \in Nat
  BY <1>1, ClockAssumption
<1>3. QED
  BY <1>2, FieldTypes, ThreadAssumption DEF advance_tick, List

\* A function keeps curr_thread.
KeepsCurr(k, k1) == k1.curr = k.curr

\* List operations and class->enqueue leave curr_thread and next_thread alone.
LEMMA CurrKept ==
  ASSUME NEW k \in KernelState, NEW t \in Thread
  PROVE  /\ \A l \in List : \A i \in 1 .. Len(k.list[l]) + 1 :
              KeepsCurr(k, dlist_insert(k, t, l, i))
         /\ \A l \in List \cup {NULL} : KeepsCurr(k, dlist_remove(k, t, l))
         /\ KeepsCurr(k, enqueue(k, t))
<1>1. ASSUME NEW l \in List, NEW i \in 1 .. Len(k.list[l]) + 1
      PROVE  KeepsCurr(k, dlist_insert(k, t, l, i))
  BY DEF KeepsCurr, dlist_insert, Panic, KernelState
<1>2. ASSUME NEW l \in List \cup {NULL}
      PROVE  KeepsCurr(k, dlist_remove(k, t, l))
  BY DEF KeepsCurr, dlist_remove, Panic, KernelState
<1>3. KeepsCurr(k, enqueue(k, t))
  <2> DEFINE k1 == dlist_insert_last(k, t, RunQueue(t))
  <2>1. k1 \in KernelState /\ k1.curr = k.curr
    <3>1. Len(k.list[RunQueue(t)]) + 1 \in 1 .. Len(k.list[RunQueue(t)]) + 1
      BY RunQueueType, ListType
    <3>2. QED
      BY <1>1, <3>1, RunQueueType, InsertLastType DEF KeepsCurr, dlist_insert_last
  <2> HIDE DEF k1
  <2>2. [k1 EXCEPT !.rq_list[t] = "rt_rq"].curr = k1.curr
    BY <2>1 DEF KernelState
  <2>3. [k EXCEPT !.idle = t].curr = k.curr
    BY DEF KernelState
  <2>4. QED
    BY <2>1, <2>2, <2>3 DEF enqueue, KeepsCurr, k1
<1>4. QED
  BY <1>1, <1>2, <1>3

\* Waking a sleeper does not touch curr_thread.
LEMMA ExpiredCurr ==
  ASSUME NEW k \in KernelState
  PROVE  process_expired_delays(k).curr = k.curr
<1> DEFINE t == Head(k.list["sleep_q"])
           k1 == dlist_remove(k, t, "sleep_q")
           k2 == [k1 EXCEPT !.rq_list[t] = NULL]
           k3 == enqueue(k2, t)
           k4 == [k3 EXCEPT !.tick_to_wake[t] = 0]
<1>1. ASSUME k.list["sleep_q"] # <<>>
      PROVE  wake_first(k).curr = k.curr /\ wake_first(k) \in KernelState
  <2>1. t \in Thread
    BY <1>1, ListType, HeadTailProperties DEF List
  <2> HIDE DEF t
  <2>2. k1 \in KernelState /\ k1.curr = k.curr
    BY <2>1, RemoveType, CurrKept DEF List, KeepsCurr
  <2> HIDE DEF k1
  <2>3. k2 \in KernelState /\ k2.curr = k1.curr
    BY <2>1, <2>2 DEF KernelState
  <2> HIDE DEF k2
  <2>4. k3 \in KernelState /\ k3.curr = k2.curr
    BY <2>1, <2>3, EnqueueType, CurrKept DEF KeepsCurr
  <2> HIDE DEF k3
  <2>5. k4 \in KernelState /\ k4.curr = k3.curr
    BY <2>1, <2>4 DEF KernelState
  <2>6. wake_first(k) = k4
    BY DEF wake_first, k3, k2, k1, t
  <2>7. QED
    BY <2>2, <2>3, <2>4, <2>5, <2>6
<1>2. ASSUME NEW h \in KernelState PROVE tick_to_wake_update(h).curr = h.curr
  BY DEF tick_to_wake_update, KernelState
<1>3. QED
  BY <1>1, <1>2 DEF process_expired_delays

\* The SysTick handler returns a kernel record and, unless it panics, a thread to
\* run.
LEMMA SystickType ==
  ASSUME NEW k \in KernelState, NEW runtime \in Nat
  PROVE  /\ systick_handler(k, runtime) \in KernelState
         /\ Fine(systick_handler(k, runtime)) =>
              systick_handler(k, runtime).next \in Thread
<1>1. CASE k.curr = NULL
  <2>1. Panic(k, "fault") \in KernelState /\ ~Fine(Panic(k, "fault"))
    <3>1. Panic(k, "fault").panic = "fault"
      BY DEF Panic, KernelState
    <3>2. QED
      BY <3>1, PanicType DEF Reasons, Fine
  <2>2. QED
    BY <1>1, <2>1 DEF systick_handler
<1>2. CASE k.curr # NULL
  <2> DEFINE k1 == process_expired_delays(advance_tick(k, runtime))
             k2 == IF Fine(k1) THEN requeue_curr(k1) ELSE k1
             k3 == IF Fine(k2) /\ k2.curr \in k2.exit_pending
                   THEN scheduler_remove_thread(k2) ELSE k2
  <2>0. k.curr \in Thread
    BY <1>2 DEF KernelState
  <2>1. k1 \in KernelState /\ k1.curr = k.curr
    <3>1. advance_tick(k, runtime).curr = k.curr
      BY DEF advance_tick, KernelState
    <3>2. QED
      BY <3>1, AdvanceType, ExpiredType, ExpiredCurr
  <2> HIDE DEF k1
  <2>2. k2 \in KernelState /\ k2.curr = k.curr
    <3>1. requeue_curr(k1) \in KernelState /\ requeue_curr(k1).curr = k1.curr
      BY <2>0, <2>1, EnqueueType, CurrKept DEF requeue_curr, KeepsCurr
    <3>2. QED
      BY <2>1, <3>1
  <2> HIDE DEF k2
  <2>3. k3 \in KernelState
    <3>1. scheduler_remove_thread(k2) \in KernelState
      BY <2>0, <2>2, RemoveThreadType
    <3>2. QED
      BY <2>2, <3>1
  <2> HIDE DEF k3
  <2>4. systick_handler(k, runtime) = IF Fine(k3) THEN core_scheduler(k3) ELSE k3
    BY <1>2 DEF systick_handler, k1, k2, k3
  <2>5. QED
    BY <2>3, <2>4, CoreType
<1>3. QED
  BY <1>1, <1>2

-----------------------------------------------------------------------------
(* Type correctness                                                         *)

\* The types, with the pointers that are not NULL where the code follows them.
TypeInv ==
  /\ TypeOK
  /\ cpu = "pendsv" => kernel.next \in Thread
  /\ cpu = "thread" => kernel.curr \in Thread
  /\ \A c \in Thread \cup {NULL} : pc[c].at = "new" => pc[c].of \in Thread

\* A step of a program counter keeps the type of pc and the argument of new_thread.
LEMMA GotoType ==
  ASSUME TypeInv, NEW t \in Thread \cup {NULL},
         NEW at \in {"run", "exit", "new", "kill"}, NEW of \in Thread \cup {NULL},
         at = "new" => of \in Thread,
         Goto(t, at, of)
  PROVE  /\ pc' \in [Thread \cup {NULL} -> Steps]
         /\ \A c \in Thread \cup {NULL} : pc'[c].at = "new" => pc'[c].of \in Thread
<1>1. [at |-> at, of |-> of] \in Steps
  BY DEF Steps
<1>2. pc \in [Thread \cup {NULL} -> Steps]
  BY DEF TypeInv, TypeOK
<1>3. QED
  BY <1>1, <1>2 DEF Goto, TypeInv

\* Putting a thread to sleep does not touch curr_thread.
LEMMA EnqueueDelayCurr ==
  ASSUME NEW k \in KernelState, NEW t \in Thread
  PROVE  scheduler_enqueue_delay(k, t).curr = k.curr
<1> DEFINE k1 == dlist_insert(k, t, "sleep_q", sleep_position(k, t))
           k2 == [k1 EXCEPT !.rq_list[t] = "sleep_q"]
<1>1. k1 \in KernelState /\ k1.curr = k.curr
  <2>1. sleep_position(k, t) \in 1 .. Len(k.list["sleep_q"]) + 1
    BY PositionExists
  <2>2. QED
    BY <2>1, InsertType, CurrKept DEF List, KeepsCurr
<1> HIDE DEF k1
<1>2. k2 \in KernelState /\ k2.curr = k1.curr
  BY <1>1 DEF KernelState, List
<1> HIDE DEF k2
<1>3. tick_to_wake_update(k2).curr = k2.curr
  BY <1>2 DEF tick_to_wake_update, KernelState
<1>4. QED
  BY <1>1, <1>2, <1>3 DEF scheduler_enqueue_delay, k1, k2

\* Once the idle thread exists core_scheduler always finds a thread.
LEMMA CoreNext ==
  ASSUME NEW k \in KernelState, k.idle # NULL
  PROVE  core_scheduler(k).next \in Thread
<1>1. \A l \in {"rt_rq", "app_rq", "background_rq"} :
        k.list[l] # <<>> => pick_thread(k, l).next \in Thread
  BY PickType DEF List
<1>2. [k EXCEPT !.next = k.idle].next \in Thread
  BY ThreadAssumption DEF KernelState
<1>3. QED
  BY <1>1, <1>2 DEF core_scheduler

\* Blocking and unblocking leave curr_thread and next_thread alone.
LEMMA BlockKept ==
  ASSUME NEW k \in KernelState, NEW t \in Thread
  PROVE  /\ class_block(k, t).curr = k.curr /\ class_block(k, t).next = k.next
         /\ class_unblock(k, t).curr = k.curr /\ class_unblock(k, t).next = k.next
<1> DEFINE Same(h) == h \in KernelState /\ h.curr = k.curr /\ h.next = k.next
<1>0. /\ k.rq_list[t] \in List \cup {NULL} /\ {"rt_rq", "blocked_q"} \subseteq List
      /\ Same(Panic(k, "fault"))
  BY DEF KernelState, List, Panic, Reasons
<1>1. ASSUME NEW h, Same(h), NEW l \in List \cup {NULL}
      PROVE  Same(dlist_remove(h, t, l))
  <2>1. dlist_remove(h, t, l).curr = h.curr /\ dlist_remove(h, t, l).next = h.next
    BY <1>1 DEF dlist_remove, Panic, KernelState
  <2>2. QED
    BY <1>1, <2>1, RemoveType
<1>2. ASSUME NEW h, Same(h), NEW l \in List
      PROVE  Same(dlist_insert_last(h, t, l))
  <2>1. /\ dlist_insert_last(h, t, l).curr = h.curr
        /\ dlist_insert_last(h, t, l).next = h.next
    BY <1>2 DEF dlist_insert_last, dlist_insert, Panic, KernelState
  <2>2. QED
    BY <1>2, <2>1, InsertLastType
<1>3. ASSUME NEW h, Same(h), NEW l \in List
      PROVE  /\ Same([h EXCEPT !.rq_list[t] = l])
             /\ Same([h EXCEPT !.rq_list[t] = l, !.tick_to_wake[t] = 0])
  BY <1>3 DEF KernelState
<1>4. Same(k)
  OBVIOUS
<1> HIDE DEF Same
<1>5. Same(class_block(k, t))
  <2> DEFINE k1 == dlist_remove(k, t, k.rq_list[t])
             k2 == IF Fine(k1) THEN dlist_insert_last(k1, t, "blocked_q") ELSE k1
  <2>1. Same(k1)
    BY <1>0, <1>1, <1>4
  <2> HIDE DEF k1
  <2>2. Same(k2)
    BY <1>0, <1>2, <2>1
  <2> HIDE DEF k2
  <2>3. Same([k2 EXCEPT !.rq_list[t] = "blocked_q"])
    BY <1>0, <1>3, <2>2
  <2>4. QED
    BY <1>0, <1>4, <2>3 DEF class_block, k1, k2
<1>6. Same(class_unblock(k, t))
  <2> DEFINE k1 == dlist_remove(k, t, "blocked_q")
             k2 == IF Fine(k1) THEN dlist_insert_last(k1, t, "rt_rq") ELSE k1
  <2>1. Same(k1)
    BY <1>0, <1>1, <1>4
  <2> HIDE DEF k1
  <2>2. Same(k2)
    BY <1>0, <1>2, <2>1
  <2> HIDE DEF k2
  <2>3. Same([k2 EXCEPT !.rq_list[t] = "rt_rq", !.tick_to_wake[t] = 0])
    BY <1>0, <1>3, <2>2
  <2>4. QED
    BY <1>0, <1>4, <2>3 DEF class_unblock, k1, k2
<1>7. QED
  BY <1>5, <1>6 DEF Same

\* The type invariant holds at reset.
LEMMA InitType == Init => TypeInv
<1> SUFFICES ASSUME Init PROVE TypeInv
  OBVIOUS
<1>1. kernel \in KernelState
  <2>1. <<>> \in Seq(Thread)
    OBVIOUS
  <2>2. QED
    BY <2>1 DEF Init, KernelState, Reasons
<1>2. pc \in [Thread \cup {NULL} -> Steps]
  BY DEF Init, Steps
<1>3. \A c \in Thread \cup {NULL} : pc[c].at # "new"
  BY DEF Init
<1>4. QED
  BY <1>1, <1>2, <1>3 DEF Init, TypeInv, TypeOK, CpuModes

\* Every step keeps the types, whatever the workload.
LEMMA NextType == TypeInv /\ [Next]_vars => TypeInv'
<1> SUFFICES ASSUME TypeInv, [Next]_vars PROVE TypeInv'
  OBVIOUS
<1> USE DEF TypeInv
<1>0. /\ kernel \in KernelState /\ pc \in [Thread \cup {NULL} -> Steps]
      /\ scheduler_status \in BOOLEAN /\ reschedule_pending \in BOOLEAN
      /\ cpu \in CpuModes /\ block \in BOOLEAN
      /\ kernel.curr \in Thread \cup {NULL} /\ kernel.next \in Thread \cup {NULL}
      /\ kernel.tick \in Nat /\ kernel.exit_pending \in SUBSET Thread
  BY DEF TypeOK, KernelState
<1>1. ASSUME NEW t \in Thread \cup {NULL}, NEW u \in Thread, new_thread(t, u)
      PROVE  TypeInv'
  <2>1. PICK left \in {0, SYSTICK_RVR}, flag \in SUBSET {u} :
          kernel' = enqueue([kernel EXCEPT !.rq_list[u] = NULL,
                                           !.link[u] = "thread_exit",
                                           !.tick_to_wake[u] = left,
                                           !.exit_pending = @ \cup flag], u)
    BY <1>1 DEF new_thread
  <2> DEFINE k == [kernel EXCEPT !.rq_list[u] = NULL,
                                 !.link[u] = "thread_exit",
                                 !.tick_to_wake[u] = left,
                                 !.exit_pending = @ \cup flag]
  <2>2. k \in KernelState /\ k.curr = kernel.curr
    <3>1. left \in Nat /\ kernel.exit_pending \cup flag \in SUBSET Thread
      BY <1>0, ClockAssumption
    <3>2. QED
      BY <1>0, <3>1 DEF KernelState
  <2> HIDE DEF k
  <2>3. kernel' \in KernelState /\ kernel'.curr = kernel.curr
    BY <2>1, <2>2, EnqueueType, CurrKept DEF k, KeepsCurr
  <2>4. cpu' \in {cpu, "halt"} /\ cpu \in {"boot", "thread"}
    BY <1>1 DEF new_thread, Stops, Executes
  <2>5. /\ pc' \in [Thread \cup {NULL} -> Steps]
        /\ \A c \in Thread \cup {NULL} : pc'[c].at = "new" => pc'[c].of \in Thread
    BY <1>1, GotoType DEF new_thread
  <2>6. QED
    BY <1>0, <1>1, <2>3, <2>4, <2>5 DEF new_thread, TypeOK, CpuModes
<1>2. ASSUME NEW t \in Thread \cup {NULL}, new_thread_return(t)
      PROVE  TypeInv'
  <2>1. pc[t].of \in Thread
    BY <1>2 DEF new_thread_return
  <2>2. kernel' \in KernelState /\ kernel'.curr = kernel.curr
        /\ kernel'.next = kernel.next
    BY <1>0, <1>2, <2>1 DEF new_thread_return, KernelState
  <2>3. /\ pc' \in [Thread \cup {NULL} -> Steps]
        /\ \A c \in Thread \cup {NULL} : pc'[c].at = "new" => pc'[c].of \in Thread
    BY <1>2, GotoType DEF new_thread_return
  <2>4. QED
    BY <1>0, <1>2, <2>2, <2>3 DEF new_thread_return, TypeOK
<1>3. ASSUME NEW t \in Thread \cup {NULL}, NEW u \in Thread, kill_thread(t, u)
      PROVE  TypeInv'
  <2>1. /\ pc' \in [Thread \cup {NULL} -> Steps]
        /\ \A c \in Thread \cup {NULL} : pc'[c].at = "new" => pc'[c].of \in Thread
    BY <1>3, GotoType DEF kill_thread
  <2>2. QED
    BY <1>0, <1>3, <2>1 DEF kill_thread, TypeOK
<1>4. ASSUME NEW t \in Thread \cup {NULL}, kill_thread_return(t)
      PROVE  TypeInv'
  <2>1. pc[t].of \in Thread \cup {NULL}
    BY <1>0 DEF Steps
  <2>2. kernel' \in KernelState /\ kernel'.curr = kernel.curr
        /\ kernel'.next = kernel.next
    BY <1>0, <1>4, <2>1 DEF kill_thread_return, KernelState
  <2>3. /\ pc' \in [Thread \cup {NULL} -> Steps]
        /\ \A c \in Thread \cup {NULL} : pc'[c].at = "new" => pc'[c].of \in Thread
    BY <1>4, GotoType DEF kill_thread_return
  <2>4. QED
    BY <1>0, <1>4, <2>2, <2>3 DEF kill_thread_return, TypeOK
<1>5. ASSUME NEW t \in Thread \cup {NULL}, thread_return(t)
      PROVE  TypeInv'
  <2>1. kernel' \in KernelState /\ kernel'.curr = kernel.curr
        /\ kernel'.next = kernel.next
    BY <1>0, <1>5, WorkloadAssumption, ZenonT(40) DEF thread_return, KernelState
  <2>2. /\ pc' \in [Thread \cup {NULL} -> Steps]
        /\ \A c \in Thread \cup {NULL} : pc'[c].at = "new" => pc'[c].of \in Thread
    BY <1>5, GotoType DEF thread_return
  <2>3. QED
    BY <1>0, <1>5, <2>1, <2>2 DEF thread_return, TypeOK
<1>6. ASSUME NEW t \in Thread \cup {NULL}, NEW ms \in SleepMs, thread_sleep(t, ms)
      PROVE  TypeInv'
  <2> DEFINE n == kernel.tick + ms * SYSTICK_RVR
             k == [kernel EXCEPT !.tick_to_wake[t] = n]
  <2>1. t \in Thread /\ kernel.curr = t
    BY <1>6 DEF thread_sleep, Executes
  <2>2. n \in Nat
    BY <1>0, ClockAssumption
  <2> HIDE DEF n
  <2>3. k \in KernelState
    BY <1>0, <2>1, <2>2, FieldTypes DEF List
  <2>4. k.curr = kernel.curr
    BY <1>0 DEF KernelState
  <2> HIDE DEF k
  <2>5. kernel' = scheduler_enqueue_delay(k, t)
    BY <1>6 DEF thread_sleep, k, n
  <2>6. kernel' \in KernelState /\ kernel'.curr = k.curr
    BY <2>1, <2>3, <2>5, EnqueueDelayType, EnqueueDelayCurr
  <2>7. cpu' \in {cpu, "halt"} /\ cpu = "thread"
    BY <1>6 DEF thread_sleep, Stops
  <2>8. QED
    BY <1>0, <1>6, <2>1, <2>4, <2>6, <2>7 DEF thread_sleep, TypeOK, CpuModes
<1>7. CASE scheduler_start
  <2> DEFINE k0 == [kernel EXCEPT !.threads = @ \cup {Idle}]
             k1 == enqueue(k0, Idle)
             k2 == core_scheduler(k1)
  <2>1. k0 \in KernelState
    BY <1>0, ThreadAssumption DEF KernelState
  <2> HIDE DEF k0
  <2>2. k1 \in KernelState /\ k1.idle # NULL
    <3>1. k1 = [k0 EXCEPT !.idle = Idle]
      BY ThreadAssumption DEF enqueue
    <3>2. QED
      BY <2>1, <3>1, ThreadAssumption, ZenonT(40) DEF KernelState
  <2> HIDE DEF k1
  <2>3. k2 \in KernelState /\ k2.next \in Thread
    BY <2>2, CoreType, CoreNext
  <2> HIDE DEF k2
  <2>4. kernel' = [k2 EXCEPT !.curr = k2.next, !.link[k2.next] = "thread"]
    BY <1>7 DEF scheduler_start, k0, k1, k2
  <2>5. kernel' \in KernelState /\ kernel'.curr \in Thread
    BY <2>3, <2>4 DEF KernelState
  <2>6. cpu' \in {"thread", "halt"}
    BY <1>7 DEF scheduler_start, Stops
  <2>7. QED
    BY <1>0, <1>7, <2>5, <2>6 DEF scheduler_start, TypeOK, CpuModes
<1>8. CASE systick_exception
  <2>1. PICK runtime \in runtimes : kernel' = systick_handler(kernel, runtime)
    BY <1>8 DEF systick_exception
  <2>2. runtime \in Nat
    BY <2>1, ClockAssumption DEF runtimes
  <2>3. kernel' \in KernelState /\ (Fine(kernel') => kernel'.next \in Thread)
    BY <1>0, <2>1, <2>2, SystickType
  <2>4. cpu' = IF Fine(kernel') THEN "pendsv" ELSE "halt"
    BY <1>8 DEF systick_exception, Stops
  <2>5. QED
    BY <1>0, <1>8, <2>3, <2>4 DEF systick_exception, TypeOK, CpuModes
<1>9. CASE pendsv_exception
  BY <1>0, <1>9 DEF pendsv_exception, TypeOK, KernelState, CpuModes
<1>10. CASE gpioa_exception
  <2> DEFINE th == IF ButtonTid \in kernel.threads THEN ButtonTid ELSE NULL
             kb == IF ~block THEN class_block(kernel, th)
                   ELSE class_unblock(kernel, th)
  <2>1. th \in Thread \cup {NULL}
    BY <1>10, WorkloadAssumption DEF gpioa_exception
  <2>2. kernel' = IF th = kernel.curr THEN Panic(kernel, "ERROR")
                  ELSE IF th = NULL THEN Panic(kernel, "fault") ELSE kb
    BY <1>10 DEF gpioa_exception
  <2> HIDE DEF th
  <2>3. th # NULL => kb \in KernelState /\ kb.curr = kernel.curr /\ kb.next = kernel.next
    BY <1>0, <2>1, BlockType, BlockKept
  <2> HIDE DEF kb
  <2>4. \A why \in Reasons :
          /\ Panic(kernel, why) \in KernelState
          /\ Panic(kernel, why).curr = kernel.curr
          /\ Panic(kernel, why).next = kernel.next
    BY <1>0 DEF Panic, KernelState
  <2>5. {"ERROR", "fault"} \subseteq Reasons
    BY DEF Reasons
  <2>6. kernel' \in KernelState /\ kernel'.curr = kernel.curr
        /\ kernel'.next = kernel.next
    BY <2>2, <2>3, <2>4, <2>5
  <2>7. cpu' \in {cpu, "halt"}
    BY <1>10 DEF gpioa_exception, Stops
  <2>8. QED
    BY <1>0, <1>10, <2>6, <2>7 DEF gpioa_exception, TypeOK, CpuModes
<1>11. CASE UNCHANGED vars
  BY <1>0, <1>11 DEF vars, TypeOK
<1>12. QED
  BY <1>1, <1>2, <1>3, <1>4, <1>5, <1>6, <1>7, <1>8, <1>9, <1>10, <1>11
     DEF Next, ThreadStep

\* TypeOK is an invariant for every workload, also for those that end in a
\* panic: no handler leaves a dangling or missing pointer in the scheduler's
\* data where the next one needs a thread.
THEOREM TypeCorrect == Spec => []TypeOK
<1>1. TypeInv => TypeOK
  BY DEF TypeInv
<1>2. QED
  BY <1>1, InitType, NextType, PTL DEF Spec

-----------------------------------------------------------------------------
(* The dlist operations                                                     *)

\* The fields that the list functions leave alone.
SameRest(k, r) ==
  /\ r.exit_pending = k.exit_pending /\ r.threads = k.threads
  /\ r.freed = k.freed /\ r.idle = k.idle /\ r.tick = k.tick
  /\ r.curr = k.curr /\ r.next = k.next /\ r.panic = k.panic

\* Only list l changes.
OnlyList(k, r, l) ==
  /\ \A m \in List \ {l} : r.list[m] = k.list[m] /\ Elems(r, m) = Elems(k, m)
  /\ r.rq_list = k.rq_list /\ r.tick_to_wake = k.tick_to_wake
  /\ r.wake = k.wake /\ SameRest(k, r)

\* A thread is queued exactly when some list holds it.
LEMMA QueuedElems ==
  ASSUME NEW k, NEW t
  PROVE  t \in Queued(k) <=> \E l \in List : t \in Elems(k, l)
  BY DEF Queued, Elems

\* Replacing one queue changes no other queue and no field.
LEMMA SetList ==
  ASSUME NEW k \in KernelState, NEW l \in List, NEW q \in Seq(Thread)
  PROVE  LET r == [k EXCEPT !.list[l] = q]
         IN  r \in KernelState /\ r.list[l] = q /\ OnlyList(k, r, l)
<1> DEFINE r == [k EXCEPT !.list[l] = q]
<1>1. r \in KernelState /\ r.list[l] = q
  BY DEF KernelState
<1>2. \A m \in List \ {l} : r.list[m] = k.list[m]
  BY DEF KernelState
<1>3. /\ r.rq_list = k.rq_list /\ r.tick_to_wake = k.tick_to_wake
      /\ r.wake = k.wake /\ SameRest(k, r)
  BY DEF KernelState, SameRest
<1> HIDE DEF r
<1>4. \A m \in List \ {l} : Elems(r, m) = Elems(k, m)
  BY <1>2 DEF Elems
<1>5. OnlyList(k, r, l)
  BY <1>2, <1>3, <1>4 DEF OnlyList
<1>6. QED
  BY <1>1, <1>5 DEF r

\* An insertion of a thread that is in no queue passes the checks of dlist.c.
LEMMA InsertOK ==
  ASSUME NEW k \in KernelState, ListsOK(k), NEW t \in Thread, t \notin Queued(k),
         NEW l \in List, NEW i \in 1 .. Len(k.list[l]) + 1
  PROVE  LET r == dlist_insert(k, t, l, i)
         IN  /\ r \in KernelState /\ ListsOK(r) /\ OnlyList(k, r, l)
             /\ r.list[l] = InsertAt(k.list[l], i, t)
             /\ Elems(r, l) = Elems(k, l) \cup {t}
<1> DEFINE q == InsertAt(k.list[l], i, t)
           r == [k EXCEPT !.list[l] = q]
<1>1. k.list[l] \in Seq(Thread) /\ DOMAIN k.list[l] = 1 .. Len(k.list[l])
  BY ListType
<1>2. ~ListError(k, t, l)
  <2>1. ~Linked(k, t)
    BY QueuedElems DEF Linked, Elems
  <2>2. k.list[l] # <<>> => Head(k.list[l]) \in Elems(k, l)
    <3>1. ASSUME k.list[l] # <<>> PROVE Head(k.list[l]) \in Elems(k, l)
      <4>1. Head(k.list[l]) = k.list[l][1] /\ 1 \in DOMAIN k.list[l]
        BY <1>1, <3>1, EmptySeq
      <4>2. QED
        BY <4>1 DEF Elems, Range
    <3>2. QED
      BY <3>1
  <2>3. QED
    BY <2>1, <2>2, QueuedElems DEF ListError
<1>3. /\ q \in Seq(Thread) /\ Range(q) = Elems(k, l) \cup {t} /\ IsInjective(q)
  <2>1. IsInjective(k.list[l]) /\ t \notin Range(k.list[l])
    BY QueuedElems DEF ListsOK, Elems
  <2>2. QED
    BY <1>1, <2>1, InsertAtFacts, InsertAtRange DEF Elems
<1> HIDE DEF q
<1>4. r \in KernelState /\ r.list[l] = q /\ OnlyList(k, r, l)
  BY <1>3, SetList
<1> HIDE DEF r
<1>5. Elems(r, l) = Elems(k, l) \cup {t}
  BY <1>3, <1>4 DEF Elems
<1>6. ListsOK(r)
  <2>1. ASSUME NEW m \in List PROVE IsInjective(r.list[m])
    BY <1>3, <1>4 DEF OnlyList, ListsOK
  <2>2. ASSUME NEW m \in List, NEW n \in List, m # n
        PROVE  Elems(r, m) \cap Elems(r, n) = {}
    <3>1. Elems(k, m) \cap Elems(k, n) = {} /\ t \notin Elems(k, m) \cup Elems(k, n)
      BY <2>2, QueuedElems DEF ListsOK
    <3>2. CASE m # l /\ n # l
      BY <1>4, <3>1, <3>2 DEF OnlyList
    <3>3. CASE m = l
      <4>1. Elems(r, n) = Elems(k, n)
        BY <1>4, <2>2, <3>3 DEF OnlyList
      <4>2. QED
        BY <1>5, <3>1, <3>3, <4>1
    <3>4. CASE n = l
      <4>1. Elems(r, m) = Elems(k, m)
        BY <1>4, <2>2, <3>4 DEF OnlyList
      <4>2. QED
        BY <1>5, <3>1, <3>4, <4>1
    <3>5. QED
      BY <3>2, <3>3, <3>4
  <2>3. QED
    BY <2>1, <2>2 DEF ListsOK
<1>7. dlist_insert(k, t, l, i) = r
  BY <1>2 DEF dlist_insert, r, q
<1>8. QED
  BY <1>4, <1>5, <1>6, <1>7 DEF q

\* A removal through the list that holds the thread.
LEMMA RemoveOK ==
  ASSUME NEW k \in KernelState, ListsOK(k), NEW l \in List, NEW t \in Elems(k, l)
  PROVE  LET r == dlist_remove(k, t, l)
         IN  /\ r \in KernelState /\ ListsOK(r) /\ OnlyList(k, r, l)
             /\ \E i \in 1 .. Len(k.list[l]) :
                  k.list[l][i] = t /\ r.list[l] = RemoveAt(k.list[l], i)
             /\ Elems(r, l) = Elems(k, l) \ {t}
<1> DEFINE i == CHOOSE j \in DOMAIN k.list[l] : k.list[l][j] = t
           q == RemoveAt(k.list[l], i)
           r == [k EXCEPT !.list[l] = q]
<1>1. k.list[l] \in Seq(Thread) /\ DOMAIN k.list[l] = 1 .. Len(k.list[l])
  BY ListType
<1>2. i \in 1 .. Len(k.list[l]) /\ k.list[l][i] = t
  <2>1. \E j \in DOMAIN k.list[l] : k.list[l][j] = t
    BY DEF Elems, Range
  <2>2. QED
    BY <1>1, <2>1
<1>3. dlist_remove(k, t, l) = r
  <2>1. l # NULL /\ t \in Range(k.list[l])
    BY ThreadAssumption DEF Elems
  <2>2. QED
    BY <2>1 DEF dlist_remove, r, q, i
<1> HIDE DEF i
<1>4. /\ q \in Seq(Thread) /\ Range(q) = Elems(k, l) \ {t} /\ IsInjective(q)
  <2>1. IsInjective(k.list[l])
    BY DEF ListsOK
  <2>2. QED
    BY <1>1, <1>2, <2>1, RemoveAtFacts, RemoveAtRange DEF Elems
<1>5. q = RemoveAt(k.list[l], i)
  OBVIOUS
<1> HIDE DEF q
<1>6. r \in KernelState /\ r.list[l] = q /\ OnlyList(k, r, l)
  BY <1>4, SetList
<1> HIDE DEF r
<1>7. Elems(r, l) = Elems(k, l) \ {t}
  BY <1>4, <1>6 DEF Elems
<1>8. ListsOK(r)
  <2>1. ASSUME NEW m \in List PROVE IsInjective(r.list[m])
    BY <1>4, <1>6 DEF OnlyList, ListsOK
  <2>2. ASSUME NEW m \in List PROVE Elems(r, m) \subseteq Elems(k, m)
    BY <1>6, <1>7 DEF OnlyList
  <2>3. QED
    BY <2>1, <2>2 DEF ListsOK
<1>9. QED
  BY <1>2, <1>3, <1>5, <1>6, <1>7, <1>8

-----------------------------------------------------------------------------
(* One thread at a time                                                     *)

\* Every thread but t keeps its place and its fields.
Others(k, r, t) ==
  \A u \in Thread \ {t} :
    /\ \A l \in List : u \in Elems(r, l) <=> u \in Elems(k, l)
    /\ r.rq_list[u] = k.rq_list[u] /\ r.tick_to_wake[u] = k.tick_to_wake[u]
    /\ u \in r.threads <=> u \in k.threads
    /\ u \in r.freed <=> u \in k.freed
    /\ u \in r.exit_pending <=> u \in k.exit_pending

\* A function that disturbs one thread only needs ThreadOK for that thread.
LEMMA OthersOK ==
  ASSUME NEW k \in KernelState, NEW r \in KernelState, NEW t \in Thread,
         Others(k, r, t), ThreadOK(r, t), \A u \in Thread : ThreadOK(k, u)
  PROVE  \A u \in Thread : ThreadOK(r, u)
<1> SUFFICES ASSUME NEW u \in Thread \ {t} PROVE ThreadOK(r, u)
  OBVIOUS
<1>1. /\ \A l \in List : u \in Elems(r, l) <=> u \in Elems(k, l)
      /\ r.rq_list[u] = k.rq_list[u] /\ r.tick_to_wake[u] = k.tick_to_wake[u]
      /\ u \in r.threads <=> u \in k.threads
      /\ u \in r.freed <=> u \in k.freed
      /\ u \in r.exit_pending <=> u \in k.exit_pending
  BY DEF Others
<1>2. u \in Queued(r) <=> u \in Queued(k)
  BY <1>1, QueuedElems
<1>3. k.rq_list[u] # NULL => k.rq_list[u] \in List
  BY DEF KernelState
<1>4. "sleep_q" \in List
  BY DEF List
<1>5. ThreadOK(k, u)
  OBVIOUS
<1>6. QED
  BY <1>1, <1>2, <1>3, <1>4, <1>5 DEF ThreadOK

\* A change of one list that only concerns t.
LEMMA OnlyListOthers ==
  ASSUME NEW k \in KernelState, NEW r \in KernelState, NEW t \in Thread,
         NEW l \in List, OnlyList(k, r, l),
         Elems(r, l) \ {t} = Elems(k, l) \ {t}
  PROVE  Others(k, r, t)
<1> SUFFICES ASSUME NEW u \in Thread \ {t}, NEW m \in List
             PROVE  u \in Elems(r, m) <=> u \in Elems(k, m)
  BY DEF Others, OnlyList, SameRest
<1>1. CASE m = l
  BY <1>1
<1>2. CASE m # l
  BY <1>2 DEF OnlyList
<1>3. QED
  BY <1>1, <1>2

\* A thread that is in no list has no list field.
LEMMA Unlinked ==
  ASSUME NEW k \in KernelState, NEW t \in Thread, ThreadOK(k, t),
         t \in k.threads, t \notin Queued(k)
  PROVE  k.rq_list[t] = NULL /\ k.tick_to_wake[t] = 0
<1>1. \A l \in List : t \notin Elems(k, l)
  BY QueuedElems
<1>2. k.rq_list[t] \in List \cup {NULL} /\ "sleep_q" \in List
  BY DEF KernelState, List
<1>3. QED
  BY <1>1, <1>2 DEF ThreadOK

\* class->enqueue of a thread that is in no list.
LEMMA EnqueueOK ==
  ASSUME NEW k \in KernelState, ListsOK(k), Fine(k),
         NEW t \in Thread \ {Idle}, t \notin Queued(k), k.rq_list[t] = NULL
  PROVE  LET r == enqueue(k, t)
         IN  /\ r \in KernelState /\ ListsOK(r) /\ SameRest(k, r) /\ Others(k, r, t)
             /\ r.tick_to_wake = k.tick_to_wake /\ r.wake = k.wake
             /\ r.list["sleep_q"] = k.list["sleep_q"]
             /\ \A l \in List : t \in Elems(r, l) <=> l = RunQueue(t)
             /\ r.rq_list[t] = ListField(t, RunQueue(t))
<1> DEFINE q  == RunQueue(t)
           k1 == dlist_insert_last(k, t, q)
           k2 == [k1 EXCEPT !.rq_list[t] = "rt_rq"]
           r  == IF Class[t] = "rt" THEN k2 ELSE k1
<1>1. q \in List /\ q # "sleep_q" /\ (q = "rt_rq" <=> Class[t] = "rt")
  BY RunQueueType
<1>2. Len(k.list[q]) + 1 \in 1 .. Len(k.list[q]) + 1
  BY <1>1, ListType
<1> HIDE DEF q
<1>3. /\ k1 \in KernelState /\ ListsOK(k1) /\ OnlyList(k, k1, q)
      /\ Elems(k1, q) = Elems(k, q) \cup {t}
  BY <1>1, <1>2, InsertOK DEF dlist_insert_last
<1> HIDE DEF k1
<1>4. Fine(k1)
  BY <1>3 DEF OnlyList, SameRest, Fine
<1>5. Class[t] # "idle"
  BY ThreadAssumption
<1>6. enqueue(k, t) = r
  BY <1>4, <1>5 DEF enqueue, k1, k2, q
<1>7. /\ k2 \in KernelState /\ k2.list = k1.list /\ SameRest(k1, k2)
      /\ k2.tick_to_wake = k1.tick_to_wake /\ k2.wake = k1.wake
      /\ k2.rq_list[t] = "rt_rq"
      /\ \A u \in Thread \ {t} : k2.rq_list[u] = k1.rq_list[u]
  BY <1>3, ZenonT(40) DEF KernelState, SameRest, List
<1> HIDE DEF k2
<1>8. /\ r \in KernelState /\ r.list = k1.list /\ SameRest(k1, r)
      /\ r.tick_to_wake = k1.tick_to_wake /\ r.wake = k1.wake
      /\ \A u \in Thread \ {t} : r.rq_list[u] = k1.rq_list[u]
  BY <1>3, <1>7 DEF SameRest
<1>9. r.rq_list[t] = ListField(t, q)
  <2>1. k1.rq_list[t] = NULL
    BY <1>3 DEF OnlyList
  <2>2. QED
    BY <1>1, <1>7, <2>1 DEF ListField
<1> HIDE DEF r
<1>10. ListsOK(r) /\ \A l \in List : Elems(r, l) = Elems(k1, l)
  BY <1>3, <1>8 DEF ListsOK, Elems
<1>11. SameRest(k, r) /\ r.tick_to_wake = k.tick_to_wake /\ r.wake = k.wake
  BY <1>3, <1>8 DEF OnlyList, SameRest
<1>12. r.list["sleep_q"] = k.list["sleep_q"]
  BY <1>1, <1>3, <1>8 DEF OnlyList, List
<1>13. \A l \in List : t \in Elems(r, l) <=> l = q
  <2>1. \A l \in List : t \notin Elems(k, l)
    BY QueuedElems
  <2>2. QED
    BY <1>1, <1>3, <1>10, <2>1 DEF OnlyList
<1>14. Others(k, r, t)
  <2>1. Others(k, k1, t)
    BY <1>1, <1>3, OnlyListOthers
  <2>2. QED
    BY <1>8, <1>10, <2>1 DEF Others, SameRest
<1>15. QED
  BY <1>6, <1>8, <1>9, <1>10, <1>11, <1>12, <1>13, <1>14 DEF q

\* Putting a thread that is in no list and not asleep into its run queue.
LEMMA EnqueueKernel ==
  ASSUME NEW k, KernelOK(k), NEW t \in Thread \ {Idle}, t \notin Queued(k),
         t \notin k.freed, k.rq_list[t] = NULL,
         t \in k.threads => k.tick_to_wake[t] = 0
  PROVE  LET r == enqueue(k, t)
         IN  /\ KernelOK(r) /\ SameRest(k, r)
             /\ r.tick_to_wake = k.tick_to_wake
             /\ r.list["sleep_q"] = k.list["sleep_q"]
             /\ Queued(r) = Queued(k) \cup {t}
<1> DEFINE r == enqueue(k, t)
<1>0. k \in KernelState /\ ListsOK(k) /\ Fine(k) /\ SleepOK(k)
  BY DEF KernelOK
<1>1. /\ r \in KernelState /\ ListsOK(r) /\ SameRest(k, r) /\ Others(k, r, t)
      /\ r.tick_to_wake = k.tick_to_wake /\ r.wake = k.wake
      /\ r.list["sleep_q"] = k.list["sleep_q"]
      /\ \A l \in List : t \in Elems(r, l) <=> l = RunQueue(t)
      /\ r.rq_list[t] = ListField(t, RunQueue(t))
  BY <1>0, EnqueueOK
<1> HIDE DEF r
<1>2. /\ RunQueue(t) \in List /\ RunQueue(t) # "sleep_q" /\ "sleep_q" \in List
      /\ (RunQueue(t) = "rt_rq" <=> Class[t] = "rt")
  BY RunQueueType DEF List
<1>3. Queued(r) = Queued(k) \cup {t}
  <2>1. ASSUME NEW u \in Thread
        PROVE  u \in Queued(r) <=> u \in Queued(k) \cup {t}
    <3>1. CASE u = t
      BY <1>1, <1>2, <3>1, QueuedElems
    <3>2. CASE u # t
      BY <1>1, <3>2, QueuedElems DEF Others
    <3>3. QED
      BY <3>1, <3>2
  <2>2. Queued(k) \subseteq Thread /\ Queued(r) \subseteq Thread
    BY <1>0, <1>1, QueuedElems, ListType
  <2>3. QED
    BY <2>1, <2>2
<1>4. ThreadOK(r, t)
  <2>1. t \in r.threads => t \in k.threads /\ r.tick_to_wake[t] = 0
    BY <1>1 DEF SameRest
  <2>2. t \notin r.freed
    BY <1>1 DEF SameRest
  <2>3. t \in r.threads /\ t \in r.exit_pending => Class[t] = "rt"
    BY <1>1 DEF SameRest, KernelOK, ThreadOK
  <2>4. r.rq_list[t] # NULL => r.rq_list[t] = RunQueue(t)
    BY <1>1, <1>2 DEF ListField
  <2>5. QED
    BY <1>1, <1>2, <2>1, <2>2, <2>3, <2>4 DEF ThreadOK
<1>5. \A u \in Thread : ThreadOK(r, u)
  BY <1>0, <1>1, <1>4, OthersOK DEF KernelOK
<1>6. SleepOK(r) /\ Fine(r)
  BY <1>0, <1>1 DEF SleepOK, Fine, SameRest
<1>7. QED
  BY <1>1, <1>3, <1>5, <1>6 DEF KernelOK, r

-----------------------------------------------------------------------------
(* The sleep queue                                                          *)

N == Cardinality(Thread \ {Idle})

\* The number of threads is a natural number, as Thread is finite.
LEMMA NType == N \in Nat
<1>1. IsFiniteSet(Thread \ {Idle})
  BY ThreadAssumption, FS_Difference
<1>2. QED
  BY <1>1, FS_CardinalityType DEF N

\* The sleep queue holds each thread but idle at most once.
LEMMA SleepLen ==
  ASSUME NEW k, KernelOK(k)
  PROVE  Len(k.list["sleep_q"]) <= N
<1> DEFINE q == k.list["sleep_q"]
           T == Thread \ {Idle}
<1>1. /\ k \in KernelState /\ ListsOK(k) /\ "sleep_q" \in List
      /\ \A t \in Thread : ThreadOK(k, t)
  BY DEF KernelOK, List
<1>2. /\ q \in Seq(Thread) /\ Len(q) \in Nat /\ DOMAIN q = 1 .. Len(q)
      /\ Elems(k, "sleep_q") \subseteq Thread
  BY <1>1, ListType
<1>3. Elems(k, "sleep_q") \subseteq T
  BY <1>1, <1>2 DEF ThreadOK
<1>4. \A i \in 1 .. Len(q) : q[i] \in T
  BY <1>2, <1>3 DEF Elems, Range
<1>5. IsInjective(q)
  BY <1>1 DEF ListsOK
<1>6. q \in [1 .. Len(q) -> T]
  <2>1. q \in [1 .. Len(q) -> Thread]
    BY <1>2
  <2> HIDE DEF q, T
  <2>2. QED
    BY <1>4, <2>1
<1>7. q \in Injection(1 .. Len(q), T)
  BY <1>5, <1>6 DEF Injection
<1>8. IsFiniteSet(T)
  BY ThreadAssumption, FS_Difference
<1> HIDE DEF q, T
<1>9. Cardinality(1 .. Len(q)) <= Cardinality(T)
  BY <1>7, <1>8, FS_Injection
<1>10. Cardinality(1 .. Len(q)) = Len(q)
  <2>1. 1 \in Int /\ Len(q) \in Int
    BY <1>2
  <2>2. Cardinality(1 .. Len(q)) = IF 1 > Len(q) THEN 0 ELSE Len(q) - 1 + 1
    BY <2>1, FS_Interval
  <2>3. QED
    BY <1>2, <2>2
<1>11. QED
  BY <1>9, <1>10 DEF q, T, N

\* What is in the sleep queue, by position.
LEMMA SleepFacts ==
  ASSUME NEW k, KernelOK(k)
  PROVE  LET q == k.list["sleep_q"]
         IN  /\ q \in Seq(Thread) /\ Len(q) \in Nat /\ DOMAIN q = 1 .. Len(q)
             /\ k.tick \in Nat /\ k.wake \in Nat
             /\ \A i \in 1 .. Len(q) :
                  /\ q[i] \in Thread /\ q[i] \in Elems(k, "sleep_q")
                  /\ k.tick_to_wake[q[i]] \in Nat \ {0}
             /\ \A i, j \in 1 .. Len(q) : i < j =>
                  k.tick_to_wake[q[i]] <= k.tick_to_wake[q[j]]
             /\ \A i, j \in 1 .. Len(q) : q[i] = q[j] => i = j
<1> DEFINE q == k.list["sleep_q"]
<1>1. /\ k \in KernelState /\ ListsOK(k) /\ "sleep_q" \in List /\ SleepOK(k)
      /\ \A t \in Thread : ThreadOK(k, t)
  BY DEF KernelOK, List
<1>2. /\ q \in Seq(Thread) /\ Len(q) \in Nat /\ DOMAIN q = 1 .. Len(q)
      /\ Elems(k, "sleep_q") \subseteq Thread
  BY <1>1, ListType
<1>3. \A i \in 1 .. Len(q) : q[i] \in Elems(k, "sleep_q")
  BY <1>2 DEF Elems, Range
<1>4. k.tick_to_wake \in [Thread -> Nat] /\ k.tick \in Nat /\ k.wake \in Nat
  BY <1>1 DEF KernelState
<1>5. \A i \in 1 .. Len(q) : k.tick_to_wake[q[i]] \in Nat \ {0}
  BY <1>1, <1>2, <1>3, <1>4 DEF ThreadOK
<1>6. \A i, j \in 1 .. Len(q) : i < j =>
        k.tick_to_wake[q[i]] <= k.tick_to_wake[q[j]]
  BY <1>1, <1>2 DEF SleepOK
<1>7. \A i, j \in 1 .. Len(q) : q[i] = q[j] => i = j
  BY <1>1, <1>2 DEF ListsOK, IsInjective
<1>8. QED
  BY <1>2, <1>3, <1>4, <1>5, <1>6, <1>7

\* Multiplying by the time slice keeps the order.
LEMMA Slices ==
  ASSUME NEW a \in Nat, NEW b \in Nat, a <= b
  PROVE  /\ a * SYSTICK_RVR \in Nat /\ b * SYSTICK_RVR \in Nat
         /\ a * SYSTICK_RVR <= b * SYSTICK_RVR
         /\ (a + 1) * SYSTICK_RVR = a * SYSTICK_RVR + SYSTICK_RVR
<1>1. SYSTICK_RVR \in Nat
  BY ClockAssumption
<1>2. PICK d \in Nat : b = a + d
  <2>1. b - a \in Nat /\ b = a + (b - a)
    OBVIOUS
  <2>2. QED
    BY <2>1
<1>3. (a + d) * SYSTICK_RVR = a * SYSTICK_RVR + d * SYSTICK_RVR
  BY <1>1
<1>4. a * SYSTICK_RVR \in Nat /\ b * SYSTICK_RVR \in Nat /\ d * SYSTICK_RVR \in Nat
  BY <1>1
<1>5. (a + 1) * SYSTICK_RVR = a * SYSTICK_RVR + SYSTICK_RVR
  BY <1>1
<1>6. QED
  BY <1>2, <1>3, <1>4, <1>5

\* A sleeper whose time has not come is not late.
LEMMA OnTime ==
  ASSUME NEW tick \in Nat, NEW time \in Nat, tick <= time,
         NEW i \in Nat, i <= N
  PROVE  tick + i * SYSTICK_RVR <= time + N * SYSTICK_RVR
  BY Slices, NType

\* Once the first of the queue is brought up to date, tick_to_wake_update makes
\* the queue consistent.
LEMMA UpdateOK ==
  ASSUME NEW k \in KernelState, Fine(k), ListsOK(k),
         \A t \in Thread : ThreadOK(k, t),
         \A i, j \in 1 .. Len(k.list["sleep_q"]) : i < j =>
           k.tick_to_wake[k.list["sleep_q"][i]] <= k.tick_to_wake[k.list["sleep_q"][j]]
  PROVE  LET r == tick_to_wake_update(k)
         IN  /\ KernelOK(r) /\ SameRest(k, r) /\ r.list = k.list
             /\ r.tick_to_wake = k.tick_to_wake /\ r.rq_list = k.rq_list
             /\ Queued(r) = Queued(k)
<1> DEFINE q == k.list["sleep_q"]
           r == tick_to_wake_update(k)
<1>1. /\ r \in KernelState /\ SameRest(k, r) /\ r.list = k.list
      /\ r.tick_to_wake = k.tick_to_wake /\ r.rq_list = k.rq_list
      /\ r.wake = IF q = <<>> THEN 0 ELSE k.tick_to_wake[Head(q)]
  <2>1. r \in KernelState
    BY WakeUpdateType
  <2>2. QED
    BY <2>1 DEF tick_to_wake_update, KernelState, SameRest
<1>2. /\ q \in Seq(Thread) /\ Len(q) \in Nat /\ DOMAIN q = 1 .. Len(q)
  BY ListType DEF List
<1> HIDE DEF r
<1>3. Queued(r) = Queued(k) /\ \A l \in List : Elems(r, l) = Elems(k, l)
  BY <1>1 DEF Queued, Elems
<1>4. ListsOK(r) /\ Fine(r) /\ \A t \in Thread : ThreadOK(r, t)
  <2>1. ListsOK(r) /\ Fine(r)
    BY <1>1, <1>3 DEF ListsOK, Fine, SameRest
  <2>2. ASSUME NEW t \in Thread PROVE ThreadOK(r, t)
    <3>1. k.rq_list[t] # NULL => k.rq_list[t] \in List
      BY DEF KernelState
    <3>2. "sleep_q" \in List /\ ThreadOK(k, t)
      BY DEF List
    <3>3. QED
      BY <1>1, <1>3, <3>1, <3>2 DEF ThreadOK, SameRest
  <2>3. QED
    BY <2>1, <2>2
<1>5. SleepOK(r)
  <2>1. ASSUME q # <<>> PROVE r.wake # 0 /\ r.wake <= r.tick_to_wake[q[1]]
    <3>1. 1 \in 1 .. Len(q) /\ Head(q) = q[1] /\ q[1] \in Thread
      BY <1>2, <2>1, EmptySeq, ElementOfSeq
    <3>2. q[1] \in Elems(k, "sleep_q")
      BY <1>2, <3>1 DEF Elems, Range
    <3>3. k.tick_to_wake[q[1]] # 0 /\ k.tick_to_wake[q[1]] \in Nat
      BY <3>1, <3>2 DEF ThreadOK, KernelState
    <3>4. QED
      BY <1>1, <2>1, <3>1, <3>3
  <2>2. QED
    BY <1>1, <1>2, <2>1 DEF SleepOK
<1>6. QED
  BY <1>1, <1>3, <1>4, <1>5 DEF KernelOK, r

\* wake_first moves the first sleeper, and nobody else, to its run queue.
LEMMA WakeFirstOK ==
  ASSUME NEW k, KernelOK(k), k.list["sleep_q"] # <<>>
  PROVE  LET q == k.list["sleep_q"]
             r == wake_first(k)
         IN  /\ r \in KernelState /\ Fine(r) /\ ListsOK(r) /\ SameRest(k, r)
             /\ \A t \in Thread : ThreadOK(r, t)
             /\ Others(k, r, q[1])
             /\ q[1] \in Queued(r)
             /\ r.list["sleep_q"] \in Seq(Thread)
             /\ Len(r.list["sleep_q"]) = Len(q) - 1
             /\ \A j \in 1 .. Len(q) - 1 : r.list["sleep_q"][j] = q[j + 1]
<1> DEFINE q  == k.list["sleep_q"]
           t  == Head(q)
           k1 == dlist_remove(k, t, "sleep_q")
           k2 == [k1 EXCEPT !.rq_list[t] = NULL]
           k3 == enqueue(k2, t)
           r  == [k3 EXCEPT !.tick_to_wake[t] = 0]
<1>0. /\ k \in KernelState /\ ListsOK(k) /\ Fine(k) /\ "sleep_q" \in List
      /\ \A u \in Thread : ThreadOK(k, u)
  BY DEF KernelOK, List
<1>1. /\ q \in Seq(Thread) /\ Len(q) \in Nat /\ 1 \in 1 .. Len(q)
      /\ t = q[1] /\ t \in Thread /\ t \in Elems(k, "sleep_q")
      /\ \A i, j \in 1 .. Len(q) : q[i] = q[j] => i = j
  <2>1. /\ q \in Seq(Thread) /\ Len(q) \in Nat
        /\ \A i \in 1 .. Len(q) : q[i] \in Thread /\ q[i] \in Elems(k, "sleep_q")
        /\ \A i, j \in 1 .. Len(q) : q[i] = q[j] => i = j
    BY SleepFacts
  <2> HIDE DEF q
  <2>2. 1 \in 1 .. Len(q) /\ Head(q) = q[1]
    <3>1. q # <<>>
      BY DEF q
    <3>2. QED
      BY <2>1, <3>1, EmptySeq
  <2>3. QED
    BY <2>1, <2>2
<1>2. wake_first(k) = r
  BY DEF wake_first, r, k3, k2, k1, t, q
<1>3. q = k.list["sleep_q"]
  OBVIOUS
<1> HIDE DEF t, q
<1>4. /\ k1 \in KernelState /\ ListsOK(k1) /\ OnlyList(k, k1, "sleep_q")
      /\ \E i \in 1 .. Len(q) : q[i] = t /\ k1.list["sleep_q"] = RemoveAt(q, i)
      /\ Elems(k1, "sleep_q") = Elems(k, "sleep_q") \ {t}
  BY <1>0, <1>1, <1>3, RemoveOK
<1>5. k1.list["sleep_q"] = RemoveAt(q, 1)
  BY <1>1, <1>4
<1>6. /\ RemoveAt(q, 1) \in Seq(Thread) /\ Len(RemoveAt(q, 1)) = Len(q) - 1
      /\ \A j \in 1 .. Len(q) - 1 : RemoveAt(q, 1)[j] = q[j + 1]
  <2>1. /\ RemoveAt(q, 1) \in Seq(Thread) /\ Len(RemoveAt(q, 1)) = Len(q) - 1
        /\ \A j \in 1 .. Len(q) - 1 :
             RemoveAt(q, 1)[j] = IF j < 1 THEN q[j] ELSE q[j + 1]
    BY <1>1, RemoveAtFacts
  <2>2. \A j \in 1 .. Len(q) - 1 : ~(j < 1)
    BY <1>1
  <2>3. QED
    BY <2>1, <2>2, Zenon
<1>7. \A l \in List : t \notin Elems(k1, l)
  <2>1. \A l \in List \ {"sleep_q"} : t \notin Elems(k, l)
    BY <1>0, <1>1 DEF ListsOK
  <2>2. QED
    BY <1>4, <2>1 DEF OnlyList
<1>8. Others(k, k1, t)
  BY <1>0, <1>1, <1>4, OnlyListOthers
<1> HIDE DEF k1
<1>9. /\ k2 \in KernelState /\ k2.list = k1.list /\ SameRest(k1, k2)
      /\ k2.tick_to_wake = k1.tick_to_wake /\ k2.rq_list[t] = NULL
      /\ \A u \in Thread \ {t} : k2.rq_list[u] = k1.rq_list[u]
  BY <1>1, <1>4 DEF KernelState, SameRest
<1> HIDE DEF k2
<1>10. ListsOK(k2) /\ \A l \in List : Elems(k2, l) = Elems(k1, l)
  BY <1>4, <1>9 DEF ListsOK, Elems
<1>11. t \notin Queued(k2) /\ Fine(k2) /\ t # Idle
  <2>1. t \notin Queued(k2)
    BY <1>7, <1>10, QueuedElems
  <2>2. Fine(k2)
    BY <1>0, <1>4, <1>9 DEF OnlyList, SameRest, Fine
  <2>3. QED
    BY <1>0, <1>1, <2>1, <2>2 DEF ThreadOK
<1>12. /\ k3 \in KernelState /\ ListsOK(k3) /\ SameRest(k2, k3) /\ Others(k2, k3, t)
       /\ k3.tick_to_wake = k2.tick_to_wake
       /\ k3.list["sleep_q"] = k2.list["sleep_q"]
       /\ \A l \in List : t \in Elems(k3, l) <=> l = RunQueue(t)
       /\ k3.rq_list[t] = ListField(t, RunQueue(t))
  BY <1>1, <1>9, <1>10, <1>11, EnqueueOK
<1> HIDE DEF k3
<1>13. /\ r \in KernelState /\ r.list = k3.list /\ SameRest(k3, r)
       /\ r.rq_list = k3.rq_list /\ r.tick_to_wake[t] = 0
       /\ \A u \in Thread \ {t} : r.tick_to_wake[u] = k3.tick_to_wake[u]
  BY <1>1, <1>12 DEF KernelState, SameRest
<1> HIDE DEF r
<1>14. ListsOK(r) /\ \A l \in List : Elems(r, l) = Elems(k3, l)
  BY <1>12, <1>13 DEF ListsOK, Elems
<1>15. SameRest(k, r)
  BY <1>4, <1>9, <1>12, <1>13 DEF OnlyList, SameRest
<1>16. Others(k, r, t)
  <2>1. Others(k1, k2, t)
    BY <1>9, <1>10 DEF Others, SameRest
  <2>2. Others(k3, r, t)
    BY <1>13, <1>14 DEF Others, SameRest
  <2>3. QED
    BY <1>8, <1>12, <2>1, <2>2 DEF Others
<1>17. /\ RunQueue(t) \in List /\ RunQueue(t) # "sleep_q"
       /\ (RunQueue(t) = "rt_rq" <=> Class[t] = "rt")
  BY <1>1, RunQueueType
<1>18. ThreadOK(r, t)
  <2>1. t \in k.threads /\ t \notin k.freed /\ (t \in k.exit_pending => Class[t] = "rt")
    BY <1>0, <1>1 DEF ThreadOK
  <2>2. \A l \in List : t \in Elems(r, l) <=> l = RunQueue(t)
    BY <1>12, <1>14
  <2>3. r.rq_list[t] = ListField(t, RunQueue(t))
    BY <1>12, <1>13
  <2>4. r.rq_list[t] # NULL => r.rq_list[t] = RunQueue(t)
    BY <1>17, <2>3 DEF ListField
  <2>5. QED
    BY <1>0, <1>11, <1>13, <1>15, <1>17, <2>1, <2>2, <2>3, <2>4
       DEF ThreadOK, SameRest
<1>19. \A u \in Thread : ThreadOK(r, u)
  BY <1>0, <1>1, <1>13, <1>16, <1>18, OthersOK
<1>20. t \in Queued(r)
  BY <1>12, <1>14, <1>17, QueuedElems
<1>21. Fine(r)
  BY <1>0, <1>15 DEF Fine, SameRest
<1>22. r.list["sleep_q"] = RemoveAt(q, 1)
  BY <1>5, <1>9, <1>12, <1>13
<1>23. QED
  BY <1>1, <1>2, <1>3, <1>6, <1>13, <1>14, <1>15, <1>16, <1>19, <1>20, <1>21, <1>22

\* How late the sleepers may be between advance_tick and the end of
\* process_expired_delays: one slice more than LateOK.
LateBefore(k) ==
  \A i \in 1 .. Len(k.list["sleep_q"]) :
    k.tick + (i - 1) * SYSTICK_RVR <=
      k.tick_to_wake[k.list["sleep_q"][i]] + N * SYSTICK_RVR

\* Thread w, and nobody else, leaves the sleep queue, and its time has passed.
Woken(k, r, w) ==
  /\ Elems(r, "sleep_q") \subseteq Elems(k, "sleep_q")
  /\ \A t \in Elems(k, "sleep_q") \ Elems(r, "sleep_q") :
       t = w /\ k.tick_to_wake[t] < k.tick

\* The sleep queue, the freed threads and the clock stay as they are.
SleepersKept(k, r) ==
  /\ r.list["sleep_q"] = k.list["sleep_q"] /\ r.freed = k.freed
  /\ r.tick = k.tick

\* process_expired_delays wakes the first sleeper if its time has passed; every
\* thread stays linked, and the queue is no longer late than before the tick.
LEMMA ExpiredOK ==
  ASSUME NEW k, KernelOK(k), LateBefore(k)
  PROVE  LET r == process_expired_delays(k)
         IN  /\ KernelOK(r) /\ LateOK(r) /\ SameRest(k, r)
             /\ Queued(r) = Queued(k)
             /\ \A t \in Elems(k, "sleep_q") :
                  k.tick <= k.tick_to_wake[t] => t \in Elems(r, "sleep_q")
             /\ \A t \in Thread \ Elems(k, "sleep_q") :
                  r.tick_to_wake[t] = k.tick_to_wake[t]
             /\ \E w \in Thread : Woken(k, r, w)
<1> DEFINE q == k.list["sleep_q"]
           r == process_expired_delays(k)
<1>0. /\ k \in KernelState /\ ListsOK(k) /\ Fine(k) /\ "sleep_q" \in List
      /\ SleepOK(k) /\ \A u \in Thread : ThreadOK(k, u)
  BY DEF KernelOK, List
<1>1. /\ q \in Seq(Thread) /\ Len(q) \in Nat /\ DOMAIN q = 1 .. Len(q)
      /\ k.tick \in Nat /\ k.wake \in Nat
      /\ \A i \in 1 .. Len(q) :
           /\ q[i] \in Thread /\ q[i] \in Elems(k, "sleep_q")
           /\ k.tick_to_wake[q[i]] \in Nat \ {0}
      /\ \A i, j \in 1 .. Len(q) : i < j =>
           k.tick_to_wake[q[i]] <= k.tick_to_wake[q[j]]
      /\ \A i, j \in 1 .. Len(q) : q[i] = q[j] => i = j
  BY SleepFacts
<1>2. q # <<>> => 1 \in 1 .. Len(q) /\ Head(q) = q[1]
  BY <1>1, EmptySeq
<1>3. Len(q) <= N
  BY SleepLen
<1>4. ASSUME q # <<>> => k.tick <= k.tick_to_wake[q[1]] PROVE LateOK(k)
  <2>1. SUFFICES ASSUME NEW i \in 1 .. Len(q)
                 PROVE  k.tick + i * SYSTICK_RVR <=
                          k.tick_to_wake[q[i]] + N * SYSTICK_RVR
    BY <1>1 DEF LateOK, N
  <2>2. q # <<>>
    BY <1>1
  <2>3. k.tick_to_wake[q[1]] <= k.tick_to_wake[q[i]]
    <3>1. CASE i = 1
      BY <1>1, <3>1
    <3>2. CASE i # 1
      BY <1>1, <1>2, <2>2, <3>2
    <3>3. QED
      BY <3>1, <3>2
  <2>4. k.tick <= k.tick_to_wake[q[i]] /\ i <= N /\ i \in Nat
    BY <1>1, <1>2, <1>3, <1>4, <2>2, <2>3, NType
  <2>5. QED
    BY <1>1, <2>4, OnTime
<1>5. CASE k.wake = 0 \/ k.tick < k.wake
  <2>1. r = k
    BY <1>5 DEF process_expired_delays
  <2>2. q # <<>> => k.tick <= k.tick_to_wake[q[1]]
    BY <1>0, <1>1, <1>2, <1>5 DEF SleepOK
  <2>3. LateOK(k)
    BY <1>4, <2>2
  <2>4. SameRest(k, k) /\ Woken(k, k, Idle) /\ Idle \in Thread
    BY ThreadAssumption DEF SameRest, Woken
  <2>5. QED
    BY <2>1, <2>3, <2>4
<1>6. CASE ~(k.wake = 0 \/ k.tick < k.wake) /\ q # <<>> /\ k.tick_to_wake[Head(q)] < k.tick
  <2> DEFINE w == wake_first(k)
  <2>1. r = tick_to_wake_update(w)
    BY <1>6 DEF process_expired_delays
  <2>2. /\ w \in KernelState /\ Fine(w) /\ ListsOK(w) /\ SameRest(k, w)
        /\ \A t \in Thread : ThreadOK(w, t)
        /\ Others(k, w, q[1]) /\ q[1] \in Queued(w)
        /\ w.list["sleep_q"] \in Seq(Thread) /\ Len(w.list["sleep_q"]) = Len(q) - 1
        /\ \A j \in 1 .. Len(q) - 1 : w.list["sleep_q"][j] = q[j + 1]
    BY <1>6, WakeFirstOK
  <2> HIDE DEF w
  <2>3. ASSUME NEW j \in 1 .. Len(q) - 1
        PROVE  /\ j + 1 \in 1 .. Len(q)
               /\ w.tick_to_wake[w.list["sleep_q"][j]] = k.tick_to_wake[q[j + 1]]
    <3>1. j + 1 \in 1 .. Len(q) /\ j + 1 # 1
      BY <1>1
    <3>2. q[j + 1] \in Thread \ {q[1]}
      BY <1>1, <1>2, <1>6, <3>1
    <3>3. QED
      BY <2>2, <3>1, <3>2 DEF Others
  <2>4. \A i, j \in 1 .. Len(w.list["sleep_q"]) : i < j =>
          w.tick_to_wake[w.list["sleep_q"][i]] <= w.tick_to_wake[w.list["sleep_q"][j]]
    <3>1. SUFFICES ASSUME NEW i \in 1 .. Len(q) - 1, NEW j \in 1 .. Len(q) - 1, i < j
                   PROVE  k.tick_to_wake[q[i + 1]] <= k.tick_to_wake[q[j + 1]]
      BY <2>2, <2>3
    <3>2. i + 1 \in 1 .. Len(q) /\ j + 1 \in 1 .. Len(q) /\ i + 1 < j + 1
      BY <1>1, <3>1
    <3>3. QED
      BY <1>1, <3>2
  <2>5. /\ KernelOK(r) /\ SameRest(w, r) /\ r.list = w.list
        /\ r.tick_to_wake = w.tick_to_wake /\ Queued(r) = Queued(w)
    BY <2>1, <2>2, <2>4, UpdateOK
  <2> HIDE DEF r
  <2>6. SameRest(k, r)
    BY <2>2, <2>5 DEF SameRest
  <2>7. Queued(r) = Queued(k)
    <3>1. Queued(w) \subseteq Thread /\ Queued(k) \subseteq Thread
      BY <1>0, <2>2, QueuedElems, ListType
    <3>2. q[1] \in Queued(k)
      BY <1>0, <1>1, <1>2, <1>6, QueuedElems
    <3>3. \A t \in Thread \ {q[1]} : t \in Queued(w) <=> t \in Queued(k)
      BY <2>2, QueuedElems DEF Others
    <3>4. Queued(w) = Queued(k)
      <4>1. q[1] \in Queued(w)
        BY <2>2
      <4>2. ASSUME NEW t PROVE t \in Queued(w) <=> t \in Queued(k)
        <5>1. CASE t = q[1]
          BY <3>2, <4>1, <5>1
        <5>2. CASE t # q[1]
          BY <3>1, <3>3, <5>2
        <5>3. QED
          BY <5>1, <5>2
      <4>3. QED
        BY <4>2
    <3>5. QED
      BY <2>5, <3>4
  <2>8. LateOK(r)
    <3>1. SUFFICES ASSUME NEW i \in 1 .. Len(q) - 1
                   PROVE  k.tick + i * SYSTICK_RVR <=
                            k.tick_to_wake[q[i + 1]] + N * SYSTICK_RVR
      <4>1. DOMAIN r.list["sleep_q"] = 1 .. Len(q) - 1 /\ r.tick = k.tick
        BY <2>2, <2>5, <2>6 DEF SameRest
      <4>2. QED
        BY <2>3, <2>5, <4>1 DEF LateOK, N
    <3>2. i + 1 \in 1 .. Len(q) /\ (i + 1) - 1 = i
      BY <1>1
    <3>3. k.tick + ((i + 1) - 1) * SYSTICK_RVR <=
            k.tick_to_wake[q[i + 1]] + N * SYSTICK_RVR
      BY <3>2 DEF LateBefore
    <3>4. QED
      BY <3>2, <3>3
  <2>9. ASSUME NEW t \in Elems(k, "sleep_q"), k.tick <= k.tick_to_wake[t]
        PROVE  t \in Elems(r, "sleep_q")
    <3>1. t \in Thread /\ t # q[1]
      <4>1. t \in Thread
        BY <1>0, ListType
      <4>2. k.tick_to_wake[q[1]] < k.tick /\ k.tick_to_wake[t] \in Nat
        BY <1>0, <1>2, <1>6, <4>1 DEF KernelState
      <4>3. QED
        BY <1>1, <1>2, <1>6, <2>9, <4>1, <4>2
    <3>2. t \in Elems(w, "sleep_q")
      BY <1>0, <2>2, <3>1 DEF Others
    <3>3. QED
      BY <2>5, <3>2 DEF Elems
  <2>10. ASSUME NEW t \in Thread \ Elems(k, "sleep_q")
         PROVE  r.tick_to_wake[t] = k.tick_to_wake[t]
    <3>1. t # q[1]
      BY <1>1, <1>2, <1>6
    <3>2. QED
      BY <2>2, <2>5, <3>1 DEF Others
  <2>11. Woken(k, r, q[1]) /\ q[1] \in Thread
    <3>1. /\ q[1] \in Elems(k, "sleep_q") /\ q[1] \in Thread
          /\ k.tick_to_wake[q[1]] < k.tick
      BY <1>1, <1>2, <1>6
    <3>2. Elems(r, "sleep_q") = Elems(w, "sleep_q")
      BY <2>5 DEF Elems
    <3>3. Elems(w, "sleep_q") \subseteq Thread /\ Elems(k, "sleep_q") \subseteq Thread
      BY <1>0, <2>2, ListType
    <3>4. \A u \in Thread \ {q[1]} :
            u \in Elems(w, "sleep_q") <=> u \in Elems(k, "sleep_q")
      BY <1>0, <2>2 DEF Others
    <3> HIDE DEF q
    <3>5. QED
      BY <3>1, <3>2, <3>3, <3>4 DEF Woken
  <2>12. QED
    BY <2>5, <2>6, <2>7, <2>8, <2>9, <2>10, <2>11 DEF r
<1>7. CASE ~(k.wake = 0 \/ k.tick < k.wake)
           /\ ~(q # <<>> /\ k.tick_to_wake[Head(q)] < k.tick)
  <2>1. r = tick_to_wake_update(k)
    BY <1>7 DEF process_expired_delays
  <2>2. /\ KernelOK(r) /\ SameRest(k, r) /\ r.list = k.list
        /\ r.tick_to_wake = k.tick_to_wake /\ Queued(r) = Queued(k)
    BY <1>0, <1>1, <2>1, UpdateOK
  <2> HIDE DEF r
  <2>3. q # <<>> => k.tick <= k.tick_to_wake[q[1]]
    BY <1>1, <1>2, <1>7
  <2>4. LateOK(r)
    BY <1>4, <2>2, <2>3 DEF LateOK, SameRest
  <2>5. Elems(r, "sleep_q") = Elems(k, "sleep_q")
    BY <2>2 DEF Elems
  <2>6. Woken(k, r, Idle) /\ Idle \in Thread
    BY <2>5, ThreadAssumption DEF Woken
  <2>7. QED
    BY <2>2, <2>4, <2>5, <2>6 DEF r
<1>8. QED
  BY <1>5, <1>6, <1>7

\* thread_sleep puts the caller, which is in no list, into the sleep queue.
LEMMA EnqueueDelayOK ==
  ASSUME NEW h, KernelOK(h), LateOK(h), NEW t \in Thread \ {Idle},
         t \in h.threads, t \notin Queued(h),
         NEW n \in Nat, h.tick + SYSTICK_RVR <= n
  PROVE  LET r == scheduler_enqueue_delay([h EXCEPT !.tick_to_wake[t] = n], t)
         IN  /\ KernelOK(r) /\ LateOK(r) /\ SameRest(h, r)
             /\ Queued(r) = Queued(h) \cup {t}
             /\ t \in Elems(r, "sleep_q") /\ r.tick_to_wake[t] = n
             /\ Others(h, r, t)
<1> DEFINE k  == [h EXCEPT !.tick_to_wake[t] = n]
           q  == h.list["sleep_q"]
           i  == sleep_position(k, t)
           p  == InsertAt(q, i, t)
           k1 == dlist_insert(k, t, "sleep_q", i)
           k2 == [k1 EXCEPT !.rq_list[t] = "sleep_q"]
           r  == tick_to_wake_update(k2)
<1>0. /\ h \in KernelState /\ ListsOK(h) /\ Fine(h) /\ "sleep_q" \in List
      /\ \A u \in Thread : ThreadOK(h, u)
      /\ h.tick \in Nat /\ SYSTICK_RVR \in Nat \ {0}
  BY ClockAssumption DEF KernelOK, List, KernelState
<1>1. /\ k \in KernelState /\ k.list = h.list /\ SameRest(h, k)
      /\ k.rq_list = h.rq_list /\ k.tick_to_wake[t] = n
      /\ \A u \in Thread \ {t} : k.tick_to_wake[u] = h.tick_to_wake[u]
  BY <1>0 DEF KernelState, SameRest
<1> HIDE DEF k
<1>2. /\ \A l \in List : Elems(k, l) = Elems(h, l)
      /\ ListsOK(k) /\ t \notin Queued(k) /\ Others(h, k, t)
  <2>1. (\A l \in List : Elems(k, l) = Elems(h, l)) /\ ListsOK(k)
    BY <1>0, <1>1 DEF Elems, ListsOK
  <2>2. t \notin Queued(k)
    BY <2>1, QueuedElems
  <2>3. Others(h, k, t)
    BY <1>1, <2>1 DEF Others, SameRest
  <2>4. QED
    BY <2>1, <2>2, <2>3
<1>3. /\ q \in Seq(Thread) /\ Len(q) \in Nat
      /\ \A j \in 1 .. Len(q) :
           /\ q[j] \in Thread /\ q[j] \in Elems(h, "sleep_q")
           /\ h.tick_to_wake[q[j]] \in Nat
      /\ \A x, y \in 1 .. Len(q) : x < y =>
           h.tick_to_wake[q[x]] <= h.tick_to_wake[q[y]]
  BY SleepFacts
<1>4. \A j \in 1 .. Len(q) : /\ q[j] \in Thread \ {t}
                             /\ k.tick_to_wake[q[j]] = h.tick_to_wake[q[j]]
  BY <1>0, <1>1, <1>3, QueuedElems
<1>5. /\ i \in 1 .. Len(q) + 1
      /\ \A j \in 1 .. i - 1 : k.tick_to_wake[q[j]] <= n
      /\ i <= Len(q) => k.tick_to_wake[q[i]] > n
  BY <1>1, PositionExists
<1> HIDE DEF i
<1>6. /\ k1 \in KernelState /\ ListsOK(k1) /\ OnlyList(k, k1, "sleep_q")
      /\ k1.list["sleep_q"] = p
      /\ Elems(k1, "sleep_q") = Elems(k, "sleep_q") \cup {t}
  BY <1>0, <1>1, <1>2, <1>5, InsertOK
<1> HIDE DEF k1, q
<1>7. /\ p \in Seq(Thread) /\ Len(p) = Len(q) + 1
      /\ \A j \in 1 .. Len(q) + 1 :
           p[j] = IF j < i THEN q[j] ELSE IF j = i THEN t ELSE q[j - 1]
  <2>1. q \in Seq(Thread) /\ i \in 1 .. Len(q) + 1 /\ t \in Thread
    BY <1>3, <1>5
  <2>2. p \in Seq(Thread)
    BY <2>1, InsertAtFacts
  <2>3. Len(p) = Len(q) + 1
    BY <2>1, InsertAtFacts
  <2>4. \A j \in 1 .. Len(q) + 1 :
          p[j] = IF j < i THEN q[j] ELSE IF j = i THEN t ELSE q[j - 1]
    BY <2>1, InsertAtFacts
  <2>5. QED
    BY <2>2, <2>3, <2>4
<1> HIDE DEF p
<1>8. /\ k2 \in KernelState /\ k2.list = k1.list /\ SameRest(k1, k2)
      /\ k2.tick_to_wake = k1.tick_to_wake /\ k2.rq_list[t] = "sleep_q"
      /\ \A u \in Thread \ {t} : k2.rq_list[u] = k1.rq_list[u]
  BY <1>0, <1>6 DEF KernelState, SameRest
<1> HIDE DEF k2
<1>9. ListsOK(k2) /\ \A l \in List : Elems(k2, l) = Elems(k1, l)
  BY <1>6, <1>8 DEF ListsOK, Elems
<1>10. SameRest(h, k2) /\ k2.tick_to_wake = k.tick_to_wake /\ Fine(k2) /\ Fine(k1)
  BY <1>0, <1>1, <1>6, <1>8 DEF OnlyList, SameRest, Fine
<1>11. Others(h, k2, t)
  <2>1. Others(k, k1, t)
    BY <1>0, <1>1, <1>6, OnlyListOthers
  <2>2. Others(k1, k2, t)
    BY <1>8, <1>9 DEF Others, SameRest
  <2>3. QED
    BY <1>2, <2>1, <2>2 DEF Others
<1>12. \A l \in List : t \in Elems(k2, l) <=> l = "sleep_q"
  <2>1. \A l \in List : t \notin Elems(k, l)
    BY <1>2, QueuedElems
  <2>2. QED
    BY <1>6, <1>9, <2>1 DEF OnlyList
<1>13. ThreadOK(k2, t)
  <2>1. t \notin h.freed /\ (t \in h.exit_pending => Class[t] = "rt")
    BY <1>0 DEF ThreadOK
  <2>2. n # 0
    BY <1>0
  <2>3. QED
    BY <1>0, <1>1, <1>8, <1>10, <1>12, <2>1, <2>2 DEF ThreadOK, SameRest, ListField
<1>14. \A u \in Thread : ThreadOK(k2, u)
  BY <1>0, <1>8, <1>11, <1>13, OthersOK
<1>15. ASSUME NEW j \in 1 .. Len(q) + 1
       PROVE  /\ k2.tick_to_wake[p[j]] \in Nat
              /\ j < i => /\ j \in 1 .. Len(q)
                          /\ k2.tick_to_wake[p[j]] = h.tick_to_wake[q[j]]
                          /\ k2.tick_to_wake[p[j]] <= n
              /\ j = i => k2.tick_to_wake[p[j]] = n
              /\ j > i => /\ j - 1 \in 1 .. Len(q)
                          /\ k2.tick_to_wake[p[j]] = h.tick_to_wake[q[j - 1]]
                          /\ k2.tick_to_wake[p[j]] > n
  <2>1. CASE j < i
    <3>1. j \in 1 .. Len(q) /\ j \in 1 .. i - 1 /\ p[j] = q[j]
      BY <1>3, <1>5, <1>7, <2>1
    <3>2. k2.tick_to_wake[p[j]] = h.tick_to_wake[q[j]]
      BY <1>4, <1>10, <3>1
    <3>3. h.tick_to_wake[q[j]] <= n
      BY <1>4, <1>5, <3>1
    <3>4. QED
      BY <1>3, <1>5, <2>1, <3>1, <3>2, <3>3
  <2>2. CASE j = i
    BY <1>1, <1>5, <1>7, <1>10, <2>2
  <2>3. CASE j > i
    <3>1. /\ j - 1 \in 1 .. Len(q) /\ p[j] = q[j - 1]
          /\ i \in 1 .. Len(q) /\ i <= Len(q) /\ (i = j - 1 \/ i < j - 1)
      BY <1>3, <1>5, <1>7, <2>3
    <3>2. k2.tick_to_wake[p[j]] = h.tick_to_wake[q[j - 1]]
      BY <1>4, <1>10, <3>1
    <3>3. h.tick_to_wake[q[i]] > n
      BY <1>4, <1>5, <3>1
    <3>4. h.tick_to_wake[q[i]] <= h.tick_to_wake[q[j - 1]]
      BY <1>3, <3>1
    <3>5. h.tick_to_wake[q[j - 1]] > n
      BY <1>3, <3>1, <3>3, <3>4
    <3>6. QED
      BY <1>3, <1>5, <2>3, <3>1, <3>2, <3>5
  <2>4. QED
    BY <1>5, <2>1, <2>2, <2>3
<1>16. k2.list["sleep_q"] = p
  BY <1>6, <1>8
<1>17. \A x, y \in 1 .. Len(k2.list["sleep_q"]) : x < y =>
         k2.tick_to_wake[k2.list["sleep_q"][x]] <= k2.tick_to_wake[k2.list["sleep_q"][y]]
  <2>1. SUFFICES ASSUME NEW x \in 1 .. Len(q) + 1, NEW y \in 1 .. Len(q) + 1, x < y
                 PROVE  k2.tick_to_wake[p[x]] <= k2.tick_to_wake[p[y]]
    BY <1>7, <1>16
  <2>2. CASE x < i /\ y < i
    <3>1. x \in 1 .. Len(q) /\ y \in 1 .. Len(q)
      BY <1>15, <2>2
    <3>2. h.tick_to_wake[q[x]] <= h.tick_to_wake[q[y]]
      BY <1>3, <2>1, <3>1
    <3>3. QED
      BY <1>5, <1>15, <2>2, <3>2
  <2>3. CASE x > i
    <3>1. /\ x - 1 \in 1 .. Len(q) /\ y - 1 \in 1 .. Len(q) /\ x - 1 < y - 1
          /\ y > i
      BY <1>3, <1>5, <2>1, <2>3
    <3>2. h.tick_to_wake[q[x - 1]] <= h.tick_to_wake[q[y - 1]]
      BY <1>3, <3>1
    <3>3. QED
      BY <1>5, <1>15, <2>3, <3>1, <3>2
  <2>4. CASE x <= i /\ y >= i
    <3>1. /\ k2.tick_to_wake[p[x]] <= n /\ k2.tick_to_wake[p[x]] \in Nat
      BY <1>5, <1>15, <2>4
    <3>2. /\ n <= k2.tick_to_wake[p[y]] /\ k2.tick_to_wake[p[y]] \in Nat
      BY <1>5, <1>15, <2>4
    <3>3. QED
      BY <3>1, <3>2
  <2>5. QED
    BY <1>5, <2>1, <2>2, <2>3, <2>4
<1>18. /\ KernelOK(r) /\ SameRest(k2, r) /\ r.list = k2.list
       /\ r.tick_to_wake = k2.tick_to_wake /\ r.rq_list = k2.rq_list
       /\ Queued(r) = Queued(k2)
  BY <1>8, <1>9, <1>10, <1>14, <1>17, UpdateOK
<1>19. scheduler_enqueue_delay(k, t) = r
  BY <1>1, <1>10 DEF scheduler_enqueue_delay, k1, k2, i
<1> HIDE DEF r
<1>20. LateOK(r)
  <2>1. Len(q) + 1 <= N
    BY <1>7, <1>16, <1>18, SleepLen
  <2>2. r.tick = h.tick /\ DOMAIN r.list["sleep_q"] = 1 .. Len(q) + 1
    BY <1>7, <1>10, <1>16, <1>18 DEF SameRest
  <2>3. SUFFICES ASSUME NEW j \in 1 .. Len(q) + 1
                 PROVE  h.tick + j * SYSTICK_RVR <=
                          k2.tick_to_wake[p[j]] + N * SYSTICK_RVR
    BY <1>16, <1>18, <2>2 DEF LateOK, N
  <2>4. CASE j < i
    <3>1. j \in 1 .. Len(q) /\ k2.tick_to_wake[p[j]] = h.tick_to_wake[q[j]]
      BY <1>5, <1>15, <2>4
    <3>2. h.tick + j * SYSTICK_RVR <= h.tick_to_wake[q[j]] + N * SYSTICK_RVR
      <4>1. DOMAIN h.list["sleep_q"] = 1 .. Len(q)
        BY <1>3 DEF q
      <4>2. QED
        BY <3>1, <4>1 DEF LateOK, N, q
    <3>3. QED
      BY <3>1, <3>2
  <2>5. CASE j >= i
    <3>1. k2.tick_to_wake[p[j]] \in Nat /\ n <= k2.tick_to_wake[p[j]]
      BY <1>5, <1>15, <2>5
    <3>2. h.tick <= k2.tick_to_wake[p[j]] /\ j \in Nat /\ j <= N
      BY <1>0, <1>3, <2>1, <3>1, NType
    <3>3. QED
      BY <1>0, <3>1, <3>2, OnTime
  <2>6. QED
    BY <1>5, <2>4, <2>5
<1>21. Queued(r) = Queued(h) \cup {t}
  <2>1. ASSUME NEW u \in Thread PROVE u \in Queued(k2) <=> u \in Queued(h) \cup {t}
    <3>1. CASE u = t
      BY <1>0, <1>12, <3>1, QueuedElems
    <3>2. CASE u # t
      BY <1>11, <3>2, QueuedElems DEF Others
    <3>3. QED
      BY <3>1, <3>2
  <2>2. Queued(k2) \subseteq Thread /\ Queued(h) \subseteq Thread
    BY <1>0, <1>8, QueuedElems, ListType
  <2>3. QED
    BY <1>18, <2>1, <2>2
<1>22. t \in Elems(r, "sleep_q") /\ r.tick_to_wake[t] = n /\ SameRest(h, r)
  BY <1>0, <1>1, <1>10, <1>12, <1>18 DEF Elems, SameRest
<1>23. Others(h, r, t)
  <2>1. \A l \in List : Elems(r, l) = Elems(k2, l)
    BY <1>18 DEF Elems
  <2>2. Others(k2, r, t)
    BY <1>18, <2>1 DEF Others, SameRest
  <2>3. QED
    BY <1>11, <2>2 DEF Others
<1>24. QED
  BY <1>18, <1>19, <1>20, <1>21, <1>22, <1>23 DEF k

-----------------------------------------------------------------------------
(* The SysTick handler                                                      *)

\* Dropping one position of the sleep queue leaves it sorted and nobody later.
LEMMA DropSleeper ==
  ASSUME NEW k, KernelOK(k), LateOK(k), NEW r \in KernelState,
         r.tick = k.tick, r.wake = k.wake,
         NEW i \in 1 .. Len(k.list["sleep_q"]),
         r.list["sleep_q"] = RemoveAt(k.list["sleep_q"], i),
         \A j \in 1 .. Len(k.list["sleep_q"]) : j # i =>
           r.tick_to_wake[k.list["sleep_q"][j]] = k.tick_to_wake[k.list["sleep_q"][j]]
  PROVE  SleepOK(r) /\ LateOK(r)
<1> DEFINE q == k.list["sleep_q"]
           p == r.list["sleep_q"]
           f(j) == IF j < i THEN j ELSE j + 1
<1>1. /\ q \in Seq(Thread) /\ Len(q) \in Nat /\ DOMAIN q = 1 .. Len(q)
      /\ k.tick \in Nat /\ k.wake \in Nat
      /\ \A j \in 1 .. Len(q) : k.tick_to_wake[q[j]] \in Nat \ {0}
      /\ \A x, y \in 1 .. Len(q) : x < y =>
           k.tick_to_wake[q[x]] <= k.tick_to_wake[q[y]]
  BY SleepFacts
<1>2. /\ i \in 1 .. Len(q) /\ p = RemoveAt(q, i)
      /\ \A j \in 1 .. Len(q) : j # i => r.tick_to_wake[q[j]] = k.tick_to_wake[q[j]]
  OBVIOUS
<1>3. /\ q # <<>> => k.wake # 0 /\ k.wake <= k.tick_to_wake[q[1]]
      /\ \A j \in 1 .. Len(q) :
           k.tick + j * SYSTICK_RVR <= k.tick_to_wake[q[j]] + N * SYSTICK_RVR
  BY <1>1 DEF KernelOK, SleepOK, LateOK, N
<1> HIDE DEF q
<1>4. /\ p \in Seq(Thread) /\ Len(p) = Len(q) - 1
      /\ \A j \in 1 .. Len(q) - 1 : p[j] = IF j < i THEN q[j] ELSE q[j + 1]
  <2>1. /\ RemoveAt(q, i) \in Seq(Thread) /\ Len(RemoveAt(q, i)) = Len(q) - 1
        /\ \A j \in 1 .. Len(q) - 1 :
             RemoveAt(q, i)[j] = IF j < i THEN q[j] ELSE q[j + 1]
    <3>1. q \in Seq(Thread) /\ i \in 1 .. Len(q)
      BY <1>1, <1>2
    <3>2. QED
      BY <3>1, RemoveAtFacts, Zenon
  <2> HIDE DEF p
  <2>2. QED
    BY <1>2, <2>1
<1>5. DOMAIN p = 1 .. Len(q) - 1
  BY <1>1, <1>4
<1> HIDE DEF p
<1>6. ASSUME NEW j \in 1 .. Len(q) - 1
      PROVE  /\ f(j) \in 1 .. Len(q) /\ j <= f(j)
             /\ r.tick_to_wake[p[j]] = k.tick_to_wake[q[f(j)]]
  <2>1. f(j) \in 1 .. Len(q) /\ f(j) # i /\ j <= f(j)
    BY <1>1, <1>2
  <2>2. p[j] = q[f(j)]
    BY <1>4
  <2> HIDE DEF f
  <2>3. QED
    BY <1>2, <2>1, <2>2
<1>7. \A x, y \in 1 .. Len(q) - 1 : x < y => f(x) < f(y)
  BY <1>1, <1>2
<1> HIDE DEF f
<1>8. \A x, y \in 1 .. Len(q) - 1 : x < y =>
        r.tick_to_wake[p[x]] <= r.tick_to_wake[p[y]]
  BY <1>1, <1>6, <1>7, ZenonT(40)
<1>9. ASSUME p # <<>> PROVE r.wake # 0 /\ r.wake <= r.tick_to_wake[p[1]]
  <2>1. 1 \in 1 .. Len(q) - 1 /\ 1 \in 1 .. Len(q) /\ q # <<>>
    BY <1>1, <1>4, <1>9, EmptySeq
  <2>2. f(1) \in 1 .. Len(q) /\ (f(1) = 1 \/ 1 < f(1))
    BY <1>1, <1>6, <2>1
  <2>3. k.tick_to_wake[q[1]] <= k.tick_to_wake[q[f(1)]]
    BY <1>1, <2>1, <2>2
  <2>4. k.wake # 0 /\ k.wake <= k.tick_to_wake[q[1]]
    BY <1>3, <2>1
  <2>5. k.wake <= k.tick_to_wake[q[f(1)]]
    BY <1>1, <2>1, <2>2, <2>3, <2>4
  <2>6. QED
    BY <1>6, <2>1, <2>4, <2>5
<1>10. SleepOK(r)
  BY <1>5, <1>8, <1>9 DEF SleepOK, p
<1>11. ASSUME NEW j \in 1 .. Len(q) - 1
       PROVE  k.tick + j * SYSTICK_RVR <= r.tick_to_wake[p[j]] + N * SYSTICK_RVR
  <2>1. f(j) \in 1 .. Len(q) /\ f(j) \in Nat /\ j \in Nat /\ j <= f(j)
    BY <1>1, <1>6
  <2>2. k.tick + f(j) * SYSTICK_RVR <= k.tick_to_wake[q[f(j)]] + N * SYSTICK_RVR
    BY <1>3, <2>1
  <2>3. /\ j * SYSTICK_RVR <= f(j) * SYSTICK_RVR
        /\ j * SYSTICK_RVR \in Nat /\ f(j) * SYSTICK_RVR \in Nat
        /\ N * SYSTICK_RVR \in Nat
    <3>1. ASSUME NEW m \in Nat, j <= m
          PROVE  /\ j * SYSTICK_RVR <= m * SYSTICK_RVR
                 /\ j * SYSTICK_RVR \in Nat /\ m * SYSTICK_RVR \in Nat
      BY <2>1, <3>1, Slices
    <3>2. ASSUME NEW m \in Nat PROVE m * SYSTICK_RVR \in Nat
      BY m <= m, Slices
    <3>3. N * SYSTICK_RVR \in Nat
      BY <3>2, NType
    <3>4. QED
      BY <2>1, <3>1, <3>3
  <2>4. k.tick_to_wake[q[f(j)]] \in Nat
    BY <1>1, <2>1
  <2>5. QED
    BY <1>1, <1>6, <2>2, <2>3, <2>4, SMTT(20)
<1>12. LateOK(r)
  BY <1>5, <1>11 DEF LateOK, N, p
<1>13. QED
  BY <1>10, <1>12

\* scheduler_remove_thread finds the exiting thread in the one list it is in.
LEMMA RemoveThreadOK ==
  ASSUME NEW k, KernelOK(k), LateOK(k), k.curr \in Thread,
         k.curr \in k.threads, k.curr \in k.exit_pending, k.curr \in Queued(k)
  PROVE  LET r == scheduler_remove_thread(k)
         IN  /\ KernelOK(r) /\ LateOK(r)
             /\ r.threads = k.threads \ {k.curr} /\ r.idle = k.idle
             /\ k.curr # Idle /\ Queued(r) = Queued(k) \ {k.curr}
             /\ r.freed = k.freed \cup {k.curr} /\ r.tick = k.tick
             /\ \A m \in List : Elems(r, m) = Elems(k, m) \ {k.curr}
<1> DEFINE t  == k.curr
           k1 == [k EXCEPT !.threads = @ \ {t}]
           l  == k.rq_list[t]
           k2 == dlist_remove(k1, t, l)
           r  == [k2 EXCEPT !.freed = @ \cup {t}, !.curr = NULL]
<1>0. /\ k \in KernelState /\ ListsOK(k) /\ Fine(k) /\ "sleep_q" \in List
      /\ SleepOK(k) /\ \A u \in Thread : ThreadOK(k, u)
  BY DEF KernelOK, List
<1>1. Class[t] = "rt" /\ t # Idle
  <2>1. Class[t] = "rt"
    BY <1>0 DEF ThreadOK
  <2>2. QED
    BY <2>1, ThreadAssumption
<1>2. /\ l \in {"rt_rq", "sleep_q"} /\ l \in List /\ t \in Elems(k, l)
      /\ \A m \in List \ {l} : t \notin Elems(k, m)
  <2>1. PICK m \in List : t \in Elems(k, m)
    BY QueuedElems
  <2>2. m \in {RunQueue(t), "sleep_q"} /\ l = ListField(t, m)
    BY <1>0, <2>1 DEF ThreadOK
  <2>3. RunQueue(t) = "rt_rq"
    BY <1>1, RunQueueType
  <2>4. l = m /\ m \in {"rt_rq", "sleep_q"}
    BY <1>1, <2>2, <2>3 DEF ListField
  <2>5. QED
    BY <1>0, <2>1, <2>4 DEF ListsOK
<1>3. /\ k1 \in KernelState /\ k1.list = k.list /\ k1.rq_list = k.rq_list
      /\ k1.tick_to_wake = k.tick_to_wake /\ k1.wake = k.wake
      /\ k1.threads = k.threads \ {t}
      /\ k1.exit_pending = k.exit_pending /\ k1.freed = k.freed
      /\ k1.idle = k.idle /\ k1.tick = k.tick /\ k1.curr = k.curr
      /\ k1.panic = k.panic
  BY <1>0 DEF KernelState
<1> HIDE DEF k1
<1>4. ListsOK(k1) /\ \A m \in List : Elems(k1, m) = Elems(k, m)
  BY <1>0, <1>3 DEF ListsOK, Elems
<1>5. /\ k2 \in KernelState /\ ListsOK(k2) /\ OnlyList(k1, k2, l)
      /\ \E i \in 1 .. Len(k1.list[l]) :
           k1.list[l][i] = t /\ k2.list[l] = RemoveAt(k1.list[l], i)
      /\ Elems(k2, l) = Elems(k1, l) \ {t}
  BY <1>2, <1>3, <1>4, RemoveOK
<1> HIDE DEF k2
<1>6. \A m \in List : t \notin Elems(k2, m)
  BY <1>2, <1>4, <1>5 DEF OnlyList
<1>7. ~Linked(k2, t) /\ Fine(k2)
  <2>1. ~Linked(k2, t)
    BY <1>6 DEF Linked, Elems
  <2>2. QED
    BY <1>0, <1>3, <1>5, <2>1 DEF OnlyList, SameRest, Fine
<1>8. scheduler_remove_thread(k) = r
  <2>1. k1.rq_list[t] # NULL
    BY <1>2, <1>3, ThreadAssumption
  <2>2. k1 = IF t \in k.threads THEN [k EXCEPT !.threads = @ \ {t}]
             ELSE Panic(k, "fault")
    BY DEF k1
  <2>3. k2 = IF k1.rq_list[t] = NULL THEN k1 ELSE dlist_remove(k1, t, k1.rq_list[t])
    BY <1>3, <2>1 DEF k2
  <2>4. scheduler_remove_thread(k) =
          IF ~Fine(k2) THEN k2
          ELSE IF Linked(k2, k.curr) THEN Panic(k2, "Exiting thread exist in a list")
          ELSE [k2 EXCEPT !.freed = @ \cup {k.curr}, !.curr = NULL]
    BY <2>2, <2>3 DEF scheduler_remove_thread
  <2>5. QED
    BY <1>7, <2>4
<1>9. /\ r \in KernelState /\ r.list = k2.list /\ r.rq_list = k2.rq_list
      /\ r.tick_to_wake = k2.tick_to_wake /\ r.wake = k2.wake
      /\ r.threads = k2.threads /\ r.freed = k2.freed \cup {t}
      /\ r.exit_pending = k2.exit_pending /\ r.idle = k2.idle
      /\ r.tick = k2.tick /\ r.panic = k2.panic
  BY <1>5 DEF KernelState
<1> HIDE DEF r
<1>10. ListsOK(r) /\ \A m \in List : Elems(r, m) = Elems(k2, m)
  BY <1>5, <1>9 DEF ListsOK, Elems
<1>11. /\ t \notin Queued(r) /\ Queued(r) = Queued(k) \ {t}
       /\ \A m \in List : Elems(r, m) = Elems(k, m) \ {t}
  <2>1. \A m \in List : Elems(r, m) = Elems(k, m) \ {t}
    <3>1. ASSUME NEW m \in List PROVE Elems(r, m) = Elems(k, m) \ {t}
      <4>1. CASE m = l
        BY <1>4, <1>5, <1>10, <4>1
      <4>2. CASE m # l
        BY <1>2, <1>4, <1>5, <1>10, <4>2 DEF OnlyList
      <4>3. QED
        BY <4>1, <4>2
    <3>2. QED
      BY <3>1
  <2>2. ASSUME NEW u PROVE u \in Queued(r) <=> u \in Queued(k) \ {t}
    BY <2>1, QueuedElems
  <2>3. QED
    BY <2>1, <2>2
<1>12. r.threads = k.threads \ {t} /\ r.idle = k.idle /\ r.tick = k.tick /\ r.wake = k.wake
       /\ r.tick_to_wake = k.tick_to_wake /\ r.freed = k.freed \cup {t} /\ Fine(r)
  BY <1>0, <1>3, <1>5, <1>9 DEF OnlyList, SameRest, Fine
<1>13. Others(k, r, t)
  <2>1. Others(k1, k2, t)
    BY <1>2, <1>3, <1>5, OnlyListOthers
  <2>2. Others(k, k1, t)
    BY <1>3, <1>4 DEF Others
  <2>3. Others(k2, r, t)
    BY <1>9, <1>10 DEF Others
  <2>4. QED
    BY <2>1, <2>2, <2>3 DEF Others
<1>14. ThreadOK(r, t)
  BY <1>0, <1>6, <1>10, <1>11, <1>12 DEF ThreadOK
<1>15. \A u \in Thread : ThreadOK(r, u)
  BY <1>0, <1>9, <1>13, <1>14, OthersOK
<1>16. SleepOK(r) /\ LateOK(r)
  <2>1. CASE l = "sleep_q"
    <3>1. PICK i \in 1 .. Len(k.list["sleep_q"]) :
            r.list["sleep_q"] = RemoveAt(k.list["sleep_q"], i)
      BY <1>3, <1>5, <1>9, <2>1
    <3>2. QED
      BY <1>9, <1>12, <3>1, DropSleeper
  <2>2. CASE l # "sleep_q"
    <3>1. r.list["sleep_q"] = k.list["sleep_q"]
      BY <1>0, <1>3, <1>5, <1>9, <2>2 DEF OnlyList
    <3>2. QED
      BY <1>0, <1>12, <3>1 DEF SleepOK, LateOK
  <2>3. QED
    BY <2>1, <2>2
<1>17. QED
  BY <1>1, <1>8, <1>9, <1>10, <1>11, <1>12, <1>15, <1>16 DEF KernelOK

\* The thread that is picked leaves its run queue and is in no other list.
LEMMA PickOK ==
  ASSUME NEW k, KernelOK(k), LateOK(k),
         NEW l \in {"rt_rq", "app_rq", "background_rq"}, k.list[l] # <<>>,
         Queued(k) \subseteq k.threads
  PROVE  LET r == pick_thread(k, l)
         IN  /\ KernelOK(r) /\ LateOK(r)
             /\ r.threads = k.threads /\ r.idle = k.idle
             /\ r.next \in k.threads /\ RunQueue(r.next) = l /\ r.next # Idle
             /\ r.next \in Queued(k) /\ Queued(r) = Queued(k) \ {r.next}
             /\ \A m \in List \ {l} : r.list[m] = k.list[m]
             /\ SleepersKept(k, r)
<1> DEFINE t == Head(k.list[l])
           r == pick_thread(k, l)
<1>0. /\ k \in KernelState /\ ListsOK(k) /\ Fine(k) /\ "sleep_q" \in List
      /\ SleepOK(k) /\ \A u \in Thread : ThreadOK(k, u)
      /\ l \in List /\ l # "sleep_q"
  BY DEF KernelOK, List
<1>1. /\ t \in Thread /\ t \in Elems(k, l) /\ Tail(k.list[l]) \in Seq(Thread)
      /\ Range(Tail(k.list[l])) = Elems(k, l) \ {t}
      /\ IsInjective(Tail(k.list[l]))
  <2>1. k.list[l] \in Seq(Thread) /\ IsInjective(k.list[l])
    BY <1>0, ListType DEF ListsOK
  <2>2. QED
    BY <2>1, TailRange DEF Elems
<1> HIDE DEF t
<1>2. /\ r \in KernelState /\ r.list[l] = Tail(k.list[l])
      /\ (\A m \in List \ {l} : r.list[m] = k.list[m])
      /\ r.next = t /\ r.tick_to_wake = k.tick_to_wake /\ r.wake = k.wake
      /\ r.rq_list[t] = (IF l = "rt_rq" THEN NULL ELSE k.rq_list[t])
      /\ (\A u \in Thread \ {t} : r.rq_list[u] = k.rq_list[u])
      /\ r.threads = k.threads /\ r.freed = k.freed
      /\ r.exit_pending = k.exit_pending /\ r.idle = k.idle
      /\ r.tick = k.tick /\ r.panic = k.panic
  <2>1. r = [k EXCEPT !.list[l] = Tail(@), !.next = t,
                      !.rq_list[t] = IF l = "rt_rq" THEN NULL ELSE @]
    BY DEF pick_thread, t
  <2> HIDE DEF r
  <2>2. r \in KernelState
    BY <1>0, <1>1, <2>1 DEF KernelState
  <2>3. /\ k.list \in [List -> Seq(Thread)]
        /\ k.rq_list \in [Thread -> List \cup {NULL}]
    BY <1>0 DEF KernelState
  <2>4. r.list = [k.list EXCEPT ![l] = Tail(@)]
    BY <1>0, <2>1 DEF KernelState
  <2>5. r.list[l] = Tail(k.list[l]) /\ \A m \in List \ {l} : r.list[m] = k.list[m]
    BY <1>0, <2>3, <2>4
  <2>6. r.rq_list = [k.rq_list EXCEPT ![t] = IF l = "rt_rq" THEN NULL ELSE @]
    BY <1>0, <2>1 DEF KernelState
  <2>7. /\ r.rq_list[t] = (IF l = "rt_rq" THEN NULL ELSE k.rq_list[t])
        /\ \A u \in Thread \ {t} : r.rq_list[u] = k.rq_list[u]
    BY <1>1, <2>3, <2>6
  <2>8. /\ r.next = t /\ r.tick_to_wake = k.tick_to_wake /\ r.wake = k.wake
        /\ r.threads = k.threads /\ r.freed = k.freed
        /\ r.exit_pending = k.exit_pending /\ r.idle = k.idle
        /\ r.tick = k.tick /\ r.panic = k.panic
    BY <1>0, <2>1 DEF KernelState
  <2>9. QED
    BY <2>2, <2>5, <2>7, <2>8
<1> HIDE DEF r
<1>3. /\ Elems(r, l) = Elems(k, l) \ {t}
      /\ \A m \in List \ {l} : Elems(r, m) = Elems(k, m) /\ t \notin Elems(k, m)
  BY <1>0, <1>1, <1>2 DEF Elems, ListsOK
<1>4. ListsOK(r)
  <2>1. ASSUME NEW m \in List
        PROVE  IsInjective(r.list[m]) /\ Elems(r, m) \subseteq Elems(k, m)
    BY <1>0, <1>1, <1>2, <1>3 DEF ListsOK
  <2>2. QED
    BY <1>0, <2>1 DEF ListsOK
<1>5. /\ t \in k.threads /\ t # Idle /\ RunQueue(t) = l /\ k.rq_list[t] = ListField(t, l)
      /\ t \in Queued(k)
  <2>1. t # Idle /\ l \in {RunQueue(t), "sleep_q"} /\ k.rq_list[t] = ListField(t, l)
    BY <1>0, <1>1 DEF ThreadOK
  <2>2. t \in Queued(k)
    BY <1>0, <1>1, QueuedElems
  <2>3. QED
    BY <1>0, <2>1, <2>2
<1>6. r.rq_list[t] = NULL
  <2>1. l # "rt_rq" => Class[t] # "rt"
    BY <1>1, <1>5, RunQueueType
  <2>2. QED
    BY <1>0, <1>2, <1>5, <2>1 DEF ListField
<1>7. \A m \in List : t \notin Elems(r, m)
  BY <1>3
<1>8. Queued(r) = Queued(k) \ {t}
  <2>1. ASSUME NEW u PROVE u \in Queued(r) <=> u \in Queued(k) \ {t}
    <3>1. \A m \in List : u \in Elems(r, m) <=> u \in Elems(k, m) \ {t}
      BY <1>3
    <3>2. QED
      BY <3>1, QueuedElems
  <2>2. QED
    BY <2>1
<1>9. Others(k, r, t)
  <2>1. ASSUME NEW u \in Thread \ {t}, NEW m \in List
        PROVE  u \in Elems(r, m) <=> u \in Elems(k, m)
    BY <1>3
  <2>2. QED
    BY <1>2, <2>1 DEF Others
<1>10. ThreadOK(r, t)
  <2>1. /\ k.tick_to_wake[t] = 0 /\ t \notin k.freed
        /\ t \in k.exit_pending => Class[t] = "rt"
    BY <1>0, <1>1, <1>3, <1>5 DEF ThreadOK
  <2>2. QED
    BY <1>0, <1>2, <1>6, <1>7, <2>1 DEF ThreadOK
<1>11. \A u \in Thread : ThreadOK(r, u)
  BY <1>0, <1>1, <1>2, <1>9, <1>10, OthersOK
<1>12. SleepOK(r) /\ LateOK(r) /\ Fine(r) /\ SleepersKept(k, r)
  <2>1. r.list["sleep_q"] = k.list["sleep_q"]
    BY <1>0, <1>2
  <2>2. QED
    BY <1>0, <1>2, <2>1 DEF SleepOK, LateOK, Fine, SleepersKept
<1>13. QED
  BY <1>2, <1>4, <1>5, <1>8, <1>11, <1>12 DEF KernelOK, r

\* next_thread is of the highest class that has a thread ready.
Urgent(k) ==
  /\ Class[k.next] # "rt" => k.list["rt_rq"] = <<>>
  /\ Class[k.next] \in {"background", "idle"} => k.list["app_rq"] = <<>>
  /\ Class[k.next] = "idle" => k.list["background_rq"] = <<>>

\* core_scheduler picks a thread of the highest class that has one ready, takes
\* it off its queue and leaves every other thread linked.
LEMMA CoreOK ==
  ASSUME NEW k, KernelOK(k), LateOK(k), k.idle = Idle, Idle \in k.threads,
         Queued(k) \subseteq k.threads, LinkedExcept(k, {})
  PROVE  LET r == core_scheduler(k)
         IN  /\ KernelOK(r) /\ LateOK(r) /\ r.threads = k.threads /\ r.idle = Idle
             /\ r.next \in k.threads /\ Queued(r) \subseteq k.threads
             /\ LinkedExcept(r, {r.next}) /\ Urgent(r) /\ SleepersKept(k, r)
<1> DEFINE Good(r) ==
             /\ KernelOK(r) /\ LateOK(r) /\ r.threads = k.threads /\ r.idle = Idle
             /\ r.next \in k.threads /\ Queued(r) \subseteq k.threads
             /\ LinkedExcept(r, {r.next}) /\ Urgent(r) /\ SleepersKept(k, r)
<1>0. /\ k \in KernelState /\ Fine(k) /\ k.threads \subseteq Thread /\ NULL # Idle
      /\ SleepOK(k) /\ \A u \in Thread : ThreadOK(k, u)
      /\ {"rt_rq", "app_rq", "background_rq"} \subseteq List
  BY ThreadAssumption DEF KernelOK, KernelState, List
<1>1. ASSUME NEW l \in {"rt_rq", "app_rq", "background_rq"}, k.list[l] # <<>>,
             l # "rt_rq" => k.list["rt_rq"] = <<>>,
             l = "background_rq" => k.list["app_rq"] = <<>>
      PROVE  Good(pick_thread(k, l))
  <2> DEFINE r == pick_thread(k, l)
  <2>1. /\ KernelOK(r) /\ LateOK(r)
        /\ r.threads = k.threads /\ r.idle = k.idle
        /\ r.next \in k.threads /\ RunQueue(r.next) = l /\ r.next # Idle
        /\ r.next \in Queued(k) /\ Queued(r) = Queued(k) \ {r.next}
        /\ \A m \in List \ {l} : r.list[m] = k.list[m]
        /\ SleepersKept(k, r)
    BY <1>1, PickOK
  <2> HIDE DEF r
  <2>2. LinkedExcept(r, {r.next})
    BY <2>1 DEF LinkedExcept
  <2>3. Class[r.next] \in Classes /\ Class[r.next] # "idle"
    BY <1>0, <2>1, ThreadAssumption
  <2>4. /\ Class[r.next] = "rt" => l = "rt_rq"
        /\ Class[r.next] = "app" => l = "app_rq"
        /\ Class[r.next] = "background" => l = "background_rq"
    BY <2>1 DEF RunQueue
  <2>5. /\ l = "rt_rq" => Class[r.next] = "rt"
        /\ l = "app_rq" => Class[r.next] = "app"
    BY <2>3, <2>4 DEF Classes
  <2>6. Urgent(r)
    <3>1. CASE l = "rt_rq"
      BY <2>5, <3>1 DEF Urgent
    <3>2. CASE l = "app_rq"
      BY <1>0, <1>1, <2>1, <2>5, <3>2 DEF Urgent
    <3>3. CASE l = "background_rq"
      BY <1>0, <1>1, <2>1, <2>3, <3>3 DEF Urgent
    <3>4. QED
      BY <3>1, <3>2, <3>3
  <2>7. Good(r)
    BY <2>1, <2>2, <2>6
  <2>8. QED
    BY <2>7 DEF r
<1>2. ASSUME k.list["rt_rq"] = <<>>, k.list["app_rq"] = <<>>,
             k.list["background_rq"] = <<>>
      PROVE  Good([k EXCEPT !.next = k.idle])
  <2> DEFINE r == [k EXCEPT !.next = k.idle]
  <2>1. /\ r \in KernelState /\ r.list = k.list /\ r.rq_list = k.rq_list
        /\ r.tick_to_wake = k.tick_to_wake /\ r.wake = k.wake
        /\ r.threads = k.threads /\ r.freed = k.freed
        /\ r.exit_pending = k.exit_pending /\ r.idle = k.idle
        /\ r.tick = k.tick /\ r.panic = k.panic /\ r.next = Idle
    BY <1>0, ThreadAssumption DEF KernelState
  <2> HIDE DEF r
  <2>2. \A m : Elems(r, m) = Elems(k, m)
    BY <2>1 DEF Elems
  <2>3. Queued(r) = Queued(k)
    BY <2>1 DEF Queued
  <2>4. ListsOK(r) /\ SleepOK(r) /\ LateOK(r) /\ Fine(r)
    BY <1>0, <2>1, <2>2 DEF KernelOK, ListsOK, SleepOK, LateOK, Fine
  <2>5. ASSUME NEW u \in Thread PROVE ThreadOK(r, u)
    <3>1. ThreadOK(k, u)
      BY <1>0
    <3>2. QED
      BY <2>1, <2>2, <2>3, <3>1 DEF ThreadOK
  <2>6. LinkedExcept(r, {r.next})
    BY <2>1, <2>3 DEF LinkedExcept
  <2>7. Urgent(r) /\ SleepersKept(k, r)
    BY <1>2, <2>1 DEF Urgent, SleepersKept
  <2>8. QED
    BY <2>1, <2>3, <2>4, <2>5, <2>6, <2>7 DEF KernelOK, r
<1> HIDE DEF Good
<1>3. CASE k.list["rt_rq"] # <<>>
  <2>1. core_scheduler(k) = pick_thread(k, "rt_rq")
    BY <1>3 DEF core_scheduler
  <2>2. Good(pick_thread(k, "rt_rq"))
    BY <1>1, <1>3
  <2>3. QED
    BY <2>1, <2>2 DEF Good
<1>4. CASE k.list["rt_rq"] = <<>> /\ k.list["app_rq"] # <<>>
  <2>1. core_scheduler(k) = pick_thread(k, "app_rq")
    BY <1>4 DEF core_scheduler
  <2>2. Good(pick_thread(k, "app_rq"))
    BY <1>1, <1>4
  <2>3. QED
    BY <2>1, <2>2 DEF Good
<1>5. CASE /\ k.list["rt_rq"] = <<>> /\ k.list["app_rq"] = <<>>
           /\ k.list["background_rq"] # <<>>
  <2>1. core_scheduler(k) = pick_thread(k, "background_rq")
    BY <1>5 DEF core_scheduler
  <2>2. Good(pick_thread(k, "background_rq"))
    BY <1>1, <1>5
  <2>3. QED
    BY <2>1, <2>2 DEF Good
<1>6. CASE /\ k.list["rt_rq"] = <<>> /\ k.list["app_rq"] = <<>>
           /\ k.list["background_rq"] = <<>>
  <2>1. core_scheduler(k) = [k EXCEPT !.next = k.idle]
    BY <1>0, <1>6 DEF core_scheduler
  <2>2. Good([k EXCEPT !.next = k.idle])
    BY <1>2, <1>6
  <2>3. QED
    BY <2>1, <2>2 DEF Good
<1>7. QED
  BY <1>3, <1>4, <1>5, <1>6

\* advance_tick moves the clock by at most one slice and nothing else.
LEMMA AdvanceOK ==
  ASSUME NEW k, KernelOK(k), LateOK(k), NEW runtime \in 0 .. SYSTICK_RVR
  PROVE  LET r == advance_tick(k, runtime)
         IN  /\ KernelOK(r) /\ LateBefore(r)
             /\ r.list = k.list /\ r.tick_to_wake = k.tick_to_wake
             /\ r.threads = k.threads /\ r.idle = k.idle /\ r.curr = k.curr
             /\ r.exit_pending = k.exit_pending /\ r.freed = k.freed
             /\ r.tick <= k.tick + SYSTICK_RVR
<1> DEFINE n == IF k.tick + runtime < MaxTick THEN k.tick + runtime ELSE MaxTick
           r == [k EXCEPT !.tick = n]
           q == k.list["sleep_q"]
<1>0. /\ k \in KernelState /\ k.tick \in Nat /\ Fine(k) /\ ListsOK(k) /\ SleepOK(k)
      /\ \A u \in Thread : ThreadOK(k, u)
  BY DEF KernelOK, KernelState
<1>1. n \in Nat /\ n <= k.tick + SYSTICK_RVR /\ SYSTICK_RVR \in Nat
  BY <1>0, ClockAssumption
<1>2. advance_tick(k, runtime) = r
  BY DEF advance_tick
<1> HIDE DEF n
<1>3. /\ r \in KernelState /\ r.list = k.list /\ r.rq_list = k.rq_list
      /\ r.tick_to_wake = k.tick_to_wake /\ r.wake = k.wake
      /\ r.threads = k.threads /\ r.freed = k.freed /\ r.curr = k.curr
      /\ r.exit_pending = k.exit_pending /\ r.idle = k.idle
      /\ r.tick = n /\ r.panic = k.panic
  BY <1>0, <1>1 DEF KernelState
<1> HIDE DEF r
<1>4. (\A m : Elems(r, m) = Elems(k, m)) /\ Queued(r) = Queued(k)
  BY <1>3 DEF Elems, Queued
<1>5. ListsOK(r) /\ SleepOK(r) /\ Fine(r)
  BY <1>0, <1>3, <1>4 DEF ListsOK, SleepOK, Fine
<1>6. ASSUME NEW u \in Thread PROVE ThreadOK(r, u)
  <2>1. ThreadOK(k, u)
    BY <1>0
  <2>2. QED
    BY <1>3, <1>4, <2>1 DEF ThreadOK
<1>7. KernelOK(r)
  BY <1>3, <1>5, <1>6 DEF KernelOK
<1>8. ASSUME NEW i \in 1 .. Len(q)
      PROVE  n + (i - 1) * SYSTICK_RVR <= k.tick_to_wake[q[i]] + N * SYSTICK_RVR
  <2>1. /\ Len(q) \in Nat /\ DOMAIN q = 1 .. Len(q) /\ k.tick_to_wake[q[i]] \in Nat
        /\ i \in Nat /\ i - 1 \in Nat /\ i = (i - 1) + 1
    BY SleepFacts
  <2>2. k.tick + i * SYSTICK_RVR <= k.tick_to_wake[q[i]] + N * SYSTICK_RVR
    BY <2>1 DEF LateOK, N
  <2> DEFINE j == i - 1
  <2>3. j \in Nat /\ i = j + 1
    BY <2>1
  <2> HIDE DEF j
  <2>4. (j + 1) * SYSTICK_RVR = j * SYSTICK_RVR + SYSTICK_RVR /\ j * SYSTICK_RVR \in Nat
    <3>1. j <= j
      BY <2>3
    <3>2. QED
      BY <2>3, <3>1, Slices
  <2>5. N * SYSTICK_RVR \in Nat
    <3>1. ASSUME NEW m \in Nat PROVE m * SYSTICK_RVR \in Nat
      BY m <= m, Slices
    <3>2. QED
      BY <3>1, NType
  <2>6. k.tick + (j * SYSTICK_RVR + SYSTICK_RVR) <=
          k.tick_to_wake[q[i]] + N * SYSTICK_RVR
    BY <2>2, <2>3, <2>4
  <2>7. n + j * SYSTICK_RVR <= k.tick_to_wake[q[i]] + N * SYSTICK_RVR
    <3>1. ASSUME NEW a \in Nat, NEW b \in Nat, NEW c \in Nat,
                 k.tick + (a + SYSTICK_RVR) <= c + b
          PROVE  n + a <= c + b
      BY <1>0, <1>1, <3>1
    <3>2. QED
      BY <2>1, <2>4, <2>5, <2>6, <3>1
  <2>8. QED
    BY <2>7 DEF j
<1>9. LateBefore(r)
  BY <1>3, <1>8 DEF LateBefore
<1>10. QED
  BY <1>1, <1>2, <1>3, <1>7, <1>9

\* Whoever has the processor when SysTick fires: linked nowhere, or just put
\* into the sleep queue for at least one slice.
Preempted(k) ==
  \/ LinkedExcept(k, {k.curr})
  \/ /\ LinkedExcept(k, {})
     /\ k.curr \in Elems(k, "sleep_q")
     /\ k.tick + SYSTICK_RVR <= k.tick_to_wake[k.curr]

\* After process_expired_delays and requeue_curr every thread is in a queue.
LEMMA RequeueOK ==
  ASSUME NEW k, KernelOK(k), LateOK(k), k.idle = Idle, Idle \in k.threads,
         Queued(k) \subseteq k.threads, k.curr \in k.threads,
         \/ LinkedExcept(k, {k.curr})
         \/ LinkedExcept(k, {}) /\ k.curr \in Elems(k, "sleep_q")
  PROVE  LET r == requeue_curr(k)
         IN  /\ KernelOK(r) /\ LateOK(r) /\ r.threads = k.threads /\ r.idle = Idle
             /\ Queued(r) \subseteq k.threads /\ LinkedExcept(r, {})
             /\ r.curr = k.curr /\ r.exit_pending = k.exit_pending
             /\ SleepersKept(k, r)
<1> DEFINE t == k.curr
           r == requeue_curr(k)
<1>0. /\ k \in KernelState /\ t \in Thread /\ ListsOK(k)
      /\ "sleep_q" \in List /\ ThreadOK(k, t) /\ t \notin k.freed
      /\ k.tick_to_wake[t] # 0 <=> t \in Elems(k, "sleep_q")
  <2>1. k \in KernelState /\ t \in Thread /\ ListsOK(k) /\ "sleep_q" \in List
    BY DEF KernelOK, KernelState, List
  <2>2. ThreadOK(k, t)
    BY <2>1 DEF KernelOK
  <2>3. QED
    BY <2>1, <2>2 DEF ThreadOK
<1>1. CASE t \in Elems(k, "sleep_q")
  <2>1. r = k
    BY <1>0, <1>1 DEF requeue_curr
  <2>2. t \in Queued(k) /\ t # Idle
    BY <1>0, <1>1, QueuedElems DEF ThreadOK
  <2>3. LinkedExcept(k, {})
    BY <2>2 DEF LinkedExcept
  <2>4. QED
    BY <2>1, <2>3 DEF SleepersKept
<1>2. CASE t \notin Elems(k, "sleep_q") /\ t = Idle
  <2>1. r = [k EXCEPT !.idle = Idle]
    BY <1>0, <1>2, ThreadAssumption DEF requeue_curr, enqueue
  <2>2. r = k
    BY <1>0, <2>1 DEF KernelState
  <2>3. LinkedExcept(k, {})
    BY <1>2 DEF LinkedExcept
  <2>4. QED
    BY <2>2, <2>3 DEF SleepersKept
<1>3. CASE t \notin Elems(k, "sleep_q") /\ t # Idle
  <2>1. r = enqueue(k, t)
    BY <1>0, <1>3 DEF requeue_curr
  <2>2. LinkedExcept(k, {t}) /\ t \notin Queued(k)
    BY <1>3 DEF LinkedExcept
  <2>3. k.rq_list[t] = NULL /\ k.tick_to_wake[t] = 0
    BY <1>0, <2>2, Unlinked
  <2>4. /\ KernelOK(r) /\ SameRest(k, r)
        /\ r.tick_to_wake = k.tick_to_wake
        /\ r.list["sleep_q"] = k.list["sleep_q"]
        /\ Queued(r) = Queued(k) \cup {t}
    BY <1>0, <1>3, <2>1, <2>2, <2>3, EnqueueKernel
  <2> HIDE DEF r
  <2>5. LateOK(r)
    BY <2>4 DEF LateOK, SameRest
  <2>6. LinkedExcept(r, {})
    BY <2>2, <2>4 DEF LinkedExcept, SameRest
  <2>7. QED
    BY <2>4, <2>5, <2>6 DEF SameRest, SleepersKept, r
<1>4. QED
  BY <1>1, <1>2, <1>3

\* What SysTick does to the sleepers and to the freed threads: at most one
\* sleeper, w, is woken, and only after its time; at most the thread that had
\* the processor is freed.
Dispatched(k, r, w) ==
  /\ Elems(r, "sleep_q") \subseteq Elems(k, "sleep_q")
  /\ \A t \in Elems(k, "sleep_q") \ Elems(r, "sleep_q") :
       t \in r.freed \/ (t = w /\ k.tick_to_wake[t] <= r.tick)
  /\ k.freed \subseteq r.freed /\ r.freed \subseteq k.freed \cup {k.curr}
  /\ r.threads = k.threads \ r.freed

\* The whole handler: the queues stay sound, every thread stays linked but the
\* one that is switched to, and that one is of the highest class.
LEMMA SystickOK ==
  ASSUME NEW k, KernelOK(k), LateOK(k), k.idle = Idle, Idle \in k.threads,
         Queued(k) \subseteq k.threads, k.curr \in k.threads, Preempted(k),
         NEW runtime \in 0 .. SYSTICK_RVR
  PROVE  LET r == systick_handler(k, runtime)
         IN  /\ KernelOK(r) /\ LateOK(r) /\ r.idle = Idle /\ Idle \in r.threads
             /\ r.next \in r.threads /\ Queued(r) \subseteq r.threads
             /\ LinkedExcept(r, {r.next}) /\ Urgent(r)
             /\ r.threads \subseteq k.threads
             /\ \E w \in Thread : Dispatched(k, r, w)
<1> DEFINE t  == k.curr
           k0 == advance_tick(k, runtime)
           k1 == process_expired_delays(k0)
           k2 == requeue_curr(k1)
           k3 == IF t \in k2.exit_pending THEN scheduler_remove_thread(k2) ELSE k2
           r  == core_scheduler(k3)
<1>0. t \in Thread /\ t # NULL /\ k.tick \in Nat /\ SYSTICK_RVR \in Nat
  BY ThreadAssumption, ClockAssumption DEF KernelOK, KernelState
<1>1. /\ KernelOK(k0) /\ LateBefore(k0)
      /\ k0.list = k.list /\ k0.tick_to_wake = k.tick_to_wake
      /\ k0.threads = k.threads /\ k0.idle = k.idle /\ k0.curr = t
      /\ k0.exit_pending = k.exit_pending /\ k0.freed = k.freed
      /\ k0.tick <= k.tick + SYSTICK_RVR
  BY AdvanceOK
<1>2. Queued(k0) = Queued(k) /\ Elems(k0, "sleep_q") = Elems(k, "sleep_q")
  BY <1>1 DEF Queued, Elems
<1> HIDE DEF k0
<1>3. /\ KernelOK(k1) /\ LateOK(k1) /\ SameRest(k0, k1)
      /\ Queued(k1) = Queued(k0)
      /\ \A u \in Elems(k0, "sleep_q") :
           k0.tick <= k0.tick_to_wake[u] => u \in Elems(k1, "sleep_q")
      /\ \E w \in Thread : Woken(k0, k1, w)
  BY <1>1, ExpiredOK
<1> HIDE DEF k1
<1>4. /\ k1.threads = k.threads /\ k1.idle = Idle /\ k1.curr = t
      /\ k1.exit_pending = k.exit_pending /\ Queued(k1) = Queued(k)
  BY <1>1, <1>2, <1>3 DEF SameRest
<1>5. \/ LinkedExcept(k1, {t})
      \/ LinkedExcept(k1, {}) /\ t \in Elems(k1, "sleep_q")
  <2>1. CASE LinkedExcept(k, {t})
    BY <1>4, <2>1 DEF LinkedExcept
  <2>2. CASE /\ LinkedExcept(k, {}) /\ t \in Elems(k, "sleep_q")
             /\ k.tick + SYSTICK_RVR <= k.tick_to_wake[t]
    <3>1. LinkedExcept(k1, {})
      BY <1>4, <2>2 DEF LinkedExcept
    <3>2. k.tick_to_wake[t] \in Nat /\ k0.tick \in Nat
      BY <1>0, <1>1 DEF KernelOK, KernelState
    <3>3. k0.tick <= k0.tick_to_wake[t]
      BY <1>0, <1>1, <2>2, <3>2
    <3>4. QED
      BY <1>2, <1>3, <2>2, <3>1, <3>3
  <2>3. QED
    BY <2>1, <2>2 DEF Preempted
<1>6. /\ KernelOK(k2) /\ LateOK(k2) /\ k2.threads = k.threads /\ k2.idle = Idle
      /\ Queued(k2) \subseteq k.threads /\ LinkedExcept(k2, {})
      /\ k2.curr = t /\ k2.exit_pending = k.exit_pending
      /\ SleepersKept(k1, k2)
  BY <1>3, <1>4, <1>5, RequeueOK
<1> HIDE DEF k2
<1>7. /\ KernelOK(k3) /\ LateOK(k3) /\ k3.threads \subseteq k.threads /\ k3.idle = Idle
      /\ Idle \in k3.threads /\ Queued(k3) \subseteq k3.threads /\ LinkedExcept(k3, {})
      /\ \E X \in SUBSET {t} :
           /\ k3.freed = k2.freed \cup X /\ k3.threads = k2.threads \ X
           /\ Elems(k3, "sleep_q") = Elems(k2, "sleep_q") \ X /\ k3.tick = k2.tick
  <2>1. CASE t \in k2.exit_pending
    <3>1. ThreadOK(k2, t) /\ t \in k2.threads
      BY <1>0, <1>6 DEF KernelOK
    <3>2. Class[t] = "rt"
      BY <2>1, <3>1 DEF ThreadOK
    <3>3. t # Idle
      BY <3>2, ThreadAssumption
    <3>4. t \in Queued(k2)
      BY <1>6, <3>1, <3>3 DEF LinkedExcept
    <3> DEFINE k4 == scheduler_remove_thread(k2)
    <3>5. /\ KernelOK(k4) /\ LateOK(k4)
          /\ k4.threads = k2.threads \ {t} /\ k4.idle = k2.idle
          /\ Queued(k4) = Queued(k2) \ {t}
          /\ k4.freed = k2.freed \cup {t} /\ k4.tick = k2.tick
          /\ Elems(k4, "sleep_q") = Elems(k2, "sleep_q") \ {t}
      BY <1>0, <1>6, <2>1, <3>1, <3>4, RemoveThreadOK DEF List
    <3>6. k3 = k4
      BY <2>1
    <3> HIDE DEF k4, k3
    <3>7. LinkedExcept(k4, {})
      BY <1>6, <3>5 DEF LinkedExcept
    <3>8. QED
      BY <1>6, <3>3, <3>5, <3>6, <3>7
  <2>2. CASE t \notin k2.exit_pending
    BY <1>6, <2>2
  <2>3. QED
    BY <2>1, <2>2
<1>8. systick_handler(k, runtime) = r
  <2>1. Fine(k1) /\ Fine(k2) /\ Fine(k3)
    BY <1>3, <1>6, <1>7 DEF KernelOK
  <2>2. systick_handler(k, runtime) =
          LET h1 == process_expired_delays(advance_tick(k, runtime))
              h2 == IF Fine(h1) THEN requeue_curr(h1) ELSE h1
              h3 == IF Fine(h2) /\ h2.curr \in h2.exit_pending
                    THEN scheduler_remove_thread(h2) ELSE h2
          IN  IF Fine(h3) THEN core_scheduler(h3) ELSE h3
    BY <1>0 DEF systick_handler
  <2>3. k1 = process_expired_delays(advance_tick(k, runtime))
    BY DEF k1, k0
  <2>4. k2 = IF Fine(k1) THEN requeue_curr(k1) ELSE k1
    BY <2>1 DEF k2
  <2>5. k3 = IF Fine(k2) /\ k2.curr \in k2.exit_pending
             THEN scheduler_remove_thread(k2) ELSE k2
    BY <1>6, <2>1
  <2> HIDE DEF k3
  <2>6. r = IF Fine(k3) THEN core_scheduler(k3) ELSE k3
    BY <2>1
  <2> HIDE DEF r
  <2>7. QED
    BY <2>2, <2>3, <2>4, <2>5, <2>6
<1> HIDE DEF k3
<1>9. /\ KernelOK(r) /\ LateOK(r) /\ r.threads = k3.threads /\ r.idle = Idle
      /\ r.next \in k3.threads /\ Queued(r) \subseteq k3.threads
      /\ LinkedExcept(r, {r.next}) /\ Urgent(r) /\ SleepersKept(k3, r)
  BY <1>7, CoreOK
<1> HIDE DEF r
<1>10. \E w \in Thread : Dispatched(k, r, w)
  <2>1. PICK w \in Thread : Woken(k0, k1, w)
    BY <1>3
  <2>2. PICK X \in SUBSET {t} :
          /\ k3.freed = k2.freed \cup X /\ k3.threads = k2.threads \ X
          /\ Elems(k3, "sleep_q") = Elems(k2, "sleep_q") \ X /\ k3.tick = k2.tick
    BY <1>7
  <2>3. /\ Elems(k2, "sleep_q") = Elems(k1, "sleep_q")
        /\ Elems(r, "sleep_q") = Elems(k1, "sleep_q") \ X
    BY <1>6, <1>9, <2>2 DEF SleepersKept, Elems
  <2>4. /\ r.freed = k.freed \cup X /\ r.threads = k.threads \ X /\ r.tick = k0.tick
    BY <1>1, <1>3, <1>6, <1>9, <2>2 DEF SleepersKept, SameRest
  <2>5. k.threads \cap k.freed = {}
    BY DEF KernelOK, KernelState, ThreadOK
  <2>6. \A u \in Elems(k, "sleep_q") : k.tick_to_wake[u] \in Nat /\ k0.tick \in Nat
    BY <1>1, ListType DEF KernelOK, KernelState, List
  <2>7. Elems(k1, "sleep_q") \subseteq Elems(k, "sleep_q")
        /\ \A u \in Elems(k, "sleep_q") \ Elems(k1, "sleep_q") :
             u = w /\ k.tick_to_wake[u] <= k0.tick
    BY <1>1, <1>2, <2>1, <2>6 DEF Woken
  <2>8. Dispatched(k, r, w)
    BY <2>3, <2>4, <2>5, <2>7 DEF Dispatched
  <2>9. QED
    BY <2>8
<1>11. QED
  BY <1>7, <1>8, <1>9, <1>10

-----------------------------------------------------------------------------
(* The actions                                                              *)


\* No call of new_thread or kill_thread is under way.
Quiet ==
  /\ Queued(kernel) \subseteq kernel.threads
  /\ \A c \in Thread \cup {NULL} : pc[c].at \notin {"new", "kill"}

\* The scheduler is suspended exactly while the running thread is inside such a
\* call, so whenever a handler runs there is none.
LEMMA NoCall ==
  ASSUME TypeOK, CallsOK,
         \/ pc[kernel.curr].at \notin {"new", "kill"}
         \/ scheduler_status
         \/ cpu = "pendsv"
  PROVE  Quiet
<1>0. kernel.curr \in Thread \cup {NULL}
  BY DEF TypeOK, KernelState
<1>1. \A c \in Thread \cup {NULL} : pc[c].at \notin {"new", "kill"}
  BY DEF CallsOK
<1>2. QED
  BY <1>0, <1>1 DEF CallsOK, Quiet

\* With no call under way the condition on calls holds.
LEMMA QuietCalls == Quiet => CallsOK
<1> SUFFICES ASSUME Quiet PROVE CallsOK
  OBVIOUS
<1>1. \A t : t \notin Queued(kernel) \ kernel.threads
  BY DEF Quiet
<1>2. QED
  BY <1>1 DEF Quiet, CallsOK

\* A change that leaves the queues and the fields they depend on alone.
LEMMA SameQueues ==
  ASSUME NEW k, KernelOK(k), LateOK(k), NEW r \in KernelState,
         r.list = k.list, r.rq_list = k.rq_list, r.tick_to_wake = k.tick_to_wake,
         r.wake = k.wake, r.tick = k.tick, r.threads = k.threads,
         r.freed = k.freed, r.panic = k.panic,
         \A t \in r.exit_pending \cap r.threads :
           t \in k.exit_pending \/ Class[t] = "rt"
  PROVE  /\ KernelOK(r) /\ LateOK(r) /\ Queued(r) = Queued(k)
         /\ \A m : Elems(r, m) = Elems(k, m)
<1>1. (\A m : Elems(r, m) = Elems(k, m)) /\ Queued(r) = Queued(k)
  BY DEF Elems, Queued
<1>2. ListsOK(r) /\ SleepOK(r) /\ LateOK(r) /\ Fine(r)
  BY <1>1 DEF KernelOK, ListsOK, SleepOK, LateOK, Fine
<1>3. ASSUME NEW u \in Thread PROVE ThreadOK(r, u)
  <2>1. ThreadOK(k, u)
    BY DEF KernelOK
  <2>2. QED
    BY <1>1, <2>1 DEF ThreadOK
<1>4. QED
  BY <1>1, <1>2, <1>3 DEF KernelOK

\* A change to one thread that is in no list but perhaps a run queue.
LEMMA OneThread ==
  ASSUME NEW k, KernelOK(k), LateOK(k), NEW r \in KernelState, NEW u \in Thread,
         r.list = k.list, r.wake = k.wake, r.tick = k.tick, r.panic = k.panic,
         u \notin Elems(k, "sleep_q"), Others(k, r, u), ThreadOK(r, u)
  PROVE  /\ KernelOK(r) /\ LateOK(r) /\ Queued(r) = Queued(k)
         /\ \A m : Elems(r, m) = Elems(k, m)
<1>0. /\ k \in KernelState /\ ListsOK(k) /\ SleepOK(k) /\ Fine(k)
      /\ \A v \in Thread : ThreadOK(k, v)
  BY DEF KernelOK
<1>1. (\A m : Elems(r, m) = Elems(k, m)) /\ Queued(r) = Queued(k)
  BY DEF Elems, Queued
<1>2. \A v \in Thread : ThreadOK(r, v)
  BY <1>0, OthersOK
<1> DEFINE q == k.list["sleep_q"]
<1>3. /\ DOMAIN q = 1 .. Len(q) /\ Len(q) \in Nat
      /\ \A i \in 1 .. Len(q) : q[i] \in Thread /\ q[i] \in Elems(k, "sleep_q")
  BY SleepFacts
<1>4. \A i \in DOMAIN q : r.tick_to_wake[q[i]] = k.tick_to_wake[q[i]]
  BY <1>3 DEF Others
<1>5. q # <<>> => 1 \in DOMAIN q
  <2>1. q # <<>> => Len(q) # 0
    BY <1>0, ListType, EmptySeq DEF List
  <2>2. QED
    BY <1>3, <2>1
<1>6. SleepOK(r)
  BY <1>0, <1>4, <1>5 DEF SleepOK
<1>7. LateOK(r)
  BY <1>4 DEF LateOK
<1>8. ListsOK(r) /\ Fine(r)
  BY <1>0, <1>1 DEF ListsOK, Fine
<1>9. QED
  BY <1>1, <1>2, <1>6, <1>7, <1>8 DEF KernelOK

-----------------------------------------------------------------------------
(* The actions                                                              *)

\* The inductive invariant holds at reset.
LEMMA InitInv == Init => IInv
<1> SUFFICES ASSUME Init PROVE IInv
  OBVIOUS
<1>0. TypeOK
  BY InitType DEF TypeInv
<1>1. /\ kernel \in KernelState /\ Fine(kernel) /\ \A l \in List : kernel.list[l] = <<>>
      /\ kernel.threads = {} /\ kernel.freed = {} /\ "sleep_q" \in List
  BY <1>0 DEF Init, TypeOK, Fine, List
<1>2. (\A l \in List : Elems(kernel, l) = {}) /\ Queued(kernel) = {}
  BY <1>1 DEF Elems, Queued, Range
<1>3. ListsOK(kernel)
  BY <1>1, <1>2 DEF ListsOK, IsInjective
<1>4. SleepOK(kernel) /\ LateOK(kernel)
  BY <1>1 DEF SleepOK, LateOK
<1>5. \A t \in Thread : ThreadOK(kernel, t)
  BY <1>1, <1>2 DEF ThreadOK
<1>6. KernelOK(kernel)
  BY <1>1, <1>3, <1>4, <1>5 DEF KernelOK
<1>7. ModeOK /\ RunnerOK /\ PriorityRespected
  BY <1>1, ThreadAssumption DEF Init, ModeOK, RunnerOK, LinkedExcept, PriorityRespected
<1>8. Quiet
  BY <1>2 DEF Init, Quiet
<1>9. QED
  BY <1>0, <1>4, <1>6, <1>7, <1>8, QuietCalls DEF IInv

\* new_thread, up to the insertion into the run queue.
LEMMA NewThreadInv ==
  ASSUME TypeOK, TypeOK', IInv, NEW t \in Thread \cup {NULL}, NEW u \in Thread,
         new_thread(t, u)
  PROVE  IInv'
<1>0. /\ KernelOK(kernel) /\ LateOK(kernel) /\ ModeOK /\ RunnerOK /\ CallsOK
      /\ t = kernel.curr /\ cpu \in {"boot", "thread"} /\ ~reschedule_pending
      /\ pc[t].at = "run" /\ u # Idle /\ u \notin kernel.threads \cup kernel.freed
      /\ kernel \in KernelState
      /\ pc \in [Thread \cup {NULL} -> Steps]
  BY DEF IInv, new_thread, Executes, MayCreate, TypeOK
<1>1. Quiet
  BY <1>0, NoCall
<1>2. u \notin Queued(kernel)
  BY <1>0, <1>1 DEF Quiet
<1>3. PICK left \in {0, SYSTICK_RVR}, flag \in SUBSET {u} :
        kernel' = enqueue([kernel EXCEPT !.rq_list[u] = NULL,
                                         !.link[u] = "thread_exit",
                                         !.tick_to_wake[u] = left,
                                         !.exit_pending = @ \cup flag], u)
  BY DEF new_thread
<1> DEFINE k == [kernel EXCEPT !.rq_list[u] = NULL, !.link[u] = "thread_exit",
                               !.tick_to_wake[u] = left,
                               !.exit_pending = @ \cup flag]
<1>4. left \in Nat /\ flag \subseteq Thread /\ flag \subseteq {u}
  BY ClockAssumption
<1>5. /\ k.list = kernel.list /\ k.wake = kernel.wake /\ k.tick = kernel.tick
      /\ k.panic = kernel.panic /\ k.threads = kernel.threads
      /\ k.freed = kernel.freed /\ k.idle = kernel.idle /\ k.curr = kernel.curr
      /\ k.exit_pending = kernel.exit_pending \cup flag
      /\ k.rq_list = [kernel.rq_list EXCEPT ![u] = NULL]
      /\ k.tick_to_wake = [kernel.tick_to_wake EXCEPT ![u] = left]
      /\ k \in KernelState
  BY <1>0, <1>4 DEF KernelState
<1> HIDE DEF k
<1>6. /\ k.rq_list[u] = NULL
      /\ \A v \in Thread \ {u} : /\ k.rq_list[v] = kernel.rq_list[v]
                                 /\ k.tick_to_wake[v] = kernel.tick_to_wake[v]
  BY <1>0, <1>5 DEF KernelState
<1>7. (\A m : Elems(k, m) = Elems(kernel, m)) /\ Queued(k) = Queued(kernel)
  BY <1>5 DEF Elems, Queued
<1>8. Others(kernel, k, u)
  BY <1>4, <1>5, <1>6, <1>7 DEF Others
<1>9. \A l \in List : u \notin Elems(kernel, l)
  BY <1>2, QueuedElems
<1>10. ThreadOK(k, u)
  BY <1>0, <1>2, <1>5, <1>7, <1>9 DEF ThreadOK, List
<1>11. KernelOK(k) /\ LateOK(k)
  BY <1>0, <1>5, <1>8, <1>9, <1>10, OneThread DEF List
<1>12. /\ KernelOK(kernel') /\ SameRest(k, kernel')
       /\ kernel'.tick_to_wake = k.tick_to_wake
       /\ kernel'.list["sleep_q"] = k.list["sleep_q"]
       /\ Queued(kernel') = Queued(k) \cup {u}
  <2>1. kernel' = enqueue(k, u)
    BY <1>3 DEF k
  <2>2. /\ u \in Thread \ {Idle} /\ u \notin Queued(k) /\ u \notin k.freed
        /\ u \notin k.threads /\ k.rq_list[u] = NULL
    BY <1>0, <1>2, <1>5, <1>6, <1>7
  <2>3. QED
    BY <1>11, <2>1, <2>2, EnqueueKernel
<1>13. kernel'.rq_list[Idle] = kernel.rq_list[Idle]
  <2>1. Others(k, enqueue(k, u), u)
    BY <1>0, <1>2, <1>5, <1>6, <1>7, <1>11, EnqueueOK DEF KernelOK
  <2>2. kernel' = enqueue(k, u)
    BY <1>3 DEF k
  <2>3. Idle \in Thread \ {u}
    BY <1>0, ThreadAssumption
  <2>4. QED
    BY <1>6, <2>1, <2>2, <2>3 DEF Others
<1>14. LateOK(kernel')
  BY <1>11, <1>12 DEF LateOK, SameRest
<1>15. /\ kernel'.threads = kernel.threads /\ kernel'.freed = kernel.freed
       /\ kernel'.idle = kernel.idle /\ kernel'.curr = kernel.curr
       /\ kernel'.exit_pending = kernel.exit_pending \cup flag
       /\ kernel'.list["sleep_q"] = kernel.list["sleep_q"]
       /\ kernel'.tick_to_wake[Idle] = kernel.tick_to_wake[Idle]
       /\ Queued(kernel') = Queued(kernel) \cup {u}
  BY <1>0, <1>5, <1>6, <1>7, <1>12, ThreadAssumption DEF SameRest
<1>16. cpu' = cpu /\ reschedule_pending' = FALSE /\ scheduler_status' = FALSE
  BY <1>0, <1>12 DEF new_thread, Stops, KernelOK
<1>17. Runner' = Runner /\ Runner = kernel.curr /\ Runner # u
  BY <1>0, <1>15, <1>16, ThreadAssumption DEF Runner, ModeOK
<1>18. ModeOK'
  BY <1>0, <1>4, <1>13, <1>15, <1>16, <1>17 DEF ModeOK
<1>19. RunnerOK'
  BY <1>0, <1>15, <1>16, <1>17 DEF RunnerOK, LinkedExcept
<1>20. pc'[t] = [at |-> "new", of |-> u] /\ \A c \in (Thread \cup {NULL}) \ {t} : pc'[c] = pc[c]
  BY <1>0 DEF new_thread, Goto
<1>21. CallsOK'
  <2>1. ASSUME NEW c \in Thread \cup {NULL}, pc'[c].at \in {"new", "kill"}
        PROVE  c = t /\ pc'[c].at = "new" /\ pc'[c].of = u
    BY <1>1, <1>20, <2>1 DEF Quiet
  <2>2. \A v \in Queued(kernel') \ kernel'.threads : v = u
    BY <1>1, <1>15 DEF Quiet
  <2>3. u \in Queued(kernel')
    BY <1>15
  <2>4. pc'[kernel'.curr].at = "new" /\ pc'[kernel'.curr].of = u
    BY <1>0, <1>15, <1>20
  <2>5. QED
    BY <1>0, <1>15, <1>16, <2>1, <2>2, <2>3, <2>4 DEF CallsOK
<1>22. PriorityRespected'
  BY <1>0, <1>16 DEF PriorityRespected
<1>23. QED
  BY <1>12, <1>14, <1>18, <1>19, <1>21, <1>22 DEF IInv

\* The rest of new_thread: the thread exists from here on.
LEMMA NewReturnInv ==
  ASSUME TypeOK, TypeOK', IInv, NEW t \in Thread \cup {NULL}, new_thread_return(t)
  PROVE  IInv'
<1> DEFINE u == pc[t].of
<1>0. /\ KernelOK(kernel) /\ LateOK(kernel) /\ ModeOK /\ RunnerOK /\ CallsOK
      /\ t = kernel.curr /\ cpu \in {"boot", "thread"} /\ ~reschedule_pending
      /\ pc[t].at = "new" /\ kernel \in KernelState /\ kernel' \in KernelState
      /\ pc \in [Thread \cup {NULL} -> Steps]
      /\ kernel' = [kernel EXCEPT !.threads = @ \cup {u},
                                  !.tick_to_wake[u] = 0,
                                  !.exit_pending = @ \ {u}]
      /\ reschedule_pending' = FALSE /\ cpu' = cpu
  BY DEF IInv, new_thread_return, Executes, TypeOK
<1>1. /\ u \in Thread \ {Idle} /\ u \notin kernel.threads \cup kernel.freed
      /\ u \in Queued(kernel) /\ ThreadOK(kernel, u)
  BY <1>0 DEF CallsOK, KernelOK
<1> HIDE DEF u
<1>2. /\ kernel'.list = kernel.list /\ kernel'.wake = kernel.wake
      /\ kernel'.tick = kernel.tick /\ kernel'.panic = kernel.panic
      /\ kernel'.threads = kernel.threads \cup {u} /\ kernel'.freed = kernel.freed
      /\ kernel'.idle = kernel.idle /\ kernel'.curr = kernel.curr
      /\ kernel'.exit_pending = kernel.exit_pending \ {u}
      /\ kernel'.rq_list = kernel.rq_list
      /\ kernel'.tick_to_wake = [kernel.tick_to_wake EXCEPT ![u] = 0]
  BY <1>0 DEF KernelState
<1>3. /\ kernel'.tick_to_wake[u] = 0
      /\ \A v \in Thread \ {u} : kernel'.tick_to_wake[v] = kernel.tick_to_wake[v]
  BY <1>0, <1>1, <1>2 DEF KernelState
<1>4. /\ \A m : Elems(kernel', m) = Elems(kernel, m)
      /\ Queued(kernel') = Queued(kernel)
  BY <1>2 DEF Elems, Queued
<1>5. Others(kernel, kernel', u)
  BY <1>2, <1>3, <1>4 DEF Others
<1>6. u \notin Elems(kernel, "sleep_q")
  BY <1>1 DEF ThreadOK
<1>7. kernel.rq_list[u] # NULL => u \in Elems(kernel, kernel.rq_list[u])
  <2>1. PICK l \in List : u \in Elems(kernel, l)
    BY <1>1, QueuedElems
  <2>2. l = RunQueue(u) /\ l # "sleep_q" /\ kernel.rq_list[u] = ListField(u, l)
    BY <1>1, <1>6, <2>1 DEF ThreadOK
  <2>3. kernel.rq_list[u] # NULL => kernel.rq_list[u] = l
    BY <1>1, <2>2, RunQueueType DEF ListField
  <2>4. QED
    BY <2>1, <2>3
<1>8. ThreadOK(kernel', u)
  BY <1>1, <1>2, <1>3, <1>4, <1>6, <1>7 DEF ThreadOK
<1>9. KernelOK(kernel') /\ LateOK(kernel')
  BY <1>0, <1>1, <1>2, <1>5, <1>6, <1>8, OneThread
<1>10. Runner' = Runner /\ Runner = kernel.curr /\ Runner # u
  BY <1>0, <1>1, <1>2, ThreadAssumption DEF Runner, ModeOK
<1>11. ModeOK'
  BY <1>0, <1>1, <1>2, <1>3, <1>10, ThreadAssumption DEF ModeOK
<1>12. RunnerOK'
  BY <1>0, <1>1, <1>2, <1>4, <1>10 DEF RunnerOK, LinkedExcept
<1>13. Quiet'
  <2>1. /\ pc'[t] = [at |-> "run", of |-> NULL]
        /\ \A c \in (Thread \cup {NULL}) \ {t} : pc'[c] = pc[c]
    BY <1>0 DEF new_thread_return, Goto
  <2>2. \A c \in (Thread \cup {NULL}) \ {t} : pc[c].at \notin {"new", "kill"}
    BY <1>0 DEF CallsOK
  <2>3. \A v \in Queued(kernel) \ kernel.threads : v = u
    BY <1>0 DEF CallsOK, u
  <2>4. QED
    BY <1>2, <1>4, <2>1, <2>2, <2>3 DEF Quiet
<1>14. CallsOK'
  BY <1>13, QuietCalls, PTL
<1>15. PriorityRespected'
  BY <1>0 DEF PriorityRespected
<1>16. QED
  BY <1>9, <1>11, <1>12, <1>14, <1>15 DEF IInv

\* What is left to show of a step that only changes exit_pending, scheduler_status
\* and pc.
LEMMA ExitStep ==
  ASSUME TypeOK, TypeOK', IInv, cpu \in {"boot", "thread"},
         ~reschedule_pending, reschedule_pending' = FALSE, cpu' = cpu,
         NEW X \in SUBSET Exits, \A v \in X : Class[v] = "rt",
         kernel' = [kernel EXCEPT !.exit_pending = @ \cup X],
         CallsOK'
  PROVE  IInv'
<1>0. /\ KernelOK(kernel) /\ LateOK(kernel) /\ ModeOK /\ RunnerOK
      /\ kernel \in KernelState /\ kernel' \in KernelState
  BY DEF IInv, TypeOK
<1>1. /\ kernel'.list = kernel.list /\ kernel'.wake = kernel.wake
      /\ kernel'.tick = kernel.tick /\ kernel'.panic = kernel.panic
      /\ kernel'.threads = kernel.threads /\ kernel'.freed = kernel.freed
      /\ kernel'.idle = kernel.idle /\ kernel'.curr = kernel.curr
      /\ kernel'.exit_pending = kernel.exit_pending \cup X
      /\ kernel'.rq_list = kernel.rq_list /\ kernel'.next = kernel.next
      /\ kernel'.tick_to_wake = kernel.tick_to_wake
  BY <1>0 DEF KernelState
<1>2. KernelOK(kernel') /\ LateOK(kernel') /\ Queued(kernel') = Queued(kernel)
  BY <1>0, <1>1, SameQueues
<1>3. Runner' = Runner
  BY <1>1 DEF Runner
<1>4. ModeOK'
  BY <1>0, <1>1, <1>3, WorkloadAssumption DEF ModeOK
<1>5. RunnerOK'
  BY <1>0, <1>1, <1>2, <1>3 DEF RunnerOK, LinkedExcept
<1>6. PriorityRespected'
  BY DEF PriorityRespected
<1>7. QED
  BY <1>2, <1>4, <1>5, <1>6 DEF IInv

\* kill_thread, up to the search for the thread.
LEMMA KillThreadInv ==
  ASSUME TypeOK, TypeOK', IInv, NEW t \in Thread \cup {NULL}, NEW u \in Thread,
         kill_thread(t, u)
  PROVE  IInv'
<1>0. /\ CallsOK /\ t = kernel.curr /\ cpu = "thread" /\ ~reschedule_pending
      /\ pc[t].at = "run" /\ u \in Exits /\ kernel' = kernel /\ cpu' = cpu
      /\ reschedule_pending' = FALSE /\ scheduler_status' = FALSE
      /\ kernel \in KernelState /\ pc \in [Thread \cup {NULL} -> Steps]
  BY DEF IInv, kill_thread, Executes, TypeOK
<1>1. Quiet
  BY <1>0, NoCall
<1>2. kernel' = [kernel EXCEPT !.exit_pending = @ \cup {}]
  BY <1>0 DEF KernelState
<1>3. CallsOK'
  <2>1. /\ pc'[t].at = "kill" /\ pc'[t].of \in Exits \cup {NULL}
        /\ \A c \in (Thread \cup {NULL}) \ {t} : pc'[c] = pc[c]
    BY <1>0 DEF kill_thread, Goto
  <2>2. \A v : v \notin Queued(kernel) \ kernel.threads
    BY <1>1 DEF Quiet
  <2>3. QED
    BY <1>0, <1>1, <2>1, <2>2 DEF Quiet, CallsOK
<1>4. {} \in SUBSET Exits /\ \A v \in {} : Class[v] = "rt"
  OBVIOUS
<1>5. cpu \in {"boot", "thread"}
  BY <1>0
<1>6. QED
  BY <1>0, <1>2, <1>3, <1>4, <1>5, ExitStep

\* The rest of kill_thread, and thread_exit: only real-time threads exit.
LEMMA KillReturnInv ==
  ASSUME Supported, TypeOK, TypeOK', IInv, NEW t \in Thread \cup {NULL},
         kill_thread_return(t)
  PROVE  IInv'
<1> DEFINE X == {pc[t].of} \ {NULL}
<1>0. /\ CallsOK /\ t = kernel.curr /\ cpu \in {"boot", "thread"}
      /\ ~reschedule_pending /\ pc[t].at = "kill" /\ cpu' = cpu
      /\ reschedule_pending' = FALSE /\ pc \in [Thread \cup {NULL} -> Steps]
      /\ kernel' = [kernel EXCEPT !.exit_pending = @ \cup X]
      /\ kernel \in KernelState
  BY DEF IInv, kill_thread_return, Executes, TypeOK
<1>1. X \in SUBSET Exits
  BY <1>0 DEF CallsOK
<1> HIDE DEF X
<1>2. \A v \in X : Class[v] = "rt"
  BY <1>1 DEF Supported
<1>3. Quiet'
  <2>1. /\ pc'[t].at = "run"
        /\ \A c \in (Thread \cup {NULL}) \ {t} : pc'[c] = pc[c]
    BY <1>0 DEF kill_thread_return, Goto
  <2>2. \A c \in (Thread \cup {NULL}) \ {t} : pc[c].at \notin {"new", "kill"}
    BY <1>0 DEF CallsOK
  <2>3. Queued(kernel) \subseteq kernel.threads
    BY <1>0 DEF CallsOK
  <2>4. Queued(kernel') = Queued(kernel) /\ kernel'.threads = kernel.threads
    BY <1>0 DEF KernelState, Queued
  <2>5. QED
    BY <2>1, <2>2, <2>3, <2>4 DEF Quiet
<1>4. CallsOK'
  BY <1>3, QuietCalls, PTL
<1>5. QED
  BY <1>0, <1>1, <1>2, <1>4, ExitStep

\* thread_exit sets the flag of the running thread.
LEMMA ThreadReturnInv ==
  ASSUME Supported, TypeOK, TypeOK', IInv, NEW t \in Thread \cup {NULL},
         thread_return(t)
  PROVE  IInv'
<1>0. /\ CallsOK /\ t = kernel.curr /\ cpu \in {"boot", "thread"}
      /\ ~reschedule_pending /\ pc[t].at = "run" /\ cpu' = cpu
      /\ reschedule_pending' = FALSE /\ pc \in [Thread \cup {NULL} -> Steps]
      /\ kernel' = [kernel EXCEPT !.exit_pending = @ \cup {t}]
      /\ kernel \in KernelState /\ {t} \in SUBSET Exits
  BY DEF IInv, thread_return, Executes, TypeOK
<1>1. \A v \in {t} : Class[v] = "rt"
  BY <1>0 DEF Supported
<1>2. Quiet
  BY <1>0, NoCall
<1>3. Quiet'
  <2>1. /\ pc'[t].at = "exit"
        /\ \A c \in (Thread \cup {NULL}) \ {t} : pc'[c] = pc[c]
    BY <1>0 DEF thread_return, Goto
  <2>2. Queued(kernel') = Queued(kernel) /\ kernel'.threads = kernel.threads
    BY <1>0 DEF KernelState, Queued
  <2>3. QED
    BY <1>2, <2>1, <2>2 DEF Quiet
<1>4. CallsOK'
  BY <1>3, QuietCalls, PTL
<1>5. QED
  BY <1>0, <1>1, <1>4, ExitStep

\* A thread puts itself to sleep for at least one slice.
LEMMA ThreadSleepInv ==
  ASSUME Supported, TypeOK, TypeOK', IInv, NEW t \in Thread \cup {NULL},
         NEW ms \in SleepMs, thread_sleep(t, ms)
  PROVE  IInv'
<1> DEFINE n == kernel.tick + ms * SYSTICK_RVR
<1>0. /\ KernelOK(kernel) /\ LateOK(kernel) /\ ModeOK /\ RunnerOK /\ CallsOK
      /\ t = kernel.curr /\ cpu = "thread" /\ ~reschedule_pending
      /\ pc[t].at = "run" /\ t # Idle /\ kernel.tick \in Nat
      /\ kernel' = scheduler_enqueue_delay([kernel EXCEPT !.tick_to_wake[t] = n], t)
      /\ reschedule_pending' = TRUE /\ pc' = pc
      /\ kernel.threads \subseteq Thread
  BY WorkloadAssumption DEF IInv, thread_sleep, Executes, TypeOK, KernelState
<1>1. n \in Nat /\ kernel.tick + SYSTICK_RVR <= n
  <2>1. ms \in Nat /\ 1 <= ms /\ SYSTICK_RVR \in Nat
    BY ClockAssumption DEF Supported
  <2>2. 1 * SYSTICK_RVR <= ms * SYSTICK_RVR /\ ms * SYSTICK_RVR \in Nat
    BY <2>1, Slices
  <2>3. QED
    BY <1>0, <2>1, <2>2
<1> HIDE DEF n
<1>2. Runner = t /\ t \in kernel.threads /\ t \in Thread \ {Idle}
  BY <1>0 DEF ModeOK, Runner
<1>3. t \notin Queued(kernel)
  BY <1>0, <1>2 DEF RunnerOK, LinkedExcept
<1>4. /\ KernelOK(kernel') /\ LateOK(kernel') /\ SameRest(kernel, kernel')
      /\ Queued(kernel') = Queued(kernel) \cup {t}
      /\ t \in Elems(kernel', "sleep_q") /\ kernel'.tick_to_wake[t] = n
  BY <1>0, <1>1, <1>2, <1>3, EnqueueDelayOK
<1>5. cpu' = cpu
  BY <1>4 DEF thread_sleep, Stops, KernelOK
<1>6. Runner' = t
  BY <1>0, <1>2, <1>4, <1>5 DEF Runner, SameRest
<1>7. ModeOK'
  BY <1>0, <1>2, <1>4, <1>5, <1>6 DEF ModeOK, SameRest
<1>8. RunnerOK'
  <2>1. LinkedExcept(kernel', {})
    BY <1>0, <1>2, <1>4 DEF RunnerOK, LinkedExcept, SameRest
  <2>2. /\ kernel'.curr \in Elems(kernel', "sleep_q")
        /\ kernel'.tick + SYSTICK_RVR <= kernel'.tick_to_wake[kernel'.curr]
    BY <1>0, <1>1, <1>4 DEF SameRest
  <2>3. QED
    BY <1>0, <1>5, <2>1, <2>2 DEF RunnerOK
<1>9. Quiet
  BY <1>0, NoCall
<1>10. Quiet'
  BY <1>0, <1>2, <1>4, <1>9 DEF Quiet, SameRest
<1>11. CallsOK'
  BY <1>10, QuietCalls, PTL
<1>12. PriorityRespected'
  BY <1>0, <1>5 DEF PriorityRespected
<1>13. QED
  BY <1>4, <1>7, <1>8, <1>11, <1>12 DEF IInv

\* scheduler_start creates the idle thread and enters the first thread, one of
\* the highest class that has a thread.
LEMMA StartFacts ==
  ASSUME TypeOK, TypeOK', IInv, scheduler_start
  PROVE  /\ KernelOK(kernel') /\ LateOK(kernel') /\ cpu' = "thread"
         /\ kernel'.idle = Idle /\ kernel'.threads = kernel.threads \cup {Idle}
         /\ kernel'.curr \in kernel'.threads /\ kernel'.next = kernel'.curr
         /\ Queued(kernel') \subseteq kernel'.threads
         /\ LinkedExcept(kernel', {kernel'.curr})
         /\ Urgent(kernel') /\ SleepersKept(kernel, kernel')
<1> DEFINE k1 == [kernel EXCEPT !.threads = @ \cup {Idle}, !.idle = Idle]
           k2 == core_scheduler(k1)
<1>0. /\ KernelOK(kernel) /\ LateOK(kernel) /\ ModeOK /\ RunnerOK /\ CallsOK
      /\ kernel.curr = NULL /\ cpu = "boot" /\ ~reschedule_pending
      /\ pc[NULL].at = "run" /\ kernel \in KernelState /\ kernel' \in KernelState
      /\ kernel.threads \subseteq Thread /\ Idle \in Thread /\ NULL \notin Thread
      /\ Class[Idle] = "idle" /\ pc' = pc /\ reschedule_pending' = FALSE
      /\ \A u \in Thread : ThreadOK(kernel, u)
  BY ThreadAssumption
     DEF IInv, KernelOK, scheduler_start, Executes, TypeOK, KernelState
<1>1. Quiet
  BY <1>0, NoCall
<1>2. /\ k1 \in KernelState /\ k1.list = kernel.list /\ k1.wake = kernel.wake
      /\ k1.tick = kernel.tick /\ k1.panic = kernel.panic
      /\ k1.threads = kernel.threads \cup {Idle} /\ k1.freed = kernel.freed
      /\ k1.idle = Idle /\ k1.exit_pending = kernel.exit_pending
      /\ k1.rq_list = kernel.rq_list /\ k1.tick_to_wake = kernel.tick_to_wake
  BY <1>0, ZenonT(40) DEF KernelState
<1>3. kernel' = [k2 EXCEPT !.curr = k2.next, !.link[k2.next] = "thread"]
  <2>1. enqueue([kernel EXCEPT !.threads = @ \cup {Idle}], Idle) = k1
    BY <1>0 DEF enqueue, KernelState
  <2>2. QED
    BY <2>1 DEF scheduler_start
<1> HIDE DEF k1
<1>4. (\A m : Elems(k1, m) = Elems(kernel, m)) /\ Queued(k1) = Queued(kernel)
  BY <1>2 DEF Elems, Queued
<1>5. Idle \notin Queued(kernel) /\ \A l \in List : Idle \notin Elems(kernel, l)
  <2>1. \A l \in List : Idle \notin Elems(kernel, l)
    BY <1>0 DEF ThreadOK
  <2>2. QED
    BY <2>1, QueuedElems
<1>6. ThreadOK(k1, Idle)
  BY <1>0, <1>2, <1>4, <1>5 DEF ThreadOK, ModeOK, List
<1>7. Others(kernel, k1, Idle)
  BY <1>2, <1>4 DEF Others
<1>8. KernelOK(k1) /\ LateOK(k1)
  <2>1. Idle \notin Elems(kernel, "sleep_q")
    BY <1>5 DEF List
  <2>2. QED
    BY <1>0, <1>2, <1>6, <1>7, <2>1, OneThread
<1>9. Queued(k1) \subseteq k1.threads
  BY <1>1, <1>2, <1>4 DEF Quiet
<1>10. LinkedExcept(k1, {})
  BY <1>0, <1>2, <1>4 DEF RunnerOK, LinkedExcept, Runner
<1>11. /\ KernelOK(k2) /\ LateOK(k2) /\ k2.threads = k1.threads /\ k2.idle = Idle
       /\ k2.next \in k1.threads /\ Queued(k2) \subseteq k1.threads
       /\ LinkedExcept(k2, {k2.next}) /\ Urgent(k2) /\ SleepersKept(k1, k2)
  BY <1>2, <1>8, <1>9, <1>10, CoreOK
<1> HIDE DEF k2
<1>12. k2 \in KernelState /\ k2.next \in Thread
  BY <1>0, <1>2, <1>11 DEF KernelOK
<1>13. /\ kernel'.list = k2.list /\ kernel'.wake = k2.wake
       /\ kernel'.tick = k2.tick /\ kernel'.panic = k2.panic
       /\ kernel'.threads = k2.threads /\ kernel'.freed = k2.freed
       /\ kernel'.idle = k2.idle /\ kernel'.curr = k2.next /\ kernel'.next = k2.next
       /\ kernel'.exit_pending = k2.exit_pending /\ kernel'.rq_list = k2.rq_list
       /\ kernel'.tick_to_wake = k2.tick_to_wake
  BY <1>3, <1>12 DEF KernelState
<1>14. KernelOK(kernel') /\ LateOK(kernel') /\ Queued(kernel') = Queued(k2)
  BY <1>0, <1>11, <1>13, SameQueues
<1>15. cpu' = "thread"
  BY <1>14 DEF scheduler_start, Stops, KernelOK
<1>16. LinkedExcept(kernel', {kernel'.curr})
  BY <1>11, <1>13, <1>14 DEF LinkedExcept
<1>17. Urgent(kernel') /\ SleepersKept(kernel, kernel')
  BY <1>2, <1>11, <1>13 DEF Urgent, SleepersKept
<1>18. QED
  BY <1>2, <1>11, <1>13, <1>14, <1>15, <1>16, <1>17

\* scheduler_start establishes the conditions on a running system.
LEMMA StartInv ==
  ASSUME TypeOK, TypeOK', IInv, scheduler_start
  PROVE  IInv'
<1>1. /\ KernelOK(kernel') /\ LateOK(kernel') /\ cpu' = "thread"
      /\ kernel'.idle = Idle /\ kernel'.threads = kernel.threads \cup {Idle}
      /\ kernel'.curr \in kernel'.threads
      /\ Queued(kernel') \subseteq kernel'.threads
      /\ LinkedExcept(kernel', {kernel'.curr})
  BY StartFacts
<1>2. /\ pc' = pc /\ ~reschedule_pending' /\ Quiet
  <2>1. pc[kernel.curr].at \notin {"new", "kill"} /\ pc' = pc /\ ~reschedule_pending'
    BY DEF scheduler_start, Executes
  <2>2. QED
    BY <2>1, NoCall DEF IInv
<1>3. Runner' = kernel'.curr
  BY <1>1 DEF Runner
<1>4. ModeOK'
  BY <1>1, <1>3 DEF ModeOK
<1>5. RunnerOK'
  BY <1>1, <1>2, <1>3 DEF RunnerOK
<1>6. Quiet'
  BY <1>1, <1>2 DEF Quiet
<1>7. CallsOK'
  BY <1>6, QuietCalls, PTL
<1>8. PriorityRespected'
  BY <1>1 DEF PriorityRespected
<1>9. QED
  BY <1>1, <1>4, <1>5, <1>7, <1>8 DEF IInv

\* SysTick, by the timer or by reschedule(), interrupts the thread that runs.
LEMMA SystickFacts ==
  ASSUME Supported, TypeOK, TypeOK', IInv, systick_exception
  PROVE  /\ cpu = "thread" /\ cpu' = "pendsv" /\ pc' = pc /\ ~reschedule_pending'
         /\ KernelOK(kernel') /\ LateOK(kernel') /\ kernel'.idle = Idle
         /\ Idle \in kernel'.threads /\ kernel'.next \in kernel'.threads
         /\ Queued(kernel') \subseteq kernel'.threads
         /\ LinkedExcept(kernel', {kernel'.next}) /\ Urgent(kernel')
         /\ Quiet /\ Runner = kernel.curr /\ kernel.curr \in kernel.threads
         /\ \E w \in Thread : Dispatched(kernel, kernel', w)
<1>0. /\ KernelOK(kernel) /\ LateOK(kernel) /\ ModeOK /\ RunnerOK /\ CallsOK
      /\ cpu = "thread" /\ scheduler_status /\ pc' = pc
      /\ reschedule_pending' = FALSE /\ SYSTICK_RVR \in Nat
  BY ClockAssumption DEF IInv, systick_exception, Supported
<1>1. PICK runtime \in 0 .. SYSTICK_RVR : kernel' = systick_handler(kernel, runtime)
  <2>1. runtimes \subseteq 0 .. SYSTICK_RVR
    BY <1>0 DEF runtimes
  <2>2. QED
    BY <2>1 DEF systick_exception
<1>2. Quiet
  BY <1>0, NoCall
<1>3. Queued(kernel) \subseteq kernel.threads
  BY <1>2 DEF Quiet
<1>4. Runner = kernel.curr /\ kernel.curr \in kernel.threads
  BY <1>0 DEF Runner, ModeOK
<1>5. Preempted(kernel)
  BY <1>0, <1>4 DEF RunnerOK, Preempted
<1>6. kernel.idle = Idle /\ Idle \in kernel.threads
  BY <1>0 DEF ModeOK
<1>7. /\ KernelOK(kernel') /\ LateOK(kernel') /\ kernel'.idle = Idle
      /\ Idle \in kernel'.threads /\ kernel'.next \in kernel'.threads
      /\ Queued(kernel') \subseteq kernel'.threads
      /\ LinkedExcept(kernel', {kernel'.next}) /\ Urgent(kernel')
      /\ \E w \in Thread : Dispatched(kernel, kernel', w)
  BY <1>0, <1>1, <1>3, <1>4, <1>5, <1>6, SystickOK
<1>8. cpu' = "pendsv"
  BY <1>7 DEF systick_exception, Stops, KernelOK
<1>9. QED
  BY <1>0, <1>2, <1>4, <1>7, <1>8

\* The SysTick handler preserves the invariant.
LEMMA SystickInv ==
  ASSUME Supported, TypeOK, TypeOK', IInv, systick_exception
  PROVE  IInv'
<1>1. /\ cpu' = "pendsv" /\ pc' = pc /\ ~reschedule_pending'
      /\ KernelOK(kernel') /\ LateOK(kernel') /\ kernel'.idle = Idle
      /\ Idle \in kernel'.threads /\ kernel'.next \in kernel'.threads
      /\ Queued(kernel') \subseteq kernel'.threads
      /\ LinkedExcept(kernel', {kernel'.next}) /\ Urgent(kernel') /\ Quiet
  BY SystickFacts
<1>2. Runner' = kernel'.next
  BY <1>1 DEF Runner
<1>3. ModeOK' /\ RunnerOK'
  BY <1>1, <1>2 DEF ModeOK, RunnerOK
<1>4. PriorityRespected'
  BY <1>1 DEF PriorityRespected, Urgent
<1>5. Quiet'
  BY <1>1 DEF Quiet
<1>6. CallsOK'
  BY <1>5, QuietCalls, PTL
<1>7. QED
  BY <1>1, <1>3, <1>4, <1>6 DEF IInv

\* The context switch.
LEMMA PendsvInv ==
  ASSUME TypeOK, TypeOK', IInv, pendsv_exception
  PROVE  IInv'
<1>0. /\ KernelOK(kernel) /\ LateOK(kernel) /\ ModeOK /\ RunnerOK /\ CallsOK
      /\ cpu = "pendsv" /\ cpu' = "thread" /\ pc' = pc
      /\ kernel \in KernelState /\ kernel' \in KernelState
      /\ kernel' = [kernel EXCEPT !.curr = kernel.next]
      /\ reschedule_pending' = reschedule_pending /\ ~reschedule_pending
  BY DEF IInv, pendsv_exception, TypeOK, RunnerOK
<1>1. Quiet
  BY <1>0, NoCall
<1>2. /\ kernel'.list = kernel.list /\ kernel'.wake = kernel.wake
      /\ kernel'.tick = kernel.tick /\ kernel'.panic = kernel.panic
      /\ kernel'.threads = kernel.threads /\ kernel'.freed = kernel.freed
      /\ kernel'.idle = kernel.idle /\ kernel'.curr = kernel.next
      /\ kernel'.exit_pending = kernel.exit_pending
      /\ kernel'.rq_list = kernel.rq_list
      /\ kernel'.tick_to_wake = kernel.tick_to_wake
  BY <1>0 DEF KernelState
<1>3. KernelOK(kernel') /\ LateOK(kernel') /\ Queued(kernel') = Queued(kernel)
  BY <1>0, <1>2, SameQueues
<1>4. Runner' = Runner
  BY <1>0, <1>2 DEF Runner
<1>5. ModeOK' /\ RunnerOK' /\ PriorityRespected'
  BY <1>0, <1>2, <1>3, <1>4 DEF ModeOK, RunnerOK, LinkedExcept, PriorityRespected
<1>6. Quiet'
  BY <1>0, <1>1, <1>2, <1>3 DEF Quiet
<1>7. CallsOK'
  BY <1>6, QuietCalls, PTL
<1>8. QED
  BY <1>3, <1>5, <1>7 DEF IInv

-----------------------------------------------------------------------------
(* The theorems                                                             *)

\* Every step, stuttering included, preserves the inductive invariant.
LEMMA NextInv ==
  ASSUME Supported, TypeOK, TypeOK', IInv, [Next]_vars
  PROVE  IInv'
<1>1. ASSUME NEW t \in Thread \cup {NULL}, ThreadStep(t) PROVE IInv'
  BY <1>1, NewThreadInv, NewReturnInv, KillThreadInv, KillReturnInv,
     ThreadReturnInv, ThreadSleepInv DEF ThreadStep
<1>2. CASE scheduler_start
  BY <1>2, StartInv
<1>3. CASE systick_exception
  BY <1>3, SystickInv
<1>4. CASE pendsv_exception
  BY <1>4, PendsvInv
<1>5. CASE gpioa_exception
  BY <1>5 DEF gpioa_exception, Supported
<1>6. CASE UNCHANGED vars
  BY <1>6 DEF vars, IInv, TypeOK, ModeOK, RunnerOK, CallsOK, PriorityRespected, Runner
<1>7. QED
  BY <1>1, <1>2, <1>3, <1>4, <1>5, <1>6 DEF Next

\* For every workload the scheduler supports, whatever order threads, SVC,
\* SysTick and PendSV run in: IInv is an invariant of the scheduler.
THEOREM Safety ==
  ASSUME Supported
  PROVE  Spec => []IInv
<1>1. TypeInv => TypeOK
  BY DEF TypeInv
<1>2. TypeOK /\ TypeOK' /\ IInv /\ [Next]_vars => IInv'
  BY NextInv
<1>3. QED
  BY <1>1, <1>2, InitType, NextType, InitInv, PTL DEF Spec

\* No assertion of dlist.c, no panic() and no NULL pointer is reached in any
\* handler.
THEOREM NeverPanics ==
  ASSUME Supported
  PROVE  Spec => []NoPanic
<1>1. IInv => NoPanic
  BY DEF IInv, KernelOK, NoPanic
<1>2. QED
  BY <1>1, Safety, PTL

\* A thread control block is linked at most once, in at most one dlist.
THEOREM QueuesDisjoint ==
  ASSUME Supported
  PROVE  Spec => []ListsDisjoint
<1>1. ASSUME IInv PROVE ListsDisjoint
  <2>1. kernel \in KernelState /\ ListsOK(kernel)
    BY <1>1 DEF IInv, KernelOK
  <2>2. SUFFICES ASSUME NEW l \in List, NEW m \in List,
                        NEW i \in DOMAIN kernel.list[l],
                        NEW j \in DOMAIN kernel.list[m],
                        kernel.list[l][i] = kernel.list[m][j]
                 PROVE  l = m /\ i = j
    BY DEF ListsDisjoint
  <2>3. /\ kernel.list[l][i] \in Elems(kernel, l)
        /\ kernel.list[m][j] \in Elems(kernel, m)
    BY DEF Elems, Range
  <2>4. l = m
    BY <2>1, <2>2, <2>3 DEF ListsOK
  <2>5. IsInjective(kernel.list[l])
    BY <2>1 DEF ListsOK
  <2>6. QED
    BY <2>2, <2>4, <2>5 DEF IsInjective
<1>2. QED
  BY <1>1, Safety, PTL

\* Once the system runs, every created thread is in a queue or has the
\* processor, and in both only between its sleep call and the SysTick.
THEOREM NobodyLost ==
  ASSUME Supported
  PROVE  Spec => []NoThreadLost
<1>1. ASSUME IInv PROVE NoThreadLost
  BY <1>1 DEF IInv, RunnerOK, LinkedExcept, NoThreadLost
<1>2. QED
  BY <1>1, Safety, PTL

\* Nothing that was given back to mm_free is queued or runs.
THEOREM FreedUnused ==
  ASSUME Supported
  PROVE  Spec => []NoUseAfterFree
<1>1. ASSUME IInv PROVE NoUseAfterFree
  <2>1. \A t \in Thread : ThreadOK(kernel, t)
    BY <1>1 DEF IInv, KernelOK
  <2>2. kernel.freed \subseteq Thread
    BY <1>1 DEF IInv, TypeOK, KernelState
  <2>3. \A t \in kernel.freed : t \notin kernel.threads \cup Queued(kernel)
    BY <2>1, <2>2 DEF ThreadOK
  <2>4. QED
    BY <1>1, <2>3 DEF IInv, ModeOK, NoUseAfterFree
<1>2. QED
  BY <1>1, Safety, PTL

\* The sleep queue is sorted, and the wake-up time SysTick compares with is
\* never later than the first sleeper's.
THEOREM SleepersSorted ==
  ASSUME Supported
  PROVE  Spec => []SleepQueueOrdered
<1>1. ASSUME IInv PROVE SleepQueueOrdered
  BY <1>1 DEF IInv, KernelOK, SleepOK, SleepQueueOrdered
<1>2. QED
  BY <1>1, Safety, PTL

\* The i-th sleeper is late by at most one slice for each thread that may have
\* stood before it, although one SysTick wakes one thread only.
THEOREM SleepersOnTime ==
  ASSUME Supported
  PROVE  Spec => []WakeLatency
<1>1. ASSUME IInv PROVE WakeLatency
  BY <1>1 DEF IInv, LateOK, WakeLatency
<1>2. QED
  BY <1>1, Safety, PTL

\* The context switch enters a thread of the highest class that is ready.
THEOREM HighestClassRuns ==
  ASSUME Supported
  PROVE  Spec => []PriorityRespected
<1>1. IInv => PriorityRespected
  BY DEF IInv
<1>2. QED
  BY <1>1, Safety, PTL

-----------------------------------------------------------------------------
(* The state of a thread                                                    *)

\* The abstract state of a thread that is neither blocked nor lost, when run has
\* the processor.
Life(k, run, t) ==
  IF t \in k.freed THEN "gone"
  ELSE IF t \notin k.threads THEN "none"
  ELSE IF t \in Elems(k, "sleep_q") THEN "sleeping"
  ELSE IF t = run THEN "running" ELSE "ready"

\* The lifecycle says just that of every thread.
LifeIs == lifecycle = [t \in Thread |-> Life(kernel, Runner, t)]

\* In the states of the invariant nobody is blocked, nobody is lost, and only a
\* thread that is in no queue runs, unless it has just gone to sleep.
LEMMA LifeFacts == IInv => LifeIs
<1> SUFFICES ASSUME IInv, NEW t \in Thread
             PROVE  lifecycle[t] = Life(kernel, Runner, t)
  BY DEF lifecycle, LifeIs
<1>0. ThreadOK(kernel, t) /\ RunnerOK
  BY DEF IInv, KernelOK
<1>1. t \notin Elems(kernel, "blocked_q")
  <2>1. RunQueue(t) # "blocked_q" /\ "blocked_q" \in List
    BY DEF RunQueue, List
  <2>2. QED
    BY <1>0, <2>1 DEF ThreadOK
<1>2. t = Idle => t \notin Queued(kernel)
  BY <1>0, QueuedElems DEF ThreadOK
<1>3. ASSUME t \in kernel.threads, t \notin Elems(kernel, "sleep_q"), t = Runner
      PROVE  t \notin Queued(kernel)
  <2>1. ~reschedule_pending
    BY <1>0, <1>3 DEF RunnerOK, Runner
  <2>2. QED
    BY <1>0, <1>2, <1>3, <2>1 DEF RunnerOK, LinkedExcept
<1>4. ASSUME t \in kernel.threads, t # Runner
      PROVE  t \in Queued(kernel) \cup {Idle}
  BY <1>0, <1>4 DEF RunnerOK, LinkedExcept
<1>5. QED
  BY <1>1, <1>3, <1>4 DEF lifecycle, Life, Elems

\* The lifecycle on both sides of a step.
LEMMA LifeStep ==
  ASSUME IInv, IInv'
  PROVE  /\ lifecycle = [t \in Thread |-> Life(kernel, Runner, t)]
         /\ lifecycle' = [t \in Thread |-> Life(kernel', Runner', t)]
<1>1. LifeIs
  BY LifeFacts
<1>2. LifeIs'
  BY LifeFacts, PTL
<1>3. QED
  BY <1>1, <1>2 DEF LifeIs

\* A step that neither moves a sleeper, creates or frees a thread nor gives the
\* processor to another thread is none of the lifecycle.
LEMMA SameLife ==
  ASSUME IInv, IInv', Runner' = Runner, kernel'.threads = kernel.threads,
         kernel'.freed = kernel.freed,
         Elems(kernel', "sleep_q") = Elems(kernel, "sleep_q")
  PROVE  lifecycle' = lifecycle
<1>1. /\ lifecycle = [t \in Thread |-> Life(kernel, Runner, t)]
      /\ lifecycle' = [t \in Thread |-> Life(kernel', Runner', t)]
  BY LifeStep
<1>2. \A t \in Thread : Life(kernel', Runner', t) = Life(kernel, Runner, t)
  BY DEF Life
<1>3. QED
  BY <1>1, <1>2

\* class->enqueue moves no sleeper and frees nobody.
LEMMA EnqueueKept ==
  ASSUME NEW k \in KernelState, NEW t \in Thread \ {Idle}
  PROVE  LET r == enqueue(k, t)
         IN  /\ SleepersKept(k, r) /\ r.threads = k.threads
             /\ r.curr = k.curr /\ r.next = k.next
<1> DEFINE l  == RunQueue(t)
           k1 == dlist_insert_last(k, t, l)
           Kept(r) == /\ SleepersKept(k, r) /\ r.threads = k.threads
                      /\ r.curr = k.curr /\ r.next = k.next
<1>1. l \in List /\ l # "sleep_q" /\ "sleep_q" \in List /\ Class[t] # "idle"
  BY RunQueueType, ThreadAssumption DEF List
<1> HIDE DEF l
<1>2. ASSUME NEW x PROVE Kept([k EXCEPT !.list[l] = x])
  BY <1>1 DEF KernelState, SleepersKept
<1>3. Kept(k1)
  <2>1. Kept(Panic(k, "List error"))
    BY DEF Panic, KernelState, SleepersKept
  <2>2. Kept([k EXCEPT !.list[l] = InsertAt(k.list[l], Len(k.list[l]) + 1, t)])
    BY <1>2
  <2>3. \/ k1 = Panic(k, "List error")
        \/ k1 = [k EXCEPT !.list[l] = InsertAt(k.list[l], Len(k.list[l]) + 1, t)]
    BY <1>1 DEF dlist_insert_last, dlist_insert, KernelState
  <2>4. QED
    BY <2>1, <2>2, <2>3
<1>4. k1 \in KernelState
  BY <1>1, InsertLastType
<1> HIDE DEF k1
<1>5. Kept([k1 EXCEPT !.rq_list[t] = "rt_rq"])
  BY <1>3, <1>4 DEF KernelState, SleepersKept
<1>6. enqueue(k, t) = k1 \/ enqueue(k, t) = [k1 EXCEPT !.rq_list[t] = "rt_rq"]
  BY <1>1 DEF enqueue, k1, l
<1>7. QED
  BY <1>3, <1>5, <1>6

\* No thread that is ready is of a higher class than the one core_scheduler took.
LEMMA RankOK ==
  ASSUME NEW k, KernelOK(k), Urgent(k), k.next \in Thread,
         NEW t \in Thread, t \in Queued(k) \cup {Idle}, t \notin Elems(k, "sleep_q")
  PROVE  Lifecycle!Rank(k.next) <= Lifecycle!Rank(t)
<1> DEFINE n == k.next
<1>0. /\ ThreadOK(k, t) /\ Class[t] \in Classes /\ Class[n] \in Classes
      /\ (Class[t] = "idle" <=> t = Idle)
  BY ThreadAssumption DEF KernelOK
<1>1. ASSUME t # Idle PROVE k.list[RunQueue(t)] # <<>>
  <2>1. PICK l \in List : t \in Elems(k, l)
    BY <1>1, QueuedElems
  <2>2. l = RunQueue(t)
    BY <1>0, <2>1 DEF ThreadOK
  <2>3. QED
    BY <2>1, <2>2 DEF Elems, Range
<1> HIDE DEF n
<1>2. /\ Class[n] # "rt" => k.list["rt_rq"] = <<>>
      /\ Class[n] \in {"background", "idle"} => k.list["app_rq"] = <<>>
      /\ Class[n] = "idle" => k.list["background_rq"] = <<>>
  BY DEF Urgent, n
<1>3. \A u : Lifecycle!Rank(u) = CASE Class[u] = "rt"         -> 1
                                   [] Class[u] = "app"        -> 2
                                   [] Class[u] = "background" -> 3
                                   [] OTHER                   -> 4
  BY DEF Lifecycle!Rank
<1>4. CASE Class[t] = "rt"
  BY <1>0, <1>1, <1>2, <1>3, <1>4 DEF RunQueue, n
<1>5. CASE Class[t] = "app"
  BY <1>0, <1>1, <1>2, <1>3, <1>5 DEF RunQueue, Classes, n
<1>6. CASE Class[t] = "background"
  BY <1>0, <1>1, <1>2, <1>3, <1>6 DEF RunQueue, Classes, n
<1>7. CASE Class[t] = "idle"
  BY <1>0, <1>3, <1>7 DEF Classes, n
<1>8. QED
  BY <1>0, <1>4, <1>5, <1>6, <1>7 DEF Classes

-----------------------------------------------------------------------------
(* The actions                                                              *)

\* What a step that is none of the lifecycle leaves alone.
Unmoved ==
  /\ Runner' = Runner /\ kernel'.threads = kernel.threads
  /\ kernel'.freed = kernel.freed
  /\ Elems(kernel', "sleep_q") = Elems(kernel, "sleep_q")

\* new_thread up to its return only fills a run queue.
LEMMA NewThreadMoves ==
  ASSUME IInv, IInv', NEW t \in Thread \cup {NULL}, NEW u \in Thread,
         new_thread(t, u)
  PROVE  Unmoved
<1>1. PICK left \in {0, SYSTICK_RVR}, flag \in SUBSET {u} :
        kernel' = enqueue([kernel EXCEPT !.rq_list[u] = NULL,
                                         !.link[u] = "thread_exit",
                                         !.tick_to_wake[u] = left,
                                         !.exit_pending = @ \cup flag], u)
  BY DEF new_thread
<1> DEFINE k == [kernel EXCEPT !.rq_list[u] = NULL, !.link[u] = "thread_exit",
                               !.tick_to_wake[u] = left,
                               !.exit_pending = @ \cup flag]
<1>2. left \in Nat /\ flag \subseteq Thread /\ u # Idle /\ kernel \in KernelState
  BY ClockAssumption DEF new_thread, IInv, TypeOK
<1>3. /\ k.list = kernel.list /\ k.threads = kernel.threads
      /\ k.freed = kernel.freed /\ k.curr = kernel.curr /\ k.next = kernel.next
      /\ k \in KernelState
  BY <1>2 DEF KernelState
<1>4. kernel' = enqueue(k, u)
  BY <1>1
<1> HIDE DEF k
<1>5. /\ SleepersKept(k, kernel') /\ kernel'.threads = k.threads
      /\ kernel'.curr = k.curr /\ kernel'.next = k.next
  BY <1>2, <1>3, <1>4, EnqueueKept
<1>6. cpu' = cpu
  BY DEF new_thread, Stops, IInv, ModeOK
<1>7. Runner' = Runner
  BY <1>3, <1>5, <1>6 DEF Runner
<1>8. QED
  BY <1>3, <1>5, <1>7 DEF Unmoved, SleepersKept, Elems

\* The calls that only touch exit_pending.
LEMMA ExitMoves ==
  ASSUME IInv, NEW t \in Thread \cup {NULL},
         \/ \E u \in Thread : kill_thread(t, u)
         \/ kill_thread_return(t)
         \/ thread_return(t)
  PROVE  Unmoved
<1>1. cpu' = cpu /\ kernel \in KernelState
  BY DEF kill_thread, kill_thread_return, thread_return, IInv, TypeOK
<1>2. \/ kernel' = kernel
      \/ \E X : kernel' = [kernel EXCEPT !.exit_pending = X]
  BY DEF kill_thread, kill_thread_return, thread_return
<1>3. /\ kernel'.list = kernel.list /\ kernel'.threads = kernel.threads
      /\ kernel'.freed = kernel.freed /\ kernel'.curr = kernel.curr
      /\ kernel'.next = kernel.next
  BY <1>1, <1>2 DEF KernelState
<1>4. QED
  BY <1>1, <1>3 DEF Unmoved, Runner, Elems

\* The context switch: who was about to run now runs.
LEMMA PendsvMoves ==
  ASSUME IInv, pendsv_exception
  PROVE  Unmoved
<1>1. /\ kernel' = [kernel EXCEPT !.curr = kernel.next] /\ cpu = "pendsv"
      /\ cpu' = "thread" /\ kernel \in KernelState
  BY DEF pendsv_exception, IInv, TypeOK
<1>2. /\ kernel'.list = kernel.list /\ kernel'.threads = kernel.threads
      /\ kernel'.freed = kernel.freed /\ kernel'.curr = kernel.next
  BY <1>1 DEF KernelState
<1>3. QED
  BY <1>1, <1>2 DEF Unmoved, Runner, Elems

\* The return of new_thread creates the thread, ready.
LEMMA CreateStep ==
  ASSUME IInv, IInv', NEW t \in Thread \cup {NULL}, new_thread_return(t)
  PROVE  /\ \E u \in Thread : Lifecycle!Create(u)
         /\ Elems(kernel', "sleep_q") = Elems(kernel, "sleep_q")
<1> DEFINE u == pc[t].of
<1>0. /\ kernel' = [kernel EXCEPT !.threads = @ \cup {u}, !.tick_to_wake[u] = 0,
                                  !.exit_pending = @ \ {u}]
      /\ cpu' = cpu /\ pc[t].at = "new" /\ kernel \in KernelState
  BY DEF new_thread_return, IInv, TypeOK
<1>1. /\ u \in Thread \ {Idle} /\ u \notin kernel.threads \cup kernel.freed
      /\ cpu # "boot" => Runner \in kernel.threads
      /\ cpu = "boot" => Runner = NULL
  BY <1>0 DEF IInv, CallsOK, ModeOK, Runner
<1> HIDE DEF u
<1>2. /\ kernel'.list = kernel.list /\ kernel'.threads = kernel.threads \cup {u}
      /\ kernel'.freed = kernel.freed /\ kernel'.curr = kernel.curr
      /\ kernel'.next = kernel.next
  BY <1>0 DEF KernelState
<1>3. Elems(kernel', "sleep_q") = Elems(kernel, "sleep_q") /\ Runner' = Runner
  BY <1>0, <1>2 DEF Elems, Runner
<1>4. u \notin Elems(kernel, "sleep_q") /\ u # Runner
  BY <1>1, ThreadAssumption DEF IInv, KernelOK, ThreadOK
<1>5. /\ lifecycle = [v \in Thread |-> Life(kernel, Runner, v)]
      /\ lifecycle' = [v \in Thread |-> Life(kernel', Runner', v)]
  BY LifeStep
<1>6. Life(kernel, Runner, u) = "none" /\ Life(kernel', Runner', u) = "ready"
  BY <1>1, <1>2, <1>3, <1>4 DEF Life
<1>7. \A v \in Thread \ {u} : Life(kernel', Runner', v) = Life(kernel, Runner, v)
  BY <1>2, <1>3 DEF Life
<1>8. Lifecycle!Create(u)
  BY <1>1, <1>5, <1>6, <1>7 DEF Lifecycle!Create
<1>9. QED
  BY <1>1, <1>3, <1>8

\* syscall_thread_sleep puts the running thread to sleep.
LEMMA SleepStep ==
  ASSUME Supported, IInv, IInv', NEW t \in Thread \cup {NULL}, NEW ms \in SleepMs,
         thread_sleep(t, ms)
  PROVE  /\ \E u \in Thread : Lifecycle!Sleep(u)
         /\ Elems(kernel, "sleep_q") \subseteq Elems(kernel', "sleep_q")
<1> DEFINE n == kernel.tick + ms * SYSTICK_RVR
<1>0. /\ KernelOK(kernel) /\ LateOK(kernel) /\ ModeOK /\ RunnerOK
      /\ t = kernel.curr /\ cpu = "thread" /\ ~reschedule_pending /\ t # Idle
      /\ kernel.tick \in Nat /\ kernel \in KernelState
      /\ kernel' = scheduler_enqueue_delay([kernel EXCEPT !.tick_to_wake[t] = n], t)
  BY WorkloadAssumption DEF IInv, thread_sleep, Executes, TypeOK, KernelState
<1>1. n \in Nat /\ kernel.tick + SYSTICK_RVR <= n
  <2>1. ms \in Nat /\ 1 <= ms /\ SYSTICK_RVR \in Nat
    BY ClockAssumption DEF Supported
  <2>2. 1 * SYSTICK_RVR <= ms * SYSTICK_RVR /\ ms * SYSTICK_RVR \in Nat
    BY <2>1, Slices
  <2>3. QED
    BY <1>0, <2>1, <2>2
<1> HIDE DEF n
<1>2. Runner = t /\ t \in kernel.threads /\ t \in Thread \ {Idle}
  BY <1>0 DEF ModeOK, Runner, KernelState
<1>3. t \notin Queued(kernel)
  BY <1>0, <1>2 DEF RunnerOK, LinkedExcept
<1>4. /\ SameRest(kernel, kernel') /\ t \in Elems(kernel', "sleep_q")
      /\ Others(kernel, kernel', t) /\ KernelOK(kernel')
  BY <1>0, <1>1, <1>2, <1>3, EnqueueDelayOK
<1>5. cpu' = cpu
  BY <1>4 DEF thread_sleep, Stops, KernelOK
<1>6. Runner' = t
  BY <1>0, <1>2, <1>4, <1>5 DEF Runner, SameRest
<1>7. "sleep_q" \in List /\ t \notin Elems(kernel, "sleep_q") /\ t \notin kernel.freed
  BY <1>0, <1>2, <1>3, QueuedElems DEF List, KernelOK, ThreadOK
<1>8. \A u \in Thread \ {t} : u \in Elems(kernel', "sleep_q") <=> u \in Elems(kernel, "sleep_q")
  BY <1>4, <1>7 DEF Others
<1>9. /\ lifecycle = [v \in Thread |-> Life(kernel, Runner, v)]
      /\ lifecycle' = [v \in Thread |-> Life(kernel', Runner', v)]
  BY LifeStep
<1>10. Life(kernel, Runner, t) = "running" /\ Life(kernel', Runner', t) = "sleeping"
  BY <1>2, <1>4, <1>7 DEF Life, SameRest
<1>11. \A v \in Thread \ {t} : Life(kernel', Runner', v) = Life(kernel, Runner, v)
  BY <1>2, <1>4, <1>6, <1>8 DEF Life, SameRest
<1>12. Lifecycle!Sleep(t)
  BY <1>2, <1>9, <1>10, <1>11 DEF Lifecycle!Sleep
<1>13. Elems(kernel, "sleep_q") \subseteq Thread
  BY <1>0, <1>7, ListType
<1>14. QED
  BY <1>2, <1>4, <1>8, <1>12, <1>13

\* scheduler_start creates the idle thread and dispatches, in one go.
LEMMA StartStep ==
  ASSUME TypeOK, TypeOK', IInv, IInv', scheduler_start
  PROVE  /\ \E n \in Thread : Lifecycle!Start(Idle, n)
         /\ Elems(kernel', "sleep_q") = Elems(kernel, "sleep_q")
<1> DEFINE n == kernel'.curr
<1>1. /\ KernelOK(kernel') /\ cpu' = "thread"
      /\ kernel'.threads = kernel.threads \cup {Idle}
      /\ n \in kernel'.threads /\ kernel'.next = n
      /\ LinkedExcept(kernel', {n}) /\ Urgent(kernel')
      /\ SleepersKept(kernel, kernel')
  BY StartFacts
<1>2. /\ cpu = "boot" /\ kernel.curr = NULL /\ kernel.list["sleep_q"] = <<>>
      /\ Idle \notin kernel.threads \cup kernel.freed /\ Idle \in Thread
      /\ NULL \notin Thread /\ kernel.threads \subseteq Thread
  BY ThreadAssumption DEF scheduler_start, IInv, ModeOK, TypeOK, KernelState
<1>3. /\ kernel'.freed = kernel.freed /\ Elems(kernel, "sleep_q") = {}
      /\ Elems(kernel', "sleep_q") = {}
  BY <1>1, <1>2 DEF SleepersKept, Elems, Range
<1>4. Runner = NULL /\ Runner' = n /\ n \in Thread
  BY <1>1, <1>2 DEF Runner
<1>5. /\ lifecycle = [v \in Thread |-> Life(kernel, Runner, v)]
      /\ lifecycle' = [v \in Thread |-> Life(kernel', Runner', v)]
  BY LifeStep
<1>6. \A v \in Thread : v \in kernel'.threads => v \notin kernel'.freed
  BY <1>1 DEF KernelOK, ThreadOK
<1> HIDE DEF n
<1>7. Life(kernel', Runner', n) = "running"
  BY <1>1, <1>3, <1>4, <1>6 DEF Life
<1>8. ASSUME NEW v \in Thread \ {n}
      PROVE  Life(kernel', Runner', v) = IF v = Idle THEN "ready" ELSE Life(kernel, Runner, v)
  BY <1>1, <1>2, <1>3, <1>4, <1>6, <1>8 DEF Life
<1>9. ASSUME NEW v \in Thread, Life(kernel', Runner', v) = "ready"
      PROVE  Lifecycle!Rank(n) <= Lifecycle!Rank(v)
  <2>1. v \in kernel'.threads /\ v # n
    BY <1>4, <1>9 DEF Life
  <2>2. v \in Queued(kernel') \cup {Idle} /\ v \notin Elems(kernel', "sleep_q")
    BY <1>1, <1>3, <2>1 DEF LinkedExcept
  <2>3. QED
    BY <1>1, <1>4, <2>2, RankOK
<1>10. \A v \in Thread : Life(kernel, Runner, v) # "running"
  BY <1>2, <1>4 DEF Life
<1>11. Life(kernel, Runner, Idle) = "none"
  BY <1>2 DEF Life
<1>12. Lifecycle!Start(Idle, n)
  BY <1>2, <1>4, <1>5, <1>7, <1>8, <1>9, <1>10, <1>11 DEF Lifecycle!Start, Lifecycle!In
<1>13. QED
  BY <1>3, <1>4, <1>12

\* SysTick wakes nobody but sleepers, frees at most the thread it interrupted
\* and gives the processor to a thread of the highest class that is ready.
LEMMA DispatchStep ==
  ASSUME Supported, TypeOK, TypeOK', IInv, IInv', systick_exception
  PROVE  \E n \in Thread : Lifecycle!Dispatch(n)
<1> DEFINE n == kernel'.next
           A(v) == Life(kernel, Runner, v)
           B(v) == Life(kernel', Runner', v)
<1>1. /\ cpu = "thread" /\ cpu' = "pendsv" /\ KernelOK(kernel')
      /\ n \in kernel'.threads /\ LinkedExcept(kernel', {n}) /\ Urgent(kernel')
      /\ Runner = kernel.curr /\ kernel.curr \in kernel.threads
      /\ \E w \in Thread : Dispatched(kernel, kernel', w)
  BY SystickFacts
<1>2. PICK w \in Thread : Dispatched(kernel, kernel', w)
  BY <1>1
<1>3. /\ Elems(kernel', "sleep_q") \subseteq Elems(kernel, "sleep_q")
      /\ \A v \in Elems(kernel, "sleep_q") \ Elems(kernel', "sleep_q") :
           v \in kernel'.freed \/ v = w
      /\ kernel.freed \subseteq kernel'.freed
      /\ kernel'.freed \subseteq kernel.freed \cup {Runner}
      /\ kernel'.threads = kernel.threads \ kernel'.freed
  BY <1>1, <1>2 DEF Dispatched
<1>4. /\ Runner' = n /\ n \in Thread
      /\ n \notin kernel'.freed /\ n \notin Elems(kernel', "sleep_q")
  <2>1. n \in Thread /\ "sleep_q" \in List
    BY <1>1 DEF KernelOK, KernelState, List
  <2>2. ThreadOK(kernel', n)
    BY <1>1, <2>1 DEF KernelOK
  <2>3. n \notin Queued(kernel')
    BY <1>1, <2>2, QueuedElems DEF LinkedExcept, ThreadOK
  <2>4. QED
    BY <1>1, <2>1, <2>2, <2>3, QueuedElems DEF Runner, ThreadOK
<1>5. /\ lifecycle = [v \in Thread |-> A(v)] /\ lifecycle' = [v \in Thread |-> B(v)]
  BY LifeStep
<1>6. \A v \in Thread : v \in kernel.threads => v \notin kernel.freed
  BY DEF IInv, KernelOK, ThreadOK
<1>7. Elems(kernel, "sleep_q") \subseteq kernel.threads
  <2>1. Elems(kernel, "sleep_q") \subseteq Thread
    BY ListType DEF IInv, TypeOK, List
  <2>2. QED
    BY <2>1 DEF IInv, KernelOK, ThreadOK
<1> HIDE DEF n
<1>8. B(n) = "running" /\ \A v \in Thread \ {n} : B(v) # "running"
  BY <1>1, <1>4 DEF Life
<1>9. ASSUME NEW v \in Thread
      PROVE  /\ A(v) = "gone" => B(v) = "gone"
             /\ A(v) = "none" => B(v) = "none"
             /\ A(v) = "sleeping" => B(v) \in {"sleeping", "ready", "running", "gone"}
             /\ A(v) = "running" => B(v) \in {"ready", "running", "gone"}
             /\ A(v) = "ready" => B(v) \in {"ready", "running"}
             /\ A(v) \in {"gone", "none", "sleeping", "running", "ready"}
  <2>1. CASE v \in kernel.freed
    BY <1>3, <2>1 DEF Life
  <2>2. CASE v \notin kernel.freed /\ v \notin kernel.threads
    BY <1>1, <1>3, <2>2 DEF Life
  <2>3. CASE v \notin kernel.freed /\ v \in Elems(kernel, "sleep_q")
    BY <1>3, <1>7, <2>3 DEF Life
  <2>4. CASE v \notin kernel.freed /\ v \in kernel.threads /\ v \notin Elems(kernel, "sleep_q")
    BY <1>3, <2>4 DEF Life
  <2>5. QED
    BY <2>1, <2>2, <2>3, <2>4
<1>10. ASSUME NEW v \in Thread, B(v) = "ready"
       PROVE  Lifecycle!Rank(n) <= Lifecycle!Rank(v)
  <2>1. v \in kernel'.threads /\ v # n /\ v \notin Elems(kernel', "sleep_q")
    BY <1>4, <1>10 DEF Life
  <2>2. v \in Queued(kernel') \cup {Idle}
    BY <1>1, <2>1 DEF LinkedExcept
  <2>3. QED
    BY <1>1, <1>4, <2>1, <2>2, RankOK DEF n
<1> HIDE DEF A, B
<1>11. \A v \in Thread : lifecycle'[v] \in Lifecycle!Successors[lifecycle[v]]
  <2>1. /\ Lifecycle!Successors["gone"] = {"gone"}
        /\ Lifecycle!Successors["none"] = {"none"}
        /\ Lifecycle!Successors["sleeping"] = {"sleeping", "ready", "running", "gone"}
        /\ Lifecycle!Successors["running"] = {"ready", "running", "gone"}
        /\ Lifecycle!Successors["ready"] = {"ready", "running"}
    BY DEF Lifecycle!Successors, Lifecycle!State
  <2>2. QED
    BY <1>5, <1>9, <2>1
<1>12. /\ lifecycle'[n] = "running" /\ \A v \in Thread \ {n} : lifecycle'[v] # "running"
       /\ \A v \in Thread : lifecycle'[v] = "ready" => Lifecycle!Rank(n) <= Lifecycle!Rank(v)
  BY <1>4, <1>5, <1>8, <1>10
<1>13. Lifecycle!Dispatch(n)
  BY <1>11, <1>12 DEF Lifecycle!Dispatch
<1>14. QED
  BY <1>4, <1>13

-----------------------------------------------------------------------------
(* The theorems                                                             *)

\* What a step may do to one sleeper.
WakesInTime(t) ==
  \/ t \in Range(kernel'.list["sleep_q"])
  \/ kernel.tick_to_wake[t] <= kernel'.tick
  \/ t \in kernel'.freed
  \/ kernel'.rq_list[t] = "blocked_q"

\* Every step of a thread, of SysTick and of PendSV lets the sleepers sleep.
LEMMA SleepersStep ==
  ASSUME Supported, TypeOK, TypeOK', IInv, IInv', [Next]_vars,
         NEW t \in Range(kernel.list["sleep_q"])
  PROVE  WakesInTime(t)
<1>0. t \in Elems(kernel, "sleep_q")
  BY DEF Elems
<1>1. SUFFICES \/ Elems(kernel, "sleep_q") \subseteq Elems(kernel', "sleep_q")
               \/ \E w \in Thread : Dispatched(kernel, kernel', w)
  BY <1>0 DEF Dispatched, Elems, WakesInTime
<1>2. ASSUME NEW c \in Thread \cup {NULL}, ThreadStep(c)
      PROVE  Elems(kernel, "sleep_q") \subseteq Elems(kernel', "sleep_q")
  BY <1>2, NewThreadMoves, CreateStep, ExitMoves, SleepStep DEF ThreadStep, Unmoved
<1>3. CASE scheduler_start
  BY <1>3, StartStep
<1>4. CASE systick_exception
  BY <1>4, SystickFacts
<1>5. CASE pendsv_exception
  BY <1>5, PendsvMoves DEF Unmoved
<1>6. CASE gpioa_exception
  BY <1>6 DEF gpioa_exception, Supported
<1>7. CASE UNCHANGED vars
  BY <1>7 DEF vars
<1>8. QED
  BY <1>2, <1>3, <1>4, <1>5, <1>6, <1>7 DEF Next

\* No thread leaves the sleep queue before the time it asked for, unless it is
\* removed from the system, whatever order threads, SVC, SysTick and PendSV run
\* in (thread_sleep, process_expired_delays, scheduler_remove_thread).
THEOREM NoEarlyWakeups ==
  ASSUME Supported
  PROVE  Spec => NoEarlyWake
<1>1. IInv => TypeOK
  BY DEF IInv
<1>2. TypeOK /\ TypeOK' /\ IInv /\ IInv' /\ [Next]_vars =>
        [\A t \in Range(kernel.list["sleep_q"]) :
           \/ t \in Range(kernel'.list["sleep_q"])
           \/ kernel.tick_to_wake[t] <= kernel'.tick
           \/ t \in kernel'.freed
           \/ kernel'.rq_list[t] = "blocked_q"]_vars
  BY SleepersStep DEF WakesInTime
<1>3. QED
  BY <1>1, <1>2, Safety, PTL DEF Spec, NoEarlyWake

\* Every step is one of the lifecycle, or none.
LEMMA LifecycleStep ==
  ASSUME Supported, TypeOK, TypeOK', IInv, IInv', [Next]_vars
  PROVE  Lifecycle!Next \/ lifecycle' = lifecycle
<1>1. ASSUME Unmoved PROVE lifecycle' = lifecycle
  BY <1>1, SameLife DEF Unmoved
<1>2. ASSUME NEW c \in Thread \cup {NULL}, ThreadStep(c)
      PROVE  Lifecycle!Next \/ lifecycle' = lifecycle
  <2>1. CASE \E u \in Thread : new_thread(c, u)
    BY <1>1, <2>1, NewThreadMoves
  <2>2. CASE new_thread_return(c)
    BY <2>2, CreateStep DEF Lifecycle!Next
  <2>3. CASE \E u \in Thread : kill_thread(c, u)
    BY <1>1, <2>3, ExitMoves
  <2>4. CASE kill_thread_return(c) \/ thread_return(c)
    BY <1>1, <2>4, ExitMoves
  <2>5. CASE \E ms \in SleepMs : thread_sleep(c, ms)
    BY <2>5, SleepStep DEF Lifecycle!Next
  <2>6. QED
    BY <1>2, <2>1, <2>2, <2>3, <2>4, <2>5 DEF ThreadStep
<1>3. CASE scheduler_start
  BY <1>3, StartStep, ThreadAssumption DEF Lifecycle!Next
<1>4. CASE systick_exception
  BY <1>4, DispatchStep DEF Lifecycle!Next
<1>5. CASE pendsv_exception
  BY <1>1, <1>5, PendsvMoves
<1>6. CASE gpioa_exception
  BY <1>6 DEF gpioa_exception, Supported
<1>7. CASE UNCHANGED vars
  BY <1>7 DEF vars, lifecycle, Runner, Queued
<1>8. QED
  BY <1>2, <1>3, <1>4, <1>5, <1>6, <1>7 DEF Next

\* The queues of scheduler.c implement ThreadLifecycle: whatever the handlers do
\* and in whatever order, what the queues say of the threads is a behaviour of
\* the abstract specification.
THEOREM Refinement ==
  ASSUME Supported
  PROVE  Spec => ImplementsLifecycle
<1>1. IInv => TypeOK
  BY DEF IInv
<1>2. Init => Lifecycle!Init
  BY DEF Init, Lifecycle!Init, lifecycle
<1>3. TypeOK /\ TypeOK' /\ IInv /\ IInv' /\ [Next]_vars =>
        [Fine(kernel') => Lifecycle!Next]_lifecycle
  BY LifecycleStep
<1>4. QED
  BY <1>1, <1>2, <1>3, Safety, PTL DEF Spec, ImplementsLifecycle
=============================================================================
