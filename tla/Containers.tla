----------------------------- MODULE Containers -------------------------------
(***************************************************************************)
(* Objects that come from a umalloc pool and are linked into the two kinds *)
(* of lists, the way the kernel keeps its threads and requests: an object  *)
(* is allocated, its node is initialised, it moves between the dlists and  *)
(* the list.h ring, and is freed. A panic stops the system.                *)
(***************************************************************************)
EXTENDS Umalloc, LinkedLists

CONSTANTS
  DLists,      \* the dlists
  HEAD         \* the head node of the ring

\* The head is a node of its own, outside the pool, and no node is at NULL.
ASSUME NodeAssumption == NULL \notin Nat /\ HEAD \notin Nat \cup DLists \cup {NULL}

VARIABLES
  pool,        \* umalloc_desc
  mem,         \* the nodes, in the blocks of the pool and in HEAD
  dl,          \* the dlists
  held,        \* blocks the callers own
  halted

vars == <<pool, mem, dl, held, halted>>

Blocks == {index_to_addr(i) : i \in 0 .. block_count - 1}
Filled == [prev |-> -1, next |-> -1]       \* memory_fill with 0xFF

\* Walks in both directions; a bound above the number of nodes shows a cycle.
Forward(l) == Walk(mem, dl[l].first, NULL, "next", block_count + 1)
Backward(l) == Walk(mem, dl[l].last, NULL, "prev", block_count + 1)
Ring == Walk(mem, mem[HEAD].next, HEAD, "next", block_count + 1)
RingBack == Walk(mem, mem[HEAD].prev, HEAD, "prev", block_count + 1)

Nodes(p) == IF p = HEAD THEN Ring ELSE Forward(p)
Members(l) == ToSet(Forward(l))
InList(n) == n \in ToSet(Ring) \/ \E l \in DLists : n \in Members(l)

Init ==
  /\ pool = umalloc_new
  /\ mem = [n \in Blocks \cup {HEAD} |-> IF n = HEAD THEN list_init(HEAD) ELSE Filled]
  /\ dl = [l \in DLists |-> dlist_init]
  /\ held = {} /\ halted = FALSE

Panic == halted' = TRUE /\ UNCHANGED <<pool, mem, dl, held>>

\* umalloc and the initialisation of the node.
Allocate ==
  IF pool.bitmap = {} THEN Panic
  ELSE LET n == index_to_addr(get_first_free_index(pool))
       IN /\ pool' = umalloc(pool)
          /\ mem' = [mem EXCEPT ![n] = node_init]
          /\ held' = held \cup {n}
          /\ UNCHANGED <<dl, halted>>

\* Any address: a block twice, one inside a block, one of the bitmap.
Free(ptr) ==
  /\ ~InList(ptr)
  /\ IF MayFree(pool, ptr)
       THEN /\ pool' = ufree(pool, ptr)
            /\ held' = held \ {ptr}
            /\ UNCHANGED <<mem, dl, halted>>
       ELSE Panic

\* What dlist.c does not detect: a node that is the only one of another list.
OnlyElsewhere(l, n) == \E k \in DLists \ {l} : dl[k].first = n /\ dl[k].last = n

On(l) == [m |-> mem, l |-> dl[l]]
Becomes(l, s) ==
  /\ mem' = s.m /\ dl' = [dl EXCEPT ![l] = s.l]
  /\ UNCHANGED <<pool, held, halted>>

Insert(l, n, s) ==
  /\ ~OnlyElsewhere(l, n)
  /\ IF Insertable(On(l), n) THEN Becomes(l, s) ELSE Panic

InsertFirst(l, n) == Insert(l, n, dlist_insert_first(On(l), n))
InsertLast(l, n) == Insert(l, n, dlist_insert_last(On(l), n))
InsertAfter(l, n, a) == Insert(l, n, dlist_insert_after(On(l), n, a))
InsertBefore(l, n, b) == Insert(l, n, dlist_insert_before(On(l), n, b))

TakeFirst(l) == IF dl[l].first = NULL THEN Panic ELSE Becomes(l, dlist_remove_first(On(l)))
TakeLast(l) == IF dl[l].last = NULL THEN Panic ELSE Becomes(l, dlist_remove_last(On(l)))
TakeNode(l, n) == n \in Members(l) /\ Becomes(l, dlist_remove(On(l), n))

RingStep(m) == mem' = m /\ UNCHANGED <<pool, dl, held, halted>>

\* list.h has no assertions: callers add only a node that is in no list.
RingAddFirst(n) == ~InList(n) /\ RingStep(list_add_first(mem, n, HEAD))
RingAddLast(n) == ~InList(n) /\ RingStep(list_add_last(mem, n, HEAD))
RingDeleteFirst == RingStep(list_delete_first(mem, HEAD))
RingDeleteLast == RingStep(list_delete_last(mem, HEAD))
RingDelete(n) == n \in ToSet(Ring) /\ RingStep(list_delete_node(mem, n))

DlistOps ==
  \E l \in DLists :
    \/ \E n \in held :
         \/ InsertFirst(l, n) \/ InsertLast(l, n) \/ TakeNode(l, n)
         \/ \E m \in Members(l) \ {n} : InsertAfter(l, n, m) \/ InsertBefore(l, n, m)
    \/ TakeFirst(l) \/ TakeLast(l)

RingOps ==
  \/ \E n \in held : RingAddFirst(n) \/ RingAddLast(n) \/ RingDelete(n)
  \/ RingDeleteFirst \/ RingDeleteLast

Next ==
  /\ ~halted
  /\ Allocate \/ (\E ptr \in 0 .. arena_size + 1 : Free(ptr)) \/ DlistOps \/ RingOps

Spec == Init /\ [][Next]_vars

-----------------------------------------------------------------------------
(***************************************************************************)
(* Properties                                                              *)
(***************************************************************************)

\* Every list reads the same in both directions, without a cycle, its size is
\* right, no node is in two of them, and a node in none has no links, which is
\* all that the assertions of the insertions look at.
ListsSound ==
  /\ \A l \in DLists : Backward(l) = Reverse(Forward(l)) /\ dl[l].size = Len(Forward(l))
  /\ RingBack = Reverse(Ring)
  /\ \A p \in DLists \cup {HEAD} : ToSet(Nodes(p)) \subseteq held
  /\ \A p, r \in DLists \cup {HEAD} :
       \A i \in DOMAIN Nodes(p), j \in DOMAIN Nodes(r) :
         Nodes(p)[i] = Nodes(r)[j] => p = r /\ i = j
  /\ \A n \in held : ~InList(n) => mem[n] = node_init

\* The pool: a block is owned by a caller exactly when its bit is clear, the
\* counter agrees, and every block lies in front of the bitmap in the pages
\* that were allocated. A wrong or repeated ufree is never accepted.
PoolSound ==
  /\ held = {index_to_addr(i) : i \in (0 .. block_count - 1) \ pool.bitmap}
  /\ pool.used = Cardinality(held)
  /\ \A n \in held : n + BlockSize <= arena_size
  /\ arena_size + bitmap_size <= pages * PageSize

At(s, n) == CHOOSE i \in DOMAIN s : s[i] = n

\* What the operations do to the sequence of nodes, and to one list only.
OnSequence(l, n) ==
  LET s == Forward(l)
      done == ~halted'
  IN /\ InsertFirst(l, n) /\ done => Forward(l)' = <<n>> \o s
     /\ InsertLast(l, n) /\ done => Forward(l)' = Append(s, n)
     /\ TakeNode(l, n) => Forward(l)' = RemoveAt(s, At(s, n))
     /\ \A m \in Members(l) \ {n} :
          /\ InsertAfter(l, n, m) /\ done => Forward(l)' = InsertAt(s, At(s, m) + 1, n)
          /\ InsertBefore(l, n, m) /\ done => Forward(l)' = InsertAt(s, At(s, m), n)

OneListOnly ==
  /\ \A l \in DLists :
       dl'[l] # dl[l] => Ring' = Ring /\ \A k \in DLists \ {l} : Forward(k)' = Forward(k)
  /\ Ring' # Ring => \A k \in DLists : Forward(k)' = Forward(k)

\* Each operation does to the sequence of nodes what its name says and leaves
\* the other lists alone, which is how Scheduler uses dlist.c.
OpsAreSequenceOps == [][(\A l \in DLists, n \in held : OnSequence(l, n)) /\ OneListOnly]_vars
=============================================================================
