--------------------------- MODULE MemoryManager ---------------------------
(***************************************************************************)
(* The first-fit allocator of mm/mm.c, header by header.  Every block      *)
(* begins with an mm_node; the free blocks of a memory are chained by      *)
(* their next pointers from the root object of the memory to its last      *)
(* node.  Addresses and sizes are in bytes; a header is only ever at a     *)
(* multiple of MM_ALIGN.  The kernel calls mm_alloc and mm_free from SVC   *)
(* and from SysTick, which run one at a time.                              *)
(***************************************************************************)
EXTENDS Naturals, Sequences, FiniteSets, FiniteSetsExt

CONSTANTS
  Region,      \* the physical memories; r also stands for its root object
  start_addr,  \* of each memory, as configured
  end_addr,    \* of each memory, as configured
  min_alloc,   \* the smallest block of each memory, header included
  NULL,        \* the NULL pointer
  ALLOCATED,   \* 0xC0DEBABE, in place of next
  Sizes,       \* the sizes callers ask for
  Word,        \* 2^32: u32 arithmetic is modulo this
  Careless     \* may callers free a pointer twice?

MM_ALIGN == 8

\* sizeof(struct mm_node)
Node == 8

VARIABLES
  next,        \* the next field of the header at each address
  size,        \* its size field, without the region bits
  region,      \* its region bits
  allocated,   \* physmem->allocated
  held,        \* the pointers callers hold, with the size they asked for
  stale,       \* the pointers callers have freed (if they are careless)
  answer,      \* what the last mm_alloc returned
  panic        \* the machine has stopped

vars == <<next, size, region, allocated, held, stale, answer, panic>>

-----------------------------------------------------------------------------
(* mm_init                                                                  *)

Down(a) == a - (a % MM_ALIGN)

\* Aligned upwards; an aligned value stays.
Up(a) == IF a % MM_ALIGN = 0 THEN a ELSE Down(a + MM_ALIGN)

node_start(r) == Up(start_addr[r])
node_end(r)   == Down(end_addr[r]) - Node
total(r)      == node_end(r) - node_start(r)

ASSUME TypeAssumption ==
  /\ IsFiniteSet(Region) /\ Sizes \subseteq Nat /\ Word \in Nat \ {0}
  /\ start_addr \in [Region -> Nat] /\ end_addr \in [Region -> Nat]
  /\ min_alloc \in [Region -> Nat] /\ Careless \in BOOLEAN

ASSUME MemoryAssumption ==
  /\ Region \cap Nat = {} /\ {NULL, ALLOCATED} \cap (Region \cup Nat) = {}
  /\ NULL # ALLOCATED
  /\ \A r \in Region :
       /\ 0 < start_addr[r] /\ node_start(r) < node_end(r) /\ end_addr[r] < Word
       /\ min_alloc[r] >= 2 * Node /\ min_alloc[r] % MM_ALIGN = 0
       /\ \A s \in Region \ {r} :
            end_addr[r] <= start_addr[s] \/ end_addr[s] <= start_addr[r]

\* Where a header can be.
Header(r) == {a \in node_start(r) .. node_end(r) : a % MM_ALIGN = 0}
Headers == UNION {Header(r) : r \in Region}

\* The headers as one value, so that a function can return them changed.
Heads == [next |-> next, size |-> size, region |-> region]

Init ==
  /\ next = [a \in Headers \cup Region |->
               IF a \in Region THEN node_start(a)
               ELSE IF \E r \in Region : a = node_start(r)
                    THEN node_end(CHOOSE r \in Region : a = node_start(r))
               ELSE NULL]
  /\ size = [a \in Headers \cup Region |->
               IF \E r \in Region : a = node_start(r)
               THEN total(CHOOSE r \in Region : a = node_start(r)) ELSE 0]
  /\ region = [a \in Headers |-> IF \E r \in Region : a = node_start(r)
                                 THEN CHOOSE r \in Region : a = node_start(r)
                                 ELSE NULL]
  /\ allocated = [r \in Region |-> 0]
  /\ held = [p \in {} |-> 0]
  /\ stale = {}
  /\ answer = NULL
  /\ panic = FALSE

-----------------------------------------------------------------------------
(* The free list                                                            *)

\* The loops over the list: i steps from the root object of r along the next
\* pointers, or NULL once the list has ended.
Walk(h, r) ==
  LET at[i \in 0 .. Cardinality(Headers)] ==
        IF i = 0 THEN r
        ELSE IF at[i - 1] = NULL THEN NULL ELSE h.next[at[i - 1]]
  IN  at

\* The root object of r and the nodes that follow it, up to the NULL.
Chain(h, r) ==
  LET at == Walk(h, r)
      n  == Cardinality({i \in 0 .. Cardinality(Headers) : at[i] # NULL})
  IN  [i \in 1 .. n |-> at[i - 1]]

\* Mutant: a block is not merged with the free block before it.
mm_list_insert_apart(h, node, r) ==
  LET c == Chain(h, r)
      i == CHOOSE j \in 1 .. Len(c) - 1 :
             c[j + 1] >= node /\ \A k \in 2 .. j : c[k] < node
  IN  [h EXCEPT !.next[node] = c[i + 1], !.next[c[i]] = node]

\* Link a block between iter and its successor in the list, and merge it with
\* them where they touch.
link_block(h, node, r, iter, succ) ==
  LET back == iter # r /\ iter + h.size[iter] = node
      n    == IF back THEN iter ELSE node
      h1   == IF back THEN [h EXCEPT !.size[iter] = @ + h.size[node]] ELSE h
      h2   == IF n + h1.size[n] = succ /\ succ # node_end(r)
              THEN [h1 EXCEPT !.size[n] = @ + h1.size[succ], !.next[n] = h1.next[succ]]
              ELSE [h1 EXCEPT !.next[n] = succ]
  IN  IF n = iter THEN h2 ELSE [h2 EXCEPT !.next[iter] = n]

\* Put a block into the list, in the order of addresses.
mm_list_insert(h, node, r) ==
  LET c == Chain(h, r)
      i == CHOOSE j \in 1 .. Len(c) - 1 :
             c[j + 1] >= node /\ \A k \in 2 .. j : c[k] < node
  IN  link_block(h, node, r, c[i], c[i + 1])

-----------------------------------------------------------------------------
(* Actions                                                                  *)

\* Mutant: the header is not added to the size.
block_size_bare(r, bytes) == Up(Max({bytes, min_alloc[r]}))

\* The size of the block for a request, in u32 arithmetic.
block_size(r, bytes) ==
  LET n == Max({(bytes + Node) % Word, min_alloc[r]})
  IN  IF n % MM_ALIGN = 0 THEN n ELSE Down((n + MM_ALIGN) % Word)

\* Mutant: the remainder may be as small as it likes.
split_small(r, n, m) == n < m

\* Is the rest of a block of m bytes worth a block of its own?
split(r, n, m) == n + min_alloc[r] <= m

\* Mutant: the remainder is marked as a block of another memory.
take_unmarked(h, r, prev, iter, n) ==
  LET h1 == [h EXCEPT !.next[prev] = h.next[iter]]
      h2 == IF ~split(r, n, h.size[iter]) THEN h1
            ELSE mm_list_insert([h1 EXCEPT
                   !.region[iter + n] = CHOOSE s \in Region : s # r,
                   !.size[iter + n] = h.size[iter] - n,
                   !.size[iter] = n], iter + n, r)
  IN  [h2 EXCEPT !.next[iter] = ALLOCATED]

\* Take n bytes from the block iter, which follows prev in the list.
take(h, r, prev, iter, n) ==
  LET h1 == [h EXCEPT !.next[prev] = h.next[iter]]
      h2 == IF ~split(r, n, h.size[iter]) THEN h1
            ELSE mm_list_insert([h1 EXCEPT !.region[iter + n] = r,
                                           !.size[iter + n] = h.size[iter] - n,
                                           !.size[iter] = n], iter + n, r)
  IN  [h2 EXCEPT !.next[iter] = ALLOCATED]

Becomes(h) == next' = h.next /\ size' = h.size /\ region' = h.region

\* mm_alloc: the first block of the list that is large enough.
mm_alloc(r, bytes) ==
  /\ ~panic
  /\ LET n   == block_size(r, bytes)
         c   == Chain(Heads, r)
         fit == {i \in 2 .. Len(c) - 1 : size[c[i]] >= n}
         ptr == c[Min(fit)] + Node
         h   == take(Heads, r, c[Min(fit) - 1], c[Min(fit)], n)
     IN  \/ /\ n > total(r) - allocated[r] \/ fit = {}
            /\ answer' = NULL
            /\ UNCHANGED <<next, size, region, allocated, held, stale>>
         \/ /\ n <= total(r) - allocated[r] /\ fit # {}
            /\ Becomes(h)
            /\ allocated' = [allocated EXCEPT ![r] = @ + h.size[c[Min(fit)]]]
            /\ held' = [p \in DOMAIN held \cup {ptr} |->
                          IF p = ptr THEN bytes ELSE held[p]]
            /\ stale' = stale \ {ptr}
            /\ answer' = ptr
  /\ UNCHANGED panic

\* Mutant: the header is counted a second time.
given_back_header(node) == size[node] + Node

given_back(node) == size[node]

\* A pointer passes the NULL check and the check for the mark of mm_alloc, and
\* the block lies in the memory it names (mm_list_insert).  The root object of
\* a memory is kernel data, below every heap.
accepted(ptr) ==
  /\ ptr # NULL
  /\ next[ptr - Node] = ALLOCATED
  /\ ptr - Node <= node_end(region[ptr - Node])

\* mm_free: the region bits of the header name the memory.  A caller frees a
\* pointer it holds, or the NULL it was given for a refused request.
mm_free(ptr) ==
  /\ ~panic
  /\ ptr \in DOMAIN held \cup stale \/ (ptr = NULL /\ answer = NULL)
  /\ \/ /\ ~accepted(ptr)
        /\ panic' = TRUE
        /\ UNCHANGED <<next, size, region, allocated, held, stale, answer>>
     \/ /\ accepted(ptr)
        /\ LET node == ptr - Node
               r    == region[node]
           IN  /\ allocated' = [allocated EXCEPT
                                  ![r] = (@ + Word - given_back(node)) % Word]
               /\ Becomes(mm_list_insert(Heads, node, r))
        /\ held' = [p \in DOMAIN held \ {ptr} |-> held[p]]
        /\ stale' = IF Careless THEN stale \cup {ptr} ELSE {}
        /\ UNCHANGED <<answer, panic>>

Next ==
  \/ \E r \in Region, bytes \in Sizes : mm_alloc(r, bytes)
  \/ \E ptr \in DOMAIN held \cup stale \cup {NULL} : mm_free(ptr)

Spec == Init /\ [][Next]_vars

-----------------------------------------------------------------------------
(* Properties                                                               *)

\* What the allocator expects of its callers: nobody frees a block twice, and no
\* request wraps around when the header and the alignment are added to it.
Disciplined ==
  /\ ~Careless
  /\ \A bytes \in Sizes : bytes + Node + MM_ALIGN < Word

\* The free blocks of r, and the headers of the blocks callers hold.
FreeBlocks(r) == LET c == Chain(Heads, r) IN {c[i] : i \in 2 .. Len(c) - 1}
HeldBlocks(r) == {p - Node : p \in DOMAIN held} \cap Header(r)

\* Free and held blocks together cover a memory exactly, without overlap and
\* without a leak, and the free list is sorted, ends at the last node and holds
\* no two blocks that touch, whatever sequence of splits and merges led there
\* (mm_alloc, mm_list_insert).
Tiling ==
  \A r \in Region :
    LET blocks == FreeBlocks(r) \cup HeldBlocks(r)
        c == Chain(Heads, r)
    IN  /\ FreeBlocks(r) \cap HeldBlocks(r) = {}
        /\ node_start(r) \in blocks
        /\ \A a \in blocks :
             /\ size[a] > 0 /\ a + size[a] \in blocks \cup {node_end(r)}
             /\ \A b \in blocks : b > a => b >= a + size[a]
        /\ c[Len(c)] = node_end(r)
        /\ \A i \in 2 .. Len(c) - 2 : c[i] + size[c[i]] < c[i + 1]

\* physmem->allocated is the memory that the held blocks take up, so the
\* early return of mm_alloc never refuses what the list could serve.
Accounting ==
  \A r \in Region :
    allocated[r] = MapThenSumSet(LAMBDA a : size[a], HeldBlocks(r))

\* A caller gets the bytes it asked for: the block behind a pointer is large
\* enough, and mm_alloc says "Allocates `size` number of bytes from a physical
\* memory".
GetsItsBytes ==
  \A p \in DOMAIN held : size[p - Node] >= held[p] + Node

\* Every block a caller holds is marked as allocated and names the memory it
\* lies in, so mm_free never panics on a pointer that mm_alloc made.
HeldCanBeFreed ==
  \A p \in DOMAIN held : accepted(p) /\ p - Node \in Header(region[p - Node])

\* The block lengths as the abstract heap sees them.
used == [a \in Headers |-> IF a + Node \in DOMAIN held THEN size[a] ELSE 0]

Abstract ==
  INSTANCE Heap WITH
    First <- [r \in Region |-> node_start(r)],
    Past <- [r \in Region |-> node_end(r)],
    MinBlock <- min_alloc, Grain <- MM_ALIGN,
    answer <- IF answer = NULL THEN NULL ELSE answer - Node

HeapInit == (\A a \in DOMAIN used : used[a] = 0) /\ answer = NULL

HeapNext ==
  \/ \E r \in Region, bytes \in Sizes : Abstract!Request(r, block_size(r, bytes))
  \/ Abstract!Release

\* The chain of headers implements the first-fit heap: a request is refused
\* only if no stretch of free memory is large enough, and is otherwise served
\* from the lowest one.
ImplementsHeap == HeapInit /\ [][HeapNext]_<<used, answer>>
=============================================================================
