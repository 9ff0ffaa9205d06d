-------------------------------- MODULE Heap --------------------------------
(***************************************************************************)
(* What a first-fit heap promises: the blocks in use never overlap, all    *)
(* other memory is free, and a request is served from the lowest stretch   *)
(* of free memory that is large enough.  Free memory has no structure of   *)
(* its own here, so an allocator that implements this specification merges *)
(* every pair of adjacent free blocks.                                     *)
(***************************************************************************)
EXTENDS Naturals

CONSTANTS
  Region,    \* the memories
  First,     \* the first address of each
  Past,      \* the address past the last block of each
  MinBlock,  \* no smaller remainder is split off a block
  Grain,     \* blocks begin and end at multiples of this
  NULL

VARIABLES
  used,      \* the length of each block in use, by its address; 0: none
  answer     \* the block given to the last request, or NULL

\* [a, b) lies in region r and meets no block in use.
Unused(r, a, b) ==
  /\ First[r] <= a /\ b <= Past[r]
  /\ \A c \in DOMAIN used : used[c] > 0 => b <= c \/ c + used[c] <= a

\* [a, b) is a whole stretch of free memory: it cannot be made longer.
Gap(r, a, b) ==
  /\ a < b /\ Unused(r, a, b)
  /\ ~(a >= Grain /\ Unused(r, a - Grain, b)) /\ ~Unused(r, a, b + Grain)

Gaps(r) == {g \in (DOMAIN used) \X (DOMAIN used) : Gap(r, g[1], g[2])}

\* A request for a block of n bytes.
Request(r, n) ==
  LET fit == {g \in Gaps(r) : g[2] - g[1] >= n}
  IN  \/ /\ fit = {}
         /\ answer' = NULL
         /\ UNCHANGED used
      \/ \E g \in fit :
           /\ \A h \in fit : g[1] <= h[1]
           /\ answer' = g[1]
           /\ used' = [used EXCEPT ![g[1]] =
                         IF n + MinBlock[r] <= g[2] - g[1] THEN n ELSE g[2] - g[1]]

Release ==
  \E a \in DOMAIN used :
    /\ used[a] > 0
    /\ used' = [used EXCEPT ![a] = 0]
    /\ UNCHANGED answer
=============================================================================
