------------------------------- MODULE Umalloc --------------------------------
(***************************************************************************)
(* mm/umalloc.c: a pool of equal blocks with a bitmap behind the last one. *)
(* Addresses count bytes from the start of the arena; the bitmap is the    *)
(* set of the indices whose bit is one, which means free.                  *)
(***************************************************************************)
EXTENDS Integers, FiniteSets, FiniteSetsExt

CONSTANTS
  Word,           \* bits of a word of the bitmap (32)
  PageSize,       \* bytes of a page of pmalloc (512)
  BlockSize,
  BlockRequest    \* block_count as umalloc_new is asked for it

ASSUME PoolAssumption ==
  Word \in Nat \ {0} /\ PageSize \in Nat \ {0} /\ BlockSize \in Nat \ {0} /\ BlockRequest \in Nat

\* umalloc_new: whole words, always at least one block more than asked for.
block_count == ((BlockRequest + Word) \div Word) * Word
arena_size == block_count * BlockSize
bitmap_size == (block_count + 7) \div 8
pages == (arena_size + bitmap_size + PageSize - 1) \div PageSize

umalloc_new == [bitmap |-> 0 .. block_count - 1, used |-> 0]

index_to_addr(i) == BlockSize * i

\* addr_to_index accepts what starts a block of the arena.
addr_to_index(ptr) == ptr >= 0 /\ ptr < arena_size /\ ptr % BlockSize = 0

\* Mutant: the bit of the block is not tested.
MutMayFree(pool, ptr) == addr_to_index(ptr) /\ pool.used > 0

\* The tests of ufree.
MayFree(pool, ptr) ==
  addr_to_index(ptr) /\ ptr \div BlockSize \notin pool.bitmap /\ pool.used > 0

\* _umalloc: the lowest free block. Without one, panic.
get_first_free_index(pool) == Min(pool.bitmap)

umalloc(pool) ==
  [bitmap |-> pool.bitmap \ {get_first_free_index(pool)}, used |-> pool.used + 1]

ufree(pool, ptr) ==
  [bitmap |-> pool.bitmap \cup {ptr \div BlockSize}, used |-> pool.used - 1]
=============================================================================
