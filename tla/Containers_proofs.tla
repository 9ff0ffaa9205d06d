-------------------------- MODULE Containers_proofs -------------------------
(***************************************************************************)
(* The pool of umalloc.c and the lists of dlist.c and list.h, for pools    *)
(* and blocks of every size, any number of lists and any order of calls.   *)
(***************************************************************************)
EXTENDS Containers, ListLemmas, FiniteSetTheorems

-----------------------------------------------------------------------------
(* The pool                                                                 *)

Indices == 0 .. block_count - 1

\* Blocks are BlockSize apart.
LEMMA AddrFacts ==
  /\ block_count \in Nat /\ arena_size \in Nat
  /\ \A i \in Nat : /\ index_to_addr(i) \in Nat /\ index_to_addr(i) \div BlockSize = i
                    /\ i < block_count => index_to_addr(i) + BlockSize <= arena_size
  /\ \A ptr \in Nat : addr_to_index(ptr) =>
       ptr \div BlockSize \in Indices /\ index_to_addr(ptr \div BlockSize) = ptr
<1>1. PICK z \in Nat : z = BlockSize /\ z > 0
  BY PoolAssumption
<1>2. PICK c \in Nat : c = block_count
  <2>1. (BlockRequest + Word) \div Word \in Nat
    BY PoolAssumption
  <2>2. QED
    BY <2>1, PoolAssumption DEF block_count
<1>3. arena_size = c * z /\ c * z \in Nat
  BY <1>1, <1>2 DEF arena_size
<1>4. ASSUME NEW i \in Nat
      PROVE  /\ z * i \in Nat /\ (z * i) \div z = i
             /\ i < c => z * i + z <= c * z
  <2>1. z * i \in Nat
    BY <1>1
  <2>2. (z * i) \div z = i
    BY <1>1
  <2>3. ASSUME i < c PROVE z * i + z <= c * z
    <3>1. PICK d \in Nat : c = i + 1 + d
      BY <2>3
    <3>2. c * z = z * i + z + d * z
      BY <1>1, <3>1
    <3>3. d * z \in Nat
      BY <1>1
    <3>4. QED
      BY <2>1, <3>2, <3>3, <1>1
  <2>4. QED
    BY <2>1, <2>2, <2>3
<1>5. ASSUME NEW ptr \in Nat, ptr < c * z, ptr % z = 0
      PROVE  ptr \div z \in 0 .. c - 1 /\ z * (ptr \div z) = ptr
  <2>1. PICK q \in Nat : q = ptr \div z
    BY <1>1
  <2>2. z * q = ptr
    BY <1>1, <1>5, <2>1
  <2>3. q < c
    <3>1. SUFFICES ASSUME q >= c PROVE FALSE
      BY <1>2
    <3>2. PICK d \in Nat : q = c + d
      BY <3>1
    <3>3. z * q = c * z + d * z /\ d * z \in Nat
      BY <1>1, <3>2
    <3>4. QED
      BY <1>3, <1>5, <2>2, <3>3
  <2>4. QED
    BY <2>1, <2>2, <2>3
<1>6. QED
  BY <1>1, <1>2, <1>3, <1>4, <1>5 DEF index_to_addr, addr_to_index, Indices

PoolInv ==
  /\ pool.bitmap \in SUBSET Indices
  /\ pool = [bitmap |-> pool.bitmap, used |-> pool.used]
  /\ held = {index_to_addr(i) : i \in Indices \ pool.bitmap}
  /\ IsFiniteSet(held) /\ pool.used = Cardinality(held)

LEMMA PoolInit == ASSUME Init PROVE PoolInv
<1>1. pool = [bitmap |-> Indices, used |-> 0] /\ held = {}
  BY DEF Init, umalloc_new, Indices
<1>2. {index_to_addr(i) : i \in Indices \ Indices} = {}
  OBVIOUS
<1>3. QED
  BY <1>1, <1>2, FS_EmptySet DEF PoolInv

LEMMA PoolAllocate == ASSUME PoolInv, Allocate PROVE PoolInv'
<1>1. CASE pool.bitmap = {}
  BY <1>1 DEF Allocate, Panic, PoolInv
<1>2. CASE pool.bitmap # {}
  <2>1. PICK i : i = Min(pool.bitmap)
    OBVIOUS
  <2>2. PICK n : n = index_to_addr(i)
    OBVIOUS
  <2>3. pool' = [bitmap |-> pool.bitmap \ {i}, used |-> pool.used + 1] /\ held' = held \cup {n}
    BY <1>2, <2>1, <2>2 DEF Allocate, umalloc, get_first_free_index
  <2>4. i \in pool.bitmap /\ i \in Indices /\ Indices \subseteq Nat
    <3>1. Indices \subseteq Nat
      BY AddrFacts DEF Indices
    <3>2. pool.bitmap \in SUBSET Nat
      BY <3>1 DEF PoolInv
    <3>3. QED
      BY <1>2, <2>1, <3>1, <3>2, MinFacts DEF PoolInv
  <2>5. \A j \in Indices : index_to_addr(j) = n => j = i
    BY <2>2, <2>4, AddrFacts
  <2>6. n \notin held
    BY <2>4, <2>5 DEF PoolInv
  <2>7. IsFiniteSet(held') /\ Cardinality(held') = Cardinality(held) + 1
    BY <2>3, <2>6, FS_AddElement DEF PoolInv
  <2>8. held' = {index_to_addr(j) : j \in Indices \ (pool.bitmap \ {i})}
    BY <2>2, <2>3, <2>4 DEF PoolInv
  <2>9. QED
    BY <2>3, <2>4, <2>7, <2>8 DEF PoolInv
<1>3. QED
  BY <1>1, <1>2

LEMMA PoolFree == ASSUME PoolInv, NEW ptr \in 0 .. arena_size + 1, Free(ptr) PROVE PoolInv'
<1>1. CASE ~MayFree(pool, ptr)
  BY <1>1 DEF Free, Panic, PoolInv
<1>2. CASE MayFree(pool, ptr)
  <2>1. PICK i : i = ptr \div BlockSize
    OBVIOUS
  <2>2. i \in Indices /\ index_to_addr(i) = ptr /\ i \notin pool.bitmap
    BY <1>2, <2>1, AddrFacts DEF MayFree
  <2>3. pool' = [bitmap |-> pool.bitmap \cup {i}, used |-> pool.used - 1] /\ held' = held \ {ptr}
    BY <1>2, <2>1 DEF Free, ufree
  <2>4. \A j \in Indices : index_to_addr(j) = ptr => j = i
    BY <2>2, AddrFacts DEF Indices
  <2>5. ptr \in held
    BY <2>2 DEF PoolInv
  <2>6. IsFiniteSet(held') /\ Cardinality(held') = Cardinality(held) - 1
    BY <2>3, <2>5, FS_RemoveElement DEF PoolInv
  <2>7. held' = {index_to_addr(j) : j \in Indices \ (pool.bitmap \cup {i})}
    BY <2>2, <2>3, <2>4 DEF PoolInv
  <2>8. QED
    BY <2>2, <2>3, <2>6, <2>7 DEF PoolInv
<1>3. QED
  BY <1>1, <1>2

\* List operations leave the pool alone.
LEMMA ListsLeavePool ==
  ASSUME DlistOps \/ RingOps
  PROVE  UNCHANGED <<pool, held>>
<1>1. \A l, s : Becomes(l, s) => UNCHANGED <<pool, held>>
  BY DEF Becomes
<1>2. Panic => UNCHANGED <<pool, held>>
  BY DEF Panic
<1>3. \A l, n, s : Insert(l, n, s) => UNCHANGED <<pool, held>>
  BY <1>1, <1>2 DEF Insert
<1>4. CASE DlistOps
  BY <1>1, <1>2, <1>3, <1>4 DEF DlistOps, InsertFirst, InsertLast, InsertAfter, InsertBefore,
                                TakeFirst, TakeLast, TakeNode
<1>5. CASE RingOps
  BY <1>5 DEF RingOps, RingAddFirst, RingAddLast, RingDelete, RingDeleteFirst, RingDeleteLast,
              RingStep
<1>6. QED
  BY <1>4, <1>5

LEMMA PoolStep == ASSUME PoolInv, [Next]_vars PROVE PoolInv'
<1>1. CASE UNCHANGED <<pool, held>>
  BY <1>1 DEF PoolInv
<1>2. QED
  BY <1>1, PoolAllocate, PoolFree, ListsLeavePool DEF Next, vars

\* Of pools and blocks of every size: a caller owns a block exactly when its bit
\* is clear, no two own the same, and all blocks lie in front of the bitmap in
\* the pages that umalloc_new took; a wrong ufree changes nothing (umalloc.c).
THEOREM PoolStaysSound == Spec => []PoolSound
<1>1. Init => PoolInv
  BY PoolInit
<1>2. PoolInv /\ [Next]_vars => PoolInv'
  BY PoolStep
<1>3. PoolInv => PoolSound
  <2>1. arena_size + bitmap_size <= pages * PageSize
    <3>1. bitmap_size \in Nat
      BY AddrFacts DEF bitmap_size
    <3>2. PICK n \in Nat : n = arena_size + bitmap_size
      BY <3>1, AddrFacts
    <3>3. pages = (n + PageSize - 1) \div PageSize
      BY <3>2 DEF pages
    <3>4. pages * PageSize >= n /\ pages * PageSize \in Nat
      BY <3>3, PoolAssumption, RoundUp
    <3>5. QED
      BY <3>2, <3>4
  <2>2. ASSUME NEW i \in Indices PROVE index_to_addr(i) + BlockSize <= arena_size
    BY AddrFacts DEF Indices
  <2>3. QED
    BY <2>1, <2>2 DEF PoolInv, PoolSound, Indices
<1>4. QED
  BY <1>1, <1>2, <1>3, PTL DEF Spec

-----------------------------------------------------------------------------
(* Walking along a list                                                     *)

\* The node at position i of list s, and z in front of it and behind it.
Pos(s, z, i) == IF i \in 1 .. Len(s) THEN s[i] ELSE z

\* f is the walk of Walk, as far as it goes.
IsWalk(f, m, start, stop, link, bound) ==
  f = [i \in 0 .. bound |-> IF i = 0 THEN start
                            ELSE IF f[i - 1] = stop THEN stop ELSE m[f[i - 1]][link]]

\* Walk reads the sequence s off memory whose links are those of s.
LEMMA WalkReads ==
  ASSUME NEW S, NEW s \in Seq(S), NEW z, z \notin S, NEW m, NEW link, NEW b \in Nat, Len(s) <= b,
         \A i \in 1 .. Len(s) : m[s[i]][link] = Pos(s, z, i + 1)
  PROVE  Walk(m, Pos(s, z, 1), z, link, b) = s
<1>0. Len(s) \in Nat /\ DOMAIN s = 1 .. Len(s) /\ \A i \in 1 .. Len(s) : s[i] \in S /\ s[i] # z
  BY LenProperties, ElementOfSeq
<1>1. PICK start : start = Pos(s, z, 1)
  OBVIOUS
<1>2. PICK g : g = [i \in 0 .. b |-> Pos(s, z, i + 1)]
  OBVIOUS
<1>3. \A i \in 0 .. b : g[i] = Pos(s, z, i + 1)
  BY <1>2
<1>4. IsWalk(g, m, start, z, link, b)
  <2>1. ASSUME NEW i \in 0 .. b
        PROVE  g[i] = IF i = 0 THEN start ELSE IF g[i - 1] = z THEN z ELSE m[g[i - 1]][link]
    <3>1. CASE i = 0
      BY <1>1, <1>3, <3>1
    <3>2. CASE i # 0
      <4>1. i - 1 \in 0 .. b /\ g[i - 1] = Pos(s, z, i)
        BY <1>3, <3>2
      <4>2. CASE i \in 1 .. Len(s)
        BY <1>0, <1>3, <3>2, <4>1, <4>2 DEF Pos
      <4>3. CASE i \notin 1 .. Len(s)
        BY <1>0, <1>3, <3>2, <4>1, <4>3 DEF Pos
      <4>4. QED
        BY <4>2, <4>3
    <3>3. QED
      BY <3>1, <3>2
  <2>2. QED
    BY <1>2, <2>1 DEF IsWalk
<1>5. PICK f : f = CHOOSE x : IsWalk(x, m, start, z, link, b)
  OBVIOUS
<1>6. IsWalk(f, m, start, z, link, b)
  BY <1>4, <1>5
<1>7. ASSUME NEW i \in 0 .. b PROVE f[i] = Pos(s, z, i + 1)
  <2> DEFINE Bad == {j \in 0 .. b : f[j] # g[j]}
  <2>1. SUFFICES ASSUME Bad # {} PROVE FALSE
    <3>1. Bad = {} => f[i] = g[i]
      OBVIOUS
    <3>2. QED
      BY <1>3, <3>1
  <2>2. PICK j \in Bad : \A k \in Bad : j <= k
    <3>1. Bad \in SUBSET Nat
      OBVIOUS
    <3>2. QED
      BY <2>1, <3>1, LeastNatural
  <2>3. /\ f[j] = IF j = 0 THEN start ELSE IF f[j - 1] = z THEN z ELSE m[f[j - 1]][link]
        /\ g[j] = IF j = 0 THEN start ELSE IF g[j - 1] = z THEN z ELSE m[g[j - 1]][link]
    BY <1>4, <1>6, <2>2 DEF IsWalk
  <2>4. j # 0 => f[j - 1] = g[j - 1]
    BY <2>2
  <2>5. QED
    BY <2>2, <2>3, <2>4
<1>8. PICK Z : Z = {b} \cup {i \in 0 .. b : f[i] = z}
  OBVIOUS
<1>9. Min(Z) = Len(s)
  <2>1. Z \in SUBSET Nat /\ Z # {}
    BY <1>8
  <2>2. Min(Z) \in Z /\ \A n \in Z : Min(Z) <= n
    BY <2>1, MinFacts
  <2>3. ASSUME NEW n \in Z PROVE n >= Len(s)
    <3>1. CASE n = b
      BY <3>1
    <3>2. CASE n \in 0 .. b /\ f[n] = z
      <4>1. Pos(s, z, n + 1) = z
        BY <1>7, <3>2
      <4>2. n + 1 \notin 1 .. Len(s)
        BY <1>0, <4>1 DEF Pos
      <4>3. QED
        BY <1>0, <3>2, <4>2
    <3>3. QED
      BY <1>8, <3>1, <3>2
  <2>4. Len(s) \in Z
    <3>1. Pos(s, z, Len(s) + 1) = z
      BY <1>0 DEF Pos
    <3>2. Len(s) \in 0 .. b
      BY <1>0
    <3>3. QED
      BY <1>7, <1>8, <3>1, <3>2
  <2>5. Min(Z) \in Nat /\ Min(Z) <= Len(s) /\ Min(Z) >= Len(s)
    BY <2>1, <2>2, <2>3, <2>4
  <2>6. QED
    BY <1>0, <2>5
<1>10. Walk(m, start, z, link, b) = [i \in 1 .. Min(Z) |-> f[i - 1]]
  BY <1>5, <1>8 DEF Walk, IsWalk
<1>11. [i \in 1 .. Len(s) |-> f[i - 1]] = s
  <2>1. \A i \in 1 .. Len(s) : f[i - 1] = s[i]
    BY <1>0, <1>7 DEF Pos
  <2>2. s = [i \in 1 .. Len(s) |-> s[i]]
    BY <1>0
  <2>3. QED
    BY <2>1, <2>2
<1>12. QED
  BY <1>1, <1>9, <1>10, <1>11
-----------------------------------------------------------------------------
(* Linking a node in and out                                                *)

\* m has the links of list s, with z at both ends.
Linked(m, s, z) ==
  \A i \in 1 .. Len(s) : m[s[i]].prev = Pos(s, z, i - 1) /\ m[s[i]].next = Pos(s, z, i + 1)

LEMMA PosFacts ==
  ASSUME NEW S, NEW s \in Seq(S), NEW z, z \notin S, IsInjective(s)
  PROVE  /\ Len(s) \in Nat
         /\ \A i \in 1 .. Len(s) : s[i] \in S /\ s[i] \in Range(s) /\ Pos(s, z, i) = s[i]
         /\ \A x \in Range(s) : \E i \in 1 .. Len(s) : x = s[i]
         /\ \A i \in 1 .. Len(s), k \in Int : s[i] = Pos(s, z, k) <=> i = k
         /\ \A k \in Int : k \notin 1 .. Len(s) => Pos(s, z, k) = z
         /\ \A k \in Int : Pos(s, z, k) \in Range(s) \cup {z}
<1>1. Len(s) \in Nat /\ DOMAIN s = 1 .. Len(s) /\ \A i \in 1 .. Len(s) : s[i] \in S
  BY LenProperties, ElementOfSeq
<1>2. \A i, j \in 1 .. Len(s) : s[i] = s[j] => i = j
  BY <1>1 DEF IsInjective
<1>3. \A i \in 1 .. Len(s) : s[i] \in Range(s)
  BY <1>1 DEF Range
<1>4. \A x \in Range(s) : \E i \in 1 .. Len(s) : x = s[i]
  BY <1>1 DEF Range
<1>5. QED
  BY <1>1, <1>2, <1>3, <1>4 DEF Pos

\* A list read backwards is the list reversed.
LEMMA ReversePos ==
  ASSUME NEW S, NEW s \in Seq(S), NEW z
  PROVE  /\ Reverse(s) \in Seq(S) /\ Len(Reverse(s)) = Len(s)
         /\ \A i \in 1 .. Len(s) : Reverse(s)[i] = s[Len(s) - i + 1]
         /\ \A k \in Int : Pos(Reverse(s), z, k) = Pos(s, z, Len(s) + 1 - k)
<1>1. Len(s) \in Nat /\ \A i \in 1 .. Len(s) : s[i] \in S
  BY LenProperties, ElementOfSeq
<1>2. PICK n \in Nat : n = Len(s)
  BY <1>1
<1>3. PICK r : r = [i \in 1 .. n |-> s[(n - i) + 1]]
  OBVIOUS
<1>4. r \in [1 .. n -> S]
  <2>1. \A i \in 1 .. n : (n - i) + 1 \in 1 .. n
    OBVIOUS
  <2>2. QED
    BY <1>1, <1>2, <1>3, <2>1
<1>5. r \in Seq(S) /\ Len(r) = n
  BY <1>4
<1>6. Reverse(s) = r
  BY <1>2, <1>3 DEF Reverse
<1>7. \A i \in 1 .. n : r[i] = s[n - i + 1]
  BY <1>3
<1>8. ASSUME NEW k \in Int PROVE Pos(r, z, k) = Pos(s, z, n + 1 - k)
  <2>1. CASE k \in 1 .. n
    <3>1. n + 1 - k \in 1 .. n /\ n - k + 1 = n + 1 - k
      BY <2>1
    <3>2. QED
      BY <1>2, <1>5, <1>7, <2>1, <3>1 DEF Pos
  <2>2. CASE k \notin 1 .. n
    <3>1. n + 1 - k \notin 1 .. n
      BY <2>2
    <3>2. QED
      BY <1>2, <1>5, <2>2, <3>1 DEF Pos
  <2>3. QED
    BY <2>1, <2>2
<1>9. QED
  BY <1>2, <1>5, <1>6, <1>7, <1>8

\* Memory w is memory m with node n linked in between the cells a and b of s.
Between(m, w, s, n, a, b) ==
  /\ w[n].prev = a /\ w[n].next = b
  /\ \A x \in Range(s) : /\ w[x].prev = IF x = b THEN n ELSE m[x].prev
                         /\ w[x].next = IF x = a THEN n ELSE m[x].next

LEMMA LinkIn ==
  ASSUME NEW S, NEW s \in Seq(S), NEW z, z \notin S, IsInjective(s), NEW n \in S, n \notin Range(s),
         NEW i \in 1 .. Len(s) + 1, NEW m, NEW w, Linked(m, s, z),
         Between(m, w, s, n, Pos(s, z, i - 1), Pos(s, z, i)), NEW t, t = InsertAt(s, i, n)
  PROVE  /\ Linked(w, t, z) /\ t \in Seq(S) /\ Len(t) = Len(s) + 1
         /\ Pos(t, z, 1) = (IF i = 1 THEN n ELSE Pos(s, z, 1))
         /\ Pos(t, z, Len(t)) = (IF i = Len(s) + 1 THEN n ELSE Pos(s, z, Len(s)))
<1>1. /\ Len(s) \in Nat
      /\ \A j \in 1 .. Len(s) : s[j] \in S /\ s[j] \in Range(s) /\ Pos(s, z, j) = s[j]
      /\ \A j \in 1 .. Len(s), k \in Int : s[j] = Pos(s, z, k) <=> j = k
      /\ \A k \in Int : k \notin 1 .. Len(s) => Pos(s, z, k) = z
  BY PosFacts
<1>2. PICK c \in Nat : c = Len(s)
  BY <1>1
<1>3. /\ t \in Seq(S) /\ Len(t) = c + 1
      /\ \A j \in 1 .. c + 1 : t[j] = IF j < i THEN s[j] ELSE IF j = i THEN n ELSE s[j - 1]
  BY <1>2, InsertAtFacts, SMTT(20)
<1>4. ASSUME NEW k \in Int
      PROVE  Pos(t, z, k) = IF k < i THEN Pos(s, z, k) ELSE IF k = i THEN n ELSE Pos(s, z, k - 1)
  <2>1. CASE k \in 1 .. c + 1
    <3>1. Pos(t, z, k) = t[k]
      BY <1>3, <2>1 DEF Pos
    <3>2. (k < i => k \in 1 .. c) /\ (k > i => k - 1 \in 1 .. c)
      BY <1>2, <2>1
    <3>3. QED
      BY <1>1, <1>2, <1>3, <2>1, <3>1, <3>2
  <2>2. CASE k \notin 1 .. c + 1
    <3>1. Pos(t, z, k) = z
      BY <1>3, <2>2 DEF Pos
    <3>2. (k < i => k \notin 1 .. c) /\ k # i /\ (k > i => k - 1 \notin 1 .. c)
      BY <1>2, <2>2
    <3>3. QED
      BY <1>1, <1>2, <3>1, <3>2
  <2>3. QED
    BY <2>1, <2>2
<1>5. ASSUME NEW j \in 1 .. c + 1
      PROVE  w[t[j]].prev = Pos(t, z, j - 1) /\ w[t[j]].next = Pos(t, z, j + 1)
  <2>1. CASE j = i
    BY <1>2, <1>3, <1>4, <2>1 DEF Between
  <2>2. CASE j # i
    <3>1. PICK k \in 1 .. c : k = IF j < i THEN j ELSE j - 1
      BY <1>2, <2>2
    <3>2. t[j] = s[k]
      BY <1>2, <1>3, <2>2, <3>1
    <3>3. /\ w[s[k]].prev = IF k = i THEN n ELSE Pos(s, z, k - 1)
          /\ w[s[k]].next = IF k = i - 1 THEN n ELSE Pos(s, z, k + 1)
      BY <1>1, <1>2 DEF Between, Linked
    <3>4. CASE j < i
      BY <1>2, <1>4, <3>1, <3>2, <3>3, <3>4
    <3>5. CASE j > i
      BY <1>2, <1>4, <3>1, <3>2, <3>3, <3>5
    <3>6. QED
      BY <1>2, <2>2, <3>4, <3>5
  <2>3. QED
    BY <2>1, <2>2
<1>6. Pos(t, z, 1) = (IF i = 1 THEN n ELSE Pos(s, z, 1))
  BY <1>2, <1>4
<1>7. Pos(t, z, c + 1) = (IF i = c + 1 THEN n ELSE Pos(s, z, c))
  BY <1>2, <1>4
<1>8. QED
  BY <1>2, <1>3, <1>5, <1>6, <1>7 DEF Linked

\* Memory w is memory m with the links of cells a and b of s past node n.
Past(m, w, s, n, a, b) ==
  \A x \in Range(s) \ {n} : /\ w[x].prev = IF x = b THEN a ELSE m[x].prev
                            /\ w[x].next = IF x = a THEN b ELSE m[x].next

\* What is left of s when position i is gone.
Left(w, t, s, z, i, S) ==
  /\ Linked(w, t, z) /\ t \in Seq(S) /\ Len(t) = Len(s) - 1
  /\ Pos(t, z, 1) = (IF i = 1 THEN Pos(s, z, 2) ELSE Pos(s, z, 1))
  /\ Pos(t, z, Len(t)) = (IF i = Len(s) THEN Pos(s, z, Len(s) - 1) ELSE Pos(s, z, Len(s)))

LEMMA LinkOut ==
  ASSUME NEW S, NEW s \in Seq(S), NEW z, z \notin S, IsInjective(s), NEW i \in 1 .. Len(s),
         NEW m, NEW w, Linked(m, s, z), Past(m, w, s, s[i], Pos(s, z, i - 1), Pos(s, z, i + 1)),
         NEW t, t = RemoveAt(s, i)
  PROVE  Left(w, t, s, z, i, S)
<1>1. /\ Len(s) \in Nat
      /\ \A j \in 1 .. Len(s) : s[j] \in S /\ s[j] \in Range(s) /\ Pos(s, z, j) = s[j]
      /\ \A j \in 1 .. Len(s), k \in Int : s[j] = Pos(s, z, k) <=> j = k
      /\ \A k \in Int : k \notin 1 .. Len(s) => Pos(s, z, k) = z
  BY PosFacts
<1>2. PICK c \in Nat : c = Len(s)
  BY <1>1
<1>3. /\ t \in Seq(S) /\ Len(t) = c - 1
      /\ \A j \in 1 .. c - 1 : t[j] = IF j < i THEN s[j] ELSE s[j + 1]
  BY <1>2, RemoveAtFacts
<1>4. ASSUME NEW k \in Int
      PROVE  Pos(t, z, k) = IF k < i THEN Pos(s, z, k) ELSE Pos(s, z, k + 1)
  <2>1. CASE k \in 1 .. c - 1
    <3>1. Pos(t, z, k) = t[k]
      BY <1>3, <2>1 DEF Pos
    <3>2. k \in 1 .. c /\ k + 1 \in 1 .. c
      BY <1>2, <2>1
    <3>3. QED
      BY <1>1, <1>2, <1>3, <2>1, <3>1, <3>2
  <2>2. CASE k \notin 1 .. c - 1
    <3>1. Pos(t, z, k) = z
      BY <1>3, <2>2 DEF Pos
    <3>2. (k < i => k \notin 1 .. c) /\ (k >= i => k + 1 \notin 1 .. c)
      BY <1>2, <2>2
    <3>3. QED
      BY <1>1, <1>2, <3>1, <3>2
  <2>3. QED
    BY <2>1, <2>2
<1>5. ASSUME NEW j \in 1 .. c - 1
      PROVE  w[t[j]].prev = Pos(t, z, j - 1) /\ w[t[j]].next = Pos(t, z, j + 1)
  <2>1. PICK k \in 1 .. c : k = IF j < i THEN j ELSE j + 1
    BY <1>2
  <2>2. t[j] = s[k] /\ k # i
    BY <1>2, <1>3, <2>1
  <2>3. s[k] \in Range(s) \ {s[i]}
    BY <1>1, <1>2, <2>2
  <2>4. /\ w[s[k]].prev = IF k = i + 1 THEN Pos(s, z, i - 1) ELSE Pos(s, z, k - 1)
        /\ w[s[k]].next = IF k = i - 1 THEN Pos(s, z, i + 1) ELSE Pos(s, z, k + 1)
    BY <1>1, <1>2, <2>3, SMTT(20) DEF Past, Linked
  <2>5. /\ j - 1 \in Int /\ j + 1 \in Int /\ (j - 1) + 1 = j /\ (j + 1) + 1 = j + 2
        /\ (j + 1) - 1 = j
    OBVIOUS
  <2>6. /\ Pos(t, z, j - 1) = IF j - 1 < i THEN Pos(s, z, j - 1) ELSE Pos(s, z, j)
        /\ Pos(t, z, j + 1) = IF j + 1 < i THEN Pos(s, z, j + 1) ELSE Pos(s, z, j + 2)
    BY <1>4, <2>5
  <2>7. CASE j < i
    BY <1>2, <2>1, <2>2, <2>4, <2>6, <2>7
  <2>8. CASE ~(j < i)
    <3>1. k = j + 1 /\ k - 1 = j /\ k + 1 = j + 2 /\ k # i - 1 /\ (k = i + 1 => j - 1 = i - 1)
      BY <2>1, <2>8
    <3>2. w[s[k]].next = Pos(t, z, j + 1)
      BY <2>4, <2>6, <2>8, <3>1
    <3>3. w[s[k]].prev = Pos(t, z, j - 1)
      BY <2>4, <2>6, <2>8, <3>1
    <3>4. QED
      BY <2>2, <3>2, <3>3
  <2>9. QED
    BY <2>7, <2>8
<1>6. Pos(t, z, 1) = (IF i = 1 THEN Pos(s, z, 2) ELSE Pos(s, z, 1))
  <2>1. Pos(t, z, 1) = IF 1 < i THEN Pos(s, z, 1) ELSE Pos(s, z, 1 + 1)
    BY <1>4
  <2>2. QED
    BY <2>1
<1>7. Pos(t, z, c - 1) = (IF i = c THEN Pos(s, z, c - 1) ELSE Pos(s, z, c))
  <2>1. c - 1 \in Int /\ (c - 1) + 1 = c
    OBVIOUS
  <2>2. Pos(t, z, c - 1) = IF c - 1 < i THEN Pos(s, z, c - 1) ELSE Pos(s, z, c)
    BY <1>4, <2>1
  <2>3. QED
    BY <1>2, <2>2
<1>8. QED
  BY <1>2, <1>3, <1>5, <1>6, <1>7 DEF Linked, Left

-----------------------------------------------------------------------------
(* All lists together                                                       *)

\* Where a node can be, what is at the ends of the list there, and memory.
Places == DLists \cup {HEAD}
End(p) == IF p = HEAD THEN HEAD ELSE NULL
Cells == Blocks \cup {HEAD}
Links == Cells \cup {NULL, -1}
Memory == [Cells -> [prev : Links, next : Links]]

\* dlist l, and the head of the ring, as the nodes in it make them.
DlistOf(s) == [first |-> Pos(s, NULL, 1), last |-> Pos(s, NULL, Len(s)), size |-> Len(s)]
HeadOf(s) == [prev |-> Pos(s, HEAD, Len(s)), next |-> Pos(s, HEAD, 1)]

Apart(q) ==
  /\ \A p \in Places : IsInjective(q[p])
  /\ \A p, r \in Places : p # r => Range(q[p]) \cap Range(q[r]) = {}
Unlinked(q, n) == \A p \in Places : n \notin Range(q[p])

\* Memory m and the dlists d hold the sequences q of nodes of h.
Rep(m, d, h, q) ==
  /\ m \in Memory /\ h \subseteq Blocks /\ q \in [Places -> Seq(h)]
  /\ Apart(q)
  /\ \A p \in Places : Linked(m, q[p], End(p))
  /\ d = [l \in DLists |-> DlistOf(q[l])]
  /\ m[HEAD] = HeadOf(q[HEAD])
  /\ \A n \in h : Unlinked(q, n) => m[n] = node_init

ListInv == PoolInv /\ \E q : Rep(mem, dl, held, q)

LEMMA BlockFacts ==
  /\ Blocks \subseteq Nat /\ NULL \notin Cells /\ HEAD \notin Blocks /\ HEAD # NULL /\ HEAD \notin DLists
  /\ HEAD \in Cells /\ Blocks \subseteq Cells /\ HEAD \in Places /\ DLists \subseteq Places
<1>1. Blocks \subseteq Nat
  BY AddrFacts DEF Blocks
<1>2. QED
  BY <1>1, NodeAssumption DEF Cells, Places

\* What a list of Rep is.
LEMMA RepFacts ==
  ASSUME NEW m, NEW d, NEW h, NEW q, Rep(m, d, h, q), NEW p \in Places
  PROVE  /\ q[p] \in Seq(h) /\ IsInjective(q[p]) /\ Linked(m, q[p], End(p)) /\ End(p) \notin h
         /\ Len(q[p]) \in Nat /\ Range(q[p]) \subseteq h
         /\ \A k \in Int : Pos(q[p], End(p), k) \in h \cup {End(p)}
<1>1. /\ q[p] \in Seq(h) /\ IsInjective(q[p]) /\ Linked(m, q[p], End(p)) /\ h \subseteq Blocks
  BY DEF Rep, Apart
<1>2. End(p) \notin h
  BY <1>1, BlockFacts DEF End, Cells
<1>3. /\ Len(q[p]) \in Nat
      /\ \A i \in 1 .. Len(q[p]) : q[p][i] \in h
      /\ \A x \in Range(q[p]) : \E i \in 1 .. Len(q[p]) : x = q[p][i]
      /\ \A k \in Int : Pos(q[p], End(p), k) \in Range(q[p]) \cup {End(p)}
  BY <1>1, <1>2, PosFacts
<1>4. QED
  BY <1>1, <1>2, <1>3

\* A list that an operation does not touch stays linked.
LEMMA LinkedFrame ==
  ASSUME NEW S, NEW s \in Seq(S), NEW z, NEW m, NEW w, Linked(m, s, z),
         \A x \in Range(s) : w[x] = m[x]
  PROVE  Linked(w, s, z)
<1>1. \A i \in 1 .. Len(s) : s[i] \in Range(s)
  BY LenProperties DEF Range
<1>2. QED
  BY <1>1 DEF Linked

\* Sequence t has no node of a list other than that at p, and y has t there.
Clear(t, q, p) == \A r \in Places \ {p} : Range(t) \cap Range(q[r]) = {}
Updated(y, q, h, p, t) ==
  /\ y \in [Places -> Seq(h)] /\ Apart(y) /\ y[p] = t
  /\ \A r \in Places \ {p} : y[r] = q[r]

\* Changing one list keeps the lists apart.
LEMMA ApartUpdate ==
  ASSUME NEW h, NEW q \in [Places -> Seq(h)], Apart(q), NEW p \in Places, NEW t \in Seq(h),
         IsInjective(t), Clear(t, q, p)
  PROVE  Updated([q EXCEPT ![p] = t], q, h, p, t)
<1>0. PICK y : y = [q EXCEPT ![p] = t]
  OBVIOUS
<1>1. y \in [Places -> Seq(h)] /\ y[p] = t /\ \A r \in Places \ {p} : y[r] = q[r]
  BY <1>0
<1>2. \A r \in Places : IsInjective(y[r])
  BY <1>1 DEF Apart
<1>3. ASSUME NEW a \in Places, NEW b \in Places, a # b PROVE Range(y[a]) \cap Range(y[b]) = {}
  <2>1. \A r \in Places \ {p} : Range(t) \cap Range(q[r]) = {}
    BY DEF Clear
  <2>2. CASE a = p
    BY <1>1, <1>3, <2>1, <2>2
  <2>3. CASE b = p
    BY <1>1, <1>3, <2>1, <2>3
  <2>4. CASE a # p /\ b # p
    BY <1>1, <1>3, <2>4 DEF Apart
  <2>5. QED
    BY <2>2, <2>3, <2>4
<1>4. QED
  BY <1>0, <1>1, <1>2, <1>3 DEF Apart, Updated

\* Memory w is memory m with node n between cells a and b, and past node n.
Joined(m, w, n, a, b) ==
  /\ w \in Memory
  /\ w[n].prev = a /\ w[n].next = b
  /\ \A x \in Cells \ {n} : /\ w[x].prev = IF x = b THEN n ELSE m[x].prev
                            /\ w[x].next = IF x = a THEN n ELSE m[x].next
Parted(m, w, n, a, b) ==
  /\ w \in Memory
  /\ w[n] = node_init
  /\ \A x \in Cells \ {n} : /\ w[x].prev = IF x = b THEN a ELSE m[x].prev
                            /\ w[x].next = IF x = a THEN b ELSE m[x].next

\* Two cells of memory with the same links are the same.
LEMMA SameCell ==
  ASSUME NEW m \in Memory, NEW w \in Memory, NEW x \in Cells,
         w[x].prev = m[x].prev, w[x].next = m[x].next
  PROVE  w[x] = m[x]
<1>1. m[x] \in [prev : Links, next : Links] /\ w[x] \in [prev : Links, next : Links]
  BY DEF Memory
<1>2. QED
  BY <1>1

\* The ends of t, which is s with n at position i or without that position.
Longer(t, s, z, n, i) ==
  /\ Len(t) = Len(s) + 1
  /\ Pos(t, z, 1) = (IF i = 1 THEN n ELSE Pos(s, z, 1))
  /\ Pos(t, z, Len(t)) = (IF i = Len(s) + 1 THEN n ELSE Pos(s, z, Len(s)))
Shorter(t, s, z, i) ==
  /\ Len(t) = Len(s) - 1
  /\ Pos(t, z, 1) = (IF i = 1 THEN Pos(s, z, i + 1) ELSE Pos(s, z, 1))
  /\ Pos(t, z, Len(t)) = (IF i = Len(s) THEN Pos(s, z, i - 1) ELSE Pos(s, z, Len(s)))

\* A node linked in is inserted in the sequence.
JoinStep(m, d, h, q, p, n, s, i, a, b, w, t, y, e) ==
  /\ Rep(m, d, h, q) /\ p \in Places /\ n \in h /\ Unlinked(q, n)
  /\ s = q[p] /\ i \in 1 .. Len(s) + 1 /\ a = Pos(s, End(p), i - 1) /\ b = Pos(s, End(p), i)
  /\ Joined(m, w, n, a, b)
  /\ t = InsertAt(s, i, n) /\ y = [q EXCEPT ![p] = t] /\ e = [l \in DLists |-> DlistOf(y[l])]

LEMMA JoinKeeps ==
  ASSUME NEW m, NEW d, NEW h, NEW q, NEW p, NEW n, NEW s, NEW i, NEW a, NEW b, NEW w, NEW t,
         NEW y, NEW e, JoinStep(m, d, h, q, p, n, s, i, a, b, w, t, y, e)
  PROVE  Rep(w, e, h, y) /\ Longer(t, s, End(p), n, i)
<1> USE BlockFacts DEF JoinStep
<1>1. PICK z : z = End(p)
  OBVIOUS
<1>2. /\ s \in Seq(h) /\ IsInjective(s) /\ Linked(m, s, z) /\ z \notin h
      /\ Len(s) \in Nat /\ Range(s) \subseteq h
  BY <1>1, RepFacts
<1>3. m \in Memory /\ w \in Memory /\ h \subseteq Blocks /\ q \in [Places -> Seq(h)] /\ Apart(q)
  BY DEF Rep, Joined
<1>4. /\ n \notin Range(s) /\ a \in Range(s) \cup {z} /\ b \in Range(s) \cup {z}
      /\ (z = b <=> i = Len(s) + 1) /\ (z = a <=> i = 1)
  <2>1. n \notin Range(s)
    BY DEF Unlinked
  <2>2. /\ \A k \in Int : Pos(s, z, k) \in Range(s) \cup {z}
        /\ \A k \in 1 .. Len(s) : s[k] \in h /\ Pos(s, z, k) = s[k]
        /\ \A k \in Int : k \notin 1 .. Len(s) => Pos(s, z, k) = z
    BY <1>2, PosFacts
  <2>3. QED
    BY <1>1, <1>2, <2>1, <2>2
<1>5. Between(m, w, s, n, a, b)
  BY <1>2, <1>3, <1>4 DEF Joined, Between
<1>6. /\ Linked(w, t, z) /\ t \in Seq(h) /\ Len(t) = Len(s) + 1
      /\ Pos(t, z, 1) = (IF i = 1 THEN n ELSE Pos(s, z, 1))
      /\ Pos(t, z, Len(t)) = (IF i = Len(s) + 1 THEN n ELSE Pos(s, z, Len(s)))
  BY <1>1, <1>2, <1>4, <1>5, LinkIn
<1>7. Range(t) = Range(s) \cup {n} /\ IsInjective(t)
  BY <1>2, <1>4, InsertAtRange
<1>8. Clear(t, q, p)
  BY <1>3, <1>7 DEF Apart, Unlinked, Clear
<1>9. /\ y \in [Places -> Seq(h)] /\ Apart(y) /\ y[p] = t
      /\ \A r \in Places \ {p} : y[r] = q[r]
  <2>1. Updated(y, q, h, p, t)
    BY <1>3, <1>6, <1>7, <1>8, ApartUpdate
  <2>2. QED
    BY <2>1 DEF Updated
<1>10. ASSUME NEW x \in Cells, x # n, x # a, x # b PROVE w[x] = m[x]
  BY <1>3, <1>10, SameCell DEF Joined
<1>11. ASSUME NEW r \in Places PROVE Linked(w, y[r], End(r))
  <2>1. CASE r = p
    BY <1>1, <1>6, <1>9, <2>1
  <2>2. CASE r # p
    <3>1. q[r] \in Seq(h) /\ Linked(m, q[r], End(r)) /\ Range(q[r]) \subseteq h
      BY RepFacts
    <3>2. ASSUME NEW x \in Range(q[r]) PROVE w[x] = m[x]
      <4>1. x \in Cells /\ x # n /\ x # z /\ x \notin Range(s)
        BY <1>2, <1>3, <2>2, <3>1 DEF Apart, Unlinked
      <4>2. QED
        BY <1>4, <1>10, <4>1
    <3>3. QED
      BY <1>9, <2>2, <3>1, <3>2, LinkedFrame
  <2>3. QED
    BY <2>1, <2>2
<1>12. w[HEAD] = HeadOf(y[HEAD])
  <2>1. m[HEAD] = HeadOf(q[HEAD]) /\ HEAD # n
    BY <1>3 DEF Rep
  <2>2. CASE p = HEAD
    <3>1. z = HEAD
      BY <1>1, <2>2 DEF End
    <3>2. /\ w[HEAD].prev = IF i = Len(s) + 1 THEN n ELSE m[HEAD].prev
          /\ w[HEAD].next = IF i = 1 THEN n ELSE m[HEAD].next
      BY <1>4, <2>1, <3>1 DEF Joined
    <3>3. w[HEAD].prev = Pos(t, HEAD, Len(t)) /\ w[HEAD].next = Pos(t, HEAD, 1)
      BY <1>6, <2>1, <2>2, <3>1, <3>2 DEF HeadOf
    <3>4. w[HEAD] \in [prev : Links, next : Links]
      BY <1>3 DEF Memory
    <3>5. QED
      BY <1>9, <2>2, <3>3, <3>4 DEF HeadOf
  <2>3. CASE p # HEAD
    <3>1. HEAD # a /\ HEAD # b
      BY <1>1, <1>2, <1>3, <1>4, <2>3 DEF End
    <3>2. QED
      BY <1>9, <1>10, <2>1, <2>3, <3>1
  <2>4. QED
    BY <2>2, <2>3
<1>13. ASSUME NEW x \in h, Unlinked(y, x) PROVE w[x] = node_init
  <2>1. x \notin Range(t) /\ \A r \in Places \ {p} : x \notin Range(q[r])
    BY <1>9, <1>13 DEF Unlinked
  <2>2. x # n /\ x \notin Range(s)
    BY <1>7, <2>1
  <2>3. Unlinked(q, x)
    BY <2>1, <2>2 DEF Unlinked
  <2>4. m[x] = node_init
    BY <2>3 DEF Rep
  <2>5. x # a /\ x # b /\ x \in Cells
    BY <1>2, <1>3, <1>4, <2>2
  <2>6. QED
    BY <1>10, <2>2, <2>4, <2>5
<1>14. Rep(w, e, h, y)
  BY <1>3, <1>9, <1>11, <1>12, <1>13 DEF Rep
<1>15. QED
  BY <1>1, <1>6, <1>14 DEF Longer

\* A node linked out is removed from the sequence.
PartStep(m, d, h, q, p, s, i, a, b, w, t, y, e) ==
  /\ Rep(m, d, h, q) /\ p \in Places
  /\ s = q[p] /\ i \in 1 .. Len(s) /\ a = Pos(s, End(p), i - 1) /\ b = Pos(s, End(p), i + 1)
  /\ Parted(m, w, s[i], a, b)
  /\ t = RemoveAt(s, i) /\ y = [q EXCEPT ![p] = t] /\ e = [l \in DLists |-> DlistOf(y[l])]

LEMMA PartKeeps ==
  ASSUME NEW m, NEW d, NEW h, NEW q, NEW p, NEW s, NEW i, NEW a, NEW b, NEW w, NEW t,
         NEW y, NEW e, PartStep(m, d, h, q, p, s, i, a, b, w, t, y, e)
  PROVE  Rep(w, e, h, y) /\ Shorter(t, s, End(p), i)
<1> USE BlockFacts DEF PartStep
<1>1. PICK z : z = End(p)
  OBVIOUS
<1>2. /\ s \in Seq(h) /\ IsInjective(s) /\ Linked(m, s, z) /\ z \notin h
      /\ Len(s) \in Nat /\ Range(s) \subseteq h
  BY <1>1, RepFacts
<1>3. m \in Memory /\ w \in Memory /\ h \subseteq Blocks /\ q \in [Places -> Seq(h)] /\ Apart(q)
  BY DEF Rep, Parted
<1>4. PICK n : n = s[i]
  OBVIOUS
<1>5. /\ n \in Range(s) /\ a \in Range(s) \cup {z} /\ b \in Range(s) \cup {z} /\ n # z
      /\ (z = b <=> i = Len(s)) /\ (z = a <=> i = 1)
  <2>1. /\ \A k \in Int : Pos(s, z, k) \in Range(s) \cup {z}
        /\ \A k \in 1 .. Len(s) : s[k] \in h /\ s[k] \in Range(s) /\ Pos(s, z, k) = s[k]
        /\ \A k \in Int : k \notin 1 .. Len(s) => Pos(s, z, k) = z
    BY <1>2, PosFacts
  <2>2. QED
    BY <1>1, <1>2, <1>4, <2>1
<1>6. Past(m, w, s, n, a, b)
  BY <1>2, <1>3, <1>4 DEF Parted, Past
<1>7. /\ Linked(w, t, z) /\ t \in Seq(h) /\ Len(t) = Len(s) - 1
      /\ Pos(t, z, 1) = (IF i = 1 THEN Pos(s, z, 2) ELSE Pos(s, z, 1))
      /\ Pos(t, z, Len(t)) = (IF i = Len(s) THEN Pos(s, z, Len(s) - 1) ELSE Pos(s, z, Len(s)))
  <2>1. Past(m, w, s, s[i], Pos(s, z, i - 1), Pos(s, z, i + 1))
    BY <1>1, <1>4, <1>6
  <2>2. Left(w, t, s, z, i, h)
    BY <1>2, <2>1, LinkOut
  <2>3. QED
    BY <2>2 DEF Left
<1>8. /\ Pos(t, z, 1) = (IF i = 1 THEN b ELSE Pos(s, z, 1))
      /\ Pos(t, z, Len(t)) = (IF i = Len(s) THEN a ELSE Pos(s, z, Len(s)))
  BY <1>1, <1>7
<1>9. Range(t) = Range(s) \ {n} /\ IsInjective(t)
  BY <1>2, <1>4, RemoveAtRange
<1>10. Clear(t, q, p)
  BY <1>3, <1>9 DEF Apart, Clear
<1>11. /\ y \in [Places -> Seq(h)] /\ Apart(y) /\ y[p] = t
       /\ \A r \in Places \ {p} : y[r] = q[r]
  <2>1. Updated(y, q, h, p, t)
    BY <1>3, <1>7, <1>9, <1>10, ApartUpdate
  <2>2. QED
    BY <2>1 DEF Updated
<1>12. ASSUME NEW x \in Cells, x # n, x # a, x # b PROVE w[x] = m[x]
  BY <1>3, <1>4, <1>12, SameCell, ZenonT(40) DEF Parted
<1>13. ASSUME NEW r \in Places PROVE Linked(w, y[r], End(r))
  <2>1. CASE r = p
    BY <1>1, <1>7, <1>11, <2>1
  <2>2. CASE r # p
    <3>1. q[r] \in Seq(h) /\ Linked(m, q[r], End(r)) /\ Range(q[r]) \subseteq h
      BY RepFacts
    <3>2. ASSUME NEW x \in Range(q[r]) PROVE w[x] = m[x]
      <4>1. x \in Cells /\ x # z /\ x \notin Range(s)
        BY <1>2, <1>3, <2>2, <3>1 DEF Apart
      <4>2. QED
        BY <1>5, <1>12, <4>1
    <3>3. QED
      BY <1>11, <2>2, <3>1, <3>2, LinkedFrame
  <2>3. QED
    BY <2>1, <2>2
<1>14. w[HEAD] = HeadOf(y[HEAD])
  <2>1. m[HEAD] = HeadOf(q[HEAD]) /\ HEAD # n
    BY <1>2, <1>3, <1>5 DEF Rep
  <2>2. CASE p = HEAD
    <3>1. z = HEAD
      BY <1>1, <2>2 DEF End
    <3>2. /\ w[HEAD].prev = IF i = Len(s) THEN a ELSE m[HEAD].prev
          /\ w[HEAD].next = IF i = 1 THEN b ELSE m[HEAD].next
      BY <1>4, <1>5, <2>1, <3>1 DEF Parted
    <3>3. w[HEAD].prev = Pos(t, HEAD, Len(t)) /\ w[HEAD].next = Pos(t, HEAD, 1)
      BY <1>8, <2>1, <2>2, <3>1, <3>2 DEF HeadOf
    <3>4. w[HEAD] \in [prev : Links, next : Links]
      BY <1>3 DEF Memory
    <3>5. QED
      BY <1>11, <2>2, <3>3, <3>4 DEF HeadOf
  <2>3. CASE p # HEAD
    <3>1. HEAD # a /\ HEAD # b
      BY <1>1, <1>2, <1>3, <1>5, <2>3 DEF End
    <3>2. QED
      BY <1>11, <1>12, <2>1, <2>3, <3>1
  <2>4. QED
    BY <2>2, <2>3
<1>15. ASSUME NEW x \in h, Unlinked(y, x) PROVE w[x] = node_init
  <2>1. x \notin Range(t) /\ \A r \in Places \ {p} : x \notin Range(q[r])
    BY <1>11, <1>15 DEF Unlinked
  <2>2. CASE x = n
    BY <1>4, <2>2 DEF Parted
  <2>3. CASE x # n
    <3>1. x \notin Range(s)
      BY <1>9, <2>1, <2>3
    <3>2. Unlinked(q, x)
      BY <2>1, <3>1 DEF Unlinked
    <3>3. m[x] = node_init
      BY <3>2 DEF Rep
    <3>4. x # a /\ x # b /\ x \in Cells
      BY <1>2, <1>3, <1>5, <3>1
    <3>5. QED
      BY <1>12, <2>3, <3>3, <3>4
  <2>4. QED
    BY <2>2, <2>3
<1>16. Rep(w, e, h, y)
  BY <1>3, <1>11, <1>13, <1>14, <1>15 DEF Rep
<1>17. QED
  BY <1>1, <1>7, <1>8, <1>16 DEF Shorter

\* No list is longer than the pool: its nodes are different blocks.
LEMMA ListFits ==
  ASSUME NEW s \in Seq(Blocks), IsInjective(s)
  PROVE  Len(s) <= block_count
<1>1. Len(s) \in Nat /\ DOMAIN s = 1 .. Len(s) /\ \A i \in 1 .. Len(s) : s[i] \in Blocks
  BY LenProperties, ElementOfSeq
<1>2. PICK n \in Nat : n = Len(s)
  BY <1>1
<1>3. PICK c \in Nat : c = block_count
  BY AddrFacts
<1>4. PICK f : f = [i \in 1 .. n |-> s[i] \div BlockSize]
  OBVIOUS
<1>5. ASSUME NEW x \in Blocks PROVE x \div BlockSize \in 0 .. c - 1 /\ index_to_addr(x \div BlockSize) = x
  <2>1. PICK i \in 0 .. c - 1 : x = index_to_addr(i)
    BY <1>3 DEF Blocks
  <2>2. x \div BlockSize = i
    BY <2>1, AddrFacts
  <2>3. QED
    BY <2>1, <2>2
<1>6. f \in [1 .. n -> 0 .. c - 1]
  BY <1>1, <1>2, <1>4, <1>5
<1>7. ASSUME NEW i \in 1 .. n, NEW j \in 1 .. n, f[i] = f[j] PROVE i = j
  <2>1. s[i] \in Blocks /\ s[j] \in Blocks /\ s[i] \div BlockSize = s[j] \div BlockSize
    BY <1>1, <1>2, <1>4, <1>7
  <2>2. s[i] = s[j]
    BY <1>5, <2>1
  <2>3. QED
    BY <1>1, <1>2, <2>2 DEF IsInjective
<1>8. f \in Injection(1 .. n, 0 .. c - 1)
  <2>1. \A a, b \in DOMAIN f : f[a] = f[b] => a = b
    BY <1>6, <1>7
  <2>2. QED
    BY <1>6, <2>1 DEF Injection, IsInjective
<1>9. /\ IsFiniteSet(0 .. c - 1)
      /\ Cardinality(0 .. c - 1) = IF 0 > c - 1 THEN 0 ELSE (c - 1) - 0 + 1
      /\ Cardinality(1 .. n) = IF 1 > n THEN 0 ELSE n - 1 + 1
  <2>1. 0 \in Int /\ c - 1 \in Int /\ 1 \in Int /\ n \in Int
    OBVIOUS
  <2>2. QED
    BY <2>1, FS_Interval
<1>10. Cardinality(1 .. n) <= Cardinality(0 .. c - 1)
  BY <1>8, <1>9, FS_Injection
<1>11. QED
  BY <1>2, <1>3, <1>9, <1>10

\* The walks in both directions read the sequences.
Reads(m, d, q) ==
  /\ \A l \in DLists : /\ Walk(m, d[l].first, NULL, "next", block_count + 1) = q[l]
                       /\ Walk(m, d[l].last, NULL, "prev", block_count + 1) = Reverse(q[l])
  /\ Walk(m, m[HEAD].next, HEAD, "next", block_count + 1) = q[HEAD]
  /\ Walk(m, m[HEAD].prev, HEAD, "prev", block_count + 1) = Reverse(q[HEAD])

LEMMA RepReads ==
  ASSUME NEW m, NEW d, NEW h, NEW q, Rep(m, d, h, q)
  PROVE  Reads(m, d, q)
<1> USE BlockFacts
<1>1. PICK b \in Nat : b = block_count + 1
  BY AddrFacts
<1>2. ASSUME NEW p \in Places
      PROVE  /\ Walk(m, Pos(q[p], End(p), 1), End(p), "next", b) = q[p]
             /\ Walk(m, Pos(q[p], End(p), Len(q[p])), End(p), "prev", b) = Reverse(q[p])
  <2>1. PICK s, z : s = q[p] /\ z = End(p)
    OBVIOUS
  <2>2. /\ s \in Seq(h) /\ IsInjective(s) /\ Linked(m, s, z) /\ z \notin h /\ Len(s) \in Nat
        /\ h \subseteq Blocks
    BY <2>1, RepFacts, ZenonT(40) DEF Rep
  <2>3. Len(s) <= b
    <3>1. s \in Seq(Blocks)
      BY <2>2, SeqMonotonic
    <3>2. Len(s) <= block_count
      BY <2>2, <3>1, ListFits
    <3>3. QED
      BY <1>1, <2>2, <3>2, AddrFacts
  <2>4. Walk(m, Pos(s, z, 1), z, "next", b) = s
    <3>1. \A i \in 1 .. Len(s) : m[s[i]]["next"] = Pos(s, z, i + 1)
      BY <2>2 DEF Linked
    <3>2. QED
      BY <2>2, <2>3, <3>1, WalkReads
  <2>5. PICK t : t = Reverse(s)
    OBVIOUS
  <2>6. /\ t \in Seq(h) /\ Len(t) = Len(s) /\ \A i \in 1 .. Len(s) : t[i] = s[Len(s) - i + 1]
        /\ \A k \in Int : Pos(t, z, k) = Pos(s, z, Len(s) + 1 - k)
    BY <2>2, <2>5, ReversePos
  <2>7. ASSUME NEW i \in 1 .. Len(t) PROVE m[t[i]]["prev"] = Pos(t, z, i + 1)
    <3>1. PICK n \in Nat : n = Len(s)
      BY <2>2
    <3>2. PICK j \in 1 .. n : j = n - i + 1
      BY <2>6, <3>1
    <3>3. t[i] = s[j] /\ m[s[j]]["prev"] = Pos(s, z, j - 1)
      BY <2>2, <2>6, <3>1, <3>2 DEF Linked
    <3>4. i + 1 \in Int /\ n + 1 - (i + 1) = j - 1
      BY <3>2
    <3>5. Pos(t, z, i + 1) = Pos(s, z, j - 1)
      BY <2>6, <3>1, <3>4
    <3>6. QED
      BY <3>3, <3>5
  <2>8. Walk(m, Pos(t, z, 1), z, "prev", b) = t
    BY <2>2, <2>3, <2>6, <2>7, WalkReads
  <2>9. Pos(t, z, 1) = Pos(s, z, Len(s))
    <3>1. Len(s) + 1 - 1 = Len(s) /\ 1 \in Int
      BY <2>2
    <3>2. QED
      BY <2>6, <3>1
  <2>10. QED
    BY <2>1, <2>4, <2>5, <2>8, <2>9
<1>3. ASSUME NEW l \in DLists
      PROVE  /\ d[l].first = Pos(q[l], NULL, 1) /\ d[l].last = Pos(q[l], NULL, Len(q[l]))
             /\ End(l) = NULL
  BY DEF Rep, DlistOf, End
<1>4. /\ m[HEAD].next = Pos(q[HEAD], HEAD, 1) /\ m[HEAD].prev = Pos(q[HEAD], HEAD, Len(q[HEAD]))
      /\ End(HEAD) = HEAD
  BY DEF Rep, HeadOf, End
<1>5. QED
  BY <1>1, <1>2, <1>3, <1>4 DEF Reads

-----------------------------------------------------------------------------
(* The operations of dlist.c and list.h                                     *)

\* Memory w is memory m with one link, or one whole cell, changed.
NextSet(m, w, x, v) ==
  w \in Memory /\ \A y \in Cells : w[y].prev = m[y].prev /\ w[y].next = IF y = x THEN v ELSE m[y].next
PrevSet(m, w, x, v) ==
  w \in Memory /\ \A y \in Cells : w[y].next = m[y].next /\ w[y].prev = IF y = x THEN v ELSE m[y].prev
CellSet(m, w, x, c) ==
  w \in Memory /\ \A y \in Cells : w[y] = IF y = x THEN c ELSE m[y]

LEMMA Assignments ==
  ASSUME NEW m \in Memory, NEW x \in Cells, NEW v \in Links, NEW u \in Links
  PROVE  /\ NextSet(m, [m EXCEPT ![x].next = v], x, v)
         /\ PrevSet(m, [m EXCEPT ![x].prev = v], x, v)
         /\ CellSet(m, [m EXCEPT ![x] = [prev |-> u, next |-> v]], x, [prev |-> u, next |-> v])
<1>1. NextSet(m, [m EXCEPT ![x].next = v], x, v)
  BY DEF Memory, NextSet
<1>2. PrevSet(m, [m EXCEPT ![x].prev = v], x, v)
  BY DEF Memory, PrevSet
<1>3. CellSet(m, [m EXCEPT ![x] = [prev |-> u, next |-> v]], x, [prev |-> u, next |-> v])
  BY DEF Memory, CellSet
<1>4. QED
  BY <1>1, <1>2, <1>3

\* What the code reads of the list at p: nothing but nodes of h and the end.
ListAt(m, h, s, z) ==
  /\ m \in Memory /\ h \subseteq Cells /\ h \subseteq Links /\ z \in Links /\ z \notin h
  /\ s \in Seq(h) /\ Len(s) \in Nat /\ IsInjective(s)
  /\ \A k \in 1 .. Len(s) : /\ s[k] \in h /\ Pos(s, z, k) = s[k]
                            /\ m[s[k]].prev = Pos(s, z, k - 1) /\ m[s[k]].next = Pos(s, z, k + 1)
  /\ \A j, k \in 1 .. Len(s) : s[j] = s[k] => j = k
  /\ \A k \in Int : k \notin 1 .. Len(s) => Pos(s, z, k) = z
  /\ \A k \in Int : Pos(s, z, k) \in h \cup {z}

LEMMA RepListAt ==
  ASSUME NEW m, NEW d, NEW h, NEW q, Rep(m, d, h, q), NEW p \in Places
  PROVE  ListAt(m, h, q[p], End(p))
<1> USE BlockFacts
<1>1. PICK s, z : s = q[p] /\ z = End(p)
  OBVIOUS
<1>2. /\ s \in Seq(h) /\ IsInjective(s) /\ Linked(m, s, z) /\ z \notin h /\ Len(s) \in Nat
      /\ \A k \in Int : Pos(s, z, k) \in h \cup {z}
  BY <1>1, RepFacts
<1>3. /\ \A i \in 1 .. Len(s) : s[i] \in h /\ Pos(s, z, i) = s[i]
      /\ \A k \in Int : k \notin 1 .. Len(s) => Pos(s, z, k) = z
  BY <1>2, PosFacts
<1>4. \A j, k \in 1 .. Len(s) : s[j] = s[k] => j = k
  BY <1>2 DEF IsInjective
<1>5. m \in Memory /\ h \subseteq Cells /\ h \subseteq Links /\ z \in Links
  BY <1>1 DEF Rep, End, Links
<1>6. \A k \in 1 .. Len(s) : m[s[k]].prev = Pos(s, z, k - 1) /\ m[s[k]].next = Pos(s, z, k + 1)
  BY <1>2 DEF Linked
<1>7. QED
  BY <1>1, <1>2, <1>3, <1>4, <1>5, <1>6 DEF ListAt

\* The result r of an operation on the dlist of s that inserts n at position i,
\* and of one that removes position i.
Inserted(r, m, s, n, i) ==
  /\ Joined(m, r.m, n, Pos(s, NULL, i - 1), Pos(s, NULL, i))
  /\ r.l = [first |-> IF i = 1 THEN n ELSE Pos(s, NULL, 1),
            last |-> IF i = Len(s) + 1 THEN n ELSE Pos(s, NULL, Len(s)), size |-> Len(s) + 1]
Removed(r, m, s, i) ==
  /\ Parted(m, r.m, s[i], Pos(s, NULL, i - 1), Pos(s, NULL, i + 1))
  /\ r.l = [first |-> IF i = 1 THEN Pos(s, NULL, 2) ELSE Pos(s, NULL, 1),
            last |-> IF i = Len(s) THEN Pos(s, NULL, Len(s) - 1) ELSE Pos(s, NULL, Len(s)),
            size |-> Len(s) - 1]

\* A node outside a list is at none of its positions.
LEMMA OtherNodes ==
  ASSUME NEW m, NEW h, NEW s, NEW z, ListAt(m, h, s, z), NEW n \in h, n \notin Range(s)
  PROVE  \A k \in Int : Pos(s, z, k) \in Cells \cup {z} /\ Pos(s, z, k) # n
<1>1. DOMAIN s = 1 .. Len(s)
  BY LenProperties DEF ListAt
<1>2. \A k \in 1 .. Len(s) : s[k] # n
  BY <1>1 DEF Range
<1>3. SUFFICES ASSUME NEW k \in Int PROVE Pos(s, z, k) \in Cells \cup {z} /\ Pos(s, z, k) # n
  OBVIOUS
<1>4. Pos(s, z, k) \in h \cup {z} /\ h \subseteq Cells /\ n # z
  BY DEF ListAt
<1>5. Pos(s, z, k) # n
  BY <1>2, <1>4 DEF ListAt, Pos
<1>6. QED
  BY <1>4, <1>5

LEMMA InsertFirstIs ==
  ASSUME NEW m, NEW h, NEW s, ListAt(m, h, s, NULL), NEW n \in h, n \notin Range(s),
         m[n] = node_init, NEW st, st = [m |-> m, l |-> DlistOf(s)]
  PROVE  Inserted(dlist_insert_first(st, n), m, s, n, 1)
<1> USE BlockFacts
<1>1. PICK r : r = dlist_insert_first(st, n)
  OBVIOUS
<1>2. PICK f : f = Pos(s, NULL, 1)
  OBVIOUS
<1>3. /\ m \in Memory /\ n \in Cells /\ Len(s) \in Nat /\ m[n].prev = NULL /\ m[n].next = NULL
      /\ f \in Cells \cup {NULL} /\ f # n /\ (f # NULL <=> Len(s) # 0)
  <2>1. \A k \in Int : Pos(s, NULL, k) \in Cells \cup {NULL} /\ Pos(s, NULL, k) # n
    BY OtherNodes
  <2>2. f \in Cells \cup {NULL} /\ f # n
    BY <1>2, <2>1
  <2>3. f # NULL <=> Len(s) # 0
    BY <1>2 DEF ListAt
  <2>4. QED
    BY <2>2, <2>3 DEF ListAt, node_init
<1>4. CASE f # NULL
  <2>1. PICK u : u = [m EXCEPT ![n].next = f]
    OBVIOUS
  <2>2. PICK w : w = [u EXCEPT ![f].prev = n]
    OBVIOUS
  <2>3. n \in Links /\ f \in Links
    BY <1>3 DEF Links
  <2>4. NextSet(m, u, n, f)
    BY <1>3, <2>1, <2>3, Assignments
  <2>5. PrevSet(u, w, f, n)
    BY <1>3, <1>4, <2>2, <2>3, <2>4, Assignments DEF NextSet
  <2>6. Joined(m, w, n, NULL, f)
    BY <1>3, <1>4, <2>4, <2>5 DEF NextSet, PrevSet, Joined
  <2>7. /\ r.m = [m EXCEPT ![n].next = f, ![f].prev = n]
        /\ r.l = [first |-> n, last |-> Pos(s, NULL, Len(s)), size |-> Len(s) + 1]
    BY <1>1, <1>2, <1>4 DEF dlist_insert_first, DlistOf
  <2>8. r.m = w
    BY <2>1, <2>2, <2>7
  <2>9. Pos(s, NULL, 1 - 1) = NULL /\ 1 # Len(s) + 1
    BY <1>3, <1>4 DEF ListAt
  <2>10. QED
    BY <1>1, <1>2, <2>6, <2>7, <2>8, <2>9 DEF Inserted
<1>5. CASE f = NULL
  <2>1. Joined(m, m, n, NULL, NULL)
    BY <1>3 DEF Joined
  <2>2. r.m = m /\ r.l = [first |-> n, last |-> n, size |-> Len(s) + 1]
    BY <1>1, <1>2, <1>5 DEF dlist_insert_first, DlistOf
  <2>3. Pos(s, NULL, 1 - 1) = NULL /\ 1 = Len(s) + 1
    BY <1>3, <1>5 DEF ListAt
  <2>4. QED
    BY <1>1, <1>2, <1>5, <2>1, <2>2, <2>3 DEF Inserted
<1>6. QED
  BY <1>4, <1>5

LEMMA InsertLastIs ==
  ASSUME NEW m, NEW h, NEW s, ListAt(m, h, s, NULL), NEW n \in h, n \notin Range(s),
         m[n] = node_init, NEW st, st = [m |-> m, l |-> DlistOf(s)]
  PROVE  Inserted(dlist_insert_last(st, n), m, s, n, Len(s) + 1)
<1> USE BlockFacts
<1>1. PICK r : r = dlist_insert_last(st, n)
  OBVIOUS
<1>2. PICK c \in Nat : c = Len(s)
  BY DEF ListAt
<1>3. PICK f : f = Pos(s, NULL, c)
  OBVIOUS
<1>4. /\ m \in Memory /\ n \in Cells /\ m[n].prev = NULL /\ m[n].next = NULL
      /\ f \in Cells \cup {NULL} /\ f # n /\ (f # NULL <=> c # 0)
  <2>1. f \in Cells \cup {NULL} /\ f # n
    <3>1. c \in Int
      OBVIOUS
    <3>2. QED
      BY <1>3, <3>1, OtherNodes
  <2>2. f # NULL <=> c # 0
    <3>1. c # 0 => c \in 1 .. Len(s) /\ s[c] \in h /\ Pos(s, NULL, c) = s[c]
      BY <1>2 DEF ListAt
    <3>2. c = 0 => c \notin 1 .. Len(s) /\ Pos(s, NULL, c) = NULL
      BY <1>2 DEF ListAt
    <3>3. NULL \notin h
      BY DEF ListAt
    <3>4. QED
      BY <1>3, <3>1, <3>2, <3>3
  <2>3. QED
    BY <2>1, <2>2 DEF ListAt, node_init
<1>5. Pos(s, NULL, c + 1 - 1) = f /\ Pos(s, NULL, c + 1) = NULL
  <2>1. c + 1 - 1 = c /\ c + 1 \in Int /\ c + 1 \notin 1 .. Len(s)
    BY <1>2
  <2>2. QED
    BY <1>3, <2>1 DEF ListAt
<1>6. CASE f # NULL
  <2>1. PICK u : u = [m EXCEPT ![n].prev = f]
    OBVIOUS
  <2>2. PICK w : w = [u EXCEPT ![f].next = n]
    OBVIOUS
  <2>3. n \in Links /\ f \in Links
    BY <1>4 DEF Links
  <2>4. PrevSet(m, u, n, f)
    BY <1>4, <2>1, <2>3, Assignments
  <2>5. NextSet(u, w, f, n)
    BY <1>4, <1>6, <2>2, <2>3, <2>4, Assignments DEF PrevSet
  <2>6. Joined(m, w, n, f, NULL)
    BY <1>4, <1>6, <2>4, <2>5 DEF NextSet, PrevSet, Joined
  <2>7. /\ r.m = [m EXCEPT ![n].prev = f, ![f].next = n]
        /\ r.l = [first |-> Pos(s, NULL, 1), last |-> n, size |-> c + 1]
    BY <1>1, <1>2, <1>3, <1>6 DEF dlist_insert_last, DlistOf
  <2>8. r.m = w
    BY <2>1, <2>2, <2>7
  <2>9. c + 1 # 1
    BY <1>4, <1>6
  <2>10. QED
    BY <1>1, <1>2, <1>5, <2>6, <2>7, <2>8, <2>9 DEF Inserted
<1>7. CASE f = NULL
  <2>1. Joined(m, m, n, NULL, NULL)
    BY <1>4 DEF Joined
  <2>2. r.m = m /\ r.l = [first |-> n, last |-> n, size |-> c + 1]
    BY <1>1, <1>2, <1>3, <1>7 DEF dlist_insert_last, DlistOf
  <2>3. c + 1 = 1
    BY <1>4, <1>7
  <2>4. QED
    BY <1>1, <1>2, <1>5, <1>7, <2>1, <2>2, <2>3 DEF Inserted
<1>8. QED
  BY <1>6, <1>7

LEMMA InsertAfterIs ==
  ASSUME NEW m, NEW h, NEW s, ListAt(m, h, s, NULL), NEW n \in h, n \notin Range(s),
         m[n] = node_init, NEW st, st = [m |-> m, l |-> DlistOf(s)], NEW k \in 1 .. Len(s)
  PROVE  Inserted(dlist_insert_after(st, n, s[k]), m, s, n, k + 1)
<1> USE BlockFacts
<1>1. PICK a : a = s[k]
  OBVIOUS
<1>2. PICK c \in Nat : c = Len(s)
  BY DEF ListAt
<1>3. st.l.last = Pos(s, NULL, c) /\ Pos(s, NULL, c) = s[c] /\ (a = s[c] <=> k = c)
  BY <1>1, <1>2, SMTT(20) DEF DlistOf, ListAt
<1>4. CASE k = c
  <2>1. dlist_insert_after(st, n, a) = dlist_insert_last(st, n)
    BY <1>3, <1>4 DEF dlist_insert_after
  <2>2. QED
    BY <1>1, <1>2, <1>4, <2>1, InsertLastIs
<1>5. CASE k # c
  <2>1. PICK r, b : r = dlist_insert_after(st, n, a) /\ b = s[k + 1]
    OBVIOUS
  <2>2. /\ m \in Memory /\ n \in Cells /\ a \in Cells /\ b \in Cells /\ a # n /\ b # n /\ a # b
        /\ m[a].next = b /\ Pos(s, NULL, k + 1) = b /\ Pos(s, NULL, k) = a
    <3>1. k \in 1 .. c /\ k + 1 \in 1 .. c /\ k # k + 1
      BY <1>2, <1>5
    <3>2. Pos(s, NULL, k + 1) = b /\ Pos(s, NULL, k) = a /\ a # b /\ m[a].next = b
      BY <1>1, <1>2, <2>1, <3>1 DEF ListAt
    <3>3. Pos(s, NULL, k + 1) # n /\ Pos(s, NULL, k) # n
      BY OtherNodes
    <3>4. QED
      BY <1>1, <1>2, <2>1, <3>1, <3>2, <3>3 DEF ListAt
  <2>3. PICK u : u = [m EXCEPT ![n] = [prev |-> a, next |-> b]]
    OBVIOUS
  <2>4. PICK v : v = [u EXCEPT ![b].prev = n]
    OBVIOUS
  <2>5. PICK w : w = [v EXCEPT ![a].next = n]
    OBVIOUS
  <2>6. n \in Links /\ a \in Links /\ b \in Links
    BY <2>2 DEF Links
  <2>7. CellSet(m, u, n, [prev |-> a, next |-> b])
    BY <2>2, <2>3, <2>6, Assignments
  <2>8. PrevSet(u, v, b, n)
    BY <2>2, <2>4, <2>6, <2>7, Assignments DEF CellSet
  <2>9. NextSet(v, w, a, n)
    BY <2>2, <2>5, <2>6, <2>8, Assignments DEF PrevSet
  <2>10. Joined(m, w, n, a, b)
    BY <2>2, <2>7, <2>8, <2>9 DEF CellSet, NextSet, PrevSet, Joined
  <2>11. /\ r.m = [m EXCEPT ![n] = [prev |-> a, next |-> b], ![b].prev = n, ![a].next = n]
         /\ r.l = [DlistOf(s) EXCEPT !.size = @ + 1]
    BY <1>2, <1>3, <1>5, <2>1, <2>2 DEF dlist_insert_after
  <2>12. r.m = w
    BY <2>3, <2>4, <2>5, <2>11
  <2>13. r.l = [first |-> Pos(s, NULL, 1), last |-> Pos(s, NULL, c), size |-> c + 1]
    BY <1>2, <2>11 DEF DlistOf
  <2>14. k + 1 # 1 /\ k + 1 # c + 1 /\ k + 1 - 1 = k
    BY <1>2, <1>5
  <2>15. QED
    BY <1>1, <1>2, <2>1, <2>2, <2>10, <2>12, <2>13, <2>14 DEF Inserted
<1>6. QED
  BY <1>4, <1>5

LEMMA InsertBeforeIs ==
  ASSUME NEW m, NEW h, NEW s, ListAt(m, h, s, NULL), NEW n \in h, n \notin Range(s),
         m[n] = node_init, NEW st, st = [m |-> m, l |-> DlistOf(s)], NEW k \in 1 .. Len(s)
  PROVE  Inserted(dlist_insert_before(st, n, s[k]), m, s, n, k)
<1> USE BlockFacts
<1>1. PICK b : b = s[k]
  OBVIOUS
<1>2. PICK c \in Nat : c = Len(s)
  BY DEF ListAt
<1>3. st.l.first = Pos(s, NULL, 1) /\ Pos(s, NULL, 1) = s[1] /\ (b = s[1] <=> k = 1)
  BY <1>1, <1>2 DEF DlistOf, ListAt
<1>4. CASE k = 1
  <2>1. dlist_insert_before(st, n, b) = dlist_insert_first(st, n)
    BY <1>3, <1>4 DEF dlist_insert_before
  <2>2. QED
    BY <1>1, <1>4, <2>1, InsertFirstIs
<1>5. CASE k # 1
  <2>1. PICK r, a : r = dlist_insert_before(st, n, b) /\ a = s[k - 1]
    OBVIOUS
  <2>2. /\ m \in Memory /\ n \in Cells /\ a \in Cells /\ b \in Cells /\ a # n /\ b # n /\ a # b
        /\ m[b].prev = a /\ Pos(s, NULL, k - 1) = a /\ Pos(s, NULL, k) = b
    <3>1. k \in 1 .. c /\ k - 1 \in 1 .. c /\ k # k - 1
      BY <1>2, <1>5
    <3>2. Pos(s, NULL, k - 1) = a /\ Pos(s, NULL, k) = b /\ a # b /\ m[b].prev = a
      BY <1>1, <1>2, <2>1, <3>1 DEF ListAt
    <3>3. Pos(s, NULL, k - 1) # n /\ Pos(s, NULL, k) # n
      BY OtherNodes
    <3>4. QED
      BY <1>1, <1>2, <2>1, <3>1, <3>2, <3>3 DEF ListAt
  <2>3. PICK u : u = [m EXCEPT ![n] = [prev |-> a, next |-> b]]
    OBVIOUS
  <2>4. PICK v : v = [u EXCEPT ![a].next = n]
    OBVIOUS
  <2>5. PICK w : w = [v EXCEPT ![b].prev = n]
    OBVIOUS
  <2>6. n \in Links /\ a \in Links /\ b \in Links
    BY <2>2 DEF Links
  <2>7. CellSet(m, u, n, [prev |-> a, next |-> b])
    BY <2>2, <2>3, <2>6, Assignments
  <2>8. NextSet(u, v, a, n)
    BY <2>2, <2>4, <2>6, <2>7, Assignments DEF CellSet
  <2>9. PrevSet(v, w, b, n)
    BY <2>2, <2>5, <2>6, <2>8, Assignments DEF NextSet
  <2>10. Joined(m, w, n, a, b)
    BY <2>2, <2>7, <2>8, <2>9 DEF CellSet, NextSet, PrevSet, Joined
  <2>11. /\ r.m = [m EXCEPT ![n] = [prev |-> a, next |-> b], ![a].next = n, ![b].prev = n]
         /\ r.l = [DlistOf(s) EXCEPT !.size = @ + 1]
    BY <1>3, <1>5, <2>1, <2>2 DEF dlist_insert_before
  <2>12. r.m = w
    BY <2>3, <2>4, <2>5, <2>11
  <2>13. r.l = [first |-> Pos(s, NULL, 1), last |-> Pos(s, NULL, c), size |-> c + 1]
    BY <1>2, <2>11 DEF DlistOf
  <2>14. k # 1 /\ k # c + 1
    BY <1>2, <1>5
  <2>15. QED
    BY <1>1, <1>2, <2>1, <2>2, <2>10, <2>12, <2>13, <2>14 DEF Inserted
<1>6. QED
  BY <1>4, <1>5

\* The neighbours of position i, when it is removed.
LEMMA Neighbours ==
  ASSUME NEW m, NEW h, NEW s, NEW z, ListAt(m, h, s, z), NEW i \in 1 .. Len(s),
         NEW n, n = s[i], NEW a, a = Pos(s, z, i - 1), NEW b, b = Pos(s, z, i + 1)
  PROVE  /\ m \in Memory /\ n \in Cells /\ a \in Cells \cup {z} /\ b \in Cells \cup {z}
         /\ m[n].prev = a /\ m[n].next = b /\ a # n /\ b # n /\ (a = b => a = z)
         /\ (a # z <=> i # 1) /\ (b # z <=> i # Len(s)) /\ a \in Links /\ b \in Links
<1>1. PICK c \in Nat : c = Len(s)
  BY DEF ListAt
<1>2. i - 1 \in Int /\ i + 1 \in Int /\ i \in 1 .. c
  BY <1>1
<1>3. i # 1 => i - 1 \in 1 .. c /\ a = s[i - 1] /\ a \in h /\ a # n
  BY <1>1, <1>2 DEF ListAt
<1>4. i # c => i + 1 \in 1 .. c /\ b = s[i + 1] /\ b \in h /\ b # n
  BY <1>1, <1>2 DEF ListAt
<1>5. (i = 1 => a = z) /\ (i = c => b = z)
  <2>1. (i = 1 => i - 1 \notin 1 .. c) /\ (i = c => i + 1 \notin 1 .. c)
    BY <1>1
  <2>2. QED
    BY <1>1, <1>2, <2>1 DEF ListAt
<1>6. i # 1 /\ i # c => a # b
  BY <1>1, <1>2, <1>3, <1>4 DEF ListAt
<1>7. /\ m \in Memory /\ n \in h /\ n # z /\ z \notin h /\ h \subseteq Cells /\ h \subseteq Links
      /\ z \in Links /\ m[n].prev = a /\ m[n].next = b
  BY <1>1, <1>2 DEF ListAt
<1>8. QED
  BY <1>1, <1>3, <1>4, <1>5, <1>6, <1>7

LEMMA RemoveFirstIs ==
  ASSUME NEW m, NEW h, NEW s, ListAt(m, h, s, NULL), NEW st, st = [m |-> m, l |-> DlistOf(s)],
         Len(s) # 0
  PROVE  Removed(dlist_remove_first(st), m, s, 1)
<1> USE BlockFacts
<1>1. PICK c \in Nat : c = Len(s) /\ 1 \in 1 .. c
  BY DEF ListAt
<1>2. PICK r : r = dlist_remove_first(st)
  OBVIOUS
<1>3. PICK n, b : n = s[1] /\ b = Pos(s, NULL, 1 + 1)
  OBVIOUS
<1>4. PICK a : a = Pos(s, NULL, 1 - 1)
  OBVIOUS
<1>5. /\ m \in Memory /\ n \in Cells /\ b \in Cells \cup {NULL} /\ m[n].next = b /\ b # n
      /\ a = NULL /\ (b # NULL <=> 1 # c) /\ b \in Links
  BY <1>1, <1>3, <1>4, Neighbours
<1>6. st.l.first = n /\ st.m = m /\ st.l.last = Pos(s, NULL, c) /\ st.l.size = c
  BY <1>1, <1>3 DEF DlistOf, ListAt
<1>7. /\ r.m = IF b # NULL THEN [m EXCEPT ![b].prev = NULL, ![n] = node_init]
               ELSE [m EXCEPT ![n] = node_init]
      /\ r.l = [first |-> b, last |-> IF b # NULL THEN Pos(s, NULL, c) ELSE NULL, size |-> c - 1]
  BY <1>2, <1>5, <1>6 DEF dlist_remove_first
<1>8. Parted(m, r.m, n, NULL, b)
  <2>1. NULL \in Links
    BY DEF Links
  <2>2. CASE b # NULL
    <3>1. PICK u : u = [m EXCEPT ![b].prev = NULL]
      OBVIOUS
    <3>2. PICK w : w = [u EXCEPT ![n] = [prev |-> NULL, next |-> NULL]]
      OBVIOUS
    <3>3. PrevSet(m, u, b, NULL)
      BY <1>5, <2>1, <2>2, <3>1, Assignments
    <3>4. CellSet(u, w, n, [prev |-> NULL, next |-> NULL])
      BY <1>5, <2>1, <3>2, <3>3, Assignments DEF PrevSet
    <3>5. Parted(m, w, n, NULL, b)
      BY <1>5, <3>3, <3>4 DEF PrevSet, CellSet, Parted, node_init
    <3>6. r.m = w
      BY <1>7, <2>2, <3>1, <3>2 DEF node_init
    <3>7. QED
      BY <3>5, <3>6
  <2>3. CASE b = NULL
    <3>1. PICK w : w = [m EXCEPT ![n] = [prev |-> NULL, next |-> NULL]]
      OBVIOUS
    <3>2. CellSet(m, w, n, [prev |-> NULL, next |-> NULL])
      BY <1>5, <2>1, <3>1, Assignments
    <3>3. Parted(m, w, n, NULL, b)
      BY <1>5, <2>3, <3>2 DEF CellSet, Parted, node_init
    <3>4. r.m = w
      BY <1>7, <2>3, <3>1 DEF node_init
    <3>5. QED
      BY <3>3, <3>4
  <2>4. QED
    BY <2>2, <2>3
<1>9. b = Pos(s, NULL, 2) /\ (1 = c => Pos(s, NULL, c - 1) = NULL)
  BY <1>3, <1>4, <1>5
<1>10. QED
  BY <1>1, <1>2, <1>3, <1>4, <1>5, <1>7, <1>8, <1>9 DEF Removed

LEMMA RemoveLastIs ==
  ASSUME NEW m, NEW h, NEW s, ListAt(m, h, s, NULL), NEW st, st = [m |-> m, l |-> DlistOf(s)],
         Len(s) # 0
  PROVE  Removed(dlist_remove_last(st), m, s, Len(s))
<1> USE BlockFacts
<1>1. PICK c \in Nat : c = Len(s) /\ c \in 1 .. c
  BY DEF ListAt
<1>2. PICK r : r = dlist_remove_last(st)
  OBVIOUS
<1>3. PICK n, a : n = s[c] /\ a = Pos(s, NULL, c - 1)
  OBVIOUS
<1>4. PICK b : b = Pos(s, NULL, c + 1)
  OBVIOUS
<1>5. /\ m \in Memory /\ n \in Cells /\ a \in Cells \cup {NULL} /\ m[n].prev = a /\ a # n
      /\ b = NULL /\ (a # NULL <=> c # 1) /\ a \in Links
  BY <1>1, <1>3, <1>4, Neighbours
<1>6. st.l.last = n /\ st.m = m /\ st.l.first = Pos(s, NULL, 1) /\ st.l.size = c
  BY <1>1, <1>3 DEF DlistOf, ListAt
<1>7. /\ r.m = IF a # NULL THEN [m EXCEPT ![a].next = NULL, ![n] = node_init]
               ELSE [m EXCEPT ![n] = node_init]
      /\ r.l = [first |-> IF a # NULL THEN Pos(s, NULL, 1) ELSE NULL, last |-> a, size |-> c - 1]
  BY <1>2, <1>5, <1>6 DEF dlist_remove_last
<1>8. Parted(m, r.m, n, a, NULL)
  <2>1. NULL \in Links
    BY DEF Links
  <2>2. CASE a # NULL
    <3>1. PICK u : u = [m EXCEPT ![a].next = NULL]
      OBVIOUS
    <3>2. PICK w : w = [u EXCEPT ![n] = [prev |-> NULL, next |-> NULL]]
      OBVIOUS
    <3>3. NextSet(m, u, a, NULL)
      BY <1>5, <2>1, <2>2, <3>1, Assignments
    <3>4. CellSet(u, w, n, [prev |-> NULL, next |-> NULL])
      BY <1>5, <2>1, <3>2, <3>3, Assignments DEF NextSet
    <3>5. Parted(m, w, n, a, NULL)
      BY <1>5, <3>3, <3>4 DEF NextSet, CellSet, Parted, node_init
    <3>6. r.m = w
      BY <1>7, <2>2, <3>1, <3>2 DEF node_init
    <3>7. QED
      BY <3>5, <3>6
  <2>3. CASE a = NULL
    <3>1. PICK w : w = [m EXCEPT ![n] = [prev |-> NULL, next |-> NULL]]
      OBVIOUS
    <3>2. CellSet(m, w, n, [prev |-> NULL, next |-> NULL])
      BY <1>5, <2>1, <3>1, Assignments
    <3>3. Parted(m, w, n, a, NULL)
      BY <1>5, <2>3, <3>2 DEF CellSet, Parted, node_init
    <3>4. r.m = w
      BY <1>7, <2>3, <3>1 DEF node_init
    <3>5. QED
      BY <3>3, <3>4
  <2>4. QED
    BY <2>2, <2>3
<1>9. c = 1 => Pos(s, NULL, 2) = NULL
  BY <1>4, <1>5
<1>10. QED
  BY <1>1, <1>2, <1>3, <1>4, <1>5, <1>7, <1>8, <1>9 DEF Removed

LEMMA RemoveIs ==
  ASSUME NEW m, NEW h, NEW s, ListAt(m, h, s, NULL), NEW st, st = [m |-> m, l |-> DlistOf(s)],
         NEW i \in 1 .. Len(s)
  PROVE  Removed(dlist_remove(st, s[i]), m, s, i)
<1> USE BlockFacts
<1>1. PICK c \in Nat : c = Len(s) /\ c # 0
  BY DEF ListAt
<1>2. PICK n : n = s[i]
  OBVIOUS
<1>3. /\ st.l.first = Pos(s, NULL, 1) /\ Pos(s, NULL, 1) = s[1] /\ (n = s[1] <=> i = 1)
      /\ st.l.last = Pos(s, NULL, c) /\ Pos(s, NULL, c) = s[c] /\ (n = s[c] <=> i = c)
  BY <1>1, <1>2, SMTT(20) DEF DlistOf, ListAt
<1>4. CASE i = 1
  <2>1. dlist_remove(st, n) = dlist_remove_first(st)
    BY <1>3, <1>4 DEF dlist_remove
  <2>2. QED
    BY <1>1, <1>2, <1>4, <2>1, RemoveFirstIs
<1>5. CASE i # 1 /\ i = c
  <2>1. dlist_remove(st, n) = dlist_remove_last(st)
    BY <1>3, <1>5 DEF dlist_remove
  <2>2. QED
    BY <1>1, <1>2, <1>5, <2>1, RemoveLastIs
<1>6. CASE i # 1 /\ i # c
  <2>1. PICK r, a, b : r = dlist_remove(st, n) /\ a = Pos(s, NULL, i - 1) /\ b = Pos(s, NULL, i + 1)
    OBVIOUS
  <2>2. /\ m \in Memory /\ n \in Cells /\ a \in Cells /\ b \in Cells /\ m[n].prev = a /\ m[n].next = b
        /\ a # n /\ b # n /\ a # b /\ a \in Links /\ b \in Links
    BY <1>1, <1>2, <1>6, <2>1, Neighbours
  <2>3. PICK u : u = [m EXCEPT ![a].next = b]
    OBVIOUS
  <2>4. PICK v : v = [u EXCEPT ![b].prev = a]
    OBVIOUS
  <2>5. PICK w : w = [v EXCEPT ![n] = [prev |-> NULL, next |-> NULL]]
    OBVIOUS
  <2>6. NULL \in Links
    BY DEF Links
  <2>7. NextSet(m, u, a, b)
    BY <2>2, <2>3, Assignments
  <2>8. PrevSet(u, v, b, a)
    BY <2>2, <2>4, <2>7, Assignments DEF NextSet
  <2>9. CellSet(v, w, n, [prev |-> NULL, next |-> NULL])
    BY <2>2, <2>5, <2>6, <2>8, Assignments DEF PrevSet
  <2>10. Parted(m, w, n, a, b)
    BY <2>2, <2>7, <2>8, <2>9 DEF NextSet, PrevSet, CellSet, Parted, node_init
  <2>11. /\ r.m = [m EXCEPT ![a].next = b, ![b].prev = a, ![n] = node_init]
         /\ r.l = [DlistOf(s) EXCEPT !.size = @ - 1]
    BY <1>3, <1>6, <2>1, <2>2 DEF dlist_remove
  <2>12. r.m = w
    BY <2>3, <2>4, <2>5, <2>11 DEF node_init
  <2>13. r.l = [first |-> Pos(s, NULL, 1), last |-> Pos(s, NULL, c), size |-> c - 1]
    BY <1>1, <2>11 DEF DlistOf
  <2>14. QED
    BY <1>1, <1>2, <1>6, <2>1, <2>10, <2>12, <2>13 DEF Removed
<1>7. QED
  BY <1>4, <1>5, <1>6

\* The head of the ring and its nodes are linked in a circle.
LEMMA RingInsertIs ==
  ASSUME NEW m \in Memory, NEW n \in Cells, NEW a \in Cells, NEW b \in Cells, a # n, b # n
  PROVE  Joined(m, _list_add(m, n, a, b), n, a, b)
<1>1. PICK u : u = [m EXCEPT ![a].next = n]
  OBVIOUS
<1>2. PICK v : v = [u EXCEPT ![b].prev = n]
  OBVIOUS
<1>3. PICK w : w = [v EXCEPT ![n] = [prev |-> a, next |-> b]]
  OBVIOUS
<1>4. n \in Links /\ a \in Links /\ b \in Links
  BY DEF Links
<1>5. NextSet(m, u, a, n)
  BY <1>1, <1>4, Assignments
<1>6. PrevSet(u, v, b, n)
  BY <1>2, <1>4, <1>5, Assignments DEF NextSet
<1>7. CellSet(v, w, n, [prev |-> a, next |-> b])
  BY <1>3, <1>4, <1>6, Assignments DEF PrevSet
<1>8. Joined(m, w, n, a, b)
  BY <1>5, <1>6, <1>7 DEF CellSet, NextSet, PrevSet, Joined
<1>9. _list_add(m, n, a, b) = w
  BY <1>1, <1>2, <1>3 DEF _list_add
<1>10. QED
  BY <1>8, <1>9

LEMMA RingDeleteIs ==
  ASSUME NEW m \in Memory, NEW n \in Cells, NEW a \in Cells, NEW b \in Cells, a # n, b # n,
         m[n].prev = a, m[n].next = b
  PROVE  Parted(m, list_delete_node(m, n), n, a, b)
<1>1. PICK u : u = [m EXCEPT ![a].next = b]
  OBVIOUS
<1>2. PICK v : v = [u EXCEPT ![b].prev = a]
  OBVIOUS
<1>3. PICK w : w = [v EXCEPT ![n] = [prev |-> NULL, next |-> NULL]]
  OBVIOUS
<1>4. NULL \in Links /\ a \in Links /\ b \in Links
  BY DEF Links
<1>5. NextSet(m, u, a, b)
  BY <1>1, <1>4, Assignments
<1>6. PrevSet(u, v, b, a)
  BY <1>2, <1>4, <1>5, Assignments DEF NextSet
<1>7. CellSet(v, w, n, [prev |-> NULL, next |-> NULL])
  BY <1>3, <1>4, <1>6, Assignments DEF PrevSet
<1>8. Parted(m, w, n, a, b)
  BY <1>5, <1>6, <1>7 DEF CellSet, NextSet, PrevSet, Parted, node_init
<1>9. list_delete_node(m, n) = w
  BY <1>1, <1>2, <1>3 DEF list_delete_node, _list_delete, node_init
<1>10. QED
  BY <1>8, <1>9

-----------------------------------------------------------------------------
(* The actions                                                              *)

LEMMA CurrentReads ==
  ASSUME NEW q, Rep(mem, dl, held, q)
  PROVE  /\ \A l \in DLists : Forward(l) = q[l] /\ Backward(l) = Reverse(q[l])
         /\ Ring = q[HEAD] /\ RingBack = Reverse(q[HEAD])
         /\ \A l \in DLists : Members(l) = Range(q[l])
         /\ \A n : InList(n) <=> ~Unlinked(q, n)
<1>1. Reads(mem, dl, q)
  BY RepReads
<1>2. /\ \A l \in DLists : Forward(l) = q[l] /\ Backward(l) = Reverse(q[l])
      /\ Ring = q[HEAD] /\ RingBack = Reverse(q[HEAD])
  BY <1>1 DEF Reads, Forward, Backward, Ring, RingBack
<1>3. \A l \in DLists : Members(l) = Range(q[l])
  BY <1>2 DEF Members, ToSet, Range
<1>4. ToSet(Ring) = Range(q[HEAD])
  BY <1>2 DEF ToSet, Range
<1>5. \A n : InList(n) <=> ~Unlinked(q, n)
  BY <1>3, <1>4 DEF InList, Unlinked, Places
<1>6. QED
  BY <1>2, <1>3, <1>5

LEMMA NextReads ==
  ASSUME NEW q, Rep(mem', dl', held', q)
  PROVE  (\A l \in DLists : Forward(l)' = q[l]) /\ Ring' = q[HEAD]
<1>1. Reads(mem', dl', q)
  BY RepReads
<1>2. QED
  BY <1>1 DEF Reads, Forward, Ring

\* A node that passes the assertions of an insertion is in no list: its links
\* are NULL, so it could only be alone in a dlist.
LEMMA PassedNode ==
  ASSUME NEW q, Rep(mem, dl, held, q), NEW l \in DLists, NEW n \in held,
         ~OnlyElsewhere(l, n), Insertable(On(l), n)
  PROVE  Unlinked(q, n) /\ mem[n] = node_init
<1> USE BlockFacts
<1>1. mem[n] = node_init /\ n # dl[l].first
  BY DEF Insertable, On
<1>2. SUFFICES ASSUME NEW p \in Places, n \in Range(q[p]) PROVE FALSE
  BY <1>1 DEF Unlinked
<1>3. PICK s, z : s = q[p] /\ z = End(p)
  OBVIOUS
<1>4. ListAt(mem, held, s, z)
  BY <1>3, RepListAt
<1>5. PICK i \in 1 .. Len(s) : n = s[i]
  <2>1. s \in Seq(held) /\ z \notin held /\ IsInjective(s)
    BY <1>4 DEF ListAt
  <2>2. \A x \in Range(s) : \E i \in 1 .. Len(s) : x = s[i]
    BY <2>1, PosFacts
  <2>3. QED
    BY <1>2, <1>3, <2>2
<1>6. PICK a, b : a = Pos(s, z, i - 1) /\ b = Pos(s, z, i + 1)
  OBVIOUS
<1>7. /\ mem[n].prev = a /\ mem[n].next = b /\ (a # z <=> i # 1) /\ (b # z <=> i # Len(s))
      /\ a \in Cells \cup {z} /\ b \in Cells \cup {z}
  BY <1>4, <1>5, <1>6, Neighbours
<1>8. a = NULL /\ b = NULL
  BY <1>1, <1>7 DEF node_init
<1>9. p # HEAD /\ z = NULL
  BY <1>3, <1>7, <1>8 DEF End
<1>10. i = 1 /\ Len(s) = 1 /\ s[1] = n
  BY <1>5, <1>7, <1>8, <1>9
<1>11. Pos(s, NULL, 1) = n /\ Pos(s, NULL, Len(s)) = n
  BY <1>10 DEF Pos
<1>12. p \in DLists /\ dl[p].first = n /\ dl[p].last = n
  BY <1>3, <1>9, <1>11 DEF Rep, DlistOf, Places
<1>13. QED
  BY <1>1, <1>12 DEF OnlyElsewhere

\* Results of the dlist operations, as sequences.
LEMMA InsertedKeeps ==
  ASSUME NEW q, Rep(mem, dl, held, q), NEW l \in DLists, NEW n \in held, Unlinked(q, n),
         NEW i \in 1 .. Len(q[l]) + 1, NEW r, Inserted(r, mem, q[l], n, i), Becomes(l, r)
  PROVE  Rep(mem', dl', held', [q EXCEPT ![l] = InsertAt(q[l], i, n)])
<1> USE BlockFacts
<1>1. PICK s, t, y : s = q[l] /\ t = InsertAt(s, i, n) /\ y = [q EXCEPT ![l] = t]
  OBVIOUS
<1>2. PICK e : e = [k \in DLists |-> DlistOf(y[k])]
  OBVIOUS
<1>3. End(l) = NULL /\ l \in Places
  BY DEF End
<1>4. PICK a, b : a = Pos(s, End(l), i - 1) /\ b = Pos(s, End(l), i)
  OBVIOUS
<1>5. Joined(mem, mem', n, a, b)
  BY <1>1, <1>3, <1>4 DEF Inserted, Becomes
<1>6. Rep(mem', e, held, y) /\ Longer(t, s, NULL, n, i)
  <2>1. Rep(mem', e, held, y) /\ Longer(t, s, End(l), n, i)
    <3>1. JoinStep(mem, dl, held, q, l, n, s, i, a, b, mem', t, y, e)
      BY <1>1, <1>2, <1>3, <1>4, <1>5 DEF JoinStep
    <3>2. QED
      BY <3>1, JoinKeeps
  <2>2. QED
    BY <1>3, <2>1
<1>7. r.l = DlistOf(t)
  BY <1>1, <1>6 DEF Inserted, DlistOf, Longer
<1>8. dl' = e
  <2>1. dl = [k \in DLists |-> DlistOf(q[k])] /\ dl' = [dl EXCEPT ![l] = DlistOf(t)]
    BY <1>7 DEF Rep, Becomes
  <2>2. y[l] = t /\ \A k \in DLists \ {l} : y[k] = q[k]
    BY <1>1, <1>3 DEF Rep
  <2>3. QED
    BY <1>2, <2>1, <2>2
<1>9. held' = held
  BY DEF Becomes
<1>10. QED
  BY <1>1, <1>6, <1>8, <1>9

LEMMA RemovedKeeps ==
  ASSUME NEW q, Rep(mem, dl, held, q), NEW l \in DLists, NEW i \in 1 .. Len(q[l]),
         NEW r, Removed(r, mem, q[l], i), Becomes(l, r)
  PROVE  Rep(mem', dl', held', [q EXCEPT ![l] = RemoveAt(q[l], i)])
<1> USE BlockFacts
<1>1. PICK s, t, y : s = q[l] /\ t = RemoveAt(s, i) /\ y = [q EXCEPT ![l] = t]
  OBVIOUS
<1>2. PICK e : e = [k \in DLists |-> DlistOf(y[k])]
  OBVIOUS
<1>3. End(l) = NULL /\ l \in Places
  BY DEF End
<1>4. PICK a, b : a = Pos(s, End(l), i - 1) /\ b = Pos(s, End(l), i + 1)
  OBVIOUS
<1>5. Parted(mem, mem', s[i], a, b)
  BY <1>1, <1>3, <1>4 DEF Removed, Becomes
<1>6. Rep(mem', e, held, y) /\ Shorter(t, s, NULL, i)
  <2>1. Rep(mem', e, held, y) /\ Shorter(t, s, End(l), i)
    <3>1. PartStep(mem, dl, held, q, l, s, i, a, b, mem', t, y, e)
      BY <1>1, <1>2, <1>3, <1>4, <1>5 DEF PartStep
    <3>2. QED
      BY <3>1, PartKeeps
  <2>2. QED
    BY <1>3, <2>1
<1>7. r.l = DlistOf(t)
  BY <1>1, <1>6 DEF Removed, DlistOf, Shorter
<1>8. dl' = e
  <2>1. dl = [k \in DLists |-> DlistOf(q[k])] /\ dl' = [dl EXCEPT ![l] = DlistOf(t)]
    BY <1>7 DEF Rep, Becomes
  <2>2. y[l] = t /\ \A k \in DLists \ {l} : y[k] = q[k]
    BY <1>1, <1>3 DEF Rep
  <2>3. QED
    BY <1>2, <2>1, <2>2
<1>9. held' = held
  BY DEF Becomes
<1>10. QED
  BY <1>1, <1>6, <1>8, <1>9

\* The step leaves the sequences as in q, but for t in place p.
To(q, p, t) == Rep(mem', dl', held', [q EXCEPT ![p] = t])

LEMMA RingJoins ==
  ASSUME NEW q, Rep(mem, dl, held, q), NEW n \in held, Unlinked(q, n),
         NEW s, s = q[HEAD], NEW i \in 1 .. Len(s) + 1, UNCHANGED <<dl, held>>,
         NEW a, a = Pos(s, HEAD, i - 1), NEW b, b = Pos(s, HEAD, i), Joined(mem, mem', n, a, b)
  PROVE  To(q, HEAD, InsertAt(s, i, n))
<1> USE BlockFacts
<1>1. PICK t, y : t = InsertAt(s, i, n) /\ y = [q EXCEPT ![HEAD] = t]
  OBVIOUS
<1>2. PICK e : e = [k \in DLists |-> DlistOf(y[k])]
  OBVIOUS
<1>3. JoinStep(mem, dl, held, q, HEAD, n, s, i, a, b, mem', t, y, e)
  BY <1>1, <1>2 DEF JoinStep, End
<1>4. Rep(mem', e, held, y)
  BY <1>3, JoinKeeps
<1>5. dl = e
  <2>1. \A k \in DLists : y[k] = q[k]
    BY <1>1 DEF Rep
  <2>2. dl = [k \in DLists |-> DlistOf(q[k])]
    BY DEF Rep
  <2>3. QED
    BY <1>2, <2>1, <2>2
<1>6. QED
  BY <1>1, <1>4, <1>5 DEF To

LEMMA RingParts ==
  ASSUME NEW q, Rep(mem, dl, held, q), UNCHANGED <<dl, held>>, NEW s, s = q[HEAD],
         NEW i \in 1 .. Len(s), mem' = list_delete_node(mem, s[i])
  PROVE  To(q, HEAD, RemoveAt(s, i))
<1> USE BlockFacts
<1>1. PICK t, y : t = RemoveAt(s, i) /\ y = [q EXCEPT ![HEAD] = t]
  OBVIOUS
<1>2. PICK e : e = [k \in DLists |-> DlistOf(y[k])]
  OBVIOUS
<1>3. PICK a, b : a = Pos(s, HEAD, i - 1) /\ b = Pos(s, HEAD, i + 1)
  OBVIOUS
<1>4. ListAt(mem, held, s, HEAD)
  <2>1. ListAt(mem, held, q[HEAD], End(HEAD))
    BY RepListAt
  <2>2. QED
    BY <2>1 DEF End
<1>5. PICK n : n = s[i]
  OBVIOUS
<1>6. /\ mem \in Memory /\ n \in Cells /\ a \in Cells /\ b \in Cells /\ a # n /\ b # n
      /\ mem[n].prev = a /\ mem[n].next = b
  BY <1>3, <1>4, <1>5, Neighbours
<1>7. Parted(mem, mem', n, a, b)
  BY <1>5, <1>6, RingDeleteIs
<1>8. PartStep(mem, dl, held, q, HEAD, s, i, a, b, mem', t, y, e)
  BY <1>1, <1>2, <1>3, <1>5, <1>7 DEF PartStep, End
<1>9. Rep(mem', e, held, y)
  BY <1>8, PartKeeps
<1>10. dl = e
  <2>1. \A k \in DLists : y[k] = q[k]
    BY <1>1 DEF Rep
  <2>2. dl = [k \in DLists |-> DlistOf(q[k])]
    BY DEF Rep
  <2>3. QED
    BY <1>2, <2>1, <2>2
<1>11. QED
  BY <1>1, <1>9, <1>10 DEF To

\* An insertion that does not panic inserts.
LEMMA InsertActs ==
  ASSUME NEW q, Rep(mem, dl, held, q), NEW l \in DLists, NEW n \in held, ~halted'
  PROVE  /\ InsertFirst(l, n) => To(q, l, InsertAt(q[l], 1, n))
         /\ InsertLast(l, n) => To(q, l, InsertAt(q[l], Len(q[l]) + 1, n))
         /\ \A k \in 1 .. Len(q[l]) :
              /\ InsertAfter(l, n, q[l][k]) => To(q, l, InsertAt(q[l], k + 1, n))
              /\ InsertBefore(l, n, q[l][k]) => To(q, l, InsertAt(q[l], k, n))
<1> USE BlockFacts
<1>1. ASSUME NEW r, Insert(l, n, r)
      PROVE  Becomes(l, r) /\ Unlinked(q, n) /\ mem[n] = node_init
  <2>1. ~OnlyElsewhere(l, n) /\ Insertable(On(l), n) /\ Becomes(l, r)
    BY <1>1 DEF Insert, Panic
  <2>2. QED
    BY <2>1, PassedNode
<1>2. PICK s, st : s = q[l] /\ st = [m |-> mem, l |-> DlistOf(s)]
  OBVIOUS
<1>3. ListAt(mem, held, s, NULL)
  <2>1. ListAt(mem, held, q[l], End(l))
    BY RepListAt
  <2>2. QED
    BY <1>2, <2>1 DEF End
<1>4. On(l) = st
  BY <1>2 DEF On, Rep
<1>5. Len(s) \in Nat
  BY <1>3 DEF ListAt
<1>6. ASSUME NEW r, Insert(l, n, r), NEW i \in 1 .. Len(s) + 1,
             n \notin Range(s) /\ mem[n] = node_init => Inserted(r, mem, s, n, i)
      PROVE  To(q, l, InsertAt(s, i, n))
  <2>1. Becomes(l, r) /\ Unlinked(q, n) /\ mem[n] = node_init
    BY <1>1, <1>6
  <2>2. n \notin Range(s)
    BY <1>2, <2>1 DEF Unlinked
  <2>3. Inserted(r, mem, s, n, i)
    BY <1>6, <2>1, <2>2
  <2>4. QED
    BY <1>2, <2>1, <2>3, InsertedKeeps DEF To
<1>7. InsertFirst(l, n) => To(q, l, InsertAt(s, 1, n))
  <2>1. SUFFICES ASSUME InsertFirst(l, n) PROVE To(q, l, InsertAt(s, 1, n))
    OBVIOUS
  <2>2. PICK r : r = dlist_insert_first(st, n)
    OBVIOUS
  <2>3. Insert(l, n, r) /\ 1 \in 1 .. Len(s) + 1
    BY <1>4, <1>5, <2>1, <2>2 DEF InsertFirst
  <2>4. n \notin Range(s) /\ mem[n] = node_init => Inserted(r, mem, s, n, 1)
    BY <1>2, <1>3, <2>2, InsertFirstIs
  <2>5. QED
    BY <1>6, <2>3, <2>4
<1>8. InsertLast(l, n) => To(q, l, InsertAt(s, Len(s) + 1, n))
  <2>1. SUFFICES ASSUME InsertLast(l, n) PROVE To(q, l, InsertAt(s, Len(s) + 1, n))
    OBVIOUS
  <2>2. PICK r : r = dlist_insert_last(st, n)
    OBVIOUS
  <2>3. Insert(l, n, r) /\ Len(s) + 1 \in 1 .. Len(s) + 1
    BY <1>4, <1>5, <2>1, <2>2 DEF InsertLast
  <2>4. n \notin Range(s) /\ mem[n] = node_init => Inserted(r, mem, s, n, Len(s) + 1)
    BY <1>2, <1>3, <2>2, InsertLastIs
  <2>5. QED
    BY <1>6, <2>3, <2>4
<1>9. ASSUME NEW k \in 1 .. Len(s), InsertAfter(l, n, s[k]) PROVE To(q, l, InsertAt(s, k + 1, n))
  <2>1. PICK r : r = dlist_insert_after(st, n, s[k])
    OBVIOUS
  <2>2. Insert(l, n, r) /\ k + 1 \in 1 .. Len(s) + 1
    BY <1>4, <1>5, <1>9, <2>1 DEF InsertAfter
  <2>3. n \notin Range(s) /\ mem[n] = node_init => Inserted(r, mem, s, n, k + 1)
    BY <1>2, <1>3, <2>1, InsertAfterIs
  <2>4. QED
    BY <1>6, <2>2, <2>3
<1>10. ASSUME NEW k \in 1 .. Len(s), InsertBefore(l, n, s[k]) PROVE To(q, l, InsertAt(s, k, n))
  <2>1. PICK r : r = dlist_insert_before(st, n, s[k])
    OBVIOUS
  <2>2. Insert(l, n, r) /\ k \in 1 .. Len(s) + 1
    BY <1>4, <1>5, <1>10, <2>1 DEF InsertBefore
  <2>3. n \notin Range(s) /\ mem[n] = node_init => Inserted(r, mem, s, n, k)
    BY <1>2, <1>3, <2>1, InsertBeforeIs
  <2>4. QED
    BY <1>6, <2>2, <2>3
<1>11. QED
  BY <1>2, <1>7, <1>8, <1>9, <1>10

\* A removal takes out the first node, the last or the one it names.
LEMMA TakeActs ==
  ASSUME NEW q, Rep(mem, dl, held, q), NEW l \in DLists
  PROVE  /\ TakeFirst(l) => Panic \/ (Len(q[l]) # 0 /\ To(q, l, RemoveAt(q[l], 1)))
         /\ TakeLast(l) => Panic \/ (Len(q[l]) # 0 /\ To(q, l, RemoveAt(q[l], Len(q[l]))))
         /\ \A k \in 1 .. Len(q[l]) : TakeNode(l, q[l][k]) => To(q, l, RemoveAt(q[l], k))
<1> USE BlockFacts
<1>1. PICK s, st : s = q[l] /\ st = [m |-> mem, l |-> DlistOf(s)]
  OBVIOUS
<1>2. ListAt(mem, held, s, NULL)
  <2>1. ListAt(mem, held, q[l], End(l))
    BY RepListAt
  <2>2. QED
    BY <1>1, <2>1 DEF End
<1>3. On(l) = st /\ dl[l].first = Pos(s, NULL, 1) /\ dl[l].last = Pos(s, NULL, Len(s))
  BY <1>1 DEF On, Rep, DlistOf
<1>4. PICK c \in Nat : c = Len(s)
  BY <1>2 DEF ListAt
<1>5. c = 0 => dl[l].first = NULL /\ dl[l].last = NULL
  BY <1>3, <1>4 DEF Pos
<1>6. ASSUME TakeFirst(l) PROVE Panic \/ (c # 0 /\ To(q, l, RemoveAt(s, 1)))
  <2>1. SUFFICES ASSUME ~Panic PROVE c # 0 /\ To(q, l, RemoveAt(s, 1))
    OBVIOUS
  <2>2. PICK r : r = dlist_remove_first(st)
    OBVIOUS
  <2>3. Becomes(l, r) /\ c # 0 /\ 1 \in 1 .. Len(s)
    BY <1>3, <1>4, <1>5, <1>6, <2>1, <2>2 DEF TakeFirst
  <2>4. Removed(r, mem, s, 1)
    BY <1>1, <1>2, <1>4, <2>2, <2>3, RemoveFirstIs
  <2>5. QED
    BY <1>1, <2>3, <2>4, RemovedKeeps DEF To
<1>7. ASSUME TakeLast(l) PROVE Panic \/ (c # 0 /\ To(q, l, RemoveAt(s, c)))
  <2>1. SUFFICES ASSUME ~Panic PROVE c # 0 /\ To(q, l, RemoveAt(s, c))
    OBVIOUS
  <2>2. PICK r : r = dlist_remove_last(st)
    OBVIOUS
  <2>3. Becomes(l, r) /\ c # 0 /\ c \in 1 .. Len(s)
    BY <1>3, <1>4, <1>5, <1>7, <2>1, <2>2 DEF TakeLast
  <2>4. Removed(r, mem, s, c)
    BY <1>1, <1>2, <1>4, <2>2, <2>3, RemoveLastIs
  <2>5. QED
    BY <1>1, <2>3, <2>4, RemovedKeeps DEF To
<1>8. ASSUME NEW k \in 1 .. Len(s), TakeNode(l, s[k]) PROVE To(q, l, RemoveAt(s, k))
  <2>1. PICK r : r = dlist_remove(st, s[k])
    OBVIOUS
  <2>2. Becomes(l, r)
    BY <1>3, <1>8, <2>1 DEF TakeNode
  <2>3. Removed(r, mem, s, k)
    BY <1>1, <1>2, <2>1, RemoveIs
  <2>4. QED
    BY <1>1, <2>2, <2>3, RemovedKeeps DEF To
<1>9. QED
  BY <1>1, <1>4, <1>6, <1>7, <1>8

\* The ring: a node is added at an end, and one is deleted, if there is one.
LEMMA RingActs ==
  ASSUME NEW q, Rep(mem, dl, held, q), RingOps
  PROVE  UNCHANGED <<mem, dl, held>> \/ \E t : To(q, HEAD, t) /\ UNCHANGED dl
<1> USE BlockFacts
<1>1. PICK s : s = q[HEAD]
  OBVIOUS
<1>2. ListAt(mem, held, s, HEAD)
  <2>1. ListAt(mem, held, q[HEAD], End(HEAD))
    BY RepListAt
  <2>2. QED
    BY <1>1, <2>1 DEF End
<1>3. PICK c \in Nat : c = Len(s)
  BY <1>2 DEF ListAt
<1>4. mem[HEAD].next = Pos(s, HEAD, 1) /\ mem[HEAD].prev = Pos(s, HEAD, c)
  BY <1>1, <1>3 DEF Rep, HeadOf
<1>5. ASSUME NEW n \in held, ~InList(n), NEW i \in 1 .. c + 1, UNCHANGED <<dl, held>>,
             NEW a, a = Pos(s, HEAD, i - 1), NEW b, b = Pos(s, HEAD, i), mem' = _list_add(mem, n, a, b)
      PROVE  \E t : To(q, HEAD, t) /\ UNCHANGED dl
  <2>1. Unlinked(q, n)
    BY <1>5, CurrentReads
  <2>2. n \notin Range(s)
    BY <1>1, <2>1 DEF Unlinked
  <2>3. i - 1 \in Int /\ i \in Int
    OBVIOUS
  <2>4. a \in Cells /\ b \in Cells /\ a # n /\ b # n /\ n \in Cells /\ mem \in Memory
    <3>1. \A k \in Int : Pos(s, HEAD, k) \in Cells \cup {HEAD} /\ Pos(s, HEAD, k) # n
      BY <1>2, <2>2, OtherNodes
    <3>2. HEAD \in Cells /\ n \in Cells /\ mem \in Memory
      BY <1>2 DEF ListAt
    <3>3. QED
      BY <1>5, <2>3, <3>1, <3>2
  <2>5. Joined(mem, mem', n, a, b)
    BY <1>5, <2>4, RingInsertIs
  <2>6. To(q, HEAD, InsertAt(s, i, n))
    BY <1>1, <1>3, <1>5, <2>1, <2>5, RingJoins
  <2>7. QED
    BY <1>5, <2>6
<1>6. ASSUME NEW i \in 1 .. c, UNCHANGED <<dl, held>>, mem' = list_delete_node(mem, s[i])
      PROVE  \E t : To(q, HEAD, t) /\ UNCHANGED dl
  <2>1. To(q, HEAD, RemoveAt(s, i))
    BY <1>1, <1>3, <1>6, RingParts
  <2>2. QED
    BY <1>6, <2>1
<1>7. ASSUME NEW n \in held, RingAddFirst(n) PROVE \E t : To(q, HEAD, t) /\ UNCHANGED dl
  <2>1. PICK a, b : a = HEAD /\ b = mem[HEAD].next
    OBVIOUS
  <2>2. ~InList(n) /\ UNCHANGED <<dl, held>> /\ mem' = _list_add(mem, n, a, b)
    BY <1>7, <2>1 DEF RingAddFirst, RingStep, list_add_first
  <2>3. 1 \in 1 .. c + 1 /\ a = Pos(s, HEAD, 1 - 1) /\ b = Pos(s, HEAD, 1)
    BY <1>4, <2>1 DEF Pos
  <2>4. QED
    BY <1>5, <2>2, <2>3
<1>8. ASSUME NEW n \in held, RingAddLast(n) PROVE \E t : To(q, HEAD, t) /\ UNCHANGED dl
  <2>1. PICK a, b : a = mem[HEAD].prev /\ b = HEAD
    OBVIOUS
  <2>2. ~InList(n) /\ UNCHANGED <<dl, held>> /\ mem' = _list_add(mem, n, a, b)
    BY <1>8, <2>1 DEF RingAddLast, RingStep, list_add_last
  <2>3. c + 1 \in 1 .. c + 1 /\ c + 1 - 1 = c /\ b = Pos(s, HEAD, c + 1)
    BY <1>3, <2>1 DEF Pos
  <2>4. a = Pos(s, HEAD, c + 1 - 1)
    BY <1>4, <2>1, <2>3
  <2>5. QED
    BY <1>5, <2>2, <2>3, <2>4
<1>9. ASSUME mem[HEAD].next # HEAD \/ mem[HEAD].prev # HEAD
      PROVE  1 \in 1 .. c /\ c \in 1 .. c /\ mem[HEAD].next = s[1] /\ mem[HEAD].prev = s[c]
  BY <1>3, <1>4, <1>9 DEF Pos
<1>10. ASSUME RingDeleteFirst PROVE UNCHANGED <<mem, dl, held>> \/ \E t : To(q, HEAD, t) /\ UNCHANGED dl
  <2>1. UNCHANGED <<dl, held>> /\ mem' = list_delete_first(mem, HEAD)
    BY <1>10 DEF RingDeleteFirst, RingStep
  <2>2. CASE mem[HEAD].next = HEAD
    BY <2>1, <2>2 DEF list_delete_first, list_is_empty
  <2>3. CASE mem[HEAD].next # HEAD
    <3>1. mem' = list_delete_node(mem, s[1])
      BY <1>9, <2>1, <2>3 DEF list_delete_first, list_is_empty
    <3>2. QED
      BY <1>6, <1>9, <2>1, <2>3, <3>1
  <2>4. QED
    BY <2>2, <2>3
<1>11. ASSUME RingDeleteLast PROVE UNCHANGED <<mem, dl, held>> \/ \E t : To(q, HEAD, t) /\ UNCHANGED dl
  <2>1. UNCHANGED <<dl, held>> /\ mem' = list_delete_last(mem, HEAD)
    BY <1>11 DEF RingDeleteLast, RingStep
  <2>2. CASE mem[HEAD].next = HEAD
    BY <2>1, <2>2 DEF list_delete_last, list_is_empty
  <2>3. CASE mem[HEAD].next # HEAD
    <3>1. mem' = list_delete_node(mem, s[c])
      BY <1>9, <2>1, <2>3 DEF list_delete_last, list_is_empty
    <3>2. QED
      BY <1>6, <1>9, <2>1, <2>3, <3>1
  <2>4. QED
    BY <2>2, <2>3
<1>12. ASSUME NEW n \in held, RingDelete(n) PROVE \E t : To(q, HEAD, t) /\ UNCHANGED dl
  <2>1. UNCHANGED <<dl, held>> /\ mem' = list_delete_node(mem, n) /\ n \in ToSet(Ring)
    BY <1>12 DEF RingDelete, RingStep
  <2>2. n \in Range(s)
    BY <1>1, <2>1, CurrentReads DEF ToSet, Range
  <2>3. PICK i \in 1 .. c : n = s[i]
    <3>1. s \in Seq(held) /\ HEAD \notin held /\ IsInjective(s)
      BY <1>2 DEF ListAt
    <3>2. \A x \in Range(s) : \E i \in 1 .. Len(s) : x = s[i]
      BY <3>1, PosFacts
    <3>3. QED
      BY <1>3, <2>2, <3>2
  <2>4. QED
    BY <1>6, <2>1, <2>3
<1>13. QED
  BY <1>7, <1>8, <1>10, <1>11, <1>12 DEF RingOps

\* The dlists: at most the one that is named changes.
LEMMA DlistActs ==
  ASSUME NEW q, Rep(mem, dl, held, q), ~halted, DlistOps
  PROVE  \/ UNCHANGED <<mem, dl, held>>
         \/ \E l \in DLists : \E t : To(q, l, t) /\ \A k \in DLists \ {l} : dl'[k] = dl[k]
<1> USE BlockFacts
<1>1. CASE halted'
  <2>1. \A l, r : ~Becomes(l, r)
    BY <1>1 DEF Becomes
  <2>2. DlistOps => Panic
    BY <2>1 DEF DlistOps, InsertFirst, InsertLast, InsertAfter, InsertBefore, Insert, TakeFirst,
                TakeLast, TakeNode
  <2>3. QED
    BY <2>2 DEF Panic
<1>2. CASE ~halted'
  <2>1. ~Panic
    BY <1>2 DEF Panic
  <2>2. \A l \in DLists : Members(l) = Range(q[l])
    BY CurrentReads
  <2>3. ASSUME NEW l \in DLists, NEW n \in Range(q[l]) PROVE \E k \in 1 .. Len(q[l]) : n = q[l][k]
    <3>1. q[l] \in Seq(held) /\ IsInjective(q[l]) /\ End(l) \notin held
      BY RepFacts
    <3>2. \A x \in Range(q[l]) : \E i \in 1 .. Len(q[l]) : x = q[l][i]
      BY <3>1, PosFacts
    <3>3. QED
      BY <3>2
  <2>4. ASSUME NEW l, NEW r, Becomes(l, r) PROVE \A k \in DLists \ {l} : dl'[k] = dl[k]
    BY <2>4 DEF Becomes, Rep
  <2>5. ASSUME NEW l, NEW n, NEW r, Insert(l, n, r) PROVE \A k \in DLists \ {l} : dl'[k] = dl[k]
    BY <2>1, <2>4, <2>5 DEF Insert
  <2>6. ASSUME NEW l \in DLists, NEW n \in held,
               \/ InsertFirst(l, n) \/ InsertLast(l, n) \/ TakeNode(l, n)
               \/ \E m \in Members(l) \ {n} : InsertAfter(l, n, m) \/ InsertBefore(l, n, m)
        PROVE  (\E t : To(q, l, t)) /\ \A k \in DLists \ {l} : dl'[k] = dl[k]
    <3>1. CASE InsertFirst(l, n) \/ InsertLast(l, n)
      <4>1. \E t : To(q, l, t)
        BY <1>2, <3>1, InsertActs
      <4>2. QED
        BY <2>5, <3>1, <4>1 DEF InsertFirst, InsertLast
    <3>2. CASE TakeNode(l, n)
      <4>1. PICK k \in 1 .. Len(q[l]) : n = q[l][k]
        BY <2>2, <2>3, <3>2 DEF TakeNode
      <4>2. \E t : To(q, l, t)
        BY <3>2, <4>1, TakeActs
      <4>3. QED
        BY <2>4, <3>2, <4>2 DEF TakeNode
    <3>3. ASSUME NEW m \in Members(l) \ {n}, InsertAfter(l, n, m) \/ InsertBefore(l, n, m)
          PROVE  (\E t : To(q, l, t)) /\ \A k \in DLists \ {l} : dl'[k] = dl[k]
      <4>1. PICK k \in 1 .. Len(q[l]) : m = q[l][k]
        BY <2>2, <2>3, <3>3
      <4>2. \E t : To(q, l, t)
        BY <1>2, <3>3, <4>1, InsertActs
      <4>3. QED
        BY <2>5, <3>3, <4>2 DEF InsertAfter, InsertBefore
    <3>4. QED
      BY <2>6, <3>1, <3>2, <3>3
  <2>7. ASSUME NEW l \in DLists, TakeFirst(l) \/ TakeLast(l)
        PROVE  (\E t : To(q, l, t)) /\ \A k \in DLists \ {l} : dl'[k] = dl[k]
    <3>1. \E t : To(q, l, t)
      BY <2>1, <2>7, TakeActs
    <3>2. QED
      BY <2>1, <2>4, <2>7, <3>1 DEF TakeFirst, TakeLast
  <2>8. PICK l \in DLists :
          \/ \E n \in held :
               \/ InsertFirst(l, n) \/ InsertLast(l, n) \/ TakeNode(l, n)
               \/ \E m \in Members(l) \ {n} : InsertAfter(l, n, m) \/ InsertBefore(l, n, m)
          \/ TakeFirst(l) \/ TakeLast(l)
    BY DEF DlistOps
  <2>9. (\E t : To(q, l, t)) /\ \A k \in DLists \ {l} : dl'[k] = dl[k]
    BY <2>6, <2>7, <2>8
  <2>10. QED
    BY <2>9
<1>3. QED
  BY <1>1, <1>2

\* A sequence over S whose elements are all in T is one over T.
LEMMA SubSequence ==
  ASSUME NEW S, NEW T, NEW s \in Seq(S), Range(s) \subseteq T
  PROVE  s \in Seq(T)
<1>1. Len(s) \in Nat /\ DOMAIN s = 1 .. Len(s) /\ s \in [1 .. Len(s) -> S]
  BY LenProperties
<1>2. \A i \in 1 .. Len(s) : s[i] \in T
  BY <1>1 DEF Range
<1>3. s \in [1 .. Len(s) -> T]
  BY <1>1, <1>2
<1>4. QED
  BY <1>1, <1>3

\* umalloc and ufree change no list.
LEMMA AllocateActs ==
  ASSUME NEW q, Rep(mem, dl, held, q), PoolInv, Allocate
  PROVE  Rep(mem', dl', held', q) /\ UNCHANGED dl
<1> USE BlockFacts
<1>1. CASE pool.bitmap = {}
  BY <1>1 DEF Allocate, Panic
<1>2. CASE pool.bitmap # {}
  <2>1. PICK i, n : i = Min(pool.bitmap) /\ n = index_to_addr(i)
    OBVIOUS
  <2>2. mem' = [mem EXCEPT ![n] = node_init] /\ held' = held \cup {n} /\ UNCHANGED dl
    BY <1>2, <2>1 DEF Allocate, get_first_free_index
  <2>3. i \in pool.bitmap /\ i \in Indices /\ Indices \subseteq Nat /\ n \in Blocks
    <3>1. Indices \subseteq Nat
      BY AddrFacts DEF Indices
    <3>2. pool.bitmap \in SUBSET Nat /\ pool.bitmap \subseteq Indices
      BY <3>1 DEF PoolInv
    <3>3. i \in pool.bitmap
      BY <1>2, <2>1, <3>2, MinFacts
    <3>4. QED
      BY <2>1, <3>1, <3>2, <3>3 DEF Blocks, Indices
  <2>4. n \notin held
    <3>1. \A j \in Indices : index_to_addr(j) = n => j = i
      BY <2>1, <2>3, AddrFacts
    <3>2. QED
      BY <2>3, <3>1 DEF PoolInv
  <2>5. mem \in Memory /\ held \subseteq Blocks /\ q \in [Places -> Seq(held)]
    BY DEF Rep
  <2>6. /\ mem' \in Memory /\ mem'[n] = node_init /\ \A x \in Cells \ {n} : mem'[x] = mem[x]
    <3>1. NULL \in Links /\ n \in Cells
      BY <2>3 DEF Links
    <3>2. CellSet(mem, mem', n, [prev |-> NULL, next |-> NULL])
      BY <2>2, <2>5, <3>1, Assignments DEF node_init
    <3>3. QED
      BY <3>1, <3>2 DEF CellSet, node_init
  <2>7. ASSUME NEW p \in Places
        PROVE  q[p] \in Seq(held') /\ Range(q[p]) \subseteq held /\ Linked(mem', q[p], End(p))
    <3>1. q[p] \in Seq(held) /\ Range(q[p]) \subseteq held /\ Linked(mem, q[p], End(p))
      BY RepFacts
    <3>2. q[p] \in Seq(held')
      BY <2>2, <3>1, SubSequence
    <3>3. \A x \in Range(q[p]) : mem'[x] = mem[x]
      BY <2>4, <2>5, <2>6, <3>1
    <3>4. QED
      BY <3>1, <3>2, <3>3, LinkedFrame
  <2>8. mem'[HEAD] = HeadOf(q[HEAD])
    BY <2>3, <2>6 DEF Rep
  <2>9. ASSUME NEW x \in held', Unlinked(q, x) PROVE mem'[x] = node_init
    BY <2>2, <2>5, <2>6, <2>9 DEF Rep
  <2>10. q \in [Places -> Seq(held')] /\ held' \subseteq Blocks
    BY <2>2, <2>3, <2>5, <2>7
  <2>11. Rep(mem', dl', held', q)
    BY <2>2, <2>6, <2>7, <2>8, <2>9, <2>10 DEF Rep
  <2>12. QED
    BY <2>2, <2>11
<1>3. QED
  BY <1>1, <1>2

LEMMA FreeActs ==
  ASSUME NEW q, Rep(mem, dl, held, q), NEW ptr, Free(ptr)
  PROVE  Rep(mem', dl', held', q) /\ UNCHANGED dl
<1>1. Unlinked(q, ptr)
  BY CurrentReads DEF Free
<1>2. CASE Panic
  BY <1>2 DEF Panic
<1>3. CASE held' = held \ {ptr} /\ UNCHANGED <<mem, dl>>
  <2>1. ASSUME NEW p \in Places PROVE q[p] \in Seq(held')
    <3>1. q[p] \in Seq(held) /\ Range(q[p]) \subseteq held /\ ptr \notin Range(q[p])
      BY <1>1, RepFacts DEF Unlinked
    <3>2. Range(q[p]) \subseteq held'
      BY <1>3, <3>1
    <3>3. QED
      BY <3>1, <3>2, SubSequence
  <2>2. q \in [Places -> Seq(held')]
    BY <2>1 DEF Rep
  <2>3. QED
    BY <1>3, <2>2 DEF Rep
<1>4. QED
  BY <1>2, <1>3 DEF Free

\* Every step changes at most one list.
LEMMA OneListChanges ==
  ASSUME NEW q, Rep(mem, dl, held, q), PoolInv, Next
  PROVE  \E p \in Places : \E t : To(q, p, t) /\ \A k \in DLists \ {p} : dl'[k] = dl[k]
<1> USE BlockFacts
<1>1. ASSUME Rep(mem', dl', held', q), UNCHANGED dl
      PROVE  \E p \in Places : \E t : To(q, p, t) /\ \A k \in DLists \ {p} : dl'[k] = dl[k]
  <2>1. [q EXCEPT ![HEAD] = q[HEAD]] = q
    BY DEF Rep
  <2>2. To(q, HEAD, q[HEAD])
    BY <1>1, <2>1 DEF To
  <2>3. QED
    BY <1>1, <2>2
<1>2. UNCHANGED <<mem, dl, held>> => Rep(mem', dl', held', q) /\ UNCHANGED dl
  OBVIOUS
<1>3. CASE Allocate
  BY <1>1, <1>3, AllocateActs
<1>4. CASE \E ptr \in 0 .. arena_size + 1 : Free(ptr)
  BY <1>1, <1>4, FreeActs
<1>5. CASE DlistOps
  <2>1. CASE UNCHANGED <<mem, dl, held>>
    BY <1>1, <1>2, <2>1
  <2>2. CASE \E l \in DLists : \E t : To(q, l, t) /\ \A k \in DLists \ {l} : dl'[k] = dl[k]
    BY <2>2
  <2>3. ~halted
    BY DEF Next
  <2>4. QED
    BY <1>5, <2>1, <2>2, <2>3, DlistActs
<1>6. CASE RingOps
  <2>1. CASE UNCHANGED <<mem, dl, held>>
    BY <1>1, <1>2, <2>1
  <2>2. CASE \E t : To(q, HEAD, t) /\ UNCHANGED dl
    BY <2>2
  <2>3. QED
    BY <1>6, <2>1, <2>2, RingActs
<1>7. QED
  BY <1>3, <1>4, <1>5, <1>6 DEF Next

LEMMA ListInit == ASSUME Init PROVE ListInv
<1> USE BlockFacts
<1>1. PICK q : q = [p \in Places |-> <<>>]
  OBVIOUS
<1>2. /\ \A p \in Places : q[p] = <<>> /\ Len(q[p]) = 0 /\ Range(q[p]) = {} /\ IsInjective(q[p])
      /\ q \in [Places -> Seq(held)]
  BY <1>1 DEF Range, IsInjective
<1>3. mem \in Memory
  <2>1. mem = [n \in Cells |-> IF n = HEAD THEN list_init(HEAD) ELSE Filled]
    BY DEF Init, Cells
  <2>2. list_init(HEAD) \in [prev : Links, next : Links] /\ Filled \in [prev : Links, next : Links]
    BY DEF list_init, Filled, Links
  <2>3. QED
    BY <2>1, <2>2 DEF Memory
<1>4. mem[HEAD] = HeadOf(q[HEAD])
  BY <1>2 DEF Init, list_init, HeadOf, Pos
<1>5. dl = [l \in DLists |-> DlistOf(q[l])]
  BY <1>2 DEF Init, dlist_init, DlistOf, Pos
<1>6. held = {}
  BY DEF Init
<1>7. Rep(mem, dl, held, q)
  BY <1>2, <1>3, <1>4, <1>5, <1>6 DEF Rep, Apart, Linked
<1>8. QED
  BY <1>7, PoolInit DEF ListInv

LEMMA ListStep == ASSUME ListInv, [Next]_vars PROVE ListInv'
<1>1. PoolInv'
  BY PoolStep DEF ListInv
<1>2. PICK q : Rep(mem, dl, held, q)
  BY DEF ListInv
<1>3. CASE UNCHANGED vars
  BY <1>1, <1>2, <1>3 DEF ListInv, vars
<1>4. CASE Next
  <2>1. \E p \in Places : \E t : To(q, p, t)
    BY <1>2, <1>4, OneListChanges DEF ListInv
  <2>2. QED
    BY <1>1, <2>1 DEF ListInv, To
<1>5. QED
  BY <1>3, <1>4

\* Reversed, the empty sequence and the nodes of no list.
LEMMA SoundNow == ASSUME ListInv PROVE ListsSound
<1> USE BlockFacts
<1>1. PICK q : Rep(mem, dl, held, q)
  BY DEF ListInv
<1>2. /\ \A l \in DLists : Forward(l) = q[l] /\ Backward(l) = Reverse(q[l])
      /\ Ring = q[HEAD] /\ RingBack = Reverse(q[HEAD])
      /\ \A n : InList(n) <=> ~Unlinked(q, n)
  BY <1>1, CurrentReads
<1>3. \A l \in DLists : Backward(l) = Reverse(Forward(l)) /\ dl[l].size = Len(Forward(l))
  BY <1>1, <1>2 DEF Rep, DlistOf
<1>4. \A p \in Places : Nodes(p) = q[p]
  BY <1>2 DEF Nodes, Places
<1>5. \A p \in Places : ToSet(Nodes(p)) \subseteq held
  BY <1>1, <1>4, RepFacts DEF ToSet, Range
<1>6. ASSUME NEW p \in Places, NEW r \in Places, NEW i \in DOMAIN Nodes(p), NEW j \in DOMAIN Nodes(r),
             Nodes(p)[i] = Nodes(r)[j]
      PROVE  p = r /\ i = j
  <2>1. q[p][i] \in Range(q[p]) /\ q[r][j] \in Range(q[r]) /\ q[p][i] = q[r][j]
    BY <1>4, <1>6 DEF Range
  <2>2. p = r
    BY <1>1, <2>1 DEF Rep, Apart
  <2>3. IsInjective(q[p])
    BY <1>1 DEF Rep, Apart
  <2>4. QED
    BY <1>4, <1>6, <2>1, <2>2, <2>3 DEF IsInjective
<1>7. \A n \in held : ~InList(n) => mem[n] = node_init
  BY <1>1, <1>2 DEF Rep
<1>8. QED
  BY <1>2, <1>3, <1>5, <1>6, <1>7 DEF ListsSound, Places

\* For every pool, any number of dlists and every order of legal and illegal
\* calls, the pointers of dlist.c and list.h form lists: the same forwards and
\* backwards, of the counted size, without a shared node, and with no links left
\* in a node that is in none.
THEOREM ListsStaySound == Spec => []ListsSound
<1>1. Init => ListInv
  BY ListInit
<1>2. ListInv /\ [Next]_vars => ListInv'
  BY ListStep
<1>3. ListInv => ListsSound
  BY SoundNow
<1>4. QED
  BY <1>1, <1>2, <1>3, PTL DEF Spec

-----------------------------------------------------------------------------
(* The operations as operations on sequences                                *)

LEMMA EndInserts ==
  ASSUME NEW S, NEW s \in Seq(S), NEW n \in S
  PROVE  InsertAt(s, 1, n) = <<n>> \o s /\ InsertAt(s, Len(s) + 1, n) = Append(s, n)
<1>1. PICK c \in Nat : c = Len(s)
  BY LenProperties
<1>2. 1 \in 1 .. Len(s) + 1 /\ c + 1 \in 1 .. Len(s) + 1
  BY <1>1
<1>3. ASSUME NEW i \in 1 .. Len(s) + 1, NEW r, r = InsertAt(s, i, n)
      PROVE  /\ r \in Seq(S) /\ Len(r) = c + 1
             /\ \A j \in 1 .. c + 1 : r[j] = IF j < i THEN s[j] ELSE IF j = i THEN n ELSE s[j - 1]
  BY <1>1, <1>3, InsertAtFacts
<1>4. InsertAt(s, 1, n) = <<n>> \o s
  <2>1. PICK r : r = InsertAt(s, 1, n)
    OBVIOUS
  <2>2. /\ r \in Seq(S) /\ Len(r) = c + 1
        /\ \A j \in 1 .. c + 1 : r[j] = IF j < 1 THEN s[j] ELSE IF j = 1 THEN n ELSE s[j - 1]
    BY <1>2, <1>3, <2>1
  <2>3. <<n>> \in Seq(S) /\ Len(<<n>>) = 1 /\ <<n>>[1] = n
    OBVIOUS
  <2>4. PICK u : u = <<n>> \o s
    OBVIOUS
  <2>5. /\ u \in Seq(S) /\ Len(u) = 1 + c
        /\ \A j \in 1 .. 1 + c : u[j] = IF j <= 1 THEN <<n>>[j] ELSE s[j - 1]
    BY <1>1, <2>3, <2>4, ConcatProperties
  <2>6. \A j \in 1 .. c + 1 : r[j] = u[j]
    BY <2>2, <2>3, <2>5, SMTT(20)
  <2>7. r = u
    BY <2>2, <2>5, <2>6, SeqEqual
  <2>8. QED
    BY <2>1, <2>4, <2>7
<1>5. InsertAt(s, Len(s) + 1, n) = Append(s, n)
  <2>1. PICK r, u : r = InsertAt(s, c + 1, n) /\ u = Append(s, n)
    OBVIOUS
  <2>2. /\ r \in Seq(S) /\ Len(r) = c + 1
        /\ \A j \in 1 .. c + 1 : r[j] = IF j < c + 1 THEN s[j] ELSE IF j = c + 1 THEN n ELSE s[j - 1]
    BY <1>2, <1>3, <2>1
  <2>3. /\ u \in Seq(S) /\ Len(u) = c + 1
        /\ \A j \in 1 .. c + 1 : u[j] = IF j = c + 1 THEN n ELSE s[j]
    BY <1>1, <2>1, AppendProperties
  <2>4. \A j \in 1 .. c + 1 : r[j] = u[j]
    BY <2>2, <2>3
  <2>5. r = u
    BY <2>2, <2>3, <2>4, SeqEqual
  <2>6. QED
    BY <1>1, <2>1, <2>5
<1>6. QED
  BY <1>4, <1>5

LEMMA OpsStep ==
  ASSUME ListInv, Next
  PROVE  (\A l \in DLists, n \in held : OnSequence(l, n)) /\ OneListOnly
<1> USE BlockFacts
<1>1. PICK q : Rep(mem, dl, held, q)
  BY DEF ListInv
<1>2. /\ \A l \in DLists : Forward(l) = q[l] /\ Members(l) = Range(q[l])
      /\ Ring = q[HEAD]
  BY <1>1, CurrentReads
<1>3. ASSUME NEW p \in Places, NEW t, To(q, p, t)
      PROVE  /\ \A l \in DLists : Forward(l)' = IF l = p THEN t ELSE q[l]
             /\ Ring' = IF p = HEAD THEN t ELSE q[HEAD]
  <2>1. PICK y : y = [q EXCEPT ![p] = t]
    OBVIOUS
  <2>2. Rep(mem', dl', held', y)
    BY <1>3, <2>1 DEF To
  <2>3. (\A l \in DLists : Forward(l)' = y[l]) /\ Ring' = y[HEAD]
    BY <2>2, NextReads
  <2>4. \A r \in Places : y[r] = IF r = p THEN t ELSE q[r]
    BY <1>1, <2>1 DEF Rep
  <2>5. QED
    BY <2>3, <2>4
<1>4. ASSUME NEW l \in DLists, NEW n \in held
      PROVE  /\ InsertFirst(l, n) /\ ~halted' => Forward(l)' = <<n>> \o q[l]
             /\ InsertLast(l, n) /\ ~halted' => Forward(l)' = Append(q[l], n)
             /\ TakeNode(l, n) => Forward(l)' = RemoveAt(q[l], At(q[l], n))
             /\ \A m \in Range(q[l]) \ {n} :
                  /\ InsertAfter(l, n, m) /\ ~halted' => Forward(l)' = InsertAt(q[l], At(q[l], m) + 1, n)
                  /\ InsertBefore(l, n, m) /\ ~halted' => Forward(l)' = InsertAt(q[l], At(q[l], m), n)
  <2>1. PICK s : s = q[l]
    OBVIOUS
  <2>2. s \in Seq(held) /\ IsInjective(s) /\ End(l) \notin held
    BY <1>1, <2>1, RepFacts
  <2>3. InsertAt(s, 1, n) = <<n>> \o s /\ InsertAt(s, Len(s) + 1, n) = Append(s, n)
    BY <2>2, EndInserts
  <2>4. ASSUME NEW m \in Range(s) PROVE At(s, m) \in 1 .. Len(s) /\ s[At(s, m)] = m
    <3>1. DOMAIN s = 1 .. Len(s) /\ \E i \in DOMAIN s : s[i] = m
      BY <2>2, LenProperties DEF Range
    <3>2. QED
      BY <3>1 DEF At
  <2>5. ASSUME InsertFirst(l, n), ~halted' PROVE Forward(l)' = <<n>> \o s
    <3>1. To(q, l, InsertAt(s, 1, n))
      BY <1>1, <2>1, <2>5, InsertActs
    <3>2. QED
      BY <1>3, <2>3, <3>1
  <2>6. ASSUME InsertLast(l, n), ~halted' PROVE Forward(l)' = Append(s, n)
    <3>1. To(q, l, InsertAt(s, Len(s) + 1, n))
      BY <1>1, <2>1, <2>6, InsertActs
    <3>2. QED
      BY <1>3, <2>3, <3>1
  <2>7. ASSUME TakeNode(l, n) PROVE Forward(l)' = RemoveAt(s, At(s, n))
    <3>1. n \in Range(s)
      BY <1>2, <2>1, <2>7 DEF TakeNode
    <3>2. PICK k \in 1 .. Len(s) : k = At(s, n) /\ s[k] = n
      BY <2>4, <3>1
    <3>3. To(q, l, RemoveAt(s, k))
      BY <1>1, <2>1, <2>7, <3>2, TakeActs
    <3>4. QED
      BY <1>3, <3>2, <3>3
  <2>8. ASSUME NEW m \in Range(s) \ {n}, InsertAfter(l, n, m), ~halted'
        PROVE  Forward(l)' = InsertAt(s, At(s, m) + 1, n)
    <3>1. PICK k \in 1 .. Len(s) : k = At(s, m) /\ s[k] = m
      BY <2>4
    <3>2. To(q, l, InsertAt(s, k + 1, n))
      BY <1>1, <2>1, <2>8, <3>1, InsertActs
    <3>3. QED
      BY <1>3, <3>1, <3>2
  <2>9. ASSUME NEW m \in Range(s) \ {n}, InsertBefore(l, n, m), ~halted'
        PROVE  Forward(l)' = InsertAt(s, At(s, m), n)
    <3>1. PICK k \in 1 .. Len(s) : k = At(s, m) /\ s[k] = m
      BY <2>4
    <3>2. To(q, l, InsertAt(s, k, n))
      BY <1>1, <2>1, <2>9, <3>1, InsertActs
    <3>3. QED
      BY <1>3, <3>1, <3>2
  <2>10. QED
    BY <2>1, <2>5, <2>6, <2>7, <2>8, <2>9
<1>5. PICK p, t : /\ p \in Places /\ To(q, p, t)
                  /\ \A k \in DLists \ {p} : dl'[k] = dl[k]
  BY <1>1, OneListChanges DEF ListInv
<1>6. /\ \A l \in DLists : Forward(l)' = IF l = p THEN t ELSE q[l]
      /\ Ring' = IF p = HEAD THEN t ELSE q[HEAD]
  BY <1>3, <1>5
<1>7. \A l \in DLists, n \in held : OnSequence(l, n)
  BY <1>2, <1>4 DEF OnSequence
<1>8. ASSUME NEW l \in DLists, dl'[l] # dl[l]
      PROVE  Ring' = Ring /\ \A k \in DLists \ {l} : Forward(k)' = Forward(k)
  <2>1. l = p
    BY <1>5, <1>8
  <2>2. QED
    BY <1>2, <1>6, <2>1
<1>9. Ring' # Ring => \A k \in DLists : Forward(k)' = Forward(k)
  BY <1>2, <1>6
<1>10. QED
  BY <1>7, <1>8, <1>9 DEF OneListOnly

\* Whatever the lists hold, an operation of dlist.c does to the nodes of its list
\* what the operation on sequences does that Scheduler models it by, and no
\* operation on one list reaches another.
THEOREM SequenceOps == Spec => OpsAreSequenceOps
<1>1. Init => ListInv
  BY ListInit
<1>2. ListInv /\ [Next]_vars => ListInv'
  BY ListStep
<1>3. ListInv /\ [Next]_vars => [(\A l \in DLists, n \in held : OnSequence(l, n)) /\ OneListOnly]_vars
  BY OpsStep
<1>4. QED
  BY <1>1, <1>2, <1>3, PTL DEF Spec, OpsAreSequenceOps
=============================================================================
