------------------------ MODULE MemoryManager_proofs ------------------------
(***************************************************************************)
(* The safety of the first-fit allocator for memories of every size and    *)
(* requests of every size that does not wrap around, and that it           *)
(* implements the abstract heap.                                           *)
(***************************************************************************)
EXTENDS MemoryManager, ListLemmas, FiniteSetTheorems

-----------------------------------------------------------------------------
(* Addresses                                                                *)

Aligned(a) == a \in Nat /\ a % MM_ALIGN = 0

\* Sums and differences of aligned numbers are aligned.
LEMMA AlignedSum ==
  ASSUME NEW a, NEW b, Aligned(a), Aligned(b)
  PROVE  Aligned(a + b) /\ (b <= a => Aligned(a - b))
  BY DEF Aligned, MM_ALIGN

\* Rounding down and up to a multiple of the alignment.
LEMMA Rounding ==
  ASSUME NEW a \in Nat
  PROVE  /\ Aligned(Down(a)) /\ Down(a) <= a /\ a < Down(a) + 8
         /\ Aligned(Up(a)) /\ a <= Up(a) /\ Up(a) < a + 8
  BY DEF Aligned, Down, Up, MM_ALIGN

\* The bounds of a memory, and that two memories do not meet.
LEMMA Bounds ==
  ASSUME NEW r \in Region
  PROVE  /\ Aligned(node_start(r)) /\ Aligned(node_end(r)) /\ 0 < node_start(r)
         /\ node_start(r) < node_end(r) /\ node_end(r) + 8 <= end_addr[r]
         /\ start_addr[r] <= node_start(r)
         /\ Aligned(min_alloc[r]) /\ min_alloc[r] >= 16
         /\ \A s \in Region \ {r} :
              end_addr[r] <= start_addr[s] \/ end_addr[s] <= start_addr[r]
<1>1. /\ start_addr[r] \in Nat /\ end_addr[r] \in Nat /\ 0 < start_addr[r]
      /\ min_alloc[r] \in Nat
      /\ min_alloc[r] >= 2 * Node /\ min_alloc[r] % MM_ALIGN = 0
      /\ node_start(r) < node_end(r)
      /\ \A s \in Region \ {r} :
           end_addr[r] <= start_addr[s] \/ end_addr[s] <= start_addr[r]
  BY TypeAssumption, MemoryAssumption
<1>2. Aligned(node_start(r)) /\ start_addr[r] <= node_start(r)
  BY <1>1, Rounding DEF node_start
<1>3. Aligned(node_end(r)) /\ node_end(r) + 8 <= end_addr[r]
  <2> DEFINE e == Down(end_addr[r])
  <2>1. Aligned(e) /\ e <= end_addr[r]
    BY <1>1, Rounding
  <2> HIDE DEF e
  <2>2. node_end(r) = e - 8
    BY DEF node_end, e, Node
  <2>3. Aligned(8) /\ 8 <= e
    BY <1>1, <1>2, <2>1, <2>2 DEF Aligned, MM_ALIGN
  <2>4. QED
    BY <1>1, <2>1, <2>2, <2>3, AlignedSum DEF Aligned
<1>4. QED
  BY <1>1, <1>2, <1>3 DEF Aligned, Node

\* The header positions of a memory.
LEMMA HeaderFacts ==
  ASSUME NEW r \in Region
  PROVE  /\ Header(r) = {a \in Nat : Aligned(a) /\ node_start(r) <= a /\ a <= node_end(r)}
         /\ node_start(r) \in Header(r) /\ node_end(r) \in Header(r)
         /\ Header(r) \subseteq Headers /\ IsFiniteSet(Header(r))
         /\ r \notin Headers /\ NULL \notin Headers /\ r # NULL
         /\ ALLOCATED \notin Headers /\ ALLOCATED # NULL /\ ALLOCATED # r
         /\ \A s \in Region \ {r} : Header(r) \cap Header(s) = {}
<1>1. ASSUME NEW s \in Region
      PROVE  Header(s) = {a \in Nat : Aligned(a) /\ node_start(s) <= a /\ a <= node_end(s)}
  BY Bounds DEF Header, Aligned
<1>2. node_start(r) \in Header(r) /\ node_end(r) \in Header(r)
  BY <1>1, Bounds DEF Aligned
<1>3. Header(r) \subseteq Headers /\ Headers \subseteq Nat
  BY <1>1 DEF Headers
<1>4. IsFiniteSet(Header(r))
  <2>1. node_end(r) \in Nat
    BY Bounds DEF Aligned
  <2>2. \A a \in Header(r) : a \in Nat /\ a <= node_end(r)
    BY <1>1
  <2>3. QED
    BY <2>1, <2>2, FS_BoundedSetOfNaturals
<1>5. /\ r \notin Headers /\ NULL \notin Headers /\ r # NULL
      /\ ALLOCATED \notin Headers /\ ALLOCATED # NULL /\ ALLOCATED # r
  BY <1>3, MemoryAssumption
<1>6. ASSUME NEW s \in Region \ {r} PROVE Header(r) \cap Header(s) = {}
  <2>1. ASSUME NEW a \in Header(r), a \in Header(s) PROVE FALSE
    BY <1>1, <2>1, Bounds, TypeAssumption DEF Aligned
  <2>2. QED
    BY <2>1
<1>7. QED
  BY <1>1, <1>2, <1>3, <1>4, <1>5, <1>6

\* Headers are addresses, and neither memories nor marks.
LEMMA HeadersApart ==
  /\ Headers \subseteq Nat /\ Headers \cap Region = {}
  /\ NULL \notin Headers \cup Region /\ ALLOCATED \notin Headers \cup Region
  /\ NULL # ALLOCATED
<1>1. ASSUME NEW s \in Region PROVE Header(s) \subseteq Nat
  BY HeaderFacts
<1>2. Headers \subseteq Nat
  BY <1>1 DEF Headers
<1>3. QED
  BY <1>2, MemoryAssumption

-----------------------------------------------------------------------------
(* Sums over finite sets                                                    *)

\* The element that the fold of the library takes next.
AnyOf(t) == CHOOSE x \in t : TRUE

\* g holds the sums of f over the sets in D, each less one element.
SumsOn(g, f, D) ==
  g = [t \in D |-> IF t = {} THEN 0 ELSE f[AnyOf(t)] + g[t \ {AnyOf(t)}]]

\* g holds the sums of f over the subsets of S.
Sums(g, f, S) == SumsOn(g, f, SUBSET S)

\* The sum of f over S.
SumOver(f, S) == (CHOOSE g : Sums(g, f, S))[S]

LEMMA AnyOfIn == ASSUME NEW t, t # {} PROVE AnyOf(t) \in t
BY DEF AnyOf

\* A family of subsets of a finite set has a member none of which, less one
\* element, is in the family: induction over finite sets.
LEMMA SmallestSet ==
  ASSUME NEW S, IsFiniteSet(S), NEW Bad \in SUBSET SUBSET S, Bad # {}
  PROVE  \E T \in Bad : \A x \in T : T \ {x} \notin Bad
<1> DEFINE N == {Cardinality(T) : T \in Bad}
<1>1. \A T \in Bad : IsFiniteSet(T) /\ Cardinality(T) \in Nat
  BY FS_Subset, FS_CardinalityType
<1>2. N \in SUBSET Nat /\ N # {}
  BY <1>1
<1>3. PICK n \in N : \A m \in N : n <= m
  BY <1>2, LeastNatural
<1>4. PICK T \in Bad : n = Cardinality(T)
  BY <1>3
<1>5. ASSUME NEW x \in T PROVE T \ {x} \notin Bad
  <2>1. Cardinality(T \ {x}) = n - 1 /\ n \in Nat
    BY <1>1, <1>4, FS_RemoveElement
  <2>2. T \ {x} \in Bad => n <= n - 1
    BY <1>3, <2>1
  <2>3. QED
    BY <2>1, <2>2
<1>6. QED
  BY <1>5

\* The sums over all subsets exist.
LEMMA SumsExist ==
  ASSUME NEW f, NEW S, IsFiniteSet(S)
  PROVE  \E g : Sums(g, f, S)
<1> DEFINE D(n) == {t \in SUBSET S : Cardinality(t) <= n}
           Bad == {n \in Nat : ~ \E g : SumsOn(g, f, D(n))}
<1>1. \A t \in SUBSET S : IsFiniteSet(t) /\ Cardinality(t) \in Nat /\ (Cardinality(t) = 0 <=> t = {})
  BY FS_Subset, FS_CardinalityType, FS_EmptySet
<1>2. Bad = {}
  <2>1. SUFFICES ASSUME Bad # {} PROVE FALSE
    OBVIOUS
  <2>2. PICK n \in Bad : \A k \in Bad : n <= k
    BY <2>1, LeastNatural
  <2>3. n \in Nat /\ ~ \E g : SumsOn(g, f, D(n))
    OBVIOUS
  <2> HIDE DEF Bad
  <2>4. CASE n = 0
    <3> DEFINE g == [t \in D(0) |-> 0]
    <3>1. \A t \in D(0) : t = {}
      BY <1>1
    <3>2. SumsOn(g, f, D(0))
      BY <3>1 DEF SumsOn
    <3>3. QED
      BY <2>3, <2>4, <3>2
  <2>5. CASE n # 0
    <3>1. n - 1 \in Nat /\ n - 1 \notin Bad
      BY <2>2, <2>3, <2>5
    <3>2. PICK k \in Nat : k = n - 1
      BY <3>1
    <3>3. PICK g : SumsOn(g, f, D(k))
      BY <3>1, <3>2 DEF Bad
    <3> DEFINE g2 == [t \in D(n) |-> IF t = {} THEN 0 ELSE f[AnyOf(t)] + g[t \ {AnyOf(t)}]]
    <3>4. ASSUME NEW t \in D(k) PROVE t \in D(n) /\ g[t] = g2[t]
      <4>1. t \in D(n)
        BY <1>1, <2>3, <3>2
      <4>2. g[t] = IF t = {} THEN 0 ELSE f[AnyOf(t)] + g[t \ {AnyOf(t)}]
        BY <3>3 DEF SumsOn
      <4>3. QED
        BY <4>1, <4>2
    <3>5. ASSUME NEW t \in D(n), t # {} PROVE t \ {AnyOf(t)} \in D(k)
      <4>1. AnyOf(t) \in t /\ t \in SUBSET S
        BY <3>5, AnyOfIn
      <4>2. Cardinality(t \ {AnyOf(t)}) = Cardinality(t) - 1 /\ Cardinality(t) \in Nat
        BY <1>1, <4>1, FS_RemoveElement
      <4>3. QED
        BY <2>3, <3>2, <4>1, <4>2
    <3>6. SumsOn(g2, f, D(n))
      <4>1. ASSUME NEW t \in D(n), t # {} PROVE g2[t \ {AnyOf(t)}] = g[t \ {AnyOf(t)}]
        BY <3>4, <3>5, <4>1
      <4>2. \A t \in D(n) : g2[t] = IF t = {} THEN 0 ELSE f[AnyOf(t)] + g2[t \ {AnyOf(t)}]
        BY <4>1
      <4>3. QED
        BY <4>2 DEF SumsOn
    <3>7. QED
      BY <2>3, <3>6
  <2>6. QED
    BY <2>4, <2>5
<1>3. PICK n \in Nat : n = Cardinality(S)
  BY FS_CardinalityType
<1>4. D(n) = SUBSET S
  BY <1>3, FS_Subset
<1>5. QED
  BY <1>2, <1>3, <1>4 DEF Sums

\* An element can be taken out of a sum in any order.
SumLaws(g, f, S) ==
  /\ g[{}] = 0 /\ \A T \in SUBSET S : g[T] \in Nat
  /\ \A T \in SUBSET S : \A x \in T : g[T] = f[x] + g[T \ {x}]

\* What the sums over subsets are.
LEMMA SumsStep ==
  ASSUME NEW f, NEW S, IsFiniteSet(S), \A a \in S : f[a] \in Nat,
         NEW g, Sums(g, f, S)
  PROVE  SumLaws(g, f, S)
<1>1. \A T \in SUBSET S : g[T] = IF T = {} THEN 0 ELSE f[AnyOf(T)] + g[T \ {AnyOf(T)}]
  BY DEF Sums, SumsOn
<1>2. g[{}] = 0
  BY <1>1
<1>3. \A T \in SUBSET S : g[T] \in Nat
  <2> DEFINE Bad == {T \in SUBSET S : g[T] \notin Nat}
  <2>1. SUFFICES ASSUME Bad # {} PROVE FALSE
    OBVIOUS
  <2>2. PICK T \in Bad : \A x \in T : T \ {x} \notin Bad
    BY <2>1, SmallestSet
  <2>3. T # {} /\ T \in SUBSET S
    BY <1>2, <2>2
  <2>4. AnyOf(T) \in T
    BY <2>3, AnyOfIn
  <2>5. g[T \ {AnyOf(T)}] \in Nat /\ f[AnyOf(T)] \in Nat
    BY <2>2, <2>3, <2>4
  <2>6. QED
    BY <1>1, <2>2, <2>3, <2>5
<1>4. \A T \in SUBSET S : \A x \in T : g[T] = f[x] + g[T \ {x}]
  <2> DEFINE Bad == {T \in SUBSET S : ~ \A x \in T : g[T] = f[x] + g[T \ {x}]}
  <2>1. SUFFICES ASSUME Bad # {} PROVE FALSE
    OBVIOUS
  <2>2. PICK T \in Bad : \A x \in T : T \ {x} \notin Bad
    BY <2>1, SmallestSet
  <2>3. PICK x \in T : g[T] # f[x] + g[T \ {x}]
    OBVIOUS
  <2>4. PICK y : y = AnyOf(T)
    OBVIOUS
  <2>5. T \in SUBSET S /\ y \in T /\ g[T] = f[y] + g[T \ {y}]
    BY <1>1, <2>2, <2>3, <2>4, AnyOfIn
  <2>6. x # y /\ x \in T \ {y} /\ y \in T \ {x}
    BY <2>3, <2>5
  <2>7. g[T \ {y}] = f[x] + g[(T \ {y}) \ {x}]
    BY <2>2, <2>5, <2>6
  <2>8. g[T \ {x}] = f[y] + g[(T \ {x}) \ {y}]
    BY <2>2, <2>3, <2>5, <2>6
  <2>9. (T \ {y}) \ {x} = (T \ {x}) \ {y} /\ (T \ {x}) \ {y} \in SUBSET S
    BY <2>5
  <2>10. PICK R : R = (T \ {x}) \ {y}
    OBVIOUS
  <2>11. g[R] \in Nat /\ f[x] \in Nat /\ f[y] \in Nat
    BY <1>3, <2>3, <2>5, <2>9, <2>10
  <2>12. g[T] = f[y] + (f[x] + g[R]) /\ g[T \ {x}] = f[y] + g[R]
    BY <2>5, <2>7, <2>8, <2>9, <2>10
  <2>13. QED
    BY <2>3, <2>11, <2>12
<1>5. QED
  BY <1>2, <1>3, <1>4 DEF SumLaws

\* Sums of functions that agree are equal.
LEMMA SumsAgree ==
  ASSUME NEW f, NEW f2, NEW S, NEW S2, IsFiniteSet(S), IsFiniteSet(S2),
         NEW g, Sums(g, f, S), NEW g2, Sums(g2, f2, S2),
         NEW U, U \subseteq S, U \subseteq S2, \A a \in U : f[a] = f2[a]
  PROVE  g[U] = g2[U]
<1>1. \A T \in SUBSET S : g[T] = IF T = {} THEN 0 ELSE f[AnyOf(T)] + g[T \ {AnyOf(T)}]
  BY DEF Sums, SumsOn
<1>2. \A T \in SUBSET S2 : g2[T] = IF T = {} THEN 0 ELSE f2[AnyOf(T)] + g2[T \ {AnyOf(T)}]
  BY DEF Sums, SumsOn
<1> DEFINE Bad == {T \in SUBSET U : g[T] # g2[T]}
<1>3. SUFFICES ASSUME Bad # {} PROVE FALSE
  OBVIOUS
<1>4. IsFiniteSet(U)
  BY FS_Subset
<1>5. PICK T \in Bad : \A x \in T : T \ {x} \notin Bad
  BY <1>3, <1>4, SmallestSet
<1>6. T # {} /\ T \in SUBSET S /\ T \in SUBSET S2 /\ T \in SUBSET U
  BY <1>1, <1>2, <1>5
<1>7. AnyOf(T) \in T
  BY <1>6, AnyOfIn
<1>8. g[T \ {AnyOf(T)}] = g2[T \ {AnyOf(T)}] /\ f[AnyOf(T)] = f2[AnyOf(T)]
  BY <1>5, <1>6, <1>7
<1>9. QED
  BY <1>1, <1>2, <1>5, <1>6, <1>8

\* The sum over a finite set, element by element.
LEMMA SumFacts ==
  ASSUME NEW f, NEW S, IsFiniteSet(S), \A a \in S : f[a] \in Nat
  PROVE  /\ SumOver(f, S) \in Nat /\ SumOver(f, {}) = 0
         /\ \A x \in S : SumOver(f, S) = f[x] + SumOver(f, S \ {x})
<1>1. ASSUME NEW T \in SUBSET S
      PROVE  \E g : Sums(g, f, T) /\ SumOver(f, T) = g[T] /\ IsFiniteSet(T)
  <2>1. IsFiniteSet(T)
    BY FS_Subset
  <2>2. Sums(CHOOSE g : Sums(g, f, T), f, T)
    BY <2>1, SumsExist
  <2>3. QED
    BY <2>1, <2>2 DEF SumOver
<1>2. PICK g : Sums(g, f, S) /\ SumOver(f, S) = g[S]
  BY <1>1
<1>3. SumLaws(g, f, S)
  BY <1>2, SumsStep
<1>4. ASSUME NEW T \in SUBSET S PROVE SumOver(f, T) = g[T]
  <2>1. PICK g2 : Sums(g2, f, T) /\ SumOver(f, T) = g2[T] /\ IsFiniteSet(T)
    BY <1>1
  <2>2. g2[T] = g[T]
    BY <1>2, <2>1, SumsAgree
  <2>3. QED
    BY <2>1, <2>2
<1>5. QED
  BY <1>3, <1>4, ZenonT(40) DEF SumLaws

\* The sum depends on the values in the set only.
LEMMA SumSame ==
  ASSUME NEW f, NEW f2, NEW S, IsFiniteSet(S), \A a \in S : f[a] = f2[a]
  PROVE  SumOver(f, S) = SumOver(f2, S)
<1>1. PICK g : Sums(g, f, S) /\ SumOver(f, S) = g[S]
  BY SumsExist DEF SumOver
<1>2. PICK g2 : Sums(g2, f2, S) /\ SumOver(f2, S) = g2[S]
  BY SumsExist DEF SumOver
<1>3. QED
  BY <1>1, <1>2, SumsAgree

-----------------------------------------------------------------------------
(* Walking along the list                                                   *)

\* f is the first n steps of the walk.
IsWalk(f, h, r, n) ==
  f = [i \in 0 .. n |-> IF i = 0 THEN r
                        ELSE IF f[i - 1] = NULL THEN NULL ELSE h.next[f[i - 1]]]

\* A walk of every length exists.
LEMMA WalkExists ==
  ASSUME NEW h, NEW r, NEW n \in Nat
  PROVE  \E f : IsWalk(f, h, r, n)
<1> DEFINE Bad == {m \in Nat : ~ \E f : IsWalk(f, h, r, m)}
<1>1. SUFFICES ASSUME Bad # {} PROVE FALSE
  OBVIOUS
<1>2. PICK m \in Bad : \A k \in Bad : m <= k
  BY <1>1, LeastNatural
<1>3. m \in Nat /\ ~ \E f : IsWalk(f, h, r, m)
  OBVIOUS
<1>4. CASE m = 0
  <2> DEFINE f == [i \in 0 .. 0 |-> r]
  <2>1. IsWalk(f, h, r, 0)
    BY DEF IsWalk
  <2>2. QED
    BY <1>3, <1>4, <2>1
<1>5. CASE m # 0
  <2>1. m - 1 \in Nat /\ m - 1 \notin Bad
    BY <1>2, <1>3, <1>5
  <2>2. PICK g : IsWalk(g, h, r, m - 1)
    BY <2>1
  <2> DEFINE z == IF g[m - 1] = NULL THEN NULL ELSE h.next[g[m - 1]]
             f == [i \in 0 .. m |-> IF i = m THEN z ELSE g[i]]
  <2> HIDE DEF z
  <2>3. \A i \in 0 .. m - 1 :
          g[i] = IF i = 0 THEN r
                 ELSE IF g[i - 1] = NULL THEN NULL ELSE h.next[g[i - 1]]
    BY <2>2 DEF IsWalk
  <2>4. \A i \in 0 .. m :
          f[i] = IF i = 0 THEN r
                 ELSE IF f[i - 1] = NULL THEN NULL ELSE h.next[f[i - 1]]
    <3>1. ASSUME NEW i \in 0 .. m, i = m
          PROVE  f[i] = IF i = 0 THEN r
                        ELSE IF f[i - 1] = NULL THEN NULL ELSE h.next[f[i - 1]]
      <4>1. f[i] = z /\ f[i - 1] = g[m - 1] /\ i # 0
        BY <1>3, <1>5, <2>1, <3>1
      <4>2. QED
        BY <3>1, <4>1 DEF z
    <3>2. ASSUME NEW i \in 0 .. m, i # m
          PROVE  f[i] = IF i = 0 THEN r
                        ELSE IF f[i - 1] = NULL THEN NULL ELSE h.next[f[i - 1]]
      <4>1. i \in 0 .. m - 1 /\ f[i] = g[i] /\ (i # 0 => f[i - 1] = g[i - 1])
        BY <1>3, <1>5, <3>2
      <4>2. QED
        BY <2>3, <4>1
    <3>3. QED
      BY <3>1, <3>2
  <2>5. IsWalk(f, h, r, m)
    BY <2>4 DEF IsWalk
  <2>6. QED
    BY <1>3, <2>5
<1>6. QED
  BY <1>4, <1>5

\* What Walk computes, step by step.
LEMMA WalkSteps ==
  ASSUME NEW h, NEW r, Cardinality(Headers) \in Nat
  PROVE  IsWalk(Walk(h, r), h, r, Cardinality(Headers))
<1> DEFINE n == Cardinality(Headers)
<1>1. \E f : IsWalk(f, h, r, n)
  BY WalkExists
<1>2. Walk(h, r) = CHOOSE f : IsWalk(f, h, r, n)
  BY DEF Walk, IsWalk
<1> HIDE DEF n
<1>3. QED
  BY <1>1, <1>2 DEF n

\* There are finitely many headers.
LEMMA HeadersFinite == IsFiniteSet(Headers) /\ Cardinality(Headers) \in Nat
<1>1. \A r \in Region : IsFiniteSet(Header(r))
  BY HeaderFacts
<1>2. IsFiniteSet({Header(r) : r \in Region})
  <2> DEFINE T == {Header(r) : r \in Region}
             f == [r \in Region |-> Header(r)]
  <2>1. f \in Surjection(Region, T)
    BY DEF Surjection
  <2>2. QED
    BY <2>1, TypeAssumption, FS_Surjection
<1>3. IsFiniteSet(Headers)
  BY <1>1, <1>2, FS_UNION DEF Headers
<1>4. QED
  BY <1>3, FS_CardinalityType

-----------------------------------------------------------------------------
(* The free list as a set of addresses                                      *)

\* b is the first of the addresses in F past a.
Follows(F, a, b) == b \in F /\ a < b /\ \A x \in F : a < x => b <= x

\* The next pointers from the root object of r run through F in the order of
\* addresses and end at the last node.
Sorted(h, r, F) ==
  /\ F \subseteq Header(r) /\ node_end(r) \in F
  /\ h.next[r] \in F /\ \A x \in F : h.next[r] <= x
  /\ h.next[node_end(r)] = NULL
  /\ \A a \in F \ {node_end(r)} : Follows(F, a, h.next[a])

\* Up to the last node, the walk climbs through F.
LEMMA WalkClimbs ==
  ASSUME NEW h, NEW r \in Region, NEW F, Sorted(h, r, F),
         NEW k \in 1 .. Cardinality(Headers), NEW at, at = Walk(h, r),
         \A i \in 1 .. k - 1 : at[i] # node_end(r)
  PROVE  /\ \A i \in 1 .. k : at[i] \in F
         /\ \A i, j \in 1 .. k : i < j => at[i] < at[j]
         /\ at[0] = r /\ \A i \in 1 .. k : at[i] = h.next[at[i - 1]]
<1> DEFINE n == Cardinality(Headers)
<1>0. n \in Nat /\ k \in 1 .. n
  BY HeadersFinite
<1>1. /\ \A i \in 0 .. n : at[i] = IF i = 0 THEN r
                                   ELSE IF at[i - 1] = NULL THEN NULL
                                   ELSE h.next[at[i - 1]]
  BY HeadersFinite, WalkSteps DEF IsWalk
<1> HIDE DEF n
<1>2. r # NULL /\ NULL \notin F /\ F \subseteq Nat
  BY HeaderFacts DEF Sorted
<1>3. at[0] = r /\ at[1] = h.next[r]
  BY <1>0, <1>1, <1>2
<1>4. \A i \in 1 .. k : at[i] \in F
  <2> DEFINE Bad == {i \in 1 .. k : at[i] \notin F}
  <2>1. SUFFICES ASSUME Bad # {} PROVE FALSE
    OBVIOUS
  <2>2. PICK b \in Bad : \A i \in Bad : b <= i
    <3>1. Bad \in SUBSET Nat
      BY <1>0
    <3>2. QED
      BY <2>1, <3>1, LeastNatural
  <2>3. b # 1
    BY <1>3, <2>2 DEF Sorted
  <2>4. b - 1 \in 1 .. k - 1 /\ b - 1 \in 1 .. k /\ b - 1 \notin Bad /\ b \in 0 .. n /\ b # 0
    BY <1>0, <2>2, <2>3
  <2>5. at[b - 1] \in F \ {node_end(r)} /\ at[b - 1] # NULL
    BY <1>2, <2>4
  <2>6. at[b] = h.next[at[b - 1]]
    BY <1>1, <2>4, <2>5
  <2>7. QED
    BY <2>2, <2>5, <2>6 DEF Sorted, Follows
<1>5. \A i \in 1 .. k : at[i] = h.next[at[i - 1]]
  <2>1. ASSUME NEW i \in 1 .. k, i # 1 PROVE at[i] = h.next[at[i - 1]]
    <3>1. i - 1 \in 1 .. k /\ i \in 0 .. n /\ i # 0
      BY <1>0, <2>1
    <3>2. QED
      BY <1>1, <1>2, <1>4, <3>1
  <2>2. QED
    BY <1>3, <2>1
<1>6. \A i \in 1 .. k - 1 : at[i] < at[i + 1] /\ at[i] \in Nat /\ at[i + 1] \in Nat
  <2>1. ASSUME NEW i \in 1 .. k - 1
        PROVE  at[i] < at[i + 1] /\ at[i] \in Nat /\ at[i + 1] \in Nat
    <3>1. i \in 1 .. k /\ i + 1 \in 1 .. k /\ (i + 1) - 1 = i
      BY <1>0
    <3>2. at[i] \in F \ {node_end(r)} /\ at[i + 1] = h.next[at[i]]
      BY <1>4, <1>5, <3>1
    <3>3. QED
      BY <1>2, <3>2 DEF Sorted, Follows
  <2>2. QED
    BY <2>1
<1>7. ASSUME NEW i \in 1 .. k
      PROVE  \A j \in 1 .. k : i < j => at[i] < at[j]
  <2> DEFINE Bad == {j \in 1 .. k : i < j /\ ~(at[i] < at[j])}
  <2>1. SUFFICES ASSUME Bad # {} PROVE FALSE
    OBVIOUS
  <2>2. PICK b \in Bad : \A j \in Bad : b <= j
    <3>1. Bad \in SUBSET Nat
      BY <1>0
    <3>2. QED
      BY <2>1, <3>1, LeastNatural
  <2>3. b - 1 \in 1 .. k - 1 /\ b - 1 \in 1 .. k /\ b - 1 \notin Bad /\ (b - 1) + 1 = b
    BY <1>0, <1>7, <2>2
  <2>4. at[b - 1] < at[b] /\ at[b - 1] \in Nat /\ at[b] \in Nat /\ at[i] \in Nat
    BY <1>2, <1>4, <1>6, <2>3
  <2>5. CASE i = b - 1
    BY <2>2, <2>4, <2>5
  <2>6. CASE i # b - 1
    <3>1. i < b - 1
      BY <1>0, <1>7, <2>2, <2>6
    <3>2. at[i] < at[b - 1]
      BY <2>3, <3>1
    <3>3. QED
      BY <2>2, <2>4, <3>2
  <2>7. QED
    BY <2>5, <2>6
<1>8. QED
  BY <1>3, <1>4, <1>5, <1>7

\* The walk reaches the last node: it cannot climb past all headers.
LEMMA WalkEnds ==
  ASSUME NEW h, NEW r \in Region, NEW F, Sorted(h, r, F), NEW at, at = Walk(h, r)
  PROVE  \E m \in 1 .. Cardinality(Headers) :
           at[m] = node_end(r) /\ \A i \in 1 .. m - 1 : at[i] # node_end(r)
<1> DEFINE n == Cardinality(Headers)
           E == {i \in 1 .. n : at[i] = node_end(r)}
<1>0. n \in Nat /\ IsFiniteSet(Headers) /\ node_end(r) \in Headers /\ F \subseteq Headers
  BY HeadersFinite, HeaderFacts DEF Sorted
<1>1. n # 0
  BY <1>0, FS_EmptySet
<1>2. E # {}
  <2>1. SUFFICES ASSUME E = {} PROVE FALSE
    OBVIOUS
  <2>2. /\ \A i \in 1 .. n : at[i] \in F
        /\ \A i, j \in 1 .. n : i < j => at[i] < at[j]
    <3>1. n \in 1 .. n /\ \A i \in 1 .. n - 1 : at[i] # node_end(r)
      BY <1>0, <1>1, <2>1
    <3>2. QED
      BY <3>1, WalkClimbs
  <2> DEFINE T == Headers \ {node_end(r)}
             f == [i \in 1 .. n |-> at[i]]
  <2>3. \A i \in 1 .. n : at[i] \in T
    BY <1>0, <2>1, <2>2
  <2>4. \A i, j \in 1 .. n : i # j => at[i] # at[j]
    <3>1. \A i \in 1 .. n : at[i] \in Nat
      BY <2>2, HeaderFacts DEF Sorted
    <3>2. QED
      BY <1>0, <2>2, <3>1
  <2>5. f \in Injection(1 .. n, T)
    BY <2>3, <2>4 DEF Injection, IsInjective
  <2>6. IsFiniteSet(T) /\ Cardinality(T) = n - 1
    BY <1>0, FS_RemoveElement
  <2>7. Cardinality(1 .. n) = n
    BY <1>0, <1>1, FS_Interval
  <2>8. Cardinality(1 .. n) <= Cardinality(T)
    BY <2>5, <2>6, FS_Injection
  <2>9. QED
    BY <1>0, <2>6, <2>7, <2>8
<1>3. PICK m \in E : \A i \in E : m <= i
  <2>1. E \in SUBSET Nat
    BY <1>0
  <2>2. QED
    BY <1>2, <2>1, LeastNatural
<1>4. \A i \in 1 .. m - 1 : i \in 1 .. n /\ ~(m <= i)
  BY <1>0, <1>3
<1>5. QED
  BY <1>3, <1>4

\* c is the root object of r and the members of F in order.
Lists(c, h, r, F) ==
  /\ Len(c) \in Nat /\ 2 <= Len(c)
  /\ c[1] = r /\ c[Len(c)] = node_end(r)
  /\ \A i \in 1 .. Len(c) - 1 : c[i + 1] = h.next[c[i]]
  /\ \A i \in 2 .. Len(c) : c[i] \in F
  /\ \A i, j \in 2 .. Len(c) : i < j => c[i] < c[j]
  /\ \A a \in F : \E i \in 2 .. Len(c) : c[i] = a

\* The chain of a sorted list is the list.
LEMMA ChainFacts ==
  ASSUME NEW h, NEW r \in Region, NEW F, Sorted(h, r, F)
  PROVE  Lists(Chain(h, r), h, r, F)
<1>0. PICK at : at = Walk(h, r)
  OBVIOUS
<1>1. PICK n \in Nat : n = Cardinality(Headers)
  BY HeadersFinite
<1>2. PICK m \in 1 .. n :
        at[m] = node_end(r) /\ \A i \in 1 .. m - 1 : at[i] # node_end(r)
  BY <1>0, <1>1, WalkEnds
<1>3. /\ \A i \in 1 .. m : at[i] \in F
      /\ \A i, j \in 1 .. m : i < j => at[i] < at[j]
      /\ at[0] = r /\ \A i \in 1 .. m : at[i] = h.next[at[i - 1]]
  BY <1>0, <1>1, <1>2, WalkClimbs
<1>4. \A i \in 0 .. n : at[i] = IF i = 0 THEN r
                                ELSE IF at[i - 1] = NULL THEN NULL
                                ELSE h.next[at[i - 1]]
  BY <1>0, <1>1, HeadersFinite, WalkSteps DEF IsWalk
<1>5. r # NULL /\ NULL \notin F /\ F \subseteq Nat /\ F \subseteq Header(r)
      /\ \A a \in F : a <= node_end(r)
  BY HeaderFacts DEF Sorted
<1>6. \A i \in m + 1 .. n : at[i] = NULL
  <2> DEFINE Bad == {i \in m + 1 .. n : at[i] # NULL}
  <2>1. SUFFICES ASSUME Bad # {} PROVE FALSE
    OBVIOUS
  <2>2. PICK b \in Bad : \A i \in Bad : b <= i
    <3>1. Bad \in SUBSET Nat
      BY <1>1, <1>2
    <3>2. QED
      BY <2>1, <3>1, LeastNatural
  <2>3. b \in 0 .. n /\ b # 0 /\ b - 1 \notin Bad
    BY <1>1, <1>2, <2>2
  <2>4. CASE b - 1 = m
    <3>1. at[b - 1] = node_end(r) /\ node_end(r) # NULL /\ h.next[node_end(r)] = NULL
      BY <1>2, <1>5, <2>4 DEF Sorted
    <3>2. QED
      BY <1>4, <2>2, <2>3, <3>1
  <2>5. CASE b - 1 # m
    <3>1. b - 1 \in m + 1 .. n
      BY <1>1, <1>2, <2>2, <2>5
    <3>2. at[b - 1] = NULL
      BY <2>3, <3>1
    <3>3. QED
      BY <1>4, <2>2, <2>3, <3>2
  <2>6. QED
    BY <2>4, <2>5
<1>7. {i \in 0 .. n : at[i] # NULL} = 0 .. m
  <2>1. ASSUME NEW i \in 0 .. n PROVE at[i] # NULL <=> i \in 0 .. m
    <3>1. CASE i = 0
      BY <1>2, <1>3, <1>5, <3>1
    <3>2. CASE i \in 1 .. m
      BY <1>2, <1>3, <1>5, <3>2
    <3>3. CASE i \in m + 1 .. n
      BY <1>2, <1>6, <3>3
    <3>4. QED
      BY <1>1, <1>2, <3>1, <3>2, <3>3
  <2>2. 0 .. m \subseteq 0 .. n
    BY <1>1, <1>2
  <2>3. QED
    BY <2>1, <2>2
<1>8. Cardinality(0 .. m) = m + 1
  BY <1>1, <1>2, FS_Interval
<1>9. PICK c : c = Chain(h, r)
  OBVIOUS
<1>10. c = [i \in 1 .. m + 1 |-> at[i - 1]]
  BY <1>0, <1>1, <1>7, <1>8, <1>9 DEF Chain
<1>11. Len(c) = m + 1 /\ m \in Nat /\ 1 <= m
  BY <1>1, <1>2, <1>10
<1>12. \A i \in 1 .. m + 1 : c[i] = at[i - 1]
  BY <1>10
<1>13. c[1] = r /\ c[m + 1] = node_end(r)
  BY <1>2, <1>3, <1>11, <1>12
<1>14. ASSUME NEW i \in 1 .. m PROVE c[i + 1] = h.next[c[i]]
  <2>1. i \in 1 .. m + 1 /\ i + 1 \in 1 .. m + 1 /\ (i + 1) - 1 = i
    BY <1>11
  <2>2. c[i + 1] = at[i] /\ c[i] = at[i - 1]
    BY <1>12, <2>1
  <2>3. QED
    BY <1>3, <2>2
<1>15. ASSUME NEW i \in 2 .. m + 1 PROVE c[i] \in F
  <2>1. i \in 1 .. m + 1 /\ i - 1 \in 1 .. m
    BY <1>11
  <2>2. QED
    BY <1>3, <1>12, <2>1
<1>16. ASSUME NEW i \in 2 .. m + 1, NEW j \in 2 .. m + 1, i < j PROVE c[i] < c[j]
  <2>1. /\ i \in 1 .. m + 1 /\ i - 1 \in 1 .. m /\ j \in 1 .. m + 1
        /\ j - 1 \in 1 .. m /\ i - 1 < j - 1
    BY <1>11, <1>16
  <2>2. QED
    BY <1>3, <1>12, <2>1
<1>17. ASSUME NEW a \in F PROVE \E i \in 2 .. m + 1 : c[i] = a
  <2>1. SUFFICES ASSUME \A i \in 1 .. m : at[i] # a PROVE FALSE
    <3>1. ASSUME NEW i \in 1 .. m, at[i] = a PROVE \E j \in 2 .. m + 1 : c[j] = a
      <4>1. i + 1 \in 2 .. m + 1 /\ i + 1 \in 1 .. m + 1 /\ (i + 1) - 1 = i
        BY <1>11
      <4>2. c[i + 1] = a
        BY <1>12, <3>1, <4>1
      <4>3. QED
        BY <4>1, <4>2
    <3>2. (\E i \in 1 .. m : at[i] = a) => \E j \in 2 .. m + 1 : c[j] = a
      BY <3>1, Zenon
    <3>3. QED
      BY <3>2, Zenon
  <2> DEFINE Past == {i \in 1 .. m : a < at[i]}
  <2>2. Past # {}
    <3>1. m \in 1 .. m /\ at[m] = node_end(r)
      BY <1>2, <1>11
    <3>2. a <= at[m] /\ a # at[m] /\ a \in Nat /\ at[m] \in Nat
      BY <1>3, <1>5, <2>1, <3>1
    <3>3. a < at[m]
      BY <3>2
    <3>4. QED
      BY <3>1, <3>3
  <2>3. PICK b \in Past : \A i \in Past : b <= i
    <3>1. Past \in SUBSET Nat
      BY <1>11
    <3>2. QED
      BY <2>2, <3>1, LeastNatural
  <2>4. b # 1
    <3>1. 1 \in 1 .. m /\ 1 - 1 = 0
      BY <1>11
    <3>2. at[1] = h.next[r]
      BY <1>3, <3>1
    <3>3. at[1] <= a /\ at[1] \in Nat /\ a \in Nat
      BY <1>5, <3>2 DEF Sorted
    <3>4. QED
      BY <2>3, <3>3
  <2>5. b - 1 \in 1 .. m /\ b - 1 \in 1 .. m - 1 /\ b - 1 \notin Past
    BY <1>11, <2>3, <2>4
  <2>6. at[b - 1] \in F \ {node_end(r)} /\ at[b - 1] < a /\ at[b] \in Nat /\ a \in Nat
    <3>1. at[b - 1] \in F \ {node_end(r)} /\ at[b] \in F
      BY <1>2, <1>3, <2>3, <2>5
    <3>2. at[b - 1] \in Nat /\ at[b] \in Nat /\ a \in Nat
      BY <1>5, <3>1
    <3>3. at[b - 1] # a /\ ~(a < at[b - 1])
      BY <2>1, <2>5
    <3>4. QED
      BY <3>1, <3>2, <3>3
  <2>7. at[b] = h.next[at[b - 1]]
    BY <1>3, <2>3
  <2>8. at[b] <= a
    BY <2>6, <2>7 DEF Sorted, Follows
  <2>9. QED
    BY <2>3, <2>6, <2>8
<1>18. \A i \in 1 .. (m + 1) - 1 : c[i + 1] = h.next[c[i]]
  BY <1>11, <1>14
<1>19. Lists(c, h, r, F)
  BY <1>11, <1>13, <1>15, <1>16, <1>17, <1>18 DEF Lists
<1>20. QED
  BY <1>9, <1>19

\* Where mm_list_insert puts a block: between the last node below it, or the
\* root object, and the first node that is not.
Spot(h, r, F, node, iter, succ) ==
  /\ iter = r \/ (iter \in F \ {node_end(r)} /\ iter < node)
  /\ succ \in F /\ succ = h.next[iter] /\ node <= succ
  /\ \A x \in F : x < node => iter # r /\ x <= iter
  /\ \A x \in F : node <= x => succ <= x

\* The loop of mm_list_insert finds that spot.
LEMMA SpotFound ==
  ASSUME NEW h, NEW r \in Region, NEW F, Sorted(h, r, F), NEW node \in Header(r)
  PROVE  \E iter, succ : /\ Spot(h, r, F, node, iter, succ)
                         /\ mm_list_insert(h, node, r) = link_block(h, node, r, iter, succ)
<1>0. PICK c : c = Chain(h, r)
  OBVIOUS
<1>1. PICK n \in Nat : n = Len(c)
  BY <1>0, ChainFacts DEF Lists
<1>2. Lists(c, h, r, F) /\ n = Len(c)
  BY <1>0, <1>1, ChainFacts
<1>3. F \subseteq Nat /\ node \in Nat /\ node <= node_end(r) /\ node_end(r) \in Nat /\ r \notin F
  BY HeaderFacts DEF Sorted
<1>a. 2 <= n /\ c[1] = r /\ c[n] = node_end(r) /\ n \in 2 .. n
  BY <1>2 DEF Lists
<1>b. \A i \in 1 .. n - 1 : c[i + 1] = h.next[c[i]]
  BY <1>2 DEF Lists
<1>c. \A i \in 2 .. n : c[i] \in F
  BY <1>2 DEF Lists
<1>d. \A i \in 2 .. n : c[i] \in Nat
  BY <1>c, <1>3
<1>e. \A i, j \in 2 .. n : i < j => c[i] < c[j]
  BY <1>2 DEF Lists
<1>f. \A a \in F : \E i \in 2 .. n : c[i] = a
  BY <1>2 DEF Lists
<1>g. ASSUME NEW i \in 2 .. n, NEW j \in 2 .. n, i <= j PROVE c[i] <= c[j]
  <2>1. CASE i = j
    <3>1. c[i] \in Nat
      BY <1>d
    <3>2. QED
      BY <2>1, <3>1
  <2>2. CASE i # j
    <3>1. i < j
      BY <1>1, <1>g, <2>2
    <3>2. c[i] < c[j] /\ c[i] \in Nat /\ c[j] \in Nat
      BY <1>d, <1>e, <3>1
    <3>3. QED
      BY <3>2
  <2>3. QED
    BY <2>1, <2>2
<1> DEFINE Here(j) == c[j + 1] >= node /\ \A k \in 2 .. j : c[k] < node
<1>4. \E j \in 1 .. n - 1 : Here(j)
  <2> DEFINE S == {i \in 2 .. n : node <= c[i]}
  <2>1. n \in S
    <3>1. node <= c[n]
      BY <1>a, <1>3
    <3>2. QED
      BY <3>1, <1>a
  <2>2. PICK m \in S : \A i \in S : m <= i
    <3>1. S \in SUBSET Nat
      BY <1>1
    <3>2. QED
      BY <2>1, <3>1, LeastNatural
  <2>3. m - 1 \in 1 .. n - 1 /\ (m - 1) + 1 = m
    BY <1>1, <2>2
  <2>4. c[m] \in Nat /\ c[m] >= node
    <3>1. m \in 2 .. n /\ node <= c[m]
      BY <2>2
    <3>2. c[m] \in Nat
      BY <3>1, <1>d
    <3>3. QED
      BY <3>1, <3>2, <1>3
  <2>5. ASSUME NEW k \in 2 .. m - 1 PROVE c[k] < node
    <3>1. k \in 2 .. n /\ k \notin S
      BY <1>1, <2>2
    <3>2. c[k] \in Nat /\ ~(node <= c[k])
      BY <1>d, <3>1
    <3>3. QED
      BY <1>3, <3>2
  <2>6. QED
    BY <2>3, <2>4, <2>5
<1>5. PICK i : i = CHOOSE j \in 1 .. n - 1 : Here(j)
  OBVIOUS
<1>6. i \in 1 .. n - 1 /\ Here(i)
  BY <1>4, <1>5, Zenon
<1>7. mm_list_insert(h, node, r) = link_block(h, node, r, c[i], c[i + 1])
  BY <1>0, <1>1, <1>5 DEF mm_list_insert
<1>8. /\ i + 1 \in 2 .. n /\ c[i + 1] \in F /\ c[i + 1] = h.next[c[i]] /\ node <= c[i + 1]
  <2>1. i + 1 \in 2 .. n
    BY <1>1, <1>6
  <2>2. c[i + 1] \in F /\ c[i + 1] \in Nat /\ c[i + 1] = h.next[c[i]]
    BY <1>b, <1>c, <1>d, <1>6, <2>1
  <2>3. QED
    BY <1>3, <1>6, <2>1, <2>2
<1>9. c[i] = r \/ (c[i] \in F \ {node_end(r)} /\ c[i] < node)
  <2>1. CASE i = 1
    BY <1>a, <2>1
  <2>2. CASE i # 1
    <3>1. i \in 2 .. n /\ i \in 2 .. i /\ i < n
      BY <1>1, <1>6, <2>2
    <3>2. c[i] < node /\ c[i] \in F /\ c[i] < c[n] /\ c[i] \in Nat
      BY <1>a, <1>c, <1>d, <1>e, <1>6, <3>1
    <3>3. QED
      BY <1>a, <1>3, <3>2
  <2>3. QED
    BY <2>1, <2>2
<1>10. ASSUME NEW x \in F, x < node PROVE c[i] # r /\ x <= c[i]
  <2>1. PICK k \in 2 .. n : c[k] = x
    BY <1>f
  <2>2. ~(i + 1 <= k)
    <3>1. ASSUME i + 1 <= k PROVE FALSE
      <4>1. c[i + 1] <= x
        BY <1>g, <1>8, <2>1, <3>1
      <4>2. c[i + 1] \in Nat /\ x \in Nat
        BY <1>3, <1>8
      <4>3. QED
        BY <1>3, <1>8, <1>10, <4>1, <4>2
    <3>2. QED
      BY <3>1
  <2>3. k <= i /\ i \in 2 .. n
    BY <1>1, <1>6, <2>1, <2>2
  <2>4. x <= c[i] /\ c[i] \in F
    BY <1>c, <1>g, <2>1, <2>3
  <2>5. QED
    BY <1>3, <2>4
<1>11. ASSUME NEW x \in F, node <= x PROVE c[i + 1] <= x
  <2>1. PICK k \in 2 .. n : c[k] = x
    BY <1>f
  <2>2. i + 1 <= k
    <3>1. ASSUME k \in 2 .. i PROVE FALSE
      <4>1. c[k] < node /\ c[k] \in Nat
        BY <1>d, <1>6, <3>1
      <4>2. QED
        BY <1>3, <1>11, <2>1, <4>1
    <3>2. QED
      BY <1>1, <1>6, <2>1, <3>1
  <2>3. QED
    BY <1>g, <1>8, <2>1, <2>2
<1>12. Spot(h, r, F, node, c[i], c[i + 1])
  BY <1>8, <1>9, <1>10, <1>11 DEF Spot
<1>13. QED
  BY <1>7, <1>12

-----------------------------------------------------------------------------
(* The blocks of a memory                                                   *)

HeadsType(h) ==
  h \in [next : [Headers \cup Region -> Headers \cup {NULL, ALLOCATED}],
         size : [Headers \cup Region -> Nat],
         region : [Headers -> Region \cup {NULL}]]

\* The block at a reaches to the next of the boundaries in B and belongs to r.
Brick(h, r, B, a) ==
  /\ Aligned(h.size[a]) /\ 0 < h.size[a]
  /\ a + h.size[a] \in B /\ \A b \in B : a < b => a + h.size[a] <= b
  /\ h.region[a] = r

\* The free blocks F, with the last node, and the taken blocks U cover r.
Covers(h, r, F, U) ==
  /\ Sorted(h, r, F)
  /\ U \subseteq Header(r) /\ F \cap U = {} /\ node_start(r) \in F \cup U
  /\ \A a \in (F \cup U) \ {node_end(r)} : Brick(h, r, F \cup U, a)

\* No two free blocks touch.
Apart(h, r, F) == \A a, b \in F \ {node_end(r)} : a + h.size[a] # b

\* The memory r is covered by its free list and the taken blocks U.
Whole(h, r, U) == \E F : Covers(h, r, F, U) /\ Apart(h, r, F)

\* What is not looked at may change.
LEMMA Frame ==
  ASSUME NEW h, NEW h2, NEW r \in Region, NEW F, NEW U, Covers(h, r, F, U),
         \A a \in F \cup {r} : h2.next[a] = h.next[a],
         \A a \in F \cup U : h2.size[a] = h.size[a] /\ h2.region[a] = h.region[a]
  PROVE  Covers(h2, r, F, U) /\ (Apart(h, r, F) => Apart(h2, r, F))
<1>1. Sorted(h2, r, F)
  BY DEF Covers, Sorted
<1>2. ASSUME NEW a \in (F \cup U) \ {node_end(r)} PROVE Brick(h2, r, F \cup U, a)
  BY DEF Covers, Brick
<1>3. Apart(h, r, F) => Apart(h2, r, F)
  BY DEF Apart
<1>4. QED
  BY <1>1, <1>2, <1>3 DEF Covers

\* A block linked in after a stands before every block that follows a.
LEMMA FollowsNew ==
  ASSUME NEW F \in SUBSET Nat, NEW a \in Nat, NEW n \in Nat, a < n,
         \A x \in F : a < x => n <= x
  PROVE  Follows(F \cup {n}, a, n)
BY DEF Follows

\* A taken block is linked into the list.
LEMMA Insert ==
  ASSUME NEW h, NEW h2, NEW r \in Region, NEW F, NEW U, Covers(h, r, F, U),
         NEW node \in U, NEW iter, NEW succ, Spot(h, r, F, node, iter, succ),
         h2.next[node] = succ, h2.next[iter] = node,
         \A a \in (F \cup {r}) \ {iter} : h2.next[a] = h.next[a],
         \A a \in F \cup U : h2.size[a] = h.size[a] /\ h2.region[a] = h.region[a]
  PROVE  Covers(h2, r, F \cup {node}, U \ {node})
<1>1. /\ F \subseteq Nat /\ U \subseteq Nat /\ r \notin F \cup U
      /\ F \subseteq Header(r) /\ U \subseteq Header(r) /\ node \notin F
      /\ node_end(r) \in F
  BY HeaderFacts DEF Covers, Sorted
<1> DEFINE F2 == F \cup {node}
<1>2. F2 \cup (U \ {node}) = F \cup U /\ F2 \cap (U \ {node}) = {}
  BY DEF Covers
<1>3. Sorted(h2, r, F2)
  <2>1. F2 \subseteq Header(r) /\ node_end(r) \in F2
    BY <1>1
  <2>2. h2.next[r] \in F2 /\ \A x \in F2 : h2.next[r] <= x
    <3>1. CASE iter = r
      BY <1>1, <3>1 DEF Spot
    <3>2. CASE iter # r
      <4>1. h2.next[r] = h.next[r] /\ h.next[r] \in F /\ \A x \in F : h.next[r] <= x
        BY <3>2 DEF Covers, Sorted
      <4>2. iter \in F /\ iter < node
        BY <3>2 DEF Spot
      <4>3. h.next[r] <= node
        <5>1. h.next[r] \in Nat /\ iter \in Nat /\ node \in Nat /\ h.next[r] <= iter
          BY <1>1, <4>1, <4>2
        <5>2. QED
          BY <4>2, <5>1
      <4>4. QED
        BY <4>1, <4>3
    <3>3. QED
      BY <3>1, <3>2
  <2>3. h2.next[node_end(r)] = NULL
    BY <1>1 DEF Covers, Sorted, Spot
  <2>4. ASSUME NEW a \in F2 \ {node_end(r)} PROVE Follows(F2, a, h2.next[a])
    <3>1. CASE a = node
      <4>1. node \in Nat /\ succ \in F /\ succ \in Nat /\ node # succ /\ node <= succ
        BY <1>1 DEF Spot
      <4>2. node < succ
        BY <4>1
      <4>3. ASSUME NEW x \in F2, node < x PROVE succ <= x
        <5>1. x \in F /\ x \in Nat /\ node <= x
          BY <1>1, <4>1, <4>3
        <5>2. QED
          BY <5>1 DEF Spot
      <4>4. QED
        BY <3>1, <4>1, <4>2, <4>3 DEF Follows
    <3>2. CASE a = iter /\ a # node
      <4>1. iter \in F /\ iter \in Nat /\ iter < node /\ node \in Nat
        BY <1>1, <3>2 DEF Spot
      <4>2. ASSUME NEW x \in F, iter < x PROVE node <= x
        <5>1. x \in Nat /\ (x < node => x <= iter)
          BY <1>1 DEF Spot
        <5>2. QED
          BY <4>1, <4>2, <5>1
      <4>3. h2.next[a] = node
        BY <3>2
      <4>4. QED
        BY <1>1, <3>2, <4>1, <4>2, <4>3, FollowsNew
    <3>3. CASE a # iter /\ a # node
      <4>1. a \in F \ {node_end(r)} /\ h2.next[a] = h.next[a] /\ Follows(F, a, h.next[a])
        BY <3>3 DEF Covers, Sorted
      <4>2. ASSUME a < node PROVE h.next[a] <= node
        <5>1. iter # r /\ a <= iter /\ iter \in F /\ iter < node
          BY <4>1, <4>2 DEF Spot
        <5>2. a \in Nat /\ iter \in Nat /\ node \in Nat /\ h.next[a] \in Nat
          BY <1>1, <4>1, <5>1 DEF Follows
        <5>3. a < iter
          BY <3>3, <5>1, <5>2
        <5>4. h.next[a] <= iter
          BY <4>1, <5>1, <5>3 DEF Follows
        <5>5. QED
          BY <5>1, <5>2, <5>4
      <4>3. QED
        BY <4>1, <4>2 DEF Follows
    <3>4. QED
      BY <3>1, <3>2, <3>3
  <2>5. QED
    BY <2>1, <2>2, <2>3, <2>4 DEF Sorted
<1>4. ASSUME NEW a \in (F \cup U) \ {node_end(r)} PROVE Brick(h2, r, F \cup U, a)
  BY DEF Covers, Brick
<1>5. QED
  BY <1>1, <1>2, <1>3, <1>4 DEF Covers

\* A node is taken out of the list.
LEMMA Unlink ==
  ASSUME NEW h, NEW h2, NEW r \in Region, NEW F, Sorted(h, r, F),
         NEW a \in (F \cup {r}) \ {node_end(r)}, NEW b \in F \ {node_end(r)},
         h.next[a] = b, h2.next[a] = h.next[b],
         \A x \in (F \cup {r}) \ {a, b} : h2.next[x] = h.next[x]
  PROVE  Sorted(h2, r, F \ {b})
<1>1. F \subseteq Nat /\ r \notin F /\ F \subseteq Header(r) /\ node_end(r) \in F
  BY HeaderFacts DEF Sorted
<1>2. Follows(F, b, h.next[b]) /\ (a # r => Follows(F, a, b) /\ a \in Nat)
  BY <1>1 DEF Sorted
<1>3. /\ h.next[b] \in F \ {b} /\ h.next[b] \in Nat /\ b < h.next[b] /\ b \in Nat
      /\ \A x \in F : b < x => h.next[b] <= x
  <2>1. h.next[b] \in F /\ b < h.next[b] /\ \A x \in F : b < x => h.next[b] <= x
    BY <1>2 DEF Follows
  <2>2. b \in Nat /\ h.next[b] \in Nat
    BY <1>1, <2>1
  <2>3. h.next[b] # b
    BY <2>1, <2>2
  <2>4. QED
    BY <2>1, <2>2, <2>3
<1>4. h2.next[r] \in F \ {b} /\ \A x \in F \ {b} : h2.next[r] <= x
  <2>1. h.next[r] \in F /\ \A x \in F : h.next[r] <= x
    BY DEF Sorted
  <2>2. CASE a = r
    <3>1. ASSUME NEW x \in F \ {b} PROVE h.next[b] <= x
      <4>1. b <= x /\ x \in Nat /\ x # b
        BY <1>1, <2>1, <2>2
      <4>2. b < x
        BY <1>3, <4>1
      <4>3. QED
        BY <1>3, <4>2
    <3>2. QED
      BY <1>3, <2>2, <3>1
  <2>3. CASE a # r
    <3>1. h2.next[r] = h.next[r]
      BY <1>1, <2>3
    <3>2. h.next[r] <= a /\ a < b /\ h.next[r] \in Nat /\ a \in Nat
      BY <1>1, <1>2, <2>1, <2>3 DEF Follows
    <3>3. h.next[r] # b
      BY <1>3, <3>2
    <3>4. QED
      BY <2>1, <3>1, <3>3
  <2>4. QED
    BY <2>2, <2>3
<1>5. h2.next[node_end(r)] = NULL
  BY <1>1 DEF Sorted
<1>6. ASSUME NEW x \in (F \ {b}) \ {node_end(r)} PROVE Follows(F \ {b}, x, h2.next[x])
  <2>1. CASE x = a
    <3>1. a # r /\ a < b /\ a \in Nat /\ \A y \in F : a < y => b <= y
      BY <1>1, <1>2, <2>1 DEF Follows
    <3>2. a < h.next[b]
      BY <1>3, <3>1
    <3>3. ASSUME NEW y \in F \ {b}, a < y PROVE h.next[b] <= y
      <4>1. y \in Nat /\ b <= y /\ y # b
        BY <1>1, <3>1, <3>3
      <4>2. b < y
        BY <1>3, <4>1
      <4>3. QED
        BY <1>3, <4>2
    <3>4. QED
      BY <1>3, <2>1, <3>2, <3>3 DEF Follows
  <2>2. CASE x # a
    <3>1. h2.next[x] = h.next[x] /\ Follows(F, x, h.next[x]) /\ x \in Nat
      BY <1>1, <2>2 DEF Sorted
    <3>2. ASSUME h.next[x] = b PROVE FALSE
      <4>1. x < b /\ \A y \in F : x < y => b <= y
        BY <3>1, <3>2 DEF Follows
      <4>2. CASE a = r
        <5>1. b <= x
          BY <4>2 DEF Sorted
        <5>2. QED
          BY <1>3, <3>1, <4>1, <5>1
      <4>3. CASE a # r
        <5>1. a \in F /\ a \in Nat /\ a < b /\ (a < x => b <= x) /\ (x < a => b <= a)
          BY <1>2, <4>1, <4>3 DEF Follows
        <5>2. QED
          BY <1>3, <2>2, <3>1, <4>1, <5>1
      <4>4. QED
        BY <4>2, <4>3
    <3>3. QED
      BY <3>1, <3>2 DEF Follows
  <2>3. QED
    BY <2>1, <2>2
<1>7. QED
  BY <1>1, <1>4, <1>5, <1>6 DEF Sorted

\* A free block takes in the free block that it touches.
LEMMA Fuse ==
  ASSUME NEW h, NEW h2, NEW r \in Region, NEW F, NEW U, Covers(h, r, F, U),
         NEW a \in F, NEW b \in F \ {node_end(r)}, a + h.size[a] = b, a # node_end(r),
         h2.next[a] = h.next[b], h2.size[a] = h.size[a] + h.size[b],
         h2.region[a] = h.region[a],
         \A x \in (F \cup {r}) \ {a, b} : h2.next[x] = h.next[x],
         \A x \in (F \cup U) \ {a, b} :
           h2.size[x] = h.size[x] /\ h2.region[x] = h.region[x]
  PROVE  Covers(h2, r, F \ {b}, U)
<1>1. /\ F \subseteq Nat /\ U \subseteq Nat /\ r \notin F \cup U /\ b \notin U
      /\ F \subseteq Header(r) /\ U \subseteq Header(r) /\ node_end(r) \in F
  BY HeaderFacts DEF Covers, Sorted
<1>2. Brick(h, r, F \cup U, a) /\ Brick(h, r, F \cup U, b)
  BY DEF Covers
<1>3. /\ a \in Nat /\ b \in Nat /\ h.size[a] \in Nat /\ h.size[b] \in Nat
      /\ a < b /\ \A x \in F \cup U : a < x => b <= x
  BY <1>1, <1>2 DEF Brick, Aligned
<1>4. h.next[a] = b
  <2>1. Follows(F, a, h.next[a])
    BY DEF Covers, Sorted
  <2>2. h.next[a] \in F /\ h.next[a] \in Nat /\ a < h.next[a] /\ h.next[a] <= b
    BY <1>1, <1>3, <2>1 DEF Follows
  <2>3. b <= h.next[a]
    BY <1>3, <2>2
  <2>4. QED
    BY <1>3, <2>2, <2>3
<1>5. Sorted(h2, r, F \ {b})
  <2>1. a \in (F \cup {r}) \ {node_end(r)} /\ Sorted(h, r, F)
    BY DEF Covers
  <2>2. QED
    BY <1>4, <2>1, Unlink
<1>6. ASSUME NEW x \in ((F \ {b}) \cup U) \ {node_end(r)}
      PROVE  Brick(h2, r, (F \ {b}) \cup U, x)
  <2>1. Brick(h, r, F \cup U, x) /\ x \in Nat /\ x # b
    BY <1>1 DEF Covers
  <2>2. CASE x = a
    <3>1. Aligned(h2.size[a]) /\ 0 < h2.size[a]
      BY <1>2, AlignedSum DEF Brick, Aligned
    <3>2. a + h2.size[a] = b + h.size[b]
      BY <1>3
    <3>3. b + h.size[b] \in F \cup U /\ b + h.size[b] # b
      BY <1>2, <1>3 DEF Brick
    <3>4. ASSUME NEW y \in (F \ {b}) \cup U, a < y PROVE b + h.size[b] <= y
      <4>1. y \in Nat /\ b <= y /\ y # b
        BY <1>1, <1>3, <3>4
      <4>2. b < y
        BY <1>3, <4>1
      <4>3. QED
        BY <1>2, <4>2 DEF Brick
    <3>5. QED
      BY <1>2, <2>2, <3>1, <3>2, <3>3, <3>4 DEF Brick
  <2>3. CASE x # a
    <3>1. h2.size[x] = h.size[x] /\ h2.region[x] = h.region[x]
      BY <2>1, <2>3
    <3>2. x + h.size[x] # b
      <4>1. h.size[x] \in Nat /\ 0 < h.size[x] /\ (x < a => x + h.size[x] <= a)
        BY <2>1 DEF Brick, Aligned
      <4>2. CASE x < a
        BY <1>3, <2>1, <4>1, <4>2
      <4>3. CASE ~(x < a)
        <5>1. a < x
          BY <1>3, <2>1, <2>3, <4>3
        <5>2. b <= x
          BY <1>3, <5>1
        <5>3. QED
          BY <1>3, <2>1, <4>1, <5>2
      <4>4. QED
        BY <4>2, <4>3
    <3>3. QED
      BY <2>1, <3>1, <3>2 DEF Brick
  <2>4. QED
    BY <2>2, <2>3
<1>7. node_start(r) \in (F \ {b}) \cup U
  <2>1. b # node_start(r)
    BY <1>1, <1>3, HeaderFacts, Bounds DEF Aligned
  <2>2. QED
    BY <2>1 DEF Covers
<1>8. QED
  BY <1>1, <1>5, <1>6, <1>7 DEF Covers

-----------------------------------------------------------------------------
(* mm_list_insert                                                           *)

Back(h, node, r, iter) == iter # r /\ iter + h.size[iter] = node
Ahead(h, node, r, succ) == node + h.size[node] = succ /\ succ # node_end(r)

\* The effect of link_block on every field.
Linked(h, h2, node, r, iter, succ) ==
  LET back  == Back(h, node, r, iter)
      ahead == Ahead(h, node, r, succ)
      top   == IF back THEN iter ELSE node
      more  == IF ahead THEN h.size[succ] ELSE 0
  IN  /\ h2.region = h.region
      /\ h2.size[top] = (IF back THEN h.size[iter] + h.size[node] ELSE h.size[node]) + more
      /\ \A a \in (Headers \cup Region) \ {top} : h2.size[a] = h.size[a]
      /\ h2.next[top] = IF ahead THEN h.next[succ] ELSE succ
      /\ ~back => h2.next[iter] = node
      /\ \A a \in (Headers \cup Region) \ {top, iter} : h2.next[a] = h.next[a]

LEMMA LinkFields ==
  ASSUME NEW h, HeadsType(h), NEW r \in Region, NEW node \in Headers,
         NEW iter \in Headers \cup {r}, NEW succ \in Headers,
         iter # node, succ # node, iter # succ,
         NEW h2, h2 = link_block(h, node, r, iter, succ)
  PROVE  HeadsType(h2) /\ Linked(h, h2, node, r, iter, succ)
<1> DEFINE back  == Back(h, node, r, iter)
           ahead == Ahead(h, node, r, succ)
<1>0. PICK N \in [Headers \cup Region -> Headers \cup {NULL, ALLOCATED}],
           S \in [Headers \cup Region -> Nat],
           R \in [Headers -> Region \cup {NULL}] :
             h = [next |-> N, size |-> S, region |-> R]
  BY DEF HeadsType
<1>1. /\ h.next = N /\ h.size = S /\ h.region = R
      /\ S[node] \in Nat /\ S[iter] \in Nat /\ S[succ] \in Nat
      /\ node \in Nat /\ succ \in Nat /\ (iter # r => iter \in Nat)
  BY <1>0, HeadersApart
<1>2. CASE back /\ ahead
  <2>1. h2 = [next |-> [N EXCEPT ![iter] = N[succ]],
              size |-> [S EXCEPT ![iter] = (S[iter] + S[node]) + S[succ]], region |-> R]
    <3>1. iter + (S[iter] + S[node]) = succ /\ succ # node_end(r) /\ iter # r
      BY <1>1, <1>2 DEF Back, Ahead
    <3>2. QED
      BY <1>0, <1>1, <1>2, <3>1 DEF link_block, Back
  <2>2. QED
    BY <1>1, <1>2, <2>1 DEF Linked, HeadsType
<1>3. CASE back /\ ~ahead
  <2>1. h2 = [next |-> [N EXCEPT ![iter] = succ],
              size |-> [S EXCEPT ![iter] = S[iter] + S[node]], region |-> R]
    <3>1. ~(iter + (S[iter] + S[node]) = succ /\ succ # node_end(r)) /\ iter # r
      BY <1>1, <1>3 DEF Back, Ahead
    <3>2. QED
      BY <1>0, <1>1, <1>3, <3>1 DEF link_block, Back
  <2>2. QED
    BY <1>1, <1>3, <2>1 DEF Linked, HeadsType
<1>4. CASE ~back /\ ahead
  <2>1. h2 = [next |-> [N EXCEPT ![node] = N[succ], ![iter] = node],
              size |-> [S EXCEPT ![node] = S[node] + S[succ]], region |-> R]
    BY <1>0, <1>1, <1>4 DEF link_block, Back, Ahead
  <2>2. PICK N2, S2 : /\ N2 = [N EXCEPT ![node] = N[succ], ![iter] = node]
                      /\ S2 = [S EXCEPT ![node] = S[node] + S[succ]]
    OBVIOUS
  <2>3. h2.next = N2 /\ h2.size = S2 /\ h2.region = R
    BY <2>1, <2>2
  <2>4. /\ N2 \in [Headers \cup Region -> Headers \cup {NULL, ALLOCATED}]
        /\ N2[node] = N[succ] /\ N2[iter] = node
        /\ \A a \in (Headers \cup Region) \ {node, iter} : N2[a] = N[a]
    BY <2>2
  <2>5. /\ S2 \in [Headers \cup Region -> Nat]
        /\ S2[node] = S[node] + (IF ahead THEN S[succ] ELSE 0)
        /\ \A a \in (Headers \cup Region) \ {node} : S2[a] = S[a]
    BY <1>1, <1>4, <2>2
  <2>6. HeadsType(h2)
    BY <2>1, <2>2, <2>4, <2>5 DEF HeadsType
  <2> HIDE DEF back, ahead
  <2>7. Linked(h, h2, node, r, iter, succ)
    BY <1>1, <1>4, <2>3, <2>4, <2>5 DEF Linked, back, ahead
  <2>8. QED
    BY <2>6, <2>7
<1>5. CASE ~back /\ ~ahead
  <2>1. h2 = [next |-> [N EXCEPT ![node] = succ, ![iter] = node],
              size |-> S, region |-> R]
    BY <1>0, <1>1, <1>5 DEF link_block, Back, Ahead
  <2>2. PICK N2, S2 : /\ N2 = [N EXCEPT ![node] = succ, ![iter] = node]
                      /\ S2 = S
    OBVIOUS
  <2>3. h2.next = N2 /\ h2.size = S2 /\ h2.region = R
    BY <2>1, <2>2
  <2>4. /\ N2 \in [Headers \cup Region -> Headers \cup {NULL, ALLOCATED}]
        /\ N2[node] = succ /\ N2[iter] = node
        /\ \A a \in (Headers \cup Region) \ {node, iter} : N2[a] = N[a]
    BY <2>2
  <2>5. /\ S2 \in [Headers \cup Region -> Nat]
        /\ S2[node] = S[node] + (IF ahead THEN S[succ] ELSE 0)
        /\ \A a \in (Headers \cup Region) \ {node} : S2[a] = S[a]
    BY <1>1, <1>5, <2>2
  <2>6. HeadsType(h2)
    BY <2>1, <2>2, <2>4, <2>5 DEF HeadsType
  <2> HIDE DEF back, ahead
  <2>7. Linked(h, h2, node, r, iter, succ)
    BY <1>1, <1>5, <2>3, <2>4, <2>5 DEF Linked, back, ahead
  <2>8. QED
    BY <2>6, <2>7
<1>6. QED
  BY <1>2, <1>3, <1>4, <1>5

\* Elsewhere than at the free blocks of r, at its root object and at node
\* nothing changes.
Confined(h, h2, r, F, node) ==
  /\ h2.region = h.region
  /\ \A a \in (Headers \cup Region) \ (F \cup {r, node}) :
       h2.next[a] = h.next[a] /\ h2.size[a] = h.size[a]

\* mm_list_insert turns a taken block into free memory.
LEMMA InsertOK ==
  ASSUME NEW h, HeadsType(h), NEW r \in Region, NEW F, NEW U,
         Covers(h, r, F, U), Apart(h, r, F), NEW node \in U,
         NEW h2, h2 = mm_list_insert(h, node, r)
  PROVE  /\ HeadsType(h2) /\ Confined(h, h2, r, F, node)
         /\ Whole(h2, r, U \ {node})
<1>1. PICK iter, succ : /\ Spot(h, r, F, node, iter, succ)
                        /\ h2 = link_block(h, node, r, iter, succ)
  <2>1. Sorted(h, r, F) /\ node \in Header(r)
    BY DEF Covers
  <2>2. QED
    BY <2>1, SpotFound
<1>2. /\ F \subseteq Nat /\ U \subseteq Nat /\ r \notin F \cup U /\ node \notin F
      /\ F \subseteq Headers /\ U \subseteq Headers /\ node_end(r) \in F
      /\ F \cap Region = {} /\ U \cap Region = {}
  BY HeaderFacts, HeadersApart DEF Covers, Sorted
<1>3. /\ iter \in F \cup {r} /\ iter # node_end(r) /\ (iter # r => iter < node)
      /\ succ \in F /\ node <= succ
      /\ (\A x \in F : x < node => iter # r /\ x <= iter)
      /\ (\A x \in F : node <= x => succ <= x)
  BY <1>1, <1>2 DEF Spot
<1>4. /\ iter # node /\ succ # node /\ iter # succ /\ node < succ
      /\ node \in Nat /\ succ \in Nat /\ (iter # r => iter \in Nat)
  BY <1>2, <1>3
<1>5. HeadsType(h2) /\ Linked(h, h2, node, r, iter, succ)
  BY <1>1, <1>2, <1>3, <1>4, LinkFields
<1>6. /\ \A x \in (F \cup U) \ {node_end(r)} : h.size[x] \in Nat /\ 0 < h.size[x]
      /\ \A x \in (F \cup U) \ {node_end(r)} :
           \A y \in F \cup U : x < y => x + h.size[x] <= y
  BY DEF Covers, Brick, Aligned
<1> DEFINE back  == Back(h, node, r, iter)
           ahead == Ahead(h, node, r, succ)
           top   == IF back THEN iter ELSE node
<1>7. ASSUME NEW x \in F \ {node_end(r)}, x + h.size[x] = node PROVE back
  <2>1. x \in Nat /\ h.size[x] \in Nat /\ 0 < h.size[x]
    BY <1>2, <1>6
  <2>2. x < node
    BY <1>4, <1>7, <2>1
  <2>3. iter # r /\ x <= iter /\ iter \in F /\ iter \in Nat /\ iter < node
    BY <1>2, <1>3, <2>2
  <2>4. ~(x < iter)
    <3>1. x < iter => x + h.size[x] <= iter
      BY <1>6, <2>3
    <3>2. QED
      BY <1>4, <1>7, <2>1, <2>3, <3>1
  <2>5. x = iter
    BY <2>1, <2>3, <2>4
  <2>6. QED
    BY <1>7, <2>3, <2>5 DEF Back
<1>8. ASSUME NEW y \in F \ {node_end(r)}, node + h.size[node] = y PROVE ahead
  <2>1. h.size[node] \in Nat /\ node # node_end(r)
    BY <1>2, <1>6
  <2>2. y \in Nat /\ node <= y
    BY <1>2, <1>4, <1>8, <2>1
  <2>3. succ <= y
    BY <1>3, <2>2
  <2>4. node + h.size[node] <= succ
    BY <1>3, <1>4, <1>6, <2>1
  <2>5. y = succ
    BY <1>4, <1>8, <2>2, <2>3, <2>4
  <2>6. QED
    BY <1>8, <2>5 DEF Ahead
<1>9. Confined(h, h2, r, F, node)
  BY <1>3, <1>5 DEF Confined, Linked
<1>10. ASSUME NEW F2 \in SUBSET (F \cup {node}), back => node \notin F2
       PROVE  Apart(h2, r, F2)
  <2>1. SUFFICES ASSUME NEW x \in F2 \ {node_end(r)}, NEW y \in F2 \ {node_end(r)}
                 PROVE  x + h2.size[x] # y
    BY DEF Apart
  <2>2. h.size[node] \in Nat /\ 0 < h.size[node] /\ node # node_end(r)
    BY <1>2, <1>6
  <2>3. CASE x = top
    <3>1. CASE ahead
      <4>1. succ # node_end(r) /\ h.size[succ] \in Nat /\ node + h.size[node] = succ
        BY <1>3, <1>6, <3>1 DEF Ahead
      <4>2. x + h2.size[x] = succ + h.size[succ]
        <5>1. CASE back
          <6>1. x = iter /\ iter # r /\ iter + h.size[iter] = node /\ iter \in F
            BY <1>3, <2>3, <5>1 DEF Back
          <6>2. h2.size[x] = (h.size[iter] + h.size[node]) + h.size[succ]
            BY <1>5, <2>3, <3>1, <5>1 DEF Linked
          <6>3. iter \in Nat /\ h.size[iter] \in Nat
            BY <1>2, <1>3, <1>6, <6>1
          <6>4. QED
            BY <2>2, <4>1, <6>1, <6>2, <6>3
        <5>2. CASE ~back
          <6>1. x = node /\ h2.size[x] = h.size[node] + h.size[succ]
            BY <1>5, <2>3, <3>1, <5>2 DEF Linked
          <6>2. QED
            BY <1>4, <2>2, <4>1, <6>1
        <5>3. QED
          BY <5>1, <5>2
      <4>3. CASE y \in F
        BY <1>3, <4>1, <4>2, <4>3 DEF Apart
      <4>4. CASE y = node
        BY <1>4, <4>1, <4>2, <4>4
      <4>5. QED
        BY <4>3, <4>4
    <3>2. CASE ~ahead
      <4>1. x + h2.size[x] = node + h.size[node]
        <5>1. CASE back
          <6>1. x = iter /\ iter # r /\ iter + h.size[iter] = node /\ iter \in F
            BY <1>3, <2>3, <5>1 DEF Back
          <6>2. h2.size[x] = (h.size[iter] + h.size[node]) + 0
            BY <1>5, <2>3, <3>2, <5>1 DEF Linked
          <6>3. iter \in Nat /\ h.size[iter] \in Nat
            BY <1>2, <1>3, <1>6, <6>1
          <6>4. QED
            BY <2>2, <6>1, <6>2, <6>3
        <5>2. CASE ~back
          <6>1. x = node /\ h2.size[x] = h.size[node] + 0
            BY <1>5, <2>3, <3>2, <5>2 DEF Linked
          <6>2. QED
            BY <1>4, <2>2, <6>1
        <5>3. QED
          BY <5>1, <5>2
      <4>2. CASE y \in F
        BY <1>8, <3>2, <4>1, <4>2
      <4>3. CASE y = node
        BY <1>4, <2>2, <4>1, <4>3
      <4>4. QED
        BY <4>2, <4>3
    <3>3. QED
      BY <3>1, <3>2
  <2>4. CASE x # top
    <3>1. x \in F
      BY <1>10, <2>4
    <3>2. h2.size[x] = h.size[x]
      BY <1>2, <1>5, <2>4, <3>1 DEF Linked
    <3>3. CASE y \in F
      BY <3>1, <3>2, <3>3 DEF Apart
    <3>4. CASE y = node
      BY <1>7, <1>10, <3>1, <3>2, <3>4
    <3>5. QED
      BY <3>3, <3>4
  <2>5. QED
    BY <2>3, <2>4
<1> DEFINE A  == Headers \cup Region
           hi == [next |-> [a \in A |-> IF a = node THEN succ
                                        ELSE IF a = iter THEN node ELSE h.next[a]],
                  size |-> h.size, region |-> h.region]
<1>11. /\ hi.next[node] = succ /\ hi.next[iter] = node
       /\ \A a \in (F \cup {r}) \ {iter} : hi.next[a] = h.next[a]
       /\ hi.size = h.size /\ hi.region = h.region
  BY <1>2, <1>3, <1>4
<1> HIDE DEF hi
<1>12. Covers(hi, r, F \cup {node}, U \ {node})
  BY <1>1, <1>11, Insert
<1>13. \A a \in F \cup U \cup {r} : a \in A
  BY <1>2
<1>14. h2.region = h.region
  BY <1>5 DEF Linked
<1>15. CASE ~back /\ ~ahead
  <2>1. /\ h2.next[node] = succ /\ h2.next[iter] = node
        /\ \A a \in A \ {node, iter} : h2.next[a] = h.next[a]
        /\ h2.size[node] = h.size[node] + 0
        /\ \A a \in A \ {node} : h2.size[a] = h.size[a]
    BY <1>5, <1>15 DEF Linked
  <2>2. h2.size[node] = h.size[node]
    BY <1>2, <1>6, <2>1
  <2>3. \A a \in (F \cup {r}) \ {iter} : h2.next[a] = h.next[a]
    BY <1>2, <1>13, <2>1
  <2>4. \A a \in F \cup U : h2.size[a] = h.size[a] /\ h2.region[a] = h.region[a]
    BY <1>13, <1>14, <2>1, <2>2
  <2>5. Covers(h2, r, F \cup {node}, U \ {node})
    BY <1>1, <2>1, <2>3, <2>4, Insert
  <2>6. QED
    BY <1>5, <1>9, <1>10, <1>15, <2>5 DEF Whole
<1>16. CASE ~back /\ ahead
  <2>1. /\ h2.next[node] = h.next[succ] /\ h2.next[iter] = node
        /\ \A a \in A \ {node, iter} : h2.next[a] = h.next[a]
        /\ h2.size[node] = h.size[node] + h.size[succ]
        /\ \A a \in A \ {node} : h2.size[a] = h.size[a]
    BY <1>5, <1>16 DEF Linked
  <2>2. node + hi.size[node] = succ /\ succ # node_end(r) /\ node # node_end(r)
    BY <1>2, <1>11, <1>16 DEF Ahead
  <2>3. h2.next[node] = hi.next[succ] /\ h2.size[node] = hi.size[node] + hi.size[succ]
    BY <1>3, <1>4, <1>11, <2>1
  <2>4. \A x \in ((F \cup {node}) \cup {r}) \ {node, succ} : h2.next[x] = hi.next[x]
    BY <1>11, <1>13, <2>1
  <2>5. \A x \in ((F \cup {node}) \cup (U \ {node})) \ {node, succ} :
          h2.size[x] = hi.size[x] /\ h2.region[x] = hi.region[x]
    BY <1>11, <1>13, <1>14, <2>1
  <2>6. h2.region[node] = hi.region[node] /\ succ \in (F \cup {node}) \ {node_end(r)}
    BY <1>3, <1>11, <1>14, <2>2
  <2>7. Covers(h2, r, (F \cup {node}) \ {succ}, U \ {node})
    BY <1>12, <2>2, <2>3, <2>4, <2>5, <2>6, Fuse
  <2>8. (F \cup {node}) \ {succ} \in SUBSET (F \cup {node})
    OBVIOUS
  <2>9. QED
    BY <1>5, <1>9, <1>10, <1>16, <2>7, <2>8 DEF Whole
<1>17. CASE back /\ ~ahead
  <2>1. /\ h2.next[iter] = succ
        /\ \A a \in A \ {iter} : h2.next[a] = h.next[a]
        /\ h2.size[iter] = (h.size[iter] + h.size[node]) + 0
        /\ \A a \in A \ {iter} : h2.size[a] = h.size[a]
    BY <1>5, <1>17 DEF Linked
  <2>2. /\ iter + hi.size[iter] = node /\ node # node_end(r) /\ iter # node_end(r)
        /\ iter \in F
    BY <1>2, <1>3, <1>11, <1>17 DEF Back
  <2>3. h2.next[iter] = hi.next[node] /\ h2.size[iter] = hi.size[iter] + hi.size[node]
    BY <1>2, <1>3, <1>6, <1>11, <2>1, <2>2
  <2>4. \A x \in ((F \cup {node}) \cup {r}) \ {iter, node} : h2.next[x] = hi.next[x]
    BY <1>11, <1>13, <2>1
  <2>5. \A x \in ((F \cup {node}) \cup (U \ {node})) \ {iter, node} :
          h2.size[x] = hi.size[x] /\ h2.region[x] = hi.region[x]
    BY <1>11, <1>13, <1>14, <2>1
  <2>6. /\ h2.region[iter] = hi.region[iter] /\ iter \in F \cup {node}
        /\ node \in (F \cup {node}) \ {node_end(r)}
    BY <1>11, <1>14, <2>2
  <2>7. Covers(h2, r, (F \cup {node}) \ {node}, U \ {node})
    BY <1>12, <2>2, <2>3, <2>4, <2>5, <2>6, Fuse
  <2>8. (F \cup {node}) \ {node} \in SUBSET (F \cup {node})
    OBVIOUS
  <2>9. QED
    BY <1>5, <1>9, <1>10, <1>17, <2>7, <2>8 DEF Whole
<1>18. CASE back /\ ahead
  <2>1. /\ h2.next[iter] = h.next[succ]
        /\ \A a \in A \ {iter} : h2.next[a] = h.next[a]
        /\ h2.size[iter] = (h.size[iter] + h.size[node]) + h.size[succ]
        /\ \A a \in A \ {iter} : h2.size[a] = h.size[a]
    BY <1>5, <1>18 DEF Linked
  <2>2. /\ iter + h.size[iter] = node /\ node # node_end(r) /\ iter # node_end(r)
        /\ iter \in F /\ node + h.size[node] = succ /\ succ # node_end(r)
    BY <1>2, <1>3, <1>18 DEF Back, Ahead
  <2> DEFINE hf == [next |-> [a \in A |-> IF a = node THEN h.next[succ] ELSE hi.next[a]],
                    size |-> [a \in A |-> IF a = node THEN h.size[node] + h.size[succ]
                                          ELSE h.size[a]],
                    region |-> h.region]
             G  == (F \cup {node}) \ {succ}
  <2>3. /\ hf.next[node] = h.next[succ] /\ hf.size[node] = h.size[node] + h.size[succ]
        /\ \A a \in A \ {node} : hf.next[a] = hi.next[a] /\ hf.size[a] = h.size[a]
        /\ hf.region = h.region
    BY <1>13
  <2> HIDE DEF hf
  <2>4. hi.next[succ] = h.next[succ] /\ node + hi.size[node] = succ
    BY <1>3, <1>4, <1>11, <2>2
  <2>5. Covers(hf, r, G, U \ {node})
    <3>1. hf.next[node] = hi.next[succ] /\ hf.size[node] = hi.size[node] + hi.size[succ]
      BY <1>11, <2>3, <2>4
    <3>2. \A x \in ((F \cup {node}) \cup {r}) \ {node, succ} : hf.next[x] = hi.next[x]
      BY <1>13, <2>3
    <3>3. \A x \in ((F \cup {node}) \cup (U \ {node})) \ {node, succ} :
            hf.size[x] = hi.size[x] /\ hf.region[x] = hi.region[x]
      BY <1>11, <1>13, <2>3
    <3>4. hf.region[node] = hi.region[node] /\ succ \in (F \cup {node}) \ {node_end(r)}
      BY <1>3, <1>11, <2>2, <2>3
    <3>5. QED
      BY <1>12, <2>2, <2>4, <3>1, <3>2, <3>3, <3>4, Fuse
  <2>6. iter + hf.size[iter] = node
    BY <1>4, <1>13, <2>2, <2>3
  <2>7. h2.next[iter] = hf.next[node] /\ h2.size[iter] = hf.size[iter] + hf.size[node]
    <3>1. h.size[iter] \in Nat /\ h.size[node] \in Nat /\ h.size[succ] \in Nat
      BY <1>3, <1>6, <2>2
    <3>2. hf.size[iter] = h.size[iter]
      BY <1>4, <1>13, <2>2, <2>3
    <3>3. QED
      BY <2>1, <2>3, <3>1, <3>2
  <2>8. \A x \in (G \cup {r}) \ {iter, node} : h2.next[x] = hf.next[x]
    BY <1>11, <1>13, <2>1, <2>3
  <2>9. \A x \in (G \cup (U \ {node})) \ {iter, node} :
          h2.size[x] = hf.size[x] /\ h2.region[x] = hf.region[x]
    BY <1>13, <1>14, <2>1, <2>3
  <2>10. h2.region[iter] = hf.region[iter] /\ iter \in G /\ node \in G \ {node_end(r)}
    BY <1>4, <1>14, <2>2, <2>3
  <2>11. Covers(h2, r, G \ {node}, U \ {node})
    BY <2>2, <2>5, <2>6, <2>7, <2>8, <2>9, <2>10, Fuse
  <2>12. G \ {node} \in SUBSET (F \cup {node})
    OBVIOUS
  <2>13. QED
    BY <1>5, <1>9, <1>10, <1>18, <2>11, <2>12 DEF Whole
<1>19. QED
  BY <1>15, <1>16, <1>17, <1>18

-----------------------------------------------------------------------------
(* take                                                                     *)

\* h2 is h with the taken block a cut in two at m.
Halved(h, h2, r, F, U, a, n, m) ==
  /\ Aligned(n) /\ 0 < n /\ n < h.size[a] /\ m = a + n
  /\ \A x \in F \cup {r} : h2.next[x] = h.next[x]
  /\ \A x \in (F \cup U) \ {a} : h2.size[x] = h.size[x] /\ h2.region[x] = h.region[x]
  /\ h2.size[a] = n /\ h2.size[m] = h.size[a] - n
  /\ h2.region[a] = h.region[a] /\ h2.region[m] = r

\* A taken block is cut in two.
LEMMA Cut ==
  ASSUME NEW h, NEW h2, NEW r \in Region, NEW F, NEW U, Covers(h, r, F, U),
         NEW a \in U, NEW n, NEW m, Halved(h, h2, r, F, U, a, n, m)
  PROVE  Covers(h2, r, F, U \cup {m}) /\ (Apart(h, r, F) => Apart(h2, r, F))
<1>0. /\ Aligned(n) /\ 0 < n /\ n < h.size[a] /\ m = a + n
      /\ \A x \in F \cup {r} : h2.next[x] = h.next[x]
      /\ \A x \in (F \cup U) \ {a} :
           h2.size[x] = h.size[x] /\ h2.region[x] = h.region[x]
      /\ h2.size[a] = n /\ h2.size[m] = h.size[a] - n
      /\ h2.region[a] = h.region[a] /\ h2.region[m] = r
  BY DEF Halved
<1>1. /\ F \subseteq Nat /\ U \subseteq Nat /\ r \notin F \cup U /\ a \notin F
      /\ F \subseteq Header(r) /\ U \subseteq Header(r) /\ node_end(r) \in F
  BY HeaderFacts DEF Covers, Sorted
<1>2. Brick(h, r, F \cup U, a)
  BY <1>1 DEF Covers
<1>3. /\ a \in Nat /\ n \in Nat /\ h.size[a] \in Nat
      /\ a + h.size[a] \in F \cup U
      /\ \A b \in F \cup U : a < b => a + h.size[a] <= b
  BY <1>0, <1>1, <1>2 DEF Brick, Aligned
<1>4. m \in Nat
  BY <1>0, <1>3
<1>5. a < m /\ m < a + h.size[a]
  BY <1>0, <1>3, <1>4
<1>6. m \notin F \cup U
  BY <1>4, <1>1, <1>3, <1>5
<1>7. m \in Header(r)
  <2>1. a + h.size[a] \in Header(r) /\ a \in Header(r)
    BY <1>1, <1>3
  <2>2. Aligned(a) /\ node_start(r) <= a /\ a + h.size[a] <= node_end(r)
    BY <2>1, HeaderFacts
  <2>3. Aligned(m)
    BY <1>0, <2>2, AlignedSum
  <2>4. node_start(r) <= m /\ m <= node_end(r)
    BY <1>3, <1>4, <1>5, <2>2, Bounds DEF Aligned
  <2>5. QED
    BY <1>4, <2>3, <2>4, HeaderFacts
<1>8. Sorted(h2, r, F)
  BY <1>0 DEF Covers, Sorted
<1>9. ASSUME NEW x \in (F \cup (U \cup {m})) \ {node_end(r)}
      PROVE  Brick(h2, r, F \cup (U \cup {m}), x)
  <2>1. CASE x = a
    <3>1. \A b \in F \cup (U \cup {m}) : a < b => m <= b
      <4>1. ASSUME NEW b \in F \cup U, a < b PROVE m <= b
        <5>1. a + h.size[a] <= b /\ b \in Nat
          BY <1>1, <1>3, <4>1
        <5>2. QED
          BY <1>4, <1>3, <1>5, <5>1
      <4>2. QED
        BY <1>4, <4>1
    <3>2. QED
      BY <1>0, <1>2, <2>1, <3>1 DEF Brick
  <2>2. CASE x = m
    <3>1. Aligned(h.size[a] - n)
      <4>1. Aligned(h.size[a]) /\ n <= h.size[a]
        BY <1>0, <1>2, <1>3 DEF Brick
      <4>2. QED
        BY <1>0, <4>1, AlignedSum
    <3>2. 0 < h.size[a] - n /\ m + (h.size[a] - n) = a + h.size[a]
      BY <1>0, <1>3, <1>4
    <3>3. \A b \in F \cup (U \cup {m}) : m < b => a + h.size[a] <= b
      <4>1. ASSUME NEW b \in F \cup U, m < b PROVE a + h.size[a] <= b
        <5>1. b \in Nat /\ a < b
          BY <1>4, <1>1, <1>3, <1>5, <4>1
        <5>2. QED
          BY <1>3, <5>1
      <4>2. QED
        BY <1>4, <4>1
    <3>4. QED
      BY <1>0, <1>3, <2>2, <3>1, <3>2, <3>3 DEF Brick
  <2>3. CASE x # a /\ x # m
    <3>1. x \in F \cup U /\ Brick(h, r, F \cup U, x) /\ x \in Nat
      BY <1>1, <2>3 DEF Covers
    <3>2. h2.size[x] = h.size[x] /\ h2.region[x] = h.region[x]
      BY <1>0, <2>3, <3>1
    <3>3. x < m => x + h.size[x] <= m
      <4>1. ASSUME x < m PROVE x < a
        <5>1. ~(a < x)
          <6>1. a < x => a + h.size[a] <= x
            BY <1>3, <3>1
          <6>2. QED
            BY <1>4, <1>3, <1>5, <3>1, <4>1, <6>1
        <5>2. QED
          BY <1>3, <2>3, <3>1, <5>1
      <4>2. h.size[x] \in Nat /\ (x < a => x + h.size[x] <= a)
        BY <3>1 DEF Brick, Aligned
      <4>3. QED
        BY <1>4, <1>3, <1>5, <3>1, <4>1, <4>2
    <3>4. QED
      BY <3>1, <3>2, <3>3 DEF Brick
  <2>4. QED
    BY <2>1, <2>2, <2>3
<1>10. Covers(h2, r, F, U \cup {m})
  BY <1>1, <1>6, <1>7, <1>8, <1>9 DEF Covers
<1>11. Apart(h, r, F) => Apart(h2, r, F)
  <2>1. \A x \in F : h2.size[x] = h.size[x]
    BY <1>0, <1>1
  <2>2. QED
    BY <2>1 DEF Apart
<1>12. QED
  BY <1>10, <1>11

\* What a change inside r leaves alone: the blocks already taken and the other
\* memories.
Kept(h, h2, r, U) ==
  /\ \A a \in U \cup ((Headers \cup Region) \ (Header(r) \cup {r})) :
       h2.next[a] = h.next[a] /\ h2.size[a] = h.size[a]
  /\ \A a \in U \cup (Headers \ Header(r)) : h2.region[a] = h.region[a]

\* The free block iter follows prev in the list and has room for n bytes.
Fits(h, r, F, prev, iter, n) ==
  /\ prev \in (F \cup {r}) \ {node_end(r)} /\ iter \in F \ {node_end(r)}
  /\ h.next[prev] = iter /\ Aligned(n) /\ 0 < n /\ n <= h.size[iter]

\* What is taken of a block of m bytes for a request of n.
Part(r, n, m) == IF split(r, n, m) THEN n ELSE m

\* h2 is h with the free block iter, or its first n bytes, taken besides U.
TakenOut(h, h2, r, U, iter, n) ==
  /\ HeadsType(h2) /\ Kept(h, h2, r, U) /\ Whole(h2, r, U \cup {iter})
  /\ h2.next[iter] = ALLOCATED /\ n <= h2.size[iter]
  /\ h2.size[iter] = Part(r, n, h.size[iter])

\* take turns free memory into a taken block of at least n bytes.
LEMMA TakeOK ==
  ASSUME NEW h, HeadsType(h), NEW r \in Region, NEW F, NEW U,
         Covers(h, r, F, U), Apart(h, r, F),
         NEW prev, NEW iter, NEW n, Fits(h, r, F, prev, iter, n),
         NEW h2, h2 = take(h, r, prev, iter, n)
  PROVE  TakenOut(h, h2, r, U, iter, n)
<1>0. /\ prev \in (F \cup {r}) \ {node_end(r)} /\ iter \in F \ {node_end(r)}
      /\ h.next[prev] = iter /\ Aligned(n) /\ 0 < n /\ n <= h.size[iter]
  BY DEF Fits
<1> USE <1>0
<1>1. PICK N \in [Headers \cup Region -> Headers \cup {NULL, ALLOCATED}],
           S \in [Headers \cup Region -> Nat],
           R \in [Headers -> Region \cup {NULL}] :
             h = [next |-> N, size |-> S, region |-> R]
  BY DEF HeadsType
<1>2. h.next = N /\ h.size = S /\ h.region = R
  BY <1>1
<1>3. /\ F \subseteq Nat /\ U \subseteq Nat /\ F \cap U = {}
      /\ F \subseteq Headers /\ U \subseteq Headers /\ node_end(r) \in F
      /\ F \subseteq Header(r) /\ U \subseteq Header(r) /\ r \notin Headers
      /\ r \notin F \cup U
  BY HeaderFacts, HeadersApart DEF Covers, Sorted
<1>4. /\ iter \in Nat /\ n \in Nat /\ h.size[iter] \in Nat /\ iter \notin U
      /\ iter \in Header(r) /\ prev \in Header(r) \cup {r}
  BY <1>1, <1>2, <1>3 DEF Aligned
<1> DEFINE A  == Headers \cup Region
           F1 == F \ {iter}
           U1 == U \cup {iter}
<1>5. PICK h1 : h1 = [next |-> [N EXCEPT ![prev] = N[iter]], size |-> S, region |-> R]
  OBVIOUS
<1>6. h1 = [h EXCEPT !.next[prev] = h.next[iter]]
  BY <1>1, <1>5
<1>7. /\ h1.next \in [A -> Headers \cup {NULL, ALLOCATED}]
      /\ h1.next[prev] = h.next[iter]
      /\ \A a \in A \ {prev} : h1.next[a] = h.next[a]
      /\ h1.size = h.size /\ h1.region = h.region
  BY <1>2, <1>3, <1>4, <1>5
<1>8. Covers(h1, r, F1, U1) /\ Apart(h1, r, F1)
  <2>1. Sorted(h1, r, F1)
    <3>1. Sorted(h, r, F) /\ \A x \in (F \cup {r}) \ {prev, iter} : h1.next[x] = h.next[x]
      BY <1>3, <1>7 DEF Covers
    <3>2. QED
      BY <1>7, <3>1, Unlink
  <2>2. F1 \cup U1 = F \cup U
    OBVIOUS
  <2>3. ASSUME NEW a \in (F \cup U) \ {node_end(r)} PROVE Brick(h1, r, F \cup U, a)
    BY <1>7 DEF Brick, Covers
  <2>4. Apart(h1, r, F1)
    BY <1>7 DEF Apart
  <2>5. QED
    BY <1>3, <1>4, <2>1, <2>2, <2>3, <2>4 DEF Covers
<1>9. HeadsType(h1)
  BY <1>1, <1>5, <1>7 DEF HeadsType
<1>10. CASE ~split(r, n, h.size[iter])
  <2>1. h2 = [h1 EXCEPT !.next[iter] = ALLOCATED]
    BY <1>6, <1>10 DEF take
  <2>2. /\ HeadsType(h2) /\ h2.next[iter] = ALLOCATED
        /\ \A a \in A \ {iter} : h2.next[a] = h1.next[a]
        /\ h2.size = h1.size /\ h2.region = h1.region
    BY <1>3, <1>9, <2>1 DEF HeadsType
  <2>3. Covers(h2, r, F1, U1) /\ Apart(h2, r, F1)
    <3>1. \A a \in F1 \cup {r} : h2.next[a] = h1.next[a]
      BY <1>3, <2>2
    <3>2. \A a \in F1 \cup U1 : h2.size[a] = h1.size[a] /\ h2.region[a] = h1.region[a]
      BY <2>2
    <3> HIDE DEF F1, U1
    <3>3. QED
      BY <1>8, <3>1, <3>2, Frame
  <2>4. Kept(h, h2, r, U)
    BY <1>3, <1>4, <1>7, <2>2 DEF Kept
  <2>5. QED
    BY <1>7, <1>10, <2>2, <2>3, <2>4 DEF Whole, Part, TakenOut
<1>11. CASE split(r, n, h.size[iter])
  <2>1. n < h.size[iter]
    <3>1. min_alloc[r] \in Nat /\ min_alloc[r] >= 16
      BY Bounds DEF Aligned
    <3>2. QED
      BY <1>4, <1>11, <3>1 DEF split
  <2>2. PICK hc : hc = [h1 EXCEPT !.region[iter + n] = r,
                                  !.size[iter + n] = h.size[iter] - n,
                                  !.size[iter] = n]
    OBVIOUS
  <2>3. PICK m \in Nat : m = iter + n
    BY <1>4
  <2>4. PICK h3 : h3 = mm_list_insert(hc, m, r)
    OBVIOUS
  <2>5. h2 = [h3 EXCEPT !.next[iter] = ALLOCATED]
    BY <1>6, <1>11, <2>2, <2>3, <2>4 DEF take
  <2>6. m \in Header(r) /\ m \notin F \cup U /\ m # iter
    <3>1. Brick(h, r, F \cup U, iter)
      BY DEF Covers
    <3>2. /\ iter + h.size[iter] \in Header(r)
          /\ \A b \in F \cup U : iter < b => iter + h.size[iter] <= b
      BY <1>3, <3>1 DEF Brick
    <3>3. Aligned(iter) /\ node_start(r) <= iter /\ iter + h.size[iter] <= node_end(r)
      BY <1>4, <3>2, HeaderFacts
    <3>4. Aligned(m)
      BY <2>3, <3>3, AlignedSum
    <3>5. iter < m /\ m < iter + h.size[iter]
      BY <1>4, <2>1, <2>3
    <3>6. m \notin F \cup U
      BY <1>4, <2>3, <3>2, <3>5
    <3>7. node_start(r) <= m /\ m <= node_end(r)
      BY <1>4, <2>3, <3>3, <3>5, Bounds DEF Aligned
    <3>8. QED
      BY <1>4, <3>4, <3>5, <3>6, <3>7, HeaderFacts
  <2>7. m \in Headers /\ m \in A /\ iter \in A
    BY <1>3, <2>6, HeaderFacts
  <2>8. /\ HeadsType(hc) /\ hc.next = h1.next
        /\ hc.size[m] = h.size[iter] - n /\ hc.size[iter] = n
        /\ hc.region[m] = r
        /\ \A a \in A \ {m, iter} : hc.size[a] = h.size[a]
        /\ \A a \in Headers \ {m} : hc.region[a] = h.region[a]
    <3>1. h.size[iter] - n \in Nat
      BY <1>4, <2>1
    <3>2. hc = [next |-> h1.next,
                size |-> [h.size EXCEPT ![m] = h.size[iter] - n, ![iter] = n],
                region |-> [h.region EXCEPT ![m] = r]]
      BY <1>2, <1>5, <2>2, <2>3, <2>7
    <3>3. QED
      BY <1>1, <1>2, <1>4, <1>7, <2>6, <2>7, <3>1, <3>2 DEF HeadsType
  <2>9. Covers(hc, r, F1, U1 \cup {m}) /\ Apart(hc, r, F1)
    <3>1. \A x \in F1 \cup {r} : hc.next[x] = h1.next[x]
      BY <2>8
    <3>2. \A x \in (F1 \cup U1) \ {iter} :
            hc.size[x] = h1.size[x] /\ hc.region[x] = h1.region[x]
      BY <1>3, <1>7, <2>6, <2>8
    <3>3. /\ hc.size[iter] = n /\ hc.size[m] = h1.size[iter] - n
          /\ hc.region[iter] = h1.region[iter] /\ hc.region[m] = r
          /\ n < h1.size[iter]
      BY <1>3, <1>7, <2>1, <2>3, <2>6, <2>8
    <3>4. Halved(h1, hc, r, F1, U1, iter, n, m) /\ iter \in U1
      BY <2>3, <3>1, <3>2, <3>3 DEF Halved
    <3> HIDE DEF F1, U1
    <3>5. QED
      BY <1>8, <3>4, Cut
  <2>10. /\ HeadsType(h3) /\ Confined(hc, h3, r, F1, m)
         /\ Whole(h3, r, (U1 \cup {m}) \ {m})
    <3>1. PICK V : V = U1 \cup {m}
      OBVIOUS
    <3>2. m \in V
      BY <3>1
    <3> HIDE DEF F1, U1
    <3>3. QED
      BY <2>4, <2>8, <2>9, <3>1, <3>2, InsertOK
  <2>11. PICK F2 : Covers(h3, r, F2, U1) /\ Apart(h3, r, F2)
    <3>1. (U1 \cup {m}) \ {m} = U1
      BY <2>6
    <3>2. QED
      BY <2>10, <3>1 DEF Whole
  <2>12. /\ HeadsType(h2) /\ h2.next[iter] = ALLOCATED
         /\ \A a \in A \ {iter} : h2.next[a] = h3.next[a]
         /\ h2.size = h3.size /\ h2.region = h3.region
    BY <2>5, <2>7, <2>10 DEF HeadsType
  <2>13. iter \notin F2 \cup {r} /\ F2 \cup {r} \subseteq A
    BY <1>3, <2>11, HeaderFacts, ZenonT(40) DEF Covers, Sorted
  <2>14. Covers(h2, r, F2, U1) /\ Apart(h2, r, F2)
    <3>1. \A a \in F2 \cup {r} : h2.next[a] = h3.next[a]
      BY <2>12, <2>13
    <3>2. \A a \in F2 \cup U1 : h2.size[a] = h3.size[a] /\ h2.region[a] = h3.region[a]
      BY <2>12
    <3>3. QED
      BY <2>11, <3>1, <3>2, Frame
  <2>15. \A a \in A \ (F \cup {r, m, iter}) :
           h2.next[a] = h.next[a] /\ h2.size[a] = h.size[a]
    BY <1>7, <2>8, <2>10, <2>12 DEF Confined
  <2>16. \A a \in Headers \ {m} : h2.region[a] = h.region[a]
    BY <2>8, <2>10, <2>12 DEF Confined
  <2>17. h2.size[iter] = n
    BY <1>3, <1>4, <2>6, <2>7, <2>8, <2>10, <2>12 DEF Confined
  <2>18. Kept(h, h2, r, U)
    BY <1>3, <1>4, <2>6, <2>15, <2>16 DEF Kept
  <2>19. QED
    BY <1>4, <1>11, <2>12, <2>14, <2>17, <2>18 DEF Whole, Part, TakenOut
<1>12. QED
  BY <1>10, <1>11

-----------------------------------------------------------------------------
(* The inductive invariant                                                  *)

\* The headers of the blocks that f records as held, in r.
Blocks(f, r) == {p - Node : p \in DOMAIN f} \cap Header(r)

\* The headers h agree with the pointers f that callers hold.
Agree(h, f) ==
  /\ HeadsType(h)
  /\ f \in [DOMAIN f -> Nat]
  /\ \A p \in DOMAIN f : p \in Nat /\ Node <= p /\ p - Node \in Headers
  /\ \A r \in Region : Whole(h, r, Blocks(f, r))
  /\ \A p \in DOMAIN f : /\ h.next[p - Node] = ALLOCATED
                         /\ f[p] + Node <= h.size[p - Node]

MemoryInv == Agree(Heads, held) /\ stale = {}

\* A block is aligned and holds its header and the bytes asked for.
LEMMA BlockSize ==
  ASSUME Disciplined, NEW r \in Region, NEW bytes \in Sizes,
         NEW n, n = block_size(r, bytes)
  PROVE  Aligned(n) /\ 0 < n /\ bytes + Node <= n
<1>1. /\ bytes \in Nat /\ Word \in Nat /\ Word # 0 /\ (bytes + 8) + 8 < Word
      /\ Aligned(min_alloc[r]) /\ min_alloc[r] >= 16 /\ min_alloc[r] \in Nat
  BY TypeAssumption, Bounds DEF Disciplined, Node, MM_ALIGN, Aligned
<1>2. (bytes + 8) % Word = bytes + 8 /\ ((bytes + 8) + 8) % Word = (bytes + 8) + 8
  BY <1>1
<1>3. PICK m : m = Max({bytes + 8, min_alloc[r]})
  OBVIOUS
<1>4. /\ m \in {bytes + 8, min_alloc[r]} /\ bytes + 8 <= m /\ min_alloc[r] <= m
  <2> DEFINE Top(x) == \A y \in {bytes + 8, min_alloc[r]} : x >= y
  <2>1. \E x \in {bytes + 8, min_alloc[r]} : Top(x)
    BY <1>1
  <2>2. m = CHOOSE x \in {bytes + 8, min_alloc[r]} : Top(x)
    BY <1>3 DEF Max
  <2>3. m \in {bytes + 8, min_alloc[r]} /\ Top(m)
    BY <2>1, <2>2, Zenon
  <2>4. QED
    BY <1>1, <2>3
<1>5. n = IF m % MM_ALIGN = 0 THEN m ELSE Down((m + MM_ALIGN) % Word)
  BY <1>2, <1>3 DEF block_size, Node
<1>6. CASE m % MM_ALIGN = 0
  BY <1>1, <1>4, <1>5, <1>6 DEF Aligned, Node
<1>7. CASE m % MM_ALIGN # 0
  <2>1. m = bytes + 8
    BY <1>1, <1>4, <1>7 DEF Aligned
  <2>2. n = Down(m + 8) /\ m + 8 \in Nat
    BY <1>1, <1>2, <1>5, <1>7, <2>1 DEF MM_ALIGN
  <2>3. Aligned(n) /\ m + 8 < n + 8
    BY <2>2, Rounding
  <2>4. QED
    BY <1>1, <2>1, <2>3 DEF Aligned, Node
<1>8. QED
  BY <1>6, <1>7

\* A change inside r keeps the other memories whole.
LEMMA OtherMemories ==
  ASSUME NEW h, NEW h2, NEW r \in Region, NEW V, Kept(h, h2, r, V),
         NEW s \in Region \ {r}, NEW U, Whole(h, s, U)
  PROVE  Whole(h2, s, U)
<1>1. PICK F : Covers(h, s, F, U) /\ Apart(h, s, F)
  BY DEF Whole
<1>2. F \subseteq Header(s) /\ U \subseteq Header(s)
  BY <1>1 DEF Covers, Sorted
<1>3. /\ Header(s) \cap Header(r) = {} /\ Header(s) \subseteq Headers
      /\ s \notin Header(r) /\ s # r /\ r \notin Header(s)
  BY HeaderFacts
<1>4. \A a \in F \cup {s} : h2.next[a] = h.next[a]
  BY <1>2, <1>3 DEF Kept
<1>5. \A a \in F \cup U : h2.size[a] = h.size[a] /\ h2.region[a] = h.region[a]
  BY <1>2, <1>3 DEF Kept
<1>6. QED
  BY <1>1, <1>4, <1>5, Frame DEF Whole

\* The positions in the list of the blocks that are large enough.
Fitting(h, c, n) == {i \in 2 .. Len(c) - 1 : h.size[c[i]] >= n}

\* The first block that fits, and the node before it in the list.
LEMMA FirstFit ==
  ASSUME NEW h, NEW r \in Region, NEW F, Sorted(h, r, F), NEW n,
         NEW c, c = Chain(h, r),
         NEW fit, fit = Fitting(h, c, n), fit # {},
         NEW k, k = Min(fit)
  PROVE  /\ c[k] \in F \ {node_end(r)} /\ h.size[c[k]] >= n
         /\ c[k - 1] \in (F \cup {r}) \ {node_end(r)} /\ h.next[c[k - 1]] = c[k]
<1>1. Lists(c, h, r, F)
  BY ChainFacts
<1>2. PICK m \in Nat : m = Len(c)
  BY <1>1 DEF Lists
<1>3. k \in fit
  <2>1. fit \subseteq Nat
    BY <1>2 DEF Fitting
  <2>2. QED
    BY <2>1, MinFacts
<1>4. k \in 2 .. m - 1 /\ h.size[c[k]] >= n
  BY <1>2, <1>3 DEF Fitting
<1>5. F \subseteq Nat /\ r \notin F /\ node_end(r) \in F
  BY HeaderFacts DEF Sorted
<1>6. ASSUME NEW i \in 2 .. m - 1 PROVE c[i] \in F \ {node_end(r)}
  <2>1. i \in 2 .. m /\ m \in 2 .. m /\ i < m
    BY <1>2
  <2>2. c[i] \in F /\ c[i] < c[m] /\ c[m] = node_end(r)
    BY <1>1, <1>2, <2>1 DEF Lists
  <2>3. c[i] \in Nat /\ node_end(r) \in Nat
    BY <1>5, <2>2
  <2>4. QED
    BY <2>2, <2>3
<1>7. k - 1 \in 1 .. m - 1 /\ (k - 1) + 1 = k
  BY <1>2, <1>4
<1>8. h.next[c[k - 1]] = c[k]
  BY <1>1, <1>2, <1>7 DEF Lists
<1>9. c[k - 1] \in (F \cup {r}) \ {node_end(r)}
  <2>1. CASE k - 1 = 1
    BY <1>1, <1>5, <2>1 DEF Lists
  <2>2. CASE k - 1 # 1
    <3>1. k - 1 \in 2 .. m - 1
      BY <1>2, <1>7, <2>2
    <3>2. QED
      BY <1>6, <3>1
  <2>3. QED
    BY <2>1, <2>2
<1>10. QED
  BY <1>4, <1>6, <1>8, <1>9

\* Headers stay marked and large enough while they are kept.
LEMMA KeptMarks ==
  ASSUME NEW h, NEW h2, NEW f, Agree(h, f), NEW r \in Region, NEW V,
         Kept(h, h2, r, V), NEW p \in DOMAIN f,
         p - Node \in V \/ p - Node \notin Header(r)
  PROVE  h2.next[p - Node] = ALLOCATED /\ f[p] + Node <= h2.size[p - Node]
<1>1. /\ h.next[p - Node] = ALLOCATED /\ f[p] + Node <= h.size[p - Node]
      /\ p - Node \in Headers
  BY DEF Agree
<1>2. p - Node # r
  BY <1>1, HeadersApart
<1>3. QED
  BY <1>1, <1>2 DEF Kept

\* A block of r is handed out.
LEMMA HandedOut ==
  ASSUME NEW h, NEW f, Agree(h, f), NEW r \in Region, NEW U, U = Blocks(f, r),
         NEW h2, HeadsType(h2), Kept(h, h2, r, U), NEW iter \in Header(r) \ U,
         Whole(h2, r, U \cup {iter}), h2.next[iter] = ALLOCATED,
         NEW bytes \in Nat, bytes + Node <= h2.size[iter],
         NEW ptr, ptr = iter + Node,
         NEW f2, f2 = [p \in DOMAIN f \cup {ptr} |-> IF p = ptr THEN bytes ELSE f[p]]
  PROVE  Agree(h2, f2)
<1>1. f \in [DOMAIN f -> Nat] /\ \A p \in DOMAIN f : p \in Nat /\ Node <= p /\ p - Node \in Headers
  BY DEF Agree
<1>2. iter \in Headers /\ iter \in Nat
  BY HeaderFacts
<1>3. ptr \in Nat /\ ptr - Node = iter /\ Node <= ptr
  BY <1>2 DEF Node
<1>4. ptr \notin DOMAIN f
  BY <1>3 DEF Blocks
<1>5. DOMAIN f2 = DOMAIN f \cup {ptr}
  OBVIOUS
<1>6. f2[ptr] = bytes /\ \A p \in DOMAIN f : f2[p] = f[p]
  BY <1>4
<1>7. f2 \in [DOMAIN f2 -> Nat]
  BY <1>1
<1>8. ASSUME NEW p \in DOMAIN f2 PROVE p \in Nat /\ Node <= p /\ p - Node \in Headers
  BY <1>1, <1>2, <1>3, <1>5
<1>9. ASSUME NEW s \in Region PROVE Whole(h2, s, Blocks(f2, s))
  <2>1. CASE s = r
    <3>1. Blocks(f2, r) = U \cup {iter}
      BY <1>3, <1>5 DEF Blocks
    <3>2. QED
      BY <2>1, <3>1
  <2>2. CASE s # r
    <3>1. iter \notin Header(s) /\ s \in Region \ {r}
      BY <2>2, HeaderFacts
    <3>2. Blocks(f2, s) = Blocks(f, s)
      BY <1>3, <1>5, <3>1 DEF Blocks
    <3>3. Whole(h, s, Blocks(f, s))
      BY DEF Agree
    <3>4. QED
      BY <3>1, <3>2, <3>3, OtherMemories
  <2>3. QED
    BY <2>1, <2>2
<1>10. ASSUME NEW p \in DOMAIN f2
       PROVE  h2.next[p - Node] = ALLOCATED /\ f2[p] + Node <= h2.size[p - Node]
  <2>1. CASE p = ptr
    BY <1>3, <1>6, <2>1
  <2>2. CASE p # ptr
    <3>1. p \in DOMAIN f /\ f2[p] = f[p]
      BY <1>5, <1>6, <2>2
    <3>2. p - Node \in U \/ p - Node \notin Header(r)
      BY <3>1 DEF Blocks
    <3>3. h2.next[p - Node] = ALLOCATED /\ f[p] + Node <= h2.size[p - Node]
      BY <3>1, <3>2, KeptMarks
    <3>4. QED
      BY <3>1, <3>3
  <2>3. QED
    BY <2>1, <2>2
<1>11. QED
  BY <1>7, <1>8, <1>9, <1>10 DEF Agree

\* h2 is h with a block of r taken for a request, besides the ones f records.
Taken(h, h2, f, r, iter, bytes) ==
  /\ HeadsType(h2) /\ Kept(h, h2, r, Blocks(f, r)) /\ iter \in Header(r) \ Blocks(f, r)
  /\ Whole(h2, r, Blocks(f, r) \cup {iter}) /\ h2.next[iter] = ALLOCATED
  /\ bytes \in Nat /\ bytes + Node <= h2.size[iter]
  /\ h2.size[iter] = Part(r, block_size(r, bytes), h.size[iter])

\* The block that mm_alloc takes out of the free list.
LEMMA AllocTaken ==
  ASSUME Disciplined, NEW h, NEW f, Agree(h, f), NEW r \in Region, NEW bytes \in Sizes,
         NEW n, n = block_size(r, bytes), NEW c, c = Chain(h, r),
         NEW fit, fit = Fitting(h, c, n), fit # {},
         NEW k, k = Min(fit), NEW h2, h2 = take(h, r, c[k - 1], c[k], n),
         NEW iter, iter = c[k]
  PROVE  Taken(h, h2, f, r, iter, bytes)
<1>0. PICK U : U = Blocks(f, r)
  OBVIOUS
<1>1. HeadsType(h) /\ Whole(h, r, U)
  BY <1>0 DEF Agree
<1>2. PICK F : Covers(h, r, F, U) /\ Apart(h, r, F)
  BY <1>1 DEF Whole
<1>3. PICK prev : iter = c[k] /\ prev = c[k - 1]
  OBVIOUS
<1>4. /\ iter \in F \ {node_end(r)} /\ h.size[iter] >= n
      /\ prev \in (F \cup {r}) \ {node_end(r)} /\ h.next[prev] = iter
  <2>1. Sorted(h, r, F)
    BY <1>2 DEF Covers
  <2>2. QED
    BY <1>3, <2>1, FirstFit
<1>5. Aligned(n) /\ 0 < n /\ bytes + Node <= n /\ bytes \in Nat
  BY BlockSize, TypeAssumption
<1>6. iter \in Header(r) /\ iter \in Headers /\ iter \notin U
  BY <1>2, <1>4, HeaderFacts DEF Covers, Sorted
<1>7. n <= h.size[iter]
  <2>1. h.size[iter] \in Nat /\ n \in Nat
    BY <1>1, <1>5, <1>6 DEF HeadsType, Aligned
  <2>2. QED
    BY <1>4, <2>1
<1>8. h2 = take(h, r, prev, iter, n)
  BY <1>3
<1>9. /\ HeadsType(h2) /\ Kept(h, h2, r, U)
      /\ h2.next[iter] = ALLOCATED /\ n <= h2.size[iter]
      /\ h2.size[iter] = Part(r, n, h.size[iter]) /\ Whole(h2, r, U \cup {iter})
  <2>1. Fits(h, r, F, prev, iter, n)
    BY <1>4, <1>5, <1>7 DEF Fits
  <2>2. TakenOut(h, h2, r, U, iter, n)
    BY <1>1, <1>2, <1>8, <2>1, TakeOK
  <2>3. QED
    BY <2>2 DEF TakenOut
<1>10. bytes + Node <= h2.size[iter]
  <2>1. h2.size[iter] \in Nat /\ n \in Nat /\ bytes + Node \in Nat
    BY <1>5, <1>6, <1>9 DEF HeadsType, Aligned, Node
  <2>2. QED
    BY <1>5, <1>9, <2>1
<1>11. QED
  BY <1>0, <1>5, <1>6, <1>9, <1>10 DEF Taken

\* mm_alloc hands out a block.
LEMMA AllocAgree ==
  ASSUME NEW h, NEW f, Agree(h, f), NEW r \in Region, NEW h2, NEW iter, NEW bytes,
         Taken(h, h2, f, r, iter, bytes), NEW ptr, ptr = iter + Node,
         NEW f2, f2 = [p \in DOMAIN f \cup {ptr} |-> IF p = ptr THEN bytes ELSE f[p]]
  PROVE  Agree(h2, f2)
BY HandedOut DEF Taken

\* A held block names the memory it lies in.
LEMMA HeldRegion ==
  ASSUME NEW h, NEW f, Agree(h, f), NEW p \in DOMAIN f,
         NEW a, a = p - Node, NEW r, r = h.region[a]
  PROVE  r \in Region /\ a \in Blocks(f, r) /\ a \in Header(r)
<1>1. a \in Headers
  BY DEF Agree
<1>2. PICK s \in Region : a \in Header(s)
  BY <1>1 DEF Headers
<1>3. a \in Blocks(f, s)
  BY <1>2 DEF Blocks
<1>4. PICK F : Covers(h, s, F, Blocks(f, s))
  BY DEF Agree, Whole
<1>5. Brick(h, s, F \cup Blocks(f, s), a)
  BY <1>3, <1>4 DEF Covers, Sorted
<1>6. r = s
  BY <1>5 DEF Brick
<1>7. QED
  BY <1>2, <1>3, <1>6

\* h2 is h with the block node of r freed, one of those f records.
Freed(h, h2, f, r, node) ==
  /\ r \in Region /\ node \in Blocks(f, r) /\ HeadsType(h2)
  /\ Kept(h, h2, r, Blocks(f, r) \ {node}) /\ Whole(h2, r, Blocks(f, r) \ {node})

\* mm_free puts a block back into the free list.
LEMMA FreeFreed ==
  ASSUME NEW h, NEW f, Agree(h, f), NEW ptr \in DOMAIN f,
         NEW node, node = ptr - Node, NEW r, r = h.region[node],
         NEW h2, h2 = mm_list_insert(h, node, r)
  PROVE  Freed(h, h2, f, r, node)
<1>0. PICK U : U = Blocks(f, r)
  OBVIOUS
<1>1. HeadsType(h)
  BY DEF Agree
<1>2. r \in Region /\ node \in U /\ node \in Header(r)
  BY <1>0, HeldRegion
<1>3. PICK F : Covers(h, r, F, U) /\ Apart(h, r, F)
  BY <1>0, <1>2 DEF Agree, Whole
<1>4. HeadsType(h2) /\ Confined(h, h2, r, F, node) /\ Whole(h2, r, U \ {node})
  BY <1>1, <1>2, <1>3, InsertOK
<1>5. Kept(h, h2, r, U \ {node})
  <2>1. /\ F \subseteq Header(r) /\ U \subseteq Header(r) /\ F \cap U = {} /\ r \notin Headers
        /\ Header(r) \subseteq Headers
    BY <1>2, <1>3, HeaderFacts DEF Covers, Sorted
  <2>2. QED
    BY <1>2, <1>4, <2>1 DEF Confined, Kept
<1>6. QED
  BY <1>0, <1>2, <1>4, <1>5 DEF Freed

\* mm_free takes a block back.
LEMMA FreeAgree ==
  ASSUME NEW h, NEW f, Agree(h, f), NEW ptr \in DOMAIN f,
         NEW node, node = ptr - Node, NEW r, NEW h2, Freed(h, h2, f, r, node),
         NEW f2, f2 = [p \in DOMAIN f \ {ptr} |-> f[p]]
  PROVE  Agree(h2, f2)
<1>0. PICK U : U = Blocks(f, r)
  OBVIOUS
<1>1. f \in [DOMAIN f -> Nat]
  BY DEF Agree
<1>2. r \in Region /\ node \in U /\ node \in Header(r)
  BY <1>0 DEF Freed, Blocks
<1>4. HeadsType(h2) /\ Whole(h2, r, U \ {node})
  BY <1>0 DEF Freed
<1>5. PICK V : V = U \ {node}
  OBVIOUS
<1>5a. Kept(h, h2, r, V)
  BY <1>0, <1>5 DEF Freed
<1>6. DOMAIN f2 = DOMAIN f \ {ptr} /\ f2 \in [DOMAIN f2 -> Nat] /\ \A p \in DOMAIN f2 : f2[p] = f[p]
  BY <1>1
<1>7. \A p \in DOMAIN f : p \in Nat /\ Node <= p /\ p - Node \in Headers
  BY DEF Agree
<1>8. \A p \in DOMAIN f : p - Node = node => p = ptr
  BY <1>7 DEF Node
<1>9. {p - Node : p \in DOMAIN f2} = {p - Node : p \in DOMAIN f} \ {node}
  BY <1>6, <1>8
<1>10. ASSUME NEW s \in Region PROVE Whole(h2, s, Blocks(f2, s))
  <2>1. CASE s = r
    <3>1. Blocks(f2, r) = U \ {node}
      BY <1>0, <1>9 DEF Blocks
    <3>2. QED
      BY <1>4, <2>1, <3>1
  <2>2. CASE s # r
    <3>1. node \notin Header(s) /\ s \in Region \ {r}
      BY <1>2, <2>2, HeaderFacts
    <3>2. Blocks(f2, s) = Blocks(f, s)
      BY <1>9, <3>1 DEF Blocks
    <3>3. Whole(h, s, Blocks(f, s))
      BY DEF Agree
    <3>4. QED
      BY <1>2, <1>5a, <3>1, <3>2, <3>3, OtherMemories
  <2>3. QED
    BY <2>1, <2>2
<1>11. ASSUME NEW p \in DOMAIN f2
       PROVE  h2.next[p - Node] = ALLOCATED /\ f2[p] + Node <= h2.size[p - Node]
  <2>1. p \in DOMAIN f /\ p # ptr /\ f2[p] = f[p]
    BY <1>6
  <2>2. p - Node \in V \/ p - Node \notin Header(r)
    BY <1>0, <1>5, <1>8, <2>1 DEF Blocks
  <2>3. h2.next[p - Node] = ALLOCATED /\ f[p] + Node <= h2.size[p - Node]
    <3>1. PICK a : a = p - Node
      OBVIOUS
    <3>2. h.next[a] = ALLOCATED /\ f[p] + Node <= h.size[a] /\ a \in Headers
      BY <2>1, <3>1 DEF Agree
    <3>3. h2.next[a] = h.next[a] /\ h2.size[a] = h.size[a]
      BY <1>2, <1>5a, <2>2, <3>1, <3>2, HeadersApart DEF Kept
    <3>4. QED
      BY <3>1, <3>2, <3>3
  <2>4. QED
    BY <2>1, <2>3
<1>12. QED
  BY <1>4, <1>6, <1>7, <1>10, <1>11 DEF Agree

\* mm_init makes each memory one free block.
LEMMA InitAgree ==
  ASSUME Init
  PROVE  MemoryInv
<1> DEFINE A == Headers \cup Region
           Own(a) == CHOOSE s \in Region : a = node_start(s)
<1>1. \A r \in Region : r \notin Headers
  BY HeadersApart
<1>2. ASSUME NEW r \in Region, NEW s \in Region, node_start(r) = node_start(s) PROVE r = s
  BY <1>2, HeaderFacts
<1>3. ASSUME NEW r \in Region PROVE Own(node_start(r)) = r
  <2>1. Own(node_start(r)) \in Region /\ node_start(r) = node_start(Own(node_start(r)))
    OBVIOUS
  <2> HIDE DEF Own
  <2>2. QED
    BY <1>2, <2>1
<1> HIDE DEF Own
<1>4. /\ next = [a \in A |-> IF a \in Region THEN node_start(a)
                             ELSE IF \E r \in Region : a = node_start(r)
                                  THEN node_end(Own(a)) ELSE NULL]
      /\ size = [a \in A |-> IF \E r \in Region : a = node_start(r)
                             THEN total(Own(a)) ELSE 0]
      /\ region = [a \in Headers |-> IF \E r \in Region : a = node_start(r)
                                     THEN Own(a) ELSE NULL]
  BY DEF Init, Own
<1>5. ASSUME NEW r \in Region
      PROVE  /\ node_start(r) \in Headers /\ node_end(r) \in Headers
             /\ node_start(r) \notin Region /\ node_end(r) \notin Region
             /\ node_start(r) \in Header(r) /\ node_end(r) \in Header(r)
             /\ node_start(r) \in Nat /\ node_end(r) \in Nat /\ node_start(r) < node_end(r)
             /\ Aligned(total(r)) /\ 0 < total(r) /\ node_start(r) + total(r) = node_end(r)
  <2>1. /\ node_start(r) \in Headers /\ node_end(r) \in Headers
        /\ node_start(r) \in Header(r) /\ node_end(r) \in Header(r)
    BY HeaderFacts
  <2>2. Aligned(node_start(r)) /\ Aligned(node_end(r)) /\ node_start(r) < node_end(r)
    BY Bounds
  <2>3. node_start(r) \in Nat /\ node_end(r) \in Nat /\ node_start(r) <= node_end(r)
    BY <2>2 DEF Aligned
  <2>4. Aligned(total(r))
    BY <2>2, <2>3, AlignedSum DEF total
  <2>5. QED
    BY <2>1, <2>2, <2>3, <2>4, HeadersApart DEF total
<1>6. ASSUME NEW r \in Region
      PROVE  /\ next[r] = node_start(r) /\ next[node_start(r)] = node_end(r)
             /\ size[node_start(r)] = total(r) /\ region[node_start(r)] = r
    BY <1>3, <1>4, <1>5
<1>7. ASSUME NEW r \in Region PROVE next[node_end(r)] = NULL
  <2>1. ASSUME NEW s \in Region PROVE node_end(r) # node_start(s)
    <3>1. CASE s = r
      BY <1>5, <3>1
    <3>2. CASE s # r
      BY <1>5, <3>2, HeaderFacts
    <3>3. QED
      BY <3>1, <3>2
  <2>2. QED
    BY <1>4, <1>5, <2>1
<1>8. HeadsType(Heads)
  <2>1. ASSUME NEW a \in A, \E r \in Region : a = node_start(r)
        PROVE  Own(a) \in Region
    BY <1>3, <2>1
  <2>2. next \in [A -> Headers \cup {NULL, ALLOCATED}]
    <3>1. ASSUME NEW a \in A PROVE next[a] \in Headers \cup {NULL, ALLOCATED}
      BY <1>4, <1>5, <2>1
    <3>2. QED
      BY <1>4, <3>1
  <2>3. size \in [A -> Nat]
    <3>1. ASSUME NEW a \in A PROVE size[a] \in Nat
      BY <1>4, <1>5, <2>1 DEF Aligned
    <3>2. QED
      BY <1>4, <3>1
  <2>4. region \in [Headers -> Region \cup {NULL}]
    <3>1. ASSUME NEW a \in Headers PROVE region[a] \in Region \cup {NULL}
      BY <1>4, <2>1
    <3>2. QED
      BY <1>4, <3>1
  <2>5. QED
    BY <2>2, <2>3, <2>4 DEF Heads, HeadsType
<1>9. held = [p \in {} |-> 0] /\ DOMAIN held = {} /\ stale = {}
  BY DEF Init
<1>10. ASSUME NEW r \in Region PROVE Whole(Heads, r, Blocks(held, r))
  <2> DEFINE F == {node_start(r), node_end(r)}
  <2>1. Blocks(held, r) = {}
    BY <1>9 DEF Blocks
  <2>2. Heads.next = next /\ Heads.size = size /\ Heads.region = region
    BY DEF Heads
  <2>3. Sorted(Heads, r, F)
    BY <1>5, <1>6, <1>7, <2>2 DEF Sorted, Follows
  <2>4. Brick(Heads, r, F, node_start(r))
    BY <1>5, <1>6, <2>2 DEF Brick
  <2>5. Covers(Heads, r, F, {})
    <3>1. F \cup {} = F
      OBVIOUS
    <3>2. QED
      BY <2>3, <2>4, <3>1 DEF Covers
  <2>6. Apart(Heads, r, F)
    BY <1>5, <1>6, <2>2 DEF Apart
  <2> HIDE DEF F
  <2>7. QED
    BY <2>1, <2>5, <2>6 DEF Whole
<1>11. QED
  BY <1>8, <1>9, <1>10 DEF MemoryInv, Agree

\* Every step of the allocator keeps the invariant.
LEMMA StepAgree ==
  ASSUME Disciplined, MemoryInv, [Next]_vars
  PROVE  MemoryInv'
<1>1. Agree(Heads, held) /\ stale = {}
  BY DEF MemoryInv
<1>2. Heads.next = next /\ Heads.size = size /\ Heads.region = region
  BY DEF Heads
<1>3. SUFFICES ASSUME NEW h2, h2 = [next |-> next', size |-> size', region |-> region']
               PROVE  Agree(h2, held') /\ stale' = {}
  BY DEF MemoryInv, Heads
<1>4. ASSUME UNCHANGED <<next, size, region, held, stale>>
      PROVE  Agree(h2, held') /\ stale' = {}
  <2>1. h2 = Heads
    BY <1>3, <1>4 DEF Heads
  <2>2. QED
    BY <1>1, <1>4, <2>1
<1>5. ASSUME NEW r \in Region, NEW bytes \in Sizes, mm_alloc(r, bytes)
      PROVE  Agree(h2, held') /\ stale' = {}
  <2>1. PICK n, c : n = block_size(r, bytes) /\ c = Chain(Heads, r)
    OBVIOUS
  <2>2. PICK fit : fit = Fitting(Heads, c, n)
    OBVIOUS
  <2>3. fit = {i \in 2 .. Len(c) - 1 : size[c[i]] >= n}
    BY <1>2, <2>2 DEF Fitting
  <2>4. PICK k : k = Min(fit)
    OBVIOUS
  <2>5. PICK h : h = take(Heads, r, c[k - 1], c[k], n)
    OBVIOUS
  <2>6. \/ UNCHANGED <<next, size, region, held, stale>>
        \/ /\ fit # {} /\ Becomes(h)
           /\ held' = [p \in DOMAIN held \cup {c[k] + Node} |->
                         IF p = c[k] + Node THEN bytes ELSE held[p]]
           /\ stale' = stale \ {c[k] + Node}
    BY <1>5, <2>1, <2>3, <2>4, <2>5 DEF mm_alloc
  <2>7. CASE fit # {} /\ Becomes(h)
           /\ held' = [p \in DOMAIN held \cup {c[k] + Node} |->
                         IF p = c[k] + Node THEN bytes ELSE held[p]]
           /\ stale' = stale \ {c[k] + Node}
    <3>1. PICK iter : iter = c[k]
      OBVIOUS
    <3>2. Taken(Heads, h, held, r, iter, bytes)
      BY <1>1, <2>1, <2>2, <2>4, <2>5, <2>7, <3>1, AllocTaken
    <3>3. Agree(h, held')
      BY <1>1, <2>7, <3>1, <3>2, AllocAgree
    <3>4. h2 = h
      BY <1>3, <2>7, <3>3 DEF Agree, HeadsType, Becomes
    <3>5. QED
      BY <1>1, <2>7, <3>3, <3>4
  <2>8. QED
    BY <1>4, <2>6, <2>7
<1>6. ASSUME NEW ptr \in DOMAIN held \cup stale \cup {NULL}, mm_free(ptr)
      PROVE  Agree(h2, held') /\ stale' = {}
  <2>1. CASE ~accepted(ptr)
    BY <1>4, <1>6, <2>1 DEF mm_free
  <2>2. CASE accepted(ptr)
    <3>1. ptr \in DOMAIN held
      BY <1>1, <1>6, <2>2 DEF accepted
    <3>2. PICK node : node = ptr - Node
      OBVIOUS
    <3>3. PICK r : r = region[node]
      OBVIOUS
    <3>4. PICK h : h = mm_list_insert(Heads, node, r)
      OBVIOUS
    <3>5. /\ Becomes(h) /\ held' = [p \in DOMAIN held \ {ptr} |-> held[p]]
          /\ stale' = IF Careless THEN stale \cup {ptr} ELSE {}
      BY <1>6, <2>2, <3>2, <3>3, <3>4 DEF mm_free
    <3>6. Agree(h, held')
      <4>1. Freed(Heads, h, held, r, node)
        BY <1>1, <1>2, <3>1, <3>2, <3>3, <3>4, FreeFreed
      <4>2. QED
        BY <1>1, <3>1, <3>2, <3>5, <4>1, FreeAgree
    <3>7. h2 = h
      BY <1>3, <3>5, <3>6 DEF Agree, HeadsType, Becomes
    <3>8. QED
      BY <3>5, <3>6, <3>7 DEF Disciplined
  <2>3. QED
    BY <2>1, <2>2
<1>7. CASE UNCHANGED vars
  BY <1>4, <1>7 DEF vars
<1>8. QED
  BY <1>5, <1>6, <1>7 DEF Next

-----------------------------------------------------------------------------
(* The theorems                                                             *)

\* The free list of every memory is sorted, ends at the last node and has no two
\* blocks that touch; with the held blocks it covers the memory; held blocks are
\* marked and large enough: after every sequence of mm_alloc and mm_free.
THEOREM MemoryInvariant ==
  ASSUME Disciplined
  PROVE  Spec => []MemoryInv
<1>1. Init => MemoryInv
  BY InitAgree
<1>2. MemoryInv /\ [Next]_vars => MemoryInv'
  BY StepAgree
<1>3. QED
  BY <1>1, <1>2, PTL DEF Spec

\* What the invariant says of the chain that mm_alloc walks along.
LEMMA TilingFollows == MemoryInv => Tiling
<1>1. SUFFICES ASSUME MemoryInv, NEW r \in Region
      PROVE  LET blocks == FreeBlocks(r) \cup HeldBlocks(r)
                 c == Chain(Heads, r)
             IN  /\ FreeBlocks(r) \cap HeldBlocks(r) = {}
                 /\ node_start(r) \in blocks
                 /\ \A a \in blocks :
                      /\ size[a] > 0 /\ a + size[a] \in blocks \cup {node_end(r)}
                      /\ \A b \in blocks : b > a => b >= a + size[a]
                 /\ c[Len(c)] = node_end(r)
                 /\ \A i \in 2 .. Len(c) - 2 : c[i] + size[c[i]] < c[i + 1]
  BY DEF Tiling
<1>2. PICK U : U = HeldBlocks(r)
  OBVIOUS
<1>3. PICK F : Covers(Heads, r, F, U) /\ Apart(Heads, r, F)
  BY <1>1, <1>2 DEF MemoryInv, Agree, Whole, Blocks, HeldBlocks
<1>4. PICK c : c = Chain(Heads, r)
  OBVIOUS
<1>5. Lists(c, Heads, r, F)
  BY <1>3, <1>4, ChainFacts DEF Covers
<1>6. PICK m \in Nat : m = Len(c)
  BY <1>5 DEF Lists
<1>7. /\ c[m] = node_end(r) /\ 2 <= m
      /\ \A i \in 2 .. m : c[i] \in F
      /\ \A i, j \in 2 .. m : i < j => c[i] < c[j]
      /\ \A a \in F : \E i \in 2 .. m : c[i] = a
  BY <1>5, <1>6 DEF Lists
<1>8. /\ F \subseteq Nat /\ U \subseteq Nat /\ F \cap U = {} /\ node_end(r) \in F
      /\ node_start(r) \in F \cup U /\ node_start(r) # node_end(r)
      /\ node_end(r) \in Nat
  BY <1>3, HeaderFacts, Bounds DEF Covers, Sorted, Aligned
<1>9. ASSUME NEW a \in (F \cup U) \ {node_end(r)}
      PROVE  /\ size[a] \in Nat /\ 0 < size[a] /\ a + size[a] \in F \cup U
             /\ \A b \in F \cup U : a < b => a + size[a] <= b
  BY <1>3 DEF Covers, Brick, Heads, Aligned
<1>10. ASSUME NEW i \in 2 .. m - 1 PROVE c[i] \in F \ {node_end(r)}
  <2>1. i \in 2 .. m /\ m \in 2 .. m /\ i < m
    BY <1>6, <1>7
  <2>2. c[i] \in F /\ c[i] < node_end(r)
    BY <1>7, <2>1
  <2>3. c[i] \in Nat
    BY <1>8, <2>2
  <2>4. QED
    BY <1>8, <2>2, <2>3
<1>11. FreeBlocks(r) = F \ {node_end(r)}
  <2>1. FreeBlocks(r) = {c[i] : i \in 2 .. m - 1}
    BY <1>4, <1>6 DEF FreeBlocks
  <2>2. ASSUME NEW a \in F \ {node_end(r)} PROVE \E i \in 2 .. m - 1 : a = c[i]
    <3>1. PICK i \in 2 .. m : c[i] = a
      BY <1>7
    <3>2. i # m
      BY <1>7, <3>1
    <3>3. i \in 2 .. m - 1
      BY <1>6, <3>1, <3>2
    <3>4. QED
      BY <3>1, <3>3
  <2>3. QED
    BY <1>10, <2>1, <2>2
<1>12. PICK B : B = FreeBlocks(r) \cup HeldBlocks(r)
  OBVIOUS
<1>13. B = (F \cup U) \ {node_end(r)} /\ FreeBlocks(r) \cap HeldBlocks(r) = {}
  BY <1>2, <1>8, <1>11, <1>12
<1>14. ASSUME NEW a \in B
       PROVE  /\ size[a] > 0 /\ a + size[a] \in B \cup {node_end(r)}
              /\ \A b \in B : b > a => b >= a + size[a]
  <2>1. a \in Nat /\ B \subseteq Nat
    BY <1>8, <1>13
  <2>2. size[a] \in Nat /\ 0 < size[a] /\ a + size[a] \in F \cup U
    BY <1>9, <1>13
  <2>3. ASSUME NEW b \in B, b > a PROVE b >= a + size[a]
    <3>1. b \in Nat /\ a < b
      BY <2>1, <2>3
    <3>2. a + size[a] <= b
      BY <1>9, <1>13, <3>1
    <3>3. QED
      BY <2>1, <2>2, <3>1, <3>2
  <2>4. QED
    BY <1>13, <2>2, <2>3
<1>15. ASSUME NEW i \in 2 .. m - 2 PROVE c[i] + size[c[i]] < c[i + 1]
  <2>1. i \in 2 .. m - 1 /\ i + 1 \in 2 .. m - 1 /\ i \in 2 .. m /\ i + 1 \in 2 .. m /\ i < i + 1
    BY <1>6
  <2>2. c[i] \in F \ {node_end(r)} /\ c[i + 1] \in F \ {node_end(r)} /\ c[i] < c[i + 1]
    BY <1>7, <1>10, <2>1
  <2>3. c[i] + size[c[i]] <= c[i + 1] /\ size[c[i]] \in Nat
    BY <1>9, <2>2
  <2>4. c[i] + size[c[i]] # c[i + 1]
    BY <1>3, <2>2 DEF Apart, Heads
  <2>5. c[i] \in Nat /\ c[i + 1] \in Nat
    BY <1>8, <2>2
  <2>6. QED
    BY <2>3, <2>4, <2>5
<1>16. node_start(r) \in B
  BY <1>8, <1>13
<1>17. QED
  BY <1>4, <1>6, <1>7, <1>12, <1>13, <1>14, <1>15, <1>16

-----------------------------------------------------------------------------
(* The count of allocated bytes                                             *)

\* The taken blocks of a memory do not outgrow it.
LEMMA TakenBound ==
  ASSUME NEW h, NEW r \in Region, NEW F, NEW U, Covers(h, r, F, U)
  PROVE  /\ IsFiniteSet(U) /\ \A a \in U : h.size[a] \in Nat
         /\ SumOver(h.size, U) <= total(r)
<1>1. /\ F \subseteq Nat /\ U \subseteq Nat /\ F \cap U = {} /\ node_end(r) \in F
      /\ node_start(r) \in F \cup U /\ U \subseteq Header(r) /\ F \subseteq Header(r)
      /\ node_start(r) \in Nat /\ node_end(r) \in Nat
  BY HeaderFacts, Bounds DEF Covers, Sorted, Aligned
<1>2. IsFiniteSet(U)
  BY <1>1, HeaderFacts, FS_Subset
<1>3. \A a \in U : h.size[a] \in Nat
  BY <1>1 DEF Covers, Brick, Aligned
<1> DEFINE B == F \cup U
           Below(x) == {a \in U : a < x}
           Fine(x) == SumOver(h.size, Below(x)) <= x - node_start(r)
           Bad == {x \in B : ~Fine(x)}
<1>4. ASSUME NEW x PROVE IsFiniteSet(Below(x)) /\ SumOver(h.size, Below(x)) \in Nat
  <2>1. Below(x) \in SUBSET U
    OBVIOUS
  <2>2. IsFiniteSet(Below(x)) /\ \A a \in Below(x) : h.size[a] \in Nat
    BY <1>2, <1>3, <2>1, FS_Subset
  <2> HIDE DEF Below
  <2>3. QED
    BY <2>2, SumFacts
<1>5. \A x \in B : x \in Nat /\ node_start(r) <= x /\ x <= node_end(r)
  BY <1>1, HeaderFacts
<1>6. Bad = {}
  <2>1. SUFFICES ASSUME Bad # {} PROVE FALSE
    OBVIOUS
  <2>2. PICK x \in Bad : \A y \in Bad : x <= y
    <3>1. Bad \in SUBSET Nat
      BY <1>1
    <3>2. QED
      BY <2>1, <3>1, LeastNatural
  <2>3. x \in B /\ x \in Nat /\ ~Fine(x) /\ node_start(r) <= x
    BY <1>5, <2>2
  <2>4. x # node_start(r)
    <3>1. ASSUME x = node_start(r) PROVE FALSE
      <4>1. Below(x) = {}
        <5>1. ASSUME NEW a \in U PROVE ~(a < x)
          <6>1. a \in Nat /\ node_start(r) <= a
            BY <1>5
          <6>2. QED
            BY <1>1, <3>1, <6>1
        <5>2. QED
          BY <5>1
      <4>2. SumOver(h.size, {}) = 0
        BY <1>2, <1>3, SumFacts
      <4>3. SumOver(h.size, Below(x)) = 0
        BY <4>1, <4>2
      <4>4. QED
        BY <1>1, <2>3, <3>1, <4>3
    <3>2. QED
      BY <3>1
  <2>5. PICK y \in B : y < x /\ \A z \in B : z < x => z <= y
    <3> DEFINE G == {d \in Nat : \E z \in B : z < x /\ d = x - z}
    <3>1. G # {}
      <4>1. node_start(r) < x /\ x - node_start(r) \in Nat
        BY <1>1, <2>3, <2>4
      <4>2. QED
        BY <1>1, <4>1
    <3>2. PICK d \in G : \A e \in G : d <= e
      BY <3>1, LeastNatural
    <3>3. PICK y \in B : y < x /\ d = x - y
      BY <3>2
    <3>4. ASSUME NEW z \in B, z < x PROVE z <= y
      <4>1. z \in Nat /\ y \in Nat /\ x - z \in Nat
        BY <1>5, <2>3, <3>3, <3>4
      <4>2. x - z \in G
        BY <3>4, <4>1
      <4>3. x - y <= x - z
        BY <3>2, <3>3, <4>2
      <4>4. QED
        BY <2>3, <4>1, <4>3
    <3>5. QED
      BY <3>3, <3>4
  <2>6. y \in Nat /\ y # node_end(r) /\ node_start(r) <= y
    BY <1>1, <1>5, <2>3, <2>5
  <2>7. /\ h.size[y] \in Nat /\ 0 < h.size[y] /\ y + h.size[y] \in B
        /\ y + h.size[y] <= x
    BY <2>3, <2>5, <2>6 DEF Covers, Brick, Aligned
  <2>8. y + h.size[y] = x
    <3>1. y + h.size[y] < x => y + h.size[y] <= y
      BY <2>5, <2>7
    <3>2. QED
      BY <2>3, <2>6, <2>7, <3>1
  <2>9. Fine(y)
    <3>1. ~(x <= y)
      BY <2>3, <2>5, <2>6
    <3>2. QED
      BY <2>2, <2>5, <3>1
  <2>10. PICK v : v = SumOver(h.size, Below(y))
    OBVIOUS
  <2>11. v \in Nat /\ v <= y - node_start(r)
    BY <1>4, <2>9, <2>10
  <2>12. CASE y \in U
    <3>1. Below(x) \ {y} = Below(y) /\ y \in Below(x)
      <4>1. ASSUME NEW a \in U PROVE a < x /\ a # y <=> a < y
        <5>1. a \in Nat /\ (a < x => a <= y)
          BY <1>1, <2>5
        <5>2. QED
          BY <2>3, <2>5, <2>6, <5>1
      <4>2. QED
        BY <2>5, <2>6, <2>12, <4>1
    <3>2. PICK T : T = Below(x)
      OBVIOUS
    <3>3. SumOver(h.size, T) = h.size[y] + SumOver(h.size, T \ {y})
      <4>1. IsFiniteSet(T) /\ y \in T /\ \A a \in T : h.size[a] \in Nat
        BY <1>3, <1>4, <3>1, <3>2
      <4>2. QED
        BY <4>1, SumFacts
    <3>4. SumOver(h.size, Below(x)) = h.size[y] + v
      BY <2>10, <3>1, <3>2, <3>3
    <3>5. QED
      BY <1>1, <2>3, <2>6, <2>7, <2>8, <2>11, <3>4
  <2>13. CASE y \notin U
    <3>1. Below(x) = Below(y)
      <4>1. ASSUME NEW a \in U PROVE a < x <=> a < y
        <5>1. a \in Nat /\ (a < x => a <= y) /\ a # y
          BY <1>1, <2>5, <2>13
        <5>2. QED
          BY <2>3, <2>5, <2>6, <5>1
      <4>2. QED
        BY <4>1
    <3>2. SumOver(h.size, Below(x)) = v
      BY <2>10, <3>1
    <3>3. QED
      BY <1>1, <2>3, <2>5, <2>6, <2>11, <3>2
  <2>14. QED
    BY <2>12, <2>13
<1>7. Fine(node_end(r))
  BY <1>1, <1>6
<1>8. Below(node_end(r)) = U
  <2>1. ASSUME NEW a \in U PROVE a < node_end(r)
    <3>1. a \in Nat /\ a <= node_end(r) /\ a # node_end(r)
      BY <1>1, <1>5
    <3>2. QED
      BY <1>1, <3>1
  <2>2. QED
    BY <2>1
<1>9. SumOver(h.size, U) <= total(r)
  BY <1>7, <1>8 DEF total
<1>10. QED
  BY <1>2, <1>3, <1>9

\* al counts the bytes of the blocks that f records.
Counted(h, f, al) ==
  /\ al \in [Region -> Nat]
  /\ \A r \in Region : al[r] = SumOver(h.size, Blocks(f, r))

\* The blocks of a memory are finitely many, of some size each.
LEMMA BlocksFinite ==
  ASSUME NEW h, HeadsType(h), NEW f, NEW r \in Region
  PROVE  IsFiniteSet(Blocks(f, r)) /\ \A a \in Header(r) : h.size[a] \in Nat
<1>1. Blocks(f, r) \in SUBSET Header(r) /\ IsFiniteSet(Header(r)) /\ Header(r) \subseteq Headers
  BY HeaderFacts DEF Blocks
<1>2. IsFiniteSet(Blocks(f, r))
  BY <1>1, FS_Subset
<1>3. QED
  BY <1>1, <1>2 DEF HeadsType

\* A change inside r does not change the sum of another memory.
LEMMA OtherSums ==
  ASSUME NEW h, HeadsType(h), NEW h2, NEW r \in Region, NEW V, Kept(h, h2, r, V),
         NEW f, NEW s \in Region \ {r}
  PROVE  SumOver(h2.size, Blocks(f, s)) = SumOver(h.size, Blocks(f, s))
<1>1. IsFiniteSet(Blocks(f, s))
  BY BlocksFinite
<1>2. ASSUME NEW a \in Blocks(f, s) PROVE h2.size[a] = h.size[a]
  <2>1. a \in Headers /\ a \notin Header(r) /\ a # r
    BY HeaderFacts DEF Blocks
  <2>2. QED
    BY <2>1 DEF Kept
<1>3. QED
  BY <1>1, <1>2, SumSame

\* mm_alloc adds the size of the block it hands out.
LEMMA AllocCounted ==
  ASSUME NEW h, NEW f, Agree(h, f), NEW al, Counted(h, f, al), NEW r \in Region,
         NEW h2, NEW iter, NEW bytes, Taken(h, h2, f, r, iter, bytes),
         NEW ptr, ptr = iter + Node, NEW f2, DOMAIN f2 = DOMAIN f \cup {ptr},
         NEW al2, al2 = [al EXCEPT ![r] = @ + h2.size[iter]]
  PROVE  Counted(h2, f2, al2)
<1>0. PICK U : U = Blocks(f, r)
  OBVIOUS
<1>1. HeadsType(h) /\ HeadsType(h2) /\ Kept(h, h2, r, U) /\ iter \in Header(r) \ U
  BY <1>0 DEF Agree, Taken
<1>2. iter \in Nat /\ ptr - Node = iter
  <2>1. iter \in Nat
    BY <1>1, HeaderFacts
  <2>2. QED
    BY <2>1 DEF Node
<1>3. {p - Node : p \in DOMAIN f2} = {p - Node : p \in DOMAIN f} \cup {iter}
  BY <1>2
<1>4. /\ IsFiniteSet(U) /\ \A a \in Header(r) : h2.size[a] \in Nat
      /\ U \subseteq Header(r)
  BY <1>0, <1>1, BlocksFinite DEF Blocks
<1>5. al \in [Region -> Nat] /\ al[r] = SumOver(h.size, U)
  BY <1>0 DEF Counted
<1>6. al2 \in [Region -> Nat] /\ al2[r] = al[r] + h2.size[iter]
      /\ \A s \in Region \ {r} : al2[s] = al[s]
  BY <1>1, <1>4, <1>5
<1>7. al2[r] = SumOver(h2.size, Blocks(f2, r))
  <2>1. Blocks(f2, r) = U \cup {iter}
    BY <1>0, <1>1, <1>3 DEF Blocks
  <2>2. PICK T : T = U \cup {iter}
    OBVIOUS
  <2>3. IsFiniteSet(T) /\ iter \in T /\ T \ {iter} = U /\ \A a \in T : h2.size[a] \in Nat
    BY <1>1, <1>4, <2>2, FS_AddElement
  <2>4. SumOver(h2.size, T) = h2.size[iter] + SumOver(h2.size, T \ {iter})
    BY <2>3, SumFacts
  <2>5. SumOver(h2.size, U) = SumOver(h.size, U)
    <3>1. \A a \in U : h2.size[a] = h.size[a]
      BY <1>1 DEF Kept
    <3>2. QED
      BY <1>4, <3>1, SumSame
  <2>6. h2.size[iter] \in Nat /\ al[r] \in Nat
    BY <1>1, <1>4, <1>5
  <2>7. al2[r] = h2.size[iter] + SumOver(h2.size, U)
    BY <1>5, <1>6, <2>5, <2>6
  <2>8. QED
    BY <2>1, <2>2, <2>3, <2>4, <2>7
<1>8. ASSUME NEW s \in Region \ {r} PROVE al2[s] = SumOver(h2.size, Blocks(f2, s))
  <2>1. iter \notin Header(s)
    BY <1>1, HeaderFacts
  <2>2. Blocks(f2, s) = Blocks(f, s)
    BY <1>3, <2>1 DEF Blocks
  <2>3. SumOver(h2.size, Blocks(f, s)) = SumOver(h.size, Blocks(f, s))
    BY <1>1, OtherSums
  <2>4. al[s] = SumOver(h.size, Blocks(f, s))
    BY DEF Counted
  <2>5. QED
    BY <1>6, <2>2, <2>3, <2>4
<1>9. QED
  BY <1>6, <1>7, <1>8 DEF Counted

\* mm_free takes the size of the block off, and the count does not wrap around.
LEMMA FreeCounted ==
  ASSUME NEW h, NEW f, Agree(h, f), NEW al, Counted(h, f, al), NEW ptr \in DOMAIN f,
         NEW node, node = ptr - Node, NEW r, NEW h2, Freed(h, h2, f, r, node),
         NEW f2, DOMAIN f2 = DOMAIN f \ {ptr},
         NEW al2, al2 = [al EXCEPT ![r] = (@ + Word - h.size[node]) % Word]
  PROVE  Counted(h2, f2, al2)
<1>0. PICK U : U = Blocks(f, r)
  OBVIOUS
<1>1. /\ HeadsType(h) /\ HeadsType(h2) /\ Kept(h, h2, r, U \ {node}) /\ node \in U
      /\ r \in Region /\ node \in Header(r)
  BY <1>0 DEF Agree, Freed, Blocks
<1>2. \A p \in DOMAIN f : p \in Nat /\ Node <= p
  BY DEF Agree
<1>3. \A p \in DOMAIN f : p - Node = node => p = ptr
  BY <1>2 DEF Node
<1>4. {p - Node : p \in DOMAIN f2} = {p - Node : p \in DOMAIN f} \ {node}
  BY <1>3
<1>5. PICK F : Covers(h, r, F, U)
  BY <1>0, <1>1 DEF Agree, Whole
<1>6. /\ IsFiniteSet(U) /\ \A a \in U : h.size[a] \in Nat
      /\ SumOver(h.size, U) <= total(r)
  BY <1>1, <1>5, TakenBound
<1>7. PICK v : v = SumOver(h.size, U \ {node})
  OBVIOUS
<1>8. SumOver(h.size, U) = h.size[node] + v
  <2>1. \A x \in U : SumOver(h.size, U) = h.size[x] + SumOver(h.size, U \ {x})
    BY <1>6, SumFacts
  <2>2. QED
    BY <1>1, <1>7, <2>1
<1>9. v \in Nat /\ IsFiniteSet(U \ {node})
  <2>1. IsFiniteSet(U \ {node}) /\ \A a \in U \ {node} : h.size[a] \in Nat
    BY <1>6, FS_Subset
  <2>2. PICK T : T = U \ {node}
    OBVIOUS
  <2>3. QED
    BY <1>7, <2>1, <2>2, SumFacts
<1>10. h.size[node] \in Nat /\ h.size[node] + v < Word /\ Word \in Nat
  <2>1. node_start(r) \in Nat /\ node_end(r) \in Nat /\ node_end(r) + 8 <= end_addr[r]
        /\ node_start(r) < node_end(r)
    BY <1>1, Bounds DEF Aligned
  <2>2. end_addr[r] \in Nat /\ Word \in Nat /\ end_addr[r] < Word
    BY <1>1, TypeAssumption, MemoryAssumption
  <2>3. total(r) \in Nat /\ total(r) < Word
    BY <2>1, <2>2 DEF total
  <2>4. h.size[node] \in Nat /\ h.size[node] + v <= total(r)
    BY <1>1, <1>6, <1>8
  <2>5. QED
    BY <1>9, <2>2, <2>3, <2>4
<1>11. al \in [Region -> Nat] /\ al[r] = h.size[node] + v
  BY <1>0, <1>1, <1>8 DEF Counted
<1>12. ((h.size[node] + v) + Word - h.size[node]) % Word = v
  <2>1. (h.size[node] + v) + Word - h.size[node] = v + Word /\ v < Word
    BY <1>9, <1>10
  <2>2. (v + Word) % Word = v
    BY <1>9, <1>10, <2>1
  <2>3. QED
    BY <2>1, <2>2
<1>13. /\ al2 \in [Region -> Nat] /\ al2[r] = v
       /\ \A s \in Region \ {r} : al2[s] = al[s]
  <2>1. al2 = [al EXCEPT ![r] = v]
    BY <1>1, <1>11, <1>12
  <2>2. QED
    BY <1>1, <1>9, <1>11, <2>1
<1>14. al2[r] = SumOver(h2.size, Blocks(f2, r))
  <2>1. Blocks(f2, r) = U \ {node}
    BY <1>0, <1>4 DEF Blocks
  <2>2. \A a \in U \ {node} : h2.size[a] = h.size[a]
    BY <1>1 DEF Kept
  <2>3. SumOver(h2.size, U \ {node}) = v
    BY <1>7, <1>9, <2>2, SumSame
  <2>4. QED
    BY <1>13, <2>1, <2>3
<1>15. ASSUME NEW s \in Region \ {r} PROVE al2[s] = SumOver(h2.size, Blocks(f2, s))
  <2>1. node \notin Header(s)
    BY <1>1, HeaderFacts
  <2>2. Blocks(f2, s) = Blocks(f, s)
    BY <1>4, <2>1 DEF Blocks
  <2>3. SumOver(h2.size, Blocks(f, s)) = SumOver(h.size, Blocks(f, s))
    BY <1>1, OtherSums
  <2>4. al[s] = SumOver(h.size, Blocks(f, s))
    BY DEF Counted
  <2>5. QED
    BY <1>13, <2>2, <2>3, <2>4
<1>16. QED
  BY <1>13, <1>14, <1>15 DEF Counted

\* For memories and requests of every size, free and held blocks cover each
\* memory exactly, without overlap and without a leak, and the free list is
\* sorted, ends at the last node and holds no two blocks that touch (mm_alloc,
\* mm_list_insert).
THEOREM TilingHolds ==
  ASSUME Disciplined
  PROVE  Spec => []Tiling
BY MemoryInvariant, TilingFollows, PTL

\* The block behind every pointer that mm_alloc returned is at least as large as
\* the request and its header, until it is freed.
THEOREM EnoughBytes ==
  ASSUME Disciplined
  PROVE  Spec => []GetsItsBytes
<1>1. MemoryInv => GetsItsBytes
  <2>1. SUFFICES ASSUME MemoryInv, NEW p \in DOMAIN held
                 PROVE  size[p - Node] >= held[p] + Node
    BY DEF GetsItsBytes
  <2>2. /\ held[p] + Node <= Heads.size[p - Node] /\ held[p] \in Nat
        /\ p - Node \in Headers /\ HeadsType(Heads)
    BY <2>1 DEF MemoryInv, Agree
  <2>3. Heads.size[p - Node] \in Nat /\ Heads.size = size /\ held[p] + Node \in Nat
    BY <2>2 DEF HeadsType, Heads, Node
  <2>4. QED
    BY <2>2, <2>3
<1>2. QED
  BY <1>1, MemoryInvariant, PTL

\* mm_free accepts every pointer that mm_alloc made, and the block lies in the
\* memory its region bits name.
THEOREM FreeNeverPanics ==
  ASSUME Disciplined
  PROVE  Spec => []HeldCanBeFreed
<1>1. MemoryInv => HeldCanBeFreed
  <2>1. SUFFICES ASSUME MemoryInv, NEW p \in DOMAIN held
                 PROVE  accepted(p) /\ p - Node \in Header(region[p - Node])
    BY DEF HeldCanBeFreed
  <2>2. Agree(Heads, held) /\ Heads.next = next /\ Heads.region = region
    BY <2>1 DEF MemoryInv, Heads
  <2>3. PICK a : a = p - Node
    OBVIOUS
  <2>4. PICK r : r = Heads.region[a]
    OBVIOUS
  <2>5. r \in Region /\ a \in Header(r)
    BY <2>1, <2>2, <2>3, <2>4, HeldRegion
  <2>6. next[a] = ALLOCATED /\ p # NULL
    BY <2>1, <2>2, <2>3, MemoryAssumption DEF Agree
  <2>7. a <= node_end(r)
    BY <2>5, HeaderFacts
  <2>8. QED
    BY <2>2, <2>3, <2>4, <2>5, <2>6, <2>7 DEF accepted
<1>2. QED
  BY <1>1, MemoryInvariant, PTL

\* Every step keeps the count.
LEMMA StepCounted ==
  ASSUME Disciplined, MemoryInv, Counted(Heads, held, allocated), [Next]_vars
  PROVE  Counted(Heads, held, allocated)'
<1>1. Agree(Heads, held) /\ stale = {}
  BY DEF MemoryInv
<1>2. Heads.next = next /\ Heads.size = size /\ Heads.region = region
  BY DEF Heads
<1>3. SUFFICES ASSUME NEW h2, h2 = [next |-> next', size |-> size', region |-> region']
               PROVE  Counted(h2, held', allocated')
  BY DEF Heads
<1>4. ASSUME UNCHANGED <<next, size, region, held, allocated>>
      PROVE  Counted(h2, held', allocated')
  <2>1. h2 = Heads
    BY <1>3, <1>4 DEF Heads
  <2>2. QED
    BY <1>4, <2>1
<1>5. ASSUME NEW r \in Region, NEW bytes \in Sizes, mm_alloc(r, bytes)
      PROVE  Counted(h2, held', allocated')
  <2>1. PICK n, c : n = block_size(r, bytes) /\ c = Chain(Heads, r)
    OBVIOUS
  <2>2. PICK fit : fit = Fitting(Heads, c, n)
    OBVIOUS
  <2>3. fit = {i \in 2 .. Len(c) - 1 : size[c[i]] >= n}
    BY <1>2, <2>2 DEF Fitting
  <2>4. PICK k : k = Min(fit)
    OBVIOUS
  <2>5. PICK h : h = take(Heads, r, c[k - 1], c[k], n)
    OBVIOUS
  <2> DEFINE Served == /\ fit # {} /\ Becomes(h)
                       /\ DOMAIN held' = DOMAIN held \cup {c[k] + Node}
                       /\ allocated' = [allocated EXCEPT ![r] = @ + h.size[c[k]]]
  <2>6. UNCHANGED <<next, size, region, held, allocated>> \/ Served
    BY <1>5, <2>1, <2>3, <2>4, <2>5, ZenonT(40) DEF mm_alloc
  <2>7. CASE Served
    <3>1. PICK iter, ptr : iter = c[k] /\ ptr = iter + Node
      OBVIOUS
    <3>2. Taken(Heads, h, held, r, iter, bytes)
      BY <1>1, <2>1, <2>2, <2>4, <2>5, <2>7, <3>1, AllocTaken
    <3>3. Counted(h, held', allocated')
      BY <1>1, <2>7, <3>1, <3>2, AllocCounted
    <3>4. h2 = h
      BY <1>3, <2>7, <3>2 DEF Taken, HeadsType, Becomes
    <3>5. QED
      BY <3>3, <3>4
  <2>8. QED
    BY <1>4, <2>6, <2>7
<1>6. ASSUME NEW ptr \in DOMAIN held \cup stale \cup {NULL}, mm_free(ptr)
      PROVE  Counted(h2, held', allocated')
  <2>1. CASE ~accepted(ptr)
    BY <1>4, <1>6, <2>1 DEF mm_free
  <2>2. CASE accepted(ptr)
    <3>1. ptr \in DOMAIN held
      BY <1>1, <1>6, <2>2 DEF accepted
    <3>2. PICK node : node = ptr - Node
      OBVIOUS
    <3>3. PICK r : r = region[node]
      OBVIOUS
    <3>4. PICK h : h = mm_list_insert(Heads, node, r)
      OBVIOUS
    <3>5. /\ Becomes(h) /\ DOMAIN held' = DOMAIN held \ {ptr}
          /\ allocated' = [allocated EXCEPT ![r] = (@ + Word - Heads.size[node]) % Word]
      BY <1>2, <1>6, <2>2, <3>2, <3>3, <3>4 DEF mm_free, given_back
    <3>6. Freed(Heads, h, held, r, node)
      BY <1>1, <1>2, <3>1, <3>2, <3>3, <3>4, FreeFreed
    <3>7. Counted(h, held', allocated')
      BY <1>1, <3>1, <3>2, <3>5, <3>6, FreeCounted
    <3>8. h2 = h
      BY <1>3, <3>5, <3>6 DEF Freed, HeadsType, Becomes
    <3>9. QED
      BY <3>7, <3>8
  <2>3. QED
    BY <2>1, <2>2
<1>7. CASE UNCHANGED vars
  BY <1>4, <1>7 DEF vars
<1>8. QED
  BY <1>5, <1>6, <1>7 DEF Next

\* allocated is the memory that the held blocks take up.
CountInv == Counted(Heads, held, allocated)

\* physmem->allocated counts the held blocks after every step.
LEMMA CountInvariant ==
  ASSUME Disciplined
  PROVE  Spec => []CountInv
<1>1. Init => CountInv
  <2>1. SUFFICES ASSUME Init PROVE CountInv
    OBVIOUS
  <2>2. allocated = [r \in Region |-> 0] /\ DOMAIN held = {} /\ HeadsType(Heads)
    BY <2>1, InitAgree DEF Init, MemoryInv, Agree
  <2>3. ASSUME NEW r \in Region PROVE SumOver(Heads.size, Blocks(held, r)) = 0
    <3>1. Blocks(held, r) = {}
      BY <2>2 DEF Blocks
    <3>2. IsFiniteSet({}) /\ \A a \in {} : Heads.size[a] \in Nat
      BY FS_EmptySet
    <3>3. SumOver(Heads.size, {}) = 0
      BY <3>2, SumFacts
    <3>4. QED
      BY <3>1, <3>3
  <2>4. QED
    BY <2>2, <2>3 DEF CountInv, Counted
<1>2. MemoryInv /\ CountInv /\ [Next]_vars => CountInv'
  BY StepCounted DEF CountInv
<1>3. QED
  BY <1>1, <1>2, MemoryInvariant, PTL DEF Spec

\* physmem->allocated is always the sum of the sizes of the held blocks, and the
\* subtraction of mm_free, in u32 arithmetic, never wraps around.
THEOREM AccountingHolds ==
  ASSUME Disciplined
  PROVE  Spec => []Accounting
<1>1. CountInv => Accounting
  <2>1. SUFFICES ASSUME CountInv, NEW r \in Region
        PROVE  allocated[r] = MapThenSumSet(LAMBDA a : size[a], HeldBlocks(r))
    BY DEF Accounting
  <2>2. PICK U : U = HeldBlocks(r)
    OBVIOUS
  <2>3. MapThenSumSet(LAMBDA a : size[a], U) = SumOver(size, U)
    BY DEF MapThenSumSet, MapThenFoldSet, SumOver, Sums, SumsOn, AnyOf
  <2>4. allocated[r] = SumOver(size, U)
    BY <2>1, <2>2 DEF CountInv, Counted, Blocks, HeldBlocks, Heads
  <2>5. QED
    BY <2>2, <2>3, <2>4
<1>2. QED
  BY <1>1, CountInvariant, PTL

-----------------------------------------------------------------------------
(***************************************************************************)
(* The chain of headers of mm.c implements the first-fit heap of Heap: the *)
(* free blocks are the whole stretches of unused memory, so the first one  *)
(* of the list that is large enough is the lowest one.                     *)
(***************************************************************************)

(* The gaps between the taken blocks                                        *)

\* The last member of a set of numbers up to a bound.
LEMMA LastUpTo ==
  ASSUME NEW S \in SUBSET Nat, NEW a \in Nat, NEW x \in S, x <= a
  PROVE  \E m \in S : m <= a /\ \A y \in S : y <= a => y <= m
<1>1. PICK D : D = {d \in Nat : \E y \in S : y <= a /\ d = a - y}
  OBVIOUS
<1>2. a - x \in D /\ D \in SUBSET Nat
  BY <1>1
<1>3. PICK d \in D : \A e \in D : d <= e
  BY <1>2, LeastNatural
<1>4. PICK m \in S : m <= a /\ d = a - m
  BY <1>1, <1>3
<1>5. ASSUME NEW y \in S, y <= a PROVE y <= m
  <2>1. a - y \in D
    BY <1>1, <1>5
  <2>2. d <= a - y
    BY <1>3, <2>1
  <2>3. QED
    BY <1>4, <1>5, <2>2
<1>6. QED
  BY <1>4, <1>5

\* [a, b) lies in r and meets no block of U.
Clear(h, r, U, a, b) ==
  /\ node_start(r) <= a /\ b <= node_end(r)
  /\ \A c \in U : b <= c \/ c + h.size[c] <= a

\* [a, b) is clear and cannot be made longer.
Stretch(h, r, U, a, b) ==
  /\ a < b /\ Clear(h, r, U, a, b)
  /\ ~(a >= 8 /\ Clear(h, r, U, a - 8, b)) /\ ~Clear(h, r, U, a, b + 8)

\* What the covering says of the blocks, in numbers.
LEMMA BrickFacts ==
  ASSUME NEW h, NEW r \in Region, NEW F, NEW U, Covers(h, r, F, U),
         NEW c \in (F \cup U) \ {node_end(r)}
  PROVE  /\ c \in Nat /\ Aligned(c) /\ h.size[c] \in Nat /\ 0 < h.size[c]
         /\ Aligned(c + h.size[c]) /\ c + h.size[c] \in F \cup U
         /\ node_start(r) <= c /\ c + h.size[c] <= node_end(r)
         /\ \A b \in F \cup U : c < b => c + h.size[c] <= b
<1>1. Brick(h, r, F \cup U, c)
  BY DEF Covers
<1>2. F \cup U \subseteq Header(r)
  BY DEF Covers, Sorted
<1>3. c \in Nat /\ Aligned(c) /\ node_start(r) <= c
  BY <1>2, HeaderFacts
<1>4. Aligned(h.size[c]) /\ 0 < h.size[c] /\ c + h.size[c] \in F \cup U
  BY <1>1 DEF Brick
<1>5. Aligned(c + h.size[c])
  BY <1>3, <1>4, AlignedSum
<1>6. c + h.size[c] <= node_end(r)
  BY <1>2, <1>4, HeaderFacts
<1>7. QED
  BY <1>1, <1>3, <1>4, <1>5, <1>6 DEF Brick, Aligned

\* A free block is a whole stretch.
LEMMA FreeIsStretch ==
  ASSUME NEW h, NEW r \in Region, NEW F, NEW U, Covers(h, r, F, U), Apart(h, r, F),
         NEW a \in F \ {node_end(r)}, NEW b, b = a + h.size[a]
  PROVE  Stretch(h, r, U, a, b)
<1>1. /\ F \cup U \subseteq Nat /\ F \cap U = {} /\ node_end(r) \in F
      /\ node_start(r) \in F \cup U /\ node_start(r) \in Nat /\ node_end(r) \in Nat
  BY HeaderFacts, Bounds DEF Covers, Sorted, Aligned
<1>2. /\ a \in Nat /\ h.size[a] \in Nat /\ 0 < h.size[a] /\ b \in F \cup U /\ b \in Nat
      /\ node_start(r) <= a /\ b <= node_end(r)
      /\ \A c \in F \cup U : a < c => b <= c
  <2>1. a \in (F \cup U) \ {node_end(r)}
    OBVIOUS
  <2>2. /\ a \in Nat /\ h.size[a] \in Nat /\ 0 < h.size[a] /\ a + h.size[a] \in F \cup U
        /\ node_start(r) <= a /\ a + h.size[a] <= node_end(r)
        /\ \A c \in F \cup U : a < c => a + h.size[a] <= c
    BY <2>1, BrickFacts, ZenonT(40)
  <2>3. QED
    BY <1>1, <2>2
<1>3. ASSUME NEW c \in U
      PROVE  /\ c \in Nat /\ h.size[c] \in Nat /\ 0 < h.size[c]
             /\ b <= c \/ c + h.size[c] <= a
  <2>1. c # a /\ c # node_end(r) /\ c \in Nat
    BY <1>1
  <2>2. /\ h.size[c] \in Nat /\ 0 < h.size[c]
        /\ \A x \in F \cup U : c < x => c + h.size[c] <= x
    BY <2>1, BrickFacts, ZenonT(40)
  <2>3. QED
    BY <1>2, <2>1, <2>2
<1>4. Clear(h, r, U, a, b)
  BY <1>2, <1>3 DEF Clear
<1>5. ASSUME a >= 8, Clear(h, r, U, a - 8, b) PROVE FALSE
  <2>1. node_start(r) <= a - 8
    BY <1>5 DEF Clear
  <2>2. PICK c \in F \cup U : c <= a - 1 /\ \A y \in F \cup U : y <= a - 1 => y <= c
    <3>1. PICK S \in SUBSET Nat : S = F \cup U
      BY <1>1
    <3>2. PICK l \in Nat : l = a - 1
      BY <1>2, <1>5
    <3>3. node_start(r) \in S /\ node_start(r) <= l
      BY <1>1, <1>2, <2>1, <3>1, <3>2
    <3>4. QED
      BY <3>1, <3>2, <3>3, LastUpTo
  <2>3. c \in Nat /\ c < a /\ c # node_end(r)
    BY <1>1, <1>2, <2>2
  <2>4. /\ h.size[c] \in Nat /\ 0 < h.size[c] /\ c + h.size[c] \in F \cup U
        /\ c + h.size[c] <= a
    BY <2>3, BrickFacts, ZenonT(40)
  <2>5. c + h.size[c] = a
    BY <1>2, <2>2, <2>3, <2>4
  <2>6. c \in U
    BY <2>2, <2>3, <2>5 DEF Apart
  <2>7. b <= c \/ c + h.size[c] <= a - 8
    BY <1>5, <2>6 DEF Clear
  <2>8. QED
    BY <1>2, <2>3, <2>5, <2>7
<1>6. ASSUME Clear(h, r, U, a, b + 8) PROVE FALSE
  <2>1. b + 8 <= node_end(r)
    BY <1>6 DEF Clear
  <2>2. b # node_end(r)
    BY <1>1, <1>2, <2>1
  <2>3. b \in U
    BY <1>2, <2>2 DEF Apart
  <2>4. b + 8 <= b \/ b + h.size[b] <= a
    BY <1>6, <2>3 DEF Clear
  <2>5. QED
    BY <1>2, <1>3, <2>3, <2>4
<1>7. QED
  BY <1>2, <1>4, <1>5, <1>6 DEF Stretch

\* A whole stretch is a free block.
LEMMA StretchIsFree ==
  ASSUME NEW h, NEW r \in Region, NEW F, NEW U, Covers(h, r, F, U), Apart(h, r, F),
         NEW a, NEW b, Aligned(a), Aligned(b), Stretch(h, r, U, a, b)
  PROVE  a \in F \ {node_end(r)} /\ b = a + h.size[a]
<1>1. /\ F \cup U \subseteq Nat /\ F \cap U = {} /\ node_end(r) \in F
      /\ node_start(r) \in F \cup U /\ node_start(r) \in Nat /\ node_end(r) \in Nat
  BY HeaderFacts, Bounds DEF Covers, Sorted, Aligned
<1>2. /\ a \in Nat /\ b \in Nat /\ a < b /\ node_start(r) <= a /\ b <= node_end(r)
      /\ \A c \in U : b <= c \/ c + h.size[c] <= a
      /\ ~(a >= 8 /\ Clear(h, r, U, a - 8, b)) /\ ~Clear(h, r, U, a, b + 8)
  BY DEF Stretch, Clear, Aligned
<1>3. PICK c \in F \cup U : c <= a /\ \A y \in F \cup U : y <= a => y <= c
  <2>1. PICK S \in SUBSET Nat : S = F \cup U
    BY <1>1
  <2>2. a \in Nat /\ node_start(r) \in S /\ node_start(r) <= a
    BY <1>1, <1>2, <2>1
  <2>3. QED
    BY <2>1, <2>2, LastUpTo
<1>4. c \in Nat /\ c # node_end(r)
  BY <1>1, <1>2, <1>3
<1>5. PICK e : e = c + h.size[c]
  OBVIOUS
<1>6. /\ Aligned(c) /\ h.size[c] \in Nat /\ 0 < h.size[c] /\ Aligned(e) /\ e \in F \cup U
      /\ node_start(r) <= c /\ e <= node_end(r) /\ e \in Nat
      /\ \A x \in F \cup U : c < x => e <= x
  <2>1. c \in (F \cup U) \ {node_end(r)}
    BY <1>3, <1>4
  <2>2. QED
    BY <1>1, <1>5, <2>1, BrickFacts
<1>7. a < e
  BY <1>2, <1>3, <1>4, <1>5, <1>6
<1>8. c \in F
  BY <1>2, <1>3, <1>4, <1>5, <1>6, <1>7
<1>9. ASSUME NEW x \in U
      PROVE  /\ x \in Nat /\ h.size[x] \in Nat /\ 0 < h.size[x] /\ x + h.size[x] \in F \cup U
             /\ x + h.size[x] \in Nat /\ \A y \in F \cup U : x < y => x + h.size[x] <= y
  <2>1. x \in (F \cup U) \ {node_end(r)}
    BY <1>1
  <2>2. /\ x \in Nat /\ h.size[x] \in Nat /\ 0 < h.size[x] /\ x + h.size[x] \in F \cup U
        /\ \A y \in F \cup U : x < y => x + h.size[x] <= y
    BY <2>1, BrickFacts, ZenonT(40)
  <2>3. QED
    BY <2>2
<1>10. c = a
  <2>1. SUFFICES ASSUME c # a PROVE FALSE
    OBVIOUS
  <2>2. a >= 8 /\ c <= a - 8
    BY <1>2, <1>3, <1>4, <1>6, <2>1 DEF Aligned, MM_ALIGN
  <2>3. ASSUME NEW x \in U PROVE b <= x \/ x + h.size[x] <= a - 8
    <3>1. CASE b <= x
      BY <3>1
    <3>2. CASE x + h.size[x] <= a
      <4>1. x + h.size[x] <= c
        BY <1>3, <1>9, <3>2
      <4>2. QED
        BY <1>2, <1>4, <1>9, <2>2, <4>1
    <3>3. QED
      BY <1>2, <3>1, <3>2
  <2>4. node_start(r) <= a - 8
    BY <1>1, <1>2, <1>4, <1>6, <2>2
  <2>5. QED
    BY <1>2, <2>2, <2>3, <2>4 DEF Clear
<1>11. ~(b < e)
  <2>1. SUFFICES ASSUME b < e PROVE FALSE
    OBVIOUS
  <2>2. b + 8 <= e
    BY <1>6, <2>1 DEF Aligned, MM_ALIGN
  <2>3. ASSUME NEW x \in U PROVE b + 8 <= x \/ x + h.size[x] <= a
    <3>1. CASE a < x
      BY <1>2, <1>6, <1>9, <1>10, <2>2, <3>1
    <3>2. CASE x < a
      BY <1>3, <1>9, <1>10, <3>2
    <3>3. QED
      BY <1>1, <1>2, <1>8, <1>9, <1>10, <3>1, <3>2
  <2>4. b + 8 <= node_end(r)
    BY <1>1, <1>2, <1>6, <2>2
  <2>5. QED
    BY <1>2, <2>3, <2>4 DEF Clear
<1>12. ~(e < b)
  <2>1. SUFFICES ASSUME e < b PROVE FALSE
    OBVIOUS
  <2>2. e # node_end(r)
    BY <1>1, <1>2, <1>6, <2>1
  <2>3. e \in U
    BY <1>4, <1>5, <1>6, <1>8, <2>2 DEF Apart
  <2>4. b <= e \/ e + h.size[e] <= a
    BY <1>2, <2>3
  <2>5. QED
    BY <1>2, <1>6, <1>7, <1>9, <2>1, <2>3, <2>4
<1>13. QED
  BY <1>2, <1>4, <1>5, <1>6, <1>8, <1>10, <1>11, <1>12

-----------------------------------------------------------------------------
(* The abstract heap                                                        *)

\* The lengths of the blocks that f records as held.
UsedBy(h, f) == [a \in Headers |-> IF a + Node \in DOMAIN f THEN h.size[a] ELSE 0]

\* The taken blocks of r, and where the blocks of the other memories are.
LEMMA UsedFacts ==
  ASSUME NEW h, NEW f, Agree(h, f), NEW r \in Region, NEW U, U = Blocks(f, r),
         NEW u, u = UsedBy(h, f)
  PROVE  /\ DOMAIN u = Headers /\ U \subseteq Headers
         /\ \A c \in U : u[c] = h.size[c] /\ u[c] > 0
         /\ \A c \in Headers \ U :
              u[c] > 0 => node_end(r) < c \/ c + u[c] < node_start(r)
<1>1. U \subseteq Headers /\ Headers \subseteq Nat
  BY HeaderFacts, HeadersApart DEF Blocks
<1>2. ASSUME NEW s \in Region, NEW c \in Blocks(f, s)
      PROVE  /\ c \in Nat /\ c + Node \in DOMAIN f /\ h.size[c] \in Nat /\ h.size[c] > 0
             /\ node_start(s) <= c /\ c + h.size[c] <= node_end(s) /\ u[c] = h.size[c]
  <2>1. PICK p \in DOMAIN f : c = p - Node
    BY DEF Blocks
  <2>2. p \in Nat /\ Node <= p /\ c \in Headers
    BY <2>1 DEF Agree
  <2>3. c \in Nat /\ c + Node = p
    BY <2>1, <2>2 DEF Node
  <2>4. PICK F : Covers(h, s, F, Blocks(f, s))
    BY DEF Agree, Whole
  <2>5. c \in (F \cup Blocks(f, s)) \ {node_end(s)}
    BY <2>4 DEF Covers, Sorted
  <2>6. /\ h.size[c] \in Nat /\ 0 < h.size[c]
        /\ node_start(s) <= c /\ c + h.size[c] <= node_end(s)
    BY <2>4, <2>5, BrickFacts, ZenonT(40)
  <2>7. QED
    BY <2>1, <2>2, <2>3, <2>6 DEF UsedBy
<1>3. ASSUME NEW c \in Headers \ U, u[c] > 0
      PROVE  node_end(r) < c \/ c + u[c] < node_start(r)
  <2>1. c \in Nat /\ c + Node \in DOMAIN f
    BY <1>1, <1>3 DEF UsedBy
  <2>2. PICK s \in Region : c \in Header(s)
    BY DEF Headers
  <2>3. c = (c + Node) - Node
    BY <2>1 DEF Node
  <2>4. c \in Blocks(f, s)
    BY <2>1, <2>2, <2>3 DEF Blocks
  <2>5. /\ h.size[c] \in Nat /\ node_start(s) <= c /\ c + h.size[c] <= node_end(s)
        /\ u[c] = h.size[c]
    BY <1>2, <2>4
  <2>6. s # r
    BY <2>4
  <2>7. end_addr[r] <= start_addr[s] \/ end_addr[s] <= start_addr[r]
    BY <2>6, Bounds
  <2>8. /\ node_end(r) \in Nat /\ node_end(r) + 8 <= end_addr[r] /\ end_addr[r] \in Nat
        /\ node_end(s) \in Nat /\ node_end(s) + 8 <= end_addr[s] /\ end_addr[s] \in Nat
        /\ node_start(r) \in Nat /\ start_addr[r] <= node_start(r) /\ start_addr[r] \in Nat
        /\ node_start(s) \in Nat /\ start_addr[s] <= node_start(s) /\ start_addr[s] \in Nat
    BY Bounds, TypeAssumption DEF Aligned
  <2>9. QED
    BY <2>1, <2>5, <2>7, <2>8
<1>4. QED
  BY <1>1, <1>2, <1>3 DEF UsedBy

\* Heap's notion of unused memory and of gaps, with the lengths as a parameter.
UnusedIn(u, r, a, b) ==
  /\ node_start(r) <= a /\ b <= node_end(r)
  /\ \A c \in DOMAIN u : u[c] > 0 => b <= c \/ c + u[c] <= a

GapIn(u, r, a, b) ==
  /\ a < b /\ UnusedIn(u, r, a, b)
  /\ ~(a >= 8 /\ UnusedIn(u, r, a - 8, b)) /\ ~UnusedIn(u, r, a, b + 8)

\* Memory is unused if no block of r takes it.
LEMMA UnusedIsClear ==
  ASSUME NEW h, NEW f, Agree(h, f), NEW r \in Region, NEW U, U = Blocks(f, r),
         NEW u, u = UsedBy(h, f), NEW a \in Nat, NEW b \in Nat
  PROVE  UnusedIn(u, r, a, b) <=> Clear(h, r, U, a, b)
<1>1. /\ DOMAIN u = Headers /\ U \subseteq Headers
      /\ \A c \in U : u[c] = h.size[c] /\ u[c] > 0
      /\ \A c \in Headers \ U :
           u[c] > 0 => node_end(r) < c \/ c + u[c] < node_start(r)
  BY UsedFacts
<1>2. UnusedIn(u, r, a, b) => Clear(h, r, U, a, b)
  BY <1>1 DEF UnusedIn, Clear
<1>3. ASSUME Clear(h, r, U, a, b), NEW c \in Headers, u[c] > 0
      PROVE  b <= c \/ c + u[c] <= a
  <2>1. CASE c \in U
    BY <1>1, <1>3, <2>1 DEF Clear
  <2>2. CASE c \notin U
    <3>1. node_start(r) <= a /\ b <= node_end(r)
      BY <1>3 DEF Clear
    <3>2. node_end(r) < c \/ c + u[c] < node_start(r)
      BY <1>1, <1>3, <2>2
    <3>3. c \in Nat /\ node_start(r) \in Nat /\ node_end(r) \in Nat /\ u[c] \in Nat
      BY HeadersApart, Bounds DEF Aligned, UsedBy, Agree, HeadsType
    <3>4. QED
      BY <3>1, <3>2, <3>3
  <2>3. QED
    BY <2>1, <2>2
<1>4. QED
  BY <1>1, <1>2, <1>3 DEF UnusedIn, Clear

\* The gaps of a memory are its free blocks.
LEMMA GapIsFree ==
  ASSUME NEW h, NEW f, Agree(h, f), NEW r \in Region, NEW U, U = Blocks(f, r),
         NEW F, Covers(h, r, F, U), Apart(h, r, F),
         NEW u, u = UsedBy(h, f), NEW a \in Headers, NEW b \in Headers
  PROVE  GapIn(u, r, a, b) <=> a \in F \ {node_end(r)} /\ b = a + h.size[a]
<1>1. Aligned(a) /\ Aligned(b) /\ a \in Nat /\ b \in Nat /\ b + 8 \in Nat
  BY HeaderFacts DEF Headers, Aligned
<1>2. UnusedIn(u, r, a, b) <=> Clear(h, r, U, a, b)
  BY <1>1, UnusedIsClear
<1>3. a >= 8 => (UnusedIn(u, r, a - 8, b) <=> Clear(h, r, U, a - 8, b))
  <2>1. SUFFICES ASSUME a >= 8 PROVE UnusedIn(u, r, a - 8, b) <=> Clear(h, r, U, a - 8, b)
    OBVIOUS
  <2>2. PICK l \in Nat : l = a - 8
    BY <1>1, <2>1
  <2>3. QED
    BY <1>1, <2>2, UnusedIsClear
<1>4. UnusedIn(u, r, a, b + 8) <=> Clear(h, r, U, a, b + 8)
  BY <1>1, UnusedIsClear
<1>5. GapIn(u, r, a, b) <=> Stretch(h, r, U, a, b)
  BY <1>2, <1>3, <1>4 DEF GapIn, Stretch
<1>6. QED
  BY <1>1, <1>5, FreeIsStretch, StretchIsFree, ZenonT(40)

\* A free block and the taken ones fit into the memory together, so the early
\* return of mm_alloc refuses nothing that the list could serve.
LEMMA RoomLeft ==
  ASSUME NEW h, HeadsType(h), NEW r \in Region, NEW F, NEW U, Covers(h, r, F, U),
         NEW a \in F \ {node_end(r)}
  PROVE  h.size[a] + SumOver(h.size, U) <= total(r)
<1>1. /\ Sorted(h, r, F) /\ F \cap U = {} /\ U \subseteq Header(r) /\ F \subseteq Header(r)
      /\ node_start(r) \in F \cup U
      /\ \A x \in (F \cup U) \ {node_end(r)} : Brick(h, r, F \cup U, x)
  BY DEF Covers, Sorted
<1>2. PICK c : Lists(c, h, r, F)
  BY <1>1, ChainFacts
<1>3. PICK i \in 2 .. Len(c) : c[i] = a
  BY <1>2 DEF Lists
<1>4. PICK m \in Nat : m = Len(c) /\ c[m] = node_end(r) /\ 2 <= m
  BY <1>2 DEF Lists
<1>5. i - 1 \in 1 .. m - 1 /\ (i - 1) + 1 = i /\ i < m /\ i \in 2 .. m
  BY <1>3, <1>4
<1>6. PICK prev : prev = c[i - 1]
  OBVIOUS
<1>7. h.next[prev] = a
  BY <1>2, <1>3, <1>4, <1>5, <1>6 DEF Lists
<1>8. prev \in (F \cup {r}) \ {node_end(r)}
  <2>1. CASE i = 2
    <3>1. prev = r
      BY <1>2, <1>6, <2>1 DEF Lists
    <3>2. QED
      BY <3>1, HeaderFacts
  <2>2. CASE i # 2
    <3>1. i - 1 \in 2 .. m /\ m \in 2 .. m /\ i - 1 < m
      BY <1>4, <1>5, <2>2
    <3>2. prev \in F /\ prev < node_end(r)
      BY <1>2, <1>4, <1>6, <3>1 DEF Lists
    <3>3. prev \in Nat /\ node_end(r) \in Nat
      BY <1>1, <3>2, HeaderFacts
    <3>4. QED
      BY <3>2, <3>3
  <2>3. QED
    BY <2>1, <2>2
<1>9. PICK h1 : h1 = [next |-> [h.next EXCEPT ![prev] = h.next[a]],
                      size |-> h.size, region |-> h.region]
  OBVIOUS
<1>10. h1.size = h.size /\ h1.region = h.region
  BY <1>9
<1>11. prev \in Headers \cup Region /\ F \cup {r} \subseteq Headers \cup Region
  BY <1>1, <1>8, HeaderFacts
<1>12. h1.next[prev] = h.next[a] /\ \A x \in (F \cup {r}) \ {prev, a} : h1.next[x] = h.next[x]
  BY <1>9, <1>11 DEF HeadsType
<1>13. Sorted(h1, r, F \ {a})
  BY <1>1, <1>7, <1>8, <1>12, Unlink
<1>14. PICK G, V : G = F \ {a} /\ V = U \cup {a}
  OBVIOUS
<1>15. Covers(h1, r, G, V)
  <2>1. G \cup V = F \cup U /\ G \cap V = {} /\ V \subseteq Header(r)
    BY <1>1, <1>14
  <2>2. \A x \in (G \cup V) \ {node_end(r)} : Brick(h1, r, G \cup V, x)
    BY <1>1, <1>10, <2>1 DEF Brick
  <2>3. QED
    BY <1>1, <1>13, <1>14, <2>1, <2>2 DEF Covers
<1>16. IsFiniteSet(V) /\ (\A x \in V : h1.size[x] \in Nat) /\ SumOver(h1.size, V) <= total(r)
  BY <1>15, TakenBound
<1>17. a \in V /\ V \ {a} = U
  BY <1>1, <1>14
<1>18. SumOver(h1.size, V) = h1.size[a] + SumOver(h1.size, V \ {a})
  BY <1>16, <1>17, SumFacts
<1>19. QED
  BY <1>10, <1>16, <1>17, <1>18

\* The first block of the list that fits is the lowest one.
LEMMA FirstIsLowest ==
  ASSUME NEW h, NEW r \in Region, NEW F, Sorted(h, r, F), NEW n,
         NEW c, c = Chain(h, r), NEW fit, fit = Fitting(h, c, n),
         NEW b \in F \ {node_end(r)}, h.size[b] >= n
  PROVE  fit # {} /\ c[Min(fit)] <= b
<1>1. Lists(c, h, r, F)
  BY ChainFacts
<1>2. PICK m \in Nat : m = Len(c) /\ c[m] = node_end(r) /\ 2 <= m
  BY <1>1 DEF Lists
<1>3. PICK i \in 2 .. m : c[i] = b
  BY <1>1, <1>2 DEF Lists
<1>4. i \in 2 .. m - 1
  BY <1>2, <1>3
<1>5. i \in fit /\ fit \in SUBSET Nat /\ fit \subseteq 2 .. m
  BY <1>2, <1>3, <1>4 DEF Fitting
<1>6. PICK k : k = Min(fit)
  OBVIOUS
<1>7. k \in fit /\ k <= i
  BY <1>5, <1>6, MinFacts
<1>8. k = i \/ c[k] < c[i]
  <2>1. k \in 2 .. m /\ i \in 2 .. m
    BY <1>3, <1>5, <1>7
  <2>2. QED
    BY <1>1, <1>2, <1>7, <2>1 DEF Lists
<1>9. c[k] \in Nat /\ c[i] \in Nat
  <2>1. c[k] \in F /\ c[i] \in F
    BY <1>1, <1>2, <1>3, <1>5, <1>7 DEF Lists
  <2>2. QED
    BY <2>1, HeaderFacts DEF Sorted
<1>10. QED
  BY <1>3, <1>5, <1>6, <1>8, <1>9

-----------------------------------------------------------------------------
(* The steps                                                                *)

\* The stretches of free memory that have room for n bytes.
Room(u, r, n) ==
  {g \in Headers \X Headers : GapIn(u, r, g[1], g[2]) /\ g[2] - g[1] >= n}

\* They are the free blocks of at least n bytes.
LEMMA RoomIsFree ==
  ASSUME NEW h, NEW f, Agree(h, f), NEW r \in Region, NEW U, U = Blocks(f, r),
         NEW F, Covers(h, r, F, U), Apart(h, r, F),
         NEW u, u = UsedBy(h, f), NEW n
  PROVE  /\ \A g \in Room(u, r, n) : /\ g[1] \in F \ {node_end(r)}
                                     /\ g[2] = g[1] + h.size[g[1]]
                                     /\ h.size[g[1]] >= n
         /\ \A a \in F \ {node_end(r)} :
              h.size[a] >= n => <<a, a + h.size[a]>> \in Room(u, r, n)
<1>1. ASSUME NEW a \in F \ {node_end(r)}
      PROVE  /\ a \in Headers /\ a \in Nat /\ h.size[a] \in Nat
             /\ a + h.size[a] \in Headers /\ (a + h.size[a]) - a = h.size[a]
  <2>1. a \in (F \cup U) \ {node_end(r)}
    OBVIOUS
  <2>2. a \in Nat /\ h.size[a] \in Nat /\ a + h.size[a] \in F \cup U
    BY <2>1, BrickFacts
  <2>3. F \cup U \subseteq Headers
    BY HeaderFacts DEF Covers, Sorted
  <2>4. QED
    BY <2>2, <2>3
<1>2. ASSUME NEW g \in Room(u, r, n)
      PROVE  /\ g[1] \in F \ {node_end(r)} /\ g[2] = g[1] + h.size[g[1]]
             /\ h.size[g[1]] >= n
  <2>1. PICK a \in Headers, b \in Headers : g[1] = a /\ g[2] = b /\ GapIn(u, r, a, b) /\ b - a >= n
    BY DEF Room
  <2>2. a \in F \ {node_end(r)} /\ b = a + h.size[a]
    BY <2>1, GapIsFree
  <2>3. QED
    BY <1>1, <2>1, <2>2
<1>3. ASSUME NEW a \in F \ {node_end(r)}, h.size[a] >= n
      PROVE  <<a, a + h.size[a]>> \in Room(u, r, n)
  <2>1. PICK b \in Headers : b = a + h.size[a] /\ b - a >= n /\ a \in Headers
    BY <1>1, <1>3
  <2>2. GapIn(u, r, a, b)
    BY <2>1, GapIsFree
  <2>3. <<a, b>> \in Headers \X Headers /\ <<a, b>>[1] = a /\ <<a, b>>[2] = b
    BY <2>1
  <2>4. QED
    BY <2>1, <2>2, <2>3 DEF Room
<1>4. QED
  BY <1>2, <1>3

\* Heap's answer x to a request for n bytes, with the lengths before and after.
Asked(u, u2, x, r, n) ==
  \/ Room(u, r, n) = {} /\ x = NULL /\ u2 = u
  \/ \E g \in Room(u, r, n) :
       /\ \A o \in Room(u, r, n) : g[1] <= o[1]
       /\ x = g[1] /\ u2 = [u EXCEPT ![g[1]] = Part(r, n, g[2] - g[1])]

\* A request is refused only if no stretch of free memory has room for it.
LEMMA RefusedRightly ==
  ASSUME NEW h, NEW f, Agree(h, f), NEW al, Counted(h, f, al), NEW r \in Region,
         NEW n \in Nat, NEW c, c = Chain(h, r), NEW fit, fit = Fitting(h, c, n),
         n > total(r) - al[r] \/ fit = {}
  PROVE  Room(UsedBy(h, f), r, n) = {}
<1>1. PICK U, u : U = Blocks(f, r) /\ u = UsedBy(h, f)
  OBVIOUS
<1>2. PICK F : Covers(h, r, F, U) /\ Apart(h, r, F)
  BY <1>1 DEF Agree, Whole
<1>3. SUFFICES ASSUME NEW g \in Room(u, r, n) PROVE FALSE
  BY <1>1
<1>4. g[1] \in F \ {node_end(r)} /\ h.size[g[1]] >= n
  BY <1>1, <1>2, RoomIsFree
<1>5. PICK a \in F \ {node_end(r)} : h.size[a] >= n
  BY <1>4
<1>6. fit # {}
  BY <1>2, <1>5, FirstIsLowest DEF Covers
<1>7. h.size[a] + SumOver(h.size, U) <= total(r)
  BY <1>2, <1>5, RoomLeft DEF Agree
<1>8. al[r] = SumOver(h.size, U) /\ al[r] \in Nat
  BY <1>1 DEF Counted
<1>9. h.size[a] \in Nat
  <2>1. a \in (F \cup U) \ {node_end(r)}
    BY <1>5
  <2>2. QED
    BY <1>2, <2>1, BrickFacts
<1>10. total(r) \in Int
  BY Bounds DEF total, Aligned
<1>11. QED
  BY <1>5, <1>6, <1>7, <1>8, <1>9, <1>10

\* Only the length of the block at a changes, to m.
Only(u, u2, a, m) == u2 = [u EXCEPT ![a] = m]

\* Taking a block changes the length of that block and of no other.
LEMMA TakenUsed ==
  ASSUME NEW h, NEW f, Agree(h, f), NEW h2, NEW r \in Region, NEW iter, NEW bytes,
         Taken(h, h2, f, r, iter, bytes), NEW f2, DOMAIN f2 = DOMAIN f \cup {iter + Node}
  PROVE  Only(UsedBy(h, f), UsedBy(h2, f2), iter,
              Part(r, block_size(r, bytes), h.size[iter]))
<1>1. iter \in Headers /\ iter \in Nat /\ Headers \subseteq Nat
  BY HeaderFacts, HeadersApart DEF Taken
<1>2. h2.size[iter] = Part(r, block_size(r, bytes), h.size[iter])
  BY DEF Taken
<1>3. ASSUME NEW a \in Headers \ {iter}
      PROVE  UsedBy(h2, f2)[a] = UsedBy(h, f)[a]
  <2>1. a + Node # iter + Node /\ a = (a + Node) - Node
    BY <1>1 DEF Node
  <2>2. a + Node \in DOMAIN f2 <=> a + Node \in DOMAIN f
    BY <2>1
  <2>3. ASSUME a + Node \in DOMAIN f PROVE h2.size[a] = h.size[a]
    <3>1. a \in Blocks(f, r) \/ a \notin Header(r)
      BY <2>1, <2>3 DEF Blocks
    <3>2. a # r
      BY HeaderFacts
    <3>3. QED
      BY <3>1, <3>2 DEF Taken, Kept
  <2>4. QED
    BY <2>2, <2>3 DEF UsedBy
<1>4. QED
  BY <1>1, <1>2, <1>3 DEF UsedBy, Only

\* A request is served from the lowest stretch of free memory with room for it.
LEMMA ServedLowest ==
  ASSUME Disciplined, NEW h, NEW f, Agree(h, f), NEW r \in Region, NEW bytes \in Sizes,
         NEW n, n = block_size(r, bytes), NEW c, c = Chain(h, r),
         NEW fit, fit = Fitting(h, c, n), fit # {}, NEW iter, iter = c[Min(fit)],
         NEW h2, Taken(h, h2, f, r, iter, bytes),
         NEW f2, DOMAIN f2 = DOMAIN f \cup {iter + Node}
  PROVE  Asked(UsedBy(h, f), UsedBy(h2, f2), iter, r, n)
<1>1. PICK U, u : U = Blocks(f, r) /\ u = UsedBy(h, f)
  OBVIOUS
<1>2. PICK F : Covers(h, r, F, U) /\ Apart(h, r, F)
  BY <1>1 DEF Agree, Whole
<1>3. Sorted(h, r, F)
  BY <1>2 DEF Covers
<1>4. iter \in F \ {node_end(r)} /\ h.size[iter] >= n
  BY <1>3, FirstFit
<1>5. PICK g : g = <<iter, iter + h.size[iter]>>
  OBVIOUS
<1>6. g \in Room(u, r, n)
  BY <1>1, <1>2, <1>4, <1>5, RoomIsFree
<1>7. ASSUME NEW o \in Room(u, r, n) PROVE iter <= o[1]
  <2>1. o[1] \in F \ {node_end(r)} /\ h.size[o[1]] >= n
    BY <1>1, <1>2, RoomIsFree
  <2>2. PICK b \in F \ {node_end(r)} : b = o[1] /\ h.size[b] >= n
    BY <2>1
  <2>3. QED
    BY <1>3, <2>2, FirstIsLowest
<1>8. g[1] = iter /\ g[2] - g[1] = h.size[iter]
  <2>1. iter \in (F \cup U) \ {node_end(r)}
    BY <1>4
  <2>2. PICK a \in (F \cup U) \ {node_end(r)} : a = iter
    BY <2>1
  <2>3. a \in Nat /\ h.size[a] \in Nat
    BY <1>2, BrickFacts, ZenonT(40)
  <2>4. QED
    BY <1>5, <2>2, <2>3
<1>9. UsedBy(h2, f2) = [u EXCEPT ![g[1]] = Part(r, n, g[2] - g[1])]
  <2>1. Only(UsedBy(h, f), UsedBy(h2, f2), iter,
             Part(r, block_size(r, bytes), h.size[iter]))
    BY TakenUsed
  <2>2. QED
    BY <1>1, <1>8, <2>1 DEF Only
<1>10. PICK u2 : u2 = UsedBy(h2, f2)
  OBVIOUS
<1>11. Asked(u, u2, iter, r, n)
  <2>1. \A o \in Room(u, r, n) : g[1] <= o[1]
    BY <1>7, <1>8
  <2>2. iter = g[1] /\ u2 = [u EXCEPT ![g[1]] = Part(r, n, g[2] - g[1])]
    BY <1>8, <1>9, <1>10
  <2>3. QED
    BY <1>6, <2>1, <2>2 DEF Asked
<1>12. QED
  BY <1>1, <1>10, <1>11

\* Freeing a block takes its length away and changes no other.
LEMMA FreedUsed ==
  ASSUME NEW h, NEW f, Agree(h, f), NEW h2, NEW r, NEW ptr \in DOMAIN f,
         NEW node, node = ptr - Node,
         Freed(h, h2, f, r, node), NEW f2, DOMAIN f2 = DOMAIN f \ {ptr}
  PROVE  /\ node \in Headers /\ UsedBy(h, f)[node] > 0
         /\ Only(UsedBy(h, f), UsedBy(h2, f2), node, 0)
<1>1. r \in Region /\ node \in Blocks(f, r) /\ Kept(h, h2, r, Blocks(f, r) \ {node})
  BY DEF Freed
<1>2. node \in Headers /\ Headers \subseteq Nat /\ ptr \in Nat /\ Node <= ptr
  BY HeadersApart DEF Agree
<1>3. node + Node = ptr
  BY <1>2 DEF Node
<1>4. UsedBy(h, f)[node] > 0
  BY <1>1, UsedFacts
<1>5. ASSUME NEW a \in Headers \ {node}
      PROVE  UsedBy(h2, f2)[a] = UsedBy(h, f)[a]
  <2>1. a + Node # ptr /\ a = (a + Node) - Node
    BY <1>2, <1>3 DEF Node
  <2>2. a + Node \in DOMAIN f2 <=> a + Node \in DOMAIN f
    BY <2>1
  <2>3. ASSUME a + Node \in DOMAIN f PROVE h2.size[a] = h.size[a]
    <3>1. a \in Blocks(f, r) \/ a \notin Header(r)
      BY <2>1, <2>3 DEF Blocks
    <3>2. a # r
      BY <1>1, HeaderFacts
    <3>3. QED
      BY <1>1, <3>1, <3>2 DEF Kept
  <2>4. QED
    BY <2>2, <2>3 DEF UsedBy
<1>6. UsedBy(h2, f2)[node] = 0
  BY <1>2, <1>3 DEF UsedBy
<1>7. QED
  BY <1>2, <1>4, <1>5, <1>6 DEF UsedBy, Only

-----------------------------------------------------------------------------
(* The refinement                                                           *)

\* Heap's request, with the lengths and the answer as parameters.
LEMMA RequestForm ==
  ASSUME NEW r \in Region, NEW n, NEW x, x = IF answer' = NULL THEN NULL ELSE answer' - Node,
         Asked(used, used', x, r, n)
  PROVE  Abstract!Request(r, n)
<1>1. DOMAIN used = Headers
  BY DEF used
<1>2. Room(used, r, n) = {g \in Abstract!Gaps(r) : g[2] - g[1] >= n}
  BY <1>1 DEF Room, GapIn, UnusedIn, Abstract!Gaps, Abstract!Gap, Abstract!Unused, MM_ALIGN
<1>3. QED
  BY <1>2 DEF Asked, Part, split, Abstract!Request

\* Every step of the allocator is a step of the heap or changes nothing in it.
LEMMA StepHeap ==
  ASSUME Disciplined, MemoryInv, CountInv, [Next]_vars
  PROVE  [HeapNext]_<<used, answer>>
<1>1. /\ Agree(Heads, held) /\ stale = {} /\ Counted(Heads, held, allocated)
      /\ Headers \subseteq Nat
  BY HeadersApart DEF MemoryInv, CountInv
<1>2. Heads.next = next /\ Heads.size = size /\ Heads.region = region
  BY DEF Heads
<1>3. PICK h2 : h2 = [next |-> next', size |-> size', region |-> region']
  OBVIOUS
<1>4. used = UsedBy(Heads, held) /\ used' = UsedBy(h2, held')
  BY <1>2, <1>3 DEF used, UsedBy
<1>5. ASSUME UNCHANGED <<size, held>> PROVE used' = used
  BY <1>5 DEF used
<1>6. ASSUME NEW r \in Region, NEW bytes \in Sizes, mm_alloc(r, bytes)
      PROVE  HeapNext
  <2>1. PICK n, c : n = block_size(r, bytes) /\ c = Chain(Heads, r)
    OBVIOUS
  <2>2. PICK fit : fit = Fitting(Heads, c, n)
    OBVIOUS
  <2>3. fit = {i \in 2 .. Len(c) - 1 : size[c[i]] >= n}
    BY <1>2, <2>2 DEF Fitting
  <2>4. PICK k : k = Min(fit)
    OBVIOUS
  <2>5. PICK h : h = take(Heads, r, c[k - 1], c[k], n)
    OBVIOUS
  <2>6. PICK x : x = IF answer' = NULL THEN NULL ELSE answer' - Node
    OBVIOUS
  <2>7. n \in Nat
    BY <2>1, BlockSize DEF Aligned
  <2> DEFINE Refused == /\ n > total(r) - allocated[r] \/ fit = {}
                        /\ answer' = NULL /\ UNCHANGED <<size, held>>
             Served == /\ fit # {} /\ Becomes(h) /\ answer' = c[k] + Node
                       /\ DOMAIN held' = DOMAIN held \cup {c[k] + Node}
  <2>8. Refused \/ Served
    BY <1>6, <2>1, <2>3, <2>4, <2>5 DEF mm_alloc
  <2>9. CASE Refused
    <3>1. Room(used, r, n) = {}
      BY <1>1, <1>4, <2>1, <2>2, <2>7, <2>9, RefusedRightly
    <3>2. Asked(used, used', x, r, n)
      BY <1>5, <2>6, <2>9, <3>1 DEF Asked
    <3>3. QED
      BY <2>1, <2>6, <3>2, RequestForm DEF HeapNext
  <2>10. CASE Served
    <3>1. PICK iter : iter = c[k]
      OBVIOUS
    <3>2. Taken(Heads, h, held, r, iter, bytes)
      BY <1>1, <2>1, <2>2, <2>4, <2>5, <2>10, <3>1, AllocTaken
    <3>3. h2 = h
      BY <1>3, <2>10, <3>2 DEF Taken, HeadsType, Becomes
    <3>4. x = iter
      <4>1. iter \in Nat
        BY <3>2, HeaderFacts DEF Taken
      <4>2. iter + Node # NULL /\ (iter + Node) - Node = iter
        BY <4>1, MemoryAssumption DEF Node
      <4>3. QED
        BY <2>6, <2>10, <3>1, <4>2
    <3>5. Asked(used, used', iter, r, n)
      BY <1>1, <1>4, <2>1, <2>2, <2>4, <2>10, <3>1, <3>2, <3>3, ServedLowest
    <3>6. QED
      BY <2>1, <2>6, <3>4, <3>5, RequestForm DEF HeapNext
  <2>11. QED
    BY <2>8, <2>9, <2>10
<1>7. ASSUME NEW ptr \in DOMAIN held \cup stale \cup {NULL}, mm_free(ptr)
      PROVE  [HeapNext]_<<used, answer>>
  <2>1. CASE ~accepted(ptr)
    BY <1>5, <1>7, <2>1 DEF mm_free
  <2>2. CASE accepted(ptr)
    <3>1. ptr \in DOMAIN held
      BY <1>1, <1>7, <2>2 DEF accepted
    <3>2. PICK node : node = ptr - Node
      OBVIOUS
    <3>3. PICK r : r = region[node]
      OBVIOUS
    <3>4. PICK h : h = mm_list_insert(Heads, node, r)
      OBVIOUS
    <3>5. Becomes(h) /\ DOMAIN held' = DOMAIN held \ {ptr} /\ answer' = answer
      BY <1>7, <2>2, <3>2, <3>3, <3>4 DEF mm_free
    <3>6. Freed(Heads, h, held, r, node)
      BY <1>1, <1>2, <3>1, <3>2, <3>3, <3>4, FreeFreed
    <3>7. h2 = h
      BY <1>3, <3>5, <3>6 DEF Freed, HeadsType, Becomes
    <3>8. node \in Headers /\ used[node] > 0 /\ used' = [used EXCEPT ![node] = 0]
      <4>1. PICK f2 : f2 = held' /\ DOMAIN f2 = DOMAIN held \ {ptr}
        BY <3>5
      <4>2. /\ node \in Headers /\ UsedBy(Heads, held)[node] > 0
            /\ Only(UsedBy(Heads, held), UsedBy(h, f2), node, 0)
        BY <1>1, <3>1, <3>2, <3>6, <4>1, FreedUsed
      <4>3. QED
        BY <1>4, <3>7, <4>1, <4>2 DEF Only
    <3>9. Abstract!Release
      BY <3>5, <3>8 DEF Abstract!Release, used
    <3>10. QED
      BY <3>9 DEF HeapNext
  <2>3. QED
    BY <2>1, <2>2
<1>8. CASE UNCHANGED vars
  BY <1>5, <1>8 DEF vars
<1>9. QED
  BY <1>6, <1>7, <1>8 DEF Next

\* The chain of headers implements the first-fit heap: after every sequence of
\* calls a request is refused only if no stretch of free memory is large enough,
\* it is otherwise served from the lowest one, and a freed block joins the free
\* memory around it (mm_alloc, mm_free).
THEOREM FirstFitHeap ==
  ASSUME Disciplined
  PROVE  Spec => ImplementsHeap
<1>1. Init => HeapInit
  <2>1. SUFFICES ASSUME Init PROVE HeapInit
    OBVIOUS
  <2>2. DOMAIN held = {} /\ answer = NULL
    BY <2>1 DEF Init
  <2>3. QED
    BY <2>2 DEF HeapInit, used
<1>2. MemoryInv /\ CountInv /\ [Next]_vars => [HeapNext]_<<used, answer>>
  BY StepHeap
<1>3. QED
  BY <1>1, <1>2, MemoryInvariant, CountInvariant, PTL DEF Spec, ImplementsHeap
=============================================================================
