----------------------------- MODULE ListLemmas -----------------------------
(***************************************************************************)
(* Facts about the sequence operators the models use for linked lists:     *)
(* InsertAt, RemoveAt and Tail, the set of their elements and whether they *)
(* repeat one.                                                             *)
(***************************************************************************)
EXTENDS Naturals, Sequences, SequencesExt, SequenceTheorems, WellFoundedInduction, TLAPS

\* A set of natural numbers that is not empty has a least element. Induction is
\* done with it: a set of counterexamples would have a first one.
LEMMA LeastNatural ==
  ASSUME NEW S \in SUBSET Nat, S # {}
  PROVE  \E m \in S : \A n \in S : m <= n
<1> DEFINE R == {ss \in Nat \X Nat : ss[1] < ss[2]}
<1>1. IsWellFoundedOn(R, Nat)
  BY NatLessThanWellFounded, Zenon DEF OpToRel
<1>2. \A x, y \in Nat : x < y => <<x, y>> \in R
  OBVIOUS
<1> HIDE DEF R
<1>3. PICK x \in S : \A y \in S : ~(<<y, x>> \in R)
  BY <1>1, WFMin
<1>4. x \in Nat /\ \A y \in S : y \in Nat /\ ~(y < x)
  BY <1>2, <1>3, Zenon
<1>5. \A y \in S : x <= y
  BY <1>4
<1>6. QED
  BY <1>5

\* The minimum of such a set, as the library defines it.
LEMMA MinFacts ==
  ASSUME NEW S \in SUBSET Nat, S # {}
  PROVE  Min(S) \in S /\ \A n \in S : Min(S) <= n
BY LeastNatural DEF Min

\* The number of units of z that n is rounded up to covers n.
LEMMA RoundUp ==
  ASSUME NEW n \in Nat, NEW z \in Nat \ {0}, NEW b, b = (n + z - 1) \div z
  PROVE  b \in Nat /\ b * z \in Nat /\ b * z >= n
<1>1. n + z - 1 \in Nat
  OBVIOUS
<1>2. PICK a \in Nat : a = n + z - 1
  BY <1>1
<1>3. b \in Nat /\ z * b <= a /\ a < z * b + z
  BY <1>2
<1>4. PICK y \in Nat : y = z * b /\ y = b * z
  BY <1>3
<1>5. QED
  BY <1>2, <1>3, <1>4

\* InsertAt puts e at position i and moves the rest back by one.
LEMMA InsertAtFacts ==
  ASSUME NEW S, NEW q \in Seq(S), NEW i \in 1 .. Len(q) + 1, NEW e \in S
  PROVE  /\ InsertAt(q, i, e) \in Seq(S)
         /\ Len(InsertAt(q, i, e)) = Len(q) + 1
         /\ \A j \in 1 .. Len(q) + 1 :
              InsertAt(q, i, e)[j] = IF j < i THEN q[j]
                                     ELSE IF j = i THEN e ELSE q[j - 1]
<1> DEFINE a == SubSeq(q, 1, i - 1)
           b == SubSeq(q, i, Len(q))
<1>0. /\ Len(q) \in Nat /\ \A j \in 1 .. Len(q) : q[j] \in S
  BY LenProperties, ElementOfSeq
<1>1. /\ a \in Seq(S) /\ Len(a) = i - 1
      /\ \A j \in 1 .. i - 1 : a[j] = q[j]
  BY <1>0, SubSeqProperties
<1>2. /\ b \in Seq(S) /\ Len(b) = Len(q) - i + 1
      /\ \A j \in 1 .. Len(q) - i + 1 : b[j] = q[i + j - 1]
  BY <1>0, SubSeqProperties
<1>3. /\ <<e>> \in Seq(S) /\ Len(<<e>>) = 1 /\ <<e>>[1] = e
  OBVIOUS
<1> DEFINE c == a \o <<e>>
<1> HIDE DEF a, b
<1>4. /\ c \in Seq(S) /\ Len(c) = i
      /\ \A j \in 1 .. i : c[j] = IF j < i THEN q[j] ELSE e
  BY <1>1, <1>3, ConcatProperties
<1> HIDE DEF c
<1>5. /\ c \o b \in Seq(S) /\ Len(c \o b) = Len(q) + 1
      /\ \A j \in 1 .. Len(q) + 1 :
           (c \o b)[j] = IF j <= i THEN c[j] ELSE b[j - i]
  BY <1>0, <1>2, <1>4, ConcatProperties
<1>6. InsertAt(q, i, e) = c \o b
  BY DEF InsertAt, a, b, c
<1>7. QED
  BY <1>0, <1>2, <1>4, <1>5, <1>6

\* RemoveAt drops position i and moves the rest up by one.
LEMMA RemoveAtFacts ==
  ASSUME NEW S, NEW q \in Seq(S), NEW i \in 1 .. Len(q)
  PROVE  /\ RemoveAt(q, i) \in Seq(S)
         /\ Len(RemoveAt(q, i)) = Len(q) - 1
         /\ \A j \in 1 .. Len(q) - 1 :
              RemoveAt(q, i)[j] = IF j < i THEN q[j] ELSE q[j + 1]
<1> DEFINE a == SubSeq(q, 1, i - 1)
           b == SubSeq(q, i + 1, Len(q))
<1>0. /\ Len(q) \in Nat /\ \A j \in 1 .. Len(q) : q[j] \in S
  BY LenProperties, ElementOfSeq
<1>1. /\ a \in Seq(S) /\ Len(a) = i - 1
      /\ \A j \in 1 .. i - 1 : a[j] = q[j]
  BY <1>0, SubSeqProperties
<1>2. /\ b \in Seq(S) /\ Len(b) = Len(q) - i
      /\ \A j \in 1 .. Len(q) - i : b[j] = q[i + j]
  BY <1>0, SubSeqProperties
<1> HIDE DEF a, b
<1>3. /\ a \o b \in Seq(S) /\ Len(a \o b) = Len(a) + Len(b)
      /\ \A j \in 1 .. Len(a) + Len(b) :
           (a \o b)[j] = IF j <= Len(a) THEN a[j] ELSE b[j - Len(a)]
  BY <1>1, <1>2, ConcatProperties
<1>4. RemoveAt(q, i) = a \o b
  BY DEF RemoveAt, a, b
<1>5. Len(a) + Len(b) = Len(q) - 1
  BY <1>0, <1>1, <1>2
<1>6. ASSUME NEW j \in 1 .. Len(q) - 1
      PROVE  (a \o b)[j] = IF j < i THEN q[j] ELSE q[j + 1]
  <2>1. CASE j < i
    BY <1>0, <1>1, <1>3, <1>5, <2>1
  <2>2. CASE ~(j < i)
    <3>1. /\ j - (i - 1) \in 1 .. Len(q) - i /\ ~(j <= i - 1)
          /\ i + (j - (i - 1)) = j + 1
      BY <1>0, <2>2
    <3>2. (a \o b)[j] = b[j - (i - 1)]
      BY <1>1, <1>3, <1>5, <3>1
    <3>3. QED
      BY <1>2, <2>2, <3>1, <3>2
  <2>3. QED
    BY <2>1, <2>2
<1>7. QED
  BY <1>3, <1>4, <1>5, <1>6

\* Inserting a new element adds it to the set of elements, once.
LEMMA InsertAtRange ==
  ASSUME NEW S, NEW q \in Seq(S), NEW i \in 1 .. Len(q) + 1, NEW e \in S
  PROVE  /\ Range(InsertAt(q, i, e)) = Range(q) \cup {e}
         /\ IsInjective(q) /\ e \notin Range(q) => IsInjective(InsertAt(q, i, e))
<1> DEFINE r == InsertAt(q, i, e)
<1>1. /\ r \in Seq(S) /\ Len(r) = Len(q) + 1 /\ Len(q) \in Nat
      /\ \A j \in 1 .. Len(q) + 1 :
           r[j] = IF j < i THEN q[j] ELSE IF j = i THEN e ELSE q[j - 1]
  <2>1. Len(q) \in Nat
    BY LenProperties
  <2>2. r \in Seq(S)
    BY InsertAtFacts
  <2>3. Len(r) = Len(q) + 1
    BY InsertAtFacts
  <2>4. \A j \in 1 .. Len(q) + 1 :
          r[j] = IF j < i THEN q[j] ELSE IF j = i THEN e ELSE q[j - 1]
    BY InsertAtFacts
  <2>5. QED
    BY <2>1, <2>2, <2>3, <2>4
<1> HIDE DEF r
<1>2. DOMAIN r = 1 .. Len(q) + 1 /\ DOMAIN q = 1 .. Len(q)
  BY <1>1, LenProperties
<1>3. Range(r) = Range(q) \cup {e}
  <2>1. ASSUME NEW j \in 1 .. Len(q) + 1 PROVE r[j] \in Range(q) \cup {e}
    <3>1. CASE j < i
      <4>1. j \in 1 .. Len(q) /\ r[j] = q[j]
        BY <1>1, <3>1
      <4>2. QED
        BY <1>2, <4>1 DEF Range
    <3>2. CASE j = i
      BY <1>1, <3>2
    <3>3. CASE j > i
      <4>1. j - 1 \in 1 .. Len(q) /\ r[j] = q[j - 1]
        BY <1>1, <3>3
      <4>2. QED
        BY <1>2, <4>1 DEF Range
    <3>4. QED
      BY <1>1, <3>1, <3>2, <3>3
  <2>2. ASSUME NEW j \in 1 .. Len(q) PROVE q[j] \in Range(r)
    <3>1. CASE j < i
      BY <1>1, <1>2, <3>1 DEF Range
    <3>2. CASE ~(j < i)
      <4>1. j + 1 \in 1 .. Len(q) + 1 /\ r[j + 1] = q[j]
        BY <1>1, <3>2
      <4>2. QED
        BY <1>2, <4>1 DEF Range
    <3>3. QED
      BY <3>1, <3>2
  <2>3. e \in Range(r)
    <3>1. r[i] = e
      BY <1>1
    <3>2. QED
      BY <1>2, <3>1 DEF Range
  <2>4. QED
    BY <1>2, <2>1, <2>2, <2>3 DEF Range
<1>4. ASSUME IsInjective(q), e \notin Range(q) PROVE IsInjective(r)
  <2>1. SUFFICES ASSUME NEW m \in 1 .. Len(q) + 1, NEW n \in 1 .. Len(q) + 1,
                        r[m] = r[n]
                 PROVE  m = n
    BY <1>2 DEF IsInjective
  <2>2. \A x, y \in 1 .. Len(q) : q[x] = q[y] => x = y
    BY <1>2, <1>4 DEF IsInjective
  <2>3. \A x \in 1 .. Len(q) : q[x] # e
    BY <1>2, <1>4 DEF Range
  <2>4. ASSUME NEW x \in 1 .. Len(q) + 1
        PROVE  \/ x < i /\ x \in 1 .. Len(q) /\ r[x] = q[x]
               \/ x = i /\ r[x] = e
               \/ x > i /\ x - 1 \in 1 .. Len(q) /\ r[x] = q[x - 1]
    BY <1>1
  <2>5. /\ \/ m < i /\ m \in 1 .. Len(q) /\ r[m] = q[m]
           \/ m = i /\ r[m] = e
           \/ m > i /\ m - 1 \in 1 .. Len(q) /\ r[m] = q[m - 1]
        /\ \/ n < i /\ n \in 1 .. Len(q) /\ r[n] = q[n]
           \/ n = i /\ r[n] = e
           \/ n > i /\ n - 1 \in 1 .. Len(q) /\ r[n] = q[n - 1]
    BY <2>4
  <2>6. QED
    BY <1>1, <2>1, <2>2, <2>3, <2>5
<1>5. QED
  BY <1>3, <1>4 DEF r

\* Removing a position of a sequence without repetitions removes that element.
LEMMA RemoveAtRange ==
  ASSUME NEW S, NEW q \in Seq(S), NEW i \in 1 .. Len(q), IsInjective(q)
  PROVE  /\ Range(RemoveAt(q, i)) = Range(q) \ {q[i]}
         /\ IsInjective(RemoveAt(q, i))
<1> DEFINE r == RemoveAt(q, i)
<1>1. /\ r \in Seq(S) /\ Len(r) = Len(q) - 1 /\ Len(q) \in Nat
      /\ \A j \in 1 .. Len(q) - 1 : r[j] = IF j < i THEN q[j] ELSE q[j + 1]
  BY RemoveAtFacts, LenProperties
<1> HIDE DEF r
<1>2. DOMAIN r = 1 .. Len(q) - 1 /\ DOMAIN q = 1 .. Len(q)
  BY <1>1, LenProperties
<1>3. \A x, y \in 1 .. Len(q) : q[x] = q[y] => x = y
  BY <1>2 DEF IsInjective
<1>4. ASSUME NEW j \in 1 .. Len(q) - 1 PROVE r[j] \in Range(q) \ {q[i]}
  <2>1. CASE j < i
    BY <1>1, <1>2, <1>3, <2>1 DEF Range
  <2>2. CASE ~(j < i)
    <3>1. j + 1 \in 1 .. Len(q) /\ r[j] = q[j + 1] /\ j + 1 # i
      BY <1>1, <2>2
    <3>2. QED
      BY <1>2, <1>3, <3>1 DEF Range
  <2>3. QED
    BY <2>1, <2>2
<1>5. ASSUME NEW j \in 1 .. Len(q), j # i PROVE q[j] \in Range(r)
  <2>1. CASE j < i
    BY <1>1, <1>2, <2>1, SMTT(20) DEF Range
  <2>2. CASE ~(j < i)
    <3>1. j - 1 \in 1 .. Len(q) - 1 /\ r[j - 1] = q[j]
      BY <1>1, <1>5, <2>2
    <3>2. QED
      BY <1>2, <3>1 DEF Range
  <2>3. QED
    BY <2>1, <2>2
<1>6. Range(r) = Range(q) \ {q[i]}
  BY <1>2, <1>4, <1>5 DEF Range
<1>7. IsInjective(r)
  <2>1. SUFFICES ASSUME NEW m \in 1 .. Len(q) - 1, NEW n \in 1 .. Len(q) - 1,
                        r[m] = r[n]
                 PROVE  m = n
    BY <1>2 DEF IsInjective
  <2>2. QED
    BY <1>1, <1>3, <2>1
<1>8. QED
  BY <1>6, <1>7 DEF r

\* Tail is RemoveAt the first position.
LEMMA TailRange ==
  ASSUME NEW S, NEW q \in Seq(S), q # <<>>, IsInjective(q)
  PROVE  /\ Tail(q) \in Seq(S) /\ Head(q) \in S /\ Head(q) = q[1]
         /\ Head(q) \in Range(q)
         /\ Range(Tail(q)) = Range(q) \ {Head(q)}
         /\ IsInjective(Tail(q))
<1>1. /\ Len(q) \in Nat \ {0} /\ 1 \in 1 .. Len(q) /\ DOMAIN q = 1 .. Len(q)
      /\ Head(q) = q[1]
  BY EmptySeq, LenProperties
<1>2. /\ RemoveAt(q, 1) \in Seq(S) /\ Len(RemoveAt(q, 1)) = Len(q) - 1
      /\ \A j \in 1 .. Len(q) - 1 : RemoveAt(q, 1)[j] = q[j + 1]
  <2>1. /\ RemoveAt(q, 1) \in Seq(S) /\ Len(RemoveAt(q, 1)) = Len(q) - 1
        /\ \A j \in 1 .. Len(q) - 1 :
             RemoveAt(q, 1)[j] = IF j < 1 THEN q[j] ELSE q[j + 1]
    BY <1>1, RemoveAtFacts
  <2>2. \A j \in 1 .. Len(q) - 1 : ~(j < 1)
    BY <1>1
  <2>3. QED
    BY <2>1, <2>2, Zenon
<1>3. /\ Tail(q) \in Seq(S) /\ Len(Tail(q)) = Len(q) - 1 /\ Head(q) \in S
      /\ \A j \in 1 .. Len(q) - 1 : Tail(q)[j] = q[j + 1]
  BY HeadTailProperties
<1>4. Tail(q) = RemoveAt(q, 1)
  BY <1>1, <1>2, <1>3, SeqEqual
<1>5. /\ Range(RemoveAt(q, 1)) = Range(q) \ {q[1]}
      /\ IsInjective(RemoveAt(q, 1))
  BY <1>1, RemoveAtRange
<1>6. q[1] \in Range(q)
  BY <1>1 DEF Range
<1>7. QED
  BY <1>1, <1>3, <1>4, <1>5, <1>6
=============================================================================
