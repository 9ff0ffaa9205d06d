----------------------------- MODULE Fat32_proofs -----------------------------
(***************************************************************************)
(* The safety of the FAT32 driver on every volume that Fat32 describes.    *)
(* The one sector buffer is always a clean copy of its sector, so what a   *)
(* call finds does not depend on the calls before it; an open file stands  *)
(* at a byte of its own chain; and a directory is listed as it would be    *)
(* if nobody else called.  A function with a loop has three lemmas: the    *)
(* rounds as a chain of states, one round, and what the loop gives.        *)
(***************************************************************************)
EXTENDS Fat32, ListLemmas

-----------------------------------------------------------------------------
(* The cache                                                                *)

\* The cache that holds the sector x.
Cached(x) == [buffer |-> Disk[x], lba |-> x, dirty |-> FALSE, halted |-> FALSE]
Clean(s) == s = Cached(s.lba)

\* Whatever sector is cached, fat_read ends with the sector asked for.
LEMMA ReadClean ==
  ASSUME NEW s, Clean(s), NEW x
  PROVE  fat_read(s, x) = Cached(x)
<1>1. CASE s.lba = x
  BY <1>1 DEF Clean, fat_read
<1>2. CASE s.lba # x
  <2>1. ~s.halted /\ ~s.dirty
    BY DEF Clean, Cached
  <2>2. fat_read(s, x) = [s EXCEPT !.buffer = Disk[x], !.lba = x]
    BY <1>2, <2>1 DEF fat_read
  <2>3. PICK y : s = [buffer |-> Disk[y], lba |-> y, dirty |-> FALSE, halted |-> FALSE]
    BY DEF Clean, Cached
  <2>4. QED
    BY <2>2, <2>3 DEF Cached
<1>3. QED
  BY <1>1, <1>2

\* A cache that holds a sector as the disk has it is clean.
LEMMA CachedClean == \A x : Clean(Cached(x)) /\ Cached(x).lba = x /\ Cached(x).buffer = Disk[x]
BY DEF Clean, Cached

\* fat_table_get finds the entry of the disk.
LEMMA TableGet ==
  ASSUME NEW s, Clean(s), NEW c
  PROVE  /\ Clean(fat_table_get(s, c).s)
         /\ fat_table_get(s, c).entry = FatEntry(c)
<1> DEFINE x == fat_lba + c \div FatPerSector
<1>1. fat_read(s, x) = Cached(x)
  BY ReadClean
<1>2. fat_table_get(s, c) = [s |-> Cached(x), entry |-> Cached(x).buffer[c % FatPerSector]]
  BY <1>1 DEF fat_table_get
<1>3. QED
  BY <1>2, CachedClean DEF FatEntry

\* A step to the next entry or sector.
LEMMA NextClean ==
  ASSUME NEW s, Clean(s), NEW p, NEW unit
  PROVE  Clean(NextSector(s, p, unit).s)
<1> DEFINE moved == [p EXCEPT !.rw_offset = @ - unit, !.sector = @ + 1]
           t == fat_table_get(s, p.cluster)
<1>1. Clean(t.s)
  BY TableGet
<1> HIDE DEF t
<1>2. Clean(NextCluster(t, moved).s)
  BY <1>1 DEF NextCluster
<1>3. QED
  BY <1>2 DEF NextSector, t

\* The next entry of a directory.
LEMMA GetNextClean ==
  ASSUME NEW s, Clean(s), NEW d
  PROVE  Clean(fat_dir_get_next(s, d).s)
BY NextClean DEF fat_dir_get_next

-----------------------------------------------------------------------------
(* The search of a directory                                                *)

Kept(acc) == "s" \in DOMAIN acc /\ Clean(acc.s)

\* A round of a search that moves on keeps the buffer clean.
LEMMA MoveKept ==
  ASSUME NEW acc, Kept(acc), NEW next, Clean(next.s)
  PROVE  Kept(Move(acc, next)) /\ Kept(Advance(acc, next))
BY DEF Kept, Move, Advance

\* One entry of a directory compared with a name.
LEMMA SearchKept ==
  ASSUME NEW name, NEW acc, Kept(acc)
  PROVE  Kept(SearchOne(name, acc))
<1> DEFINE s == fat_read(acc.s, acc.d.sector)
           e == s.buffer[acc.d.rw_offset]
           byLfn == acc.crc # 0 /\ acc.lfn_match
           match == IF byLfn THEN acc.crc = fat_get_sfn_crc(e.name)
                    ELSE fat_dir_sfn_cmp(e.name, name)
           go == Advance(acc, fat_dir_get_next(s, acc.d))
<1>1. Clean(s)
  BY ReadClean, CachedClean DEF Kept
<1>2. Kept(go)
  BY <1>1, GetNextClean, MoveKept
<1> HIDE DEF s, go
<1>3. Kept(SearchEntry(name, acc, s))
  <2>1. CASE e.type = "END"
    BY <1>1, <2>1 DEF SearchEntry, Kept
  <2>2. CASE e.type = "FREE"
    BY <1>2, <2>2 DEF SearchEntry, Kept, go
  <2>3. CASE e.type = "LFN"
    BY <1>2, <2>3 DEF SearchEntry, Kept, go
  <2>4. CASE e.type \notin {"END", "FREE", "LFN"} /\ ~match
    BY <1>2, <2>4 DEF SearchEntry, Kept, go
  <2>5. CASE e.type \notin {"END", "FREE", "LFN"} /\ match
    BY <1>1, <2>5 DEF SearchEntry, Kept
  <2>6. QED
    BY <2>1, <2>2, <2>3, <2>4, <2>5
<1>4. QED
  BY <1>3 DEF SearchOne, s

-----------------------------------------------------------------------------
(* Loops: each is a recursive function from the rounds made to what they    *)
(* leave, and has a value for every number of rounds.                       *)

\* A set with 0 that goes on from each number to the next one.
LEMMA UpTo ==
  ASSUME NEW n \in Nat, NEW S, 0 \in S, \A i \in 1 .. n : i - 1 \in S => i \in S
  PROVE  \A i \in 0 .. n : i \in S
<1> DEFINE Bad == {i \in 0 .. n : i \notin S}
<1>1. SUFFICES Bad = {}
  OBVIOUS
<1>2. SUFFICES ASSUME Bad # {} PROVE FALSE
  OBVIOUS
<1> Bad \subseteq Nat
  OBVIOUS
<1> HIDE DEF Bad
<1>3. PICK m \in Bad : \A k \in Bad : m <= k
  BY <1>2, LeastNatural
<1>4. m \in 1 .. n /\ m - 1 \in 0 .. n /\ m - 1 \notin Bad
  BY <1>3 DEF Bad
<1>5. QED
  BY <1>3, <1>4 DEF Bad

\* The bound of the walks is a number.
LEMMA BoundFacts ==
  /\ WalkBound \in Nat \ {0} /\ cluster_size \in Nat \ {0}
  /\ root_lba \in Nat \ {0} /\ data_lba \in Nat \ {0}
<1>1. /\ cluster_size \in Nat \ {0} /\ DirPerSector \in Nat \ {0}
      /\ Partition \in Nat \ {0} /\ Bpb.root_clust - 2 \in Nat
      /\ Bpb.rsvd_cnt \in Nat /\ Bpb.fat_size \in Nat /\ Bpb.num_fats \in Nat
  <2>1. Bpb.cluster_size \in Nat \ {0} /\ Partition \in Nat \ {0} /\ DirPerSector \in Nat \ {0}
    BY FatAssumption, Zenon
  <2>2. Bpb.root_clust \in Nat \ {0, 1}
    BY FatAssumption, Zenon
  <2>3. Bpb.rsvd_cnt \in Nat /\ Bpb.fat_size \in Nat /\ Bpb.num_fats \in Nat
    BY FatAssumption, Zenon
  <2>4. Bpb.root_clust - 2 \in Nat
    BY <2>2
  <2>5. QED
    BY <2>1, <2>3, <2>4, Zenon DEF cluster_size
<1>2. \A a, b \in Nat : a * b \in Nat /\ (a # 0 /\ b # 0 => a * b # 0)
  OBVIOUS
<1>3. DirPerSector * cluster_size \in Nat \ {0}
  BY <1>1, <1>2
<1>4. data_lba \in Nat \ {0}
  BY <1>1, <1>2 DEF data_lba, fat_lba
<1>5. (Bpb.root_clust - 2) * cluster_size \in Nat
  BY <1>1, <1>2
<1>6. QED
  BY <1>1, <1>3, <1>4, <1>5 DEF WalkBound, root_lba, fat_clust_to_sect

\* The search of a directory as a chain of rounds.
LEMMA SearchLoop ==
  ASSUME NEW name, NEW first, NEW n \in Nat
  PROVE  \E w : w = [i \in 0 .. n |-> IF i = 0 THEN first ELSE SearchOne(name, w[i - 1])]
<1> DEFINE Step(acc, i) == SearchOne(name, acc)
           IsWalk(w, m) == w = [i \in 0 .. m |-> IF i = 0 THEN first ELSE Step(w[i - 1], i)]
           Bad == {m \in Nat : ~ \E w : IsWalk(w, m)}
<1> HIDE DEF Step
<1>1. SUFFICES Bad = {}
  BY DEF Step
<1>2. SUFFICES ASSUME Bad # {} PROVE FALSE
  OBVIOUS
<1>3. PICK m \in Bad : \A k \in Bad : m <= k
  BY <1>2, LeastNatural
<1>4. CASE m = 0
  <2>1. IsWalk([i \in 0 .. 0 |-> first], 0)
    OBVIOUS
  <2>2. QED
    BY <1>3, <1>4, <2>1
<1>5. CASE m # 0
  <2>1. m - 1 \in Nat /\ m - 1 \notin Bad
    BY <1>3, <1>5
  <2>2. PICK g : IsWalk(g, m - 1)
    BY <2>1
  <2>3. PICK z : z = Step(g[m - 1], m)
    OBVIOUS
  <2> DEFINE w == [i \in 0 .. m |-> IF i = m THEN z ELSE g[i]]
  <2>4. w[m] = z /\ \A i \in 0 .. m - 1 : w[i] = g[i]
    BY <2>1
  <2>5. \A i \in 0 .. m : w[i] = IF i = 0 THEN first ELSE Step(w[i - 1], i)
    <3>1. ASSUME NEW i \in 0 .. m, i # m
          PROVE  w[i] = IF i = 0 THEN first ELSE Step(w[i - 1], i)
      <4>1. i \in 0 .. m - 1 /\ (i # 0 => i - 1 \in 0 .. m - 1)
        BY <2>1, <3>1
      <4>2. QED
        BY <2>2, <2>4, <4>1
    <3>2. w[m] = Step(w[m - 1], m)
      BY <2>1, <2>3, <2>4
    <3>3. QED
      BY <1>5, <3>1, <3>2
  <2>6. IsWalk(w, m)
    BY <2>5
  <2>7. QED
    BY <1>3, <2>6
<1>6. QED
  BY <1>4, <1>5

StartDir(d) ==
  IF d.start_sect = d.sector THEN d
  ELSE [d EXCEPT !.sector = d.start_sect, !.rw_offset = 0,
                 !.cluster = fat_sect_to_clust(d.start_sect)]
SearchStart(s, d) ==
  [s |-> s, d |-> StartDir(d), crc |-> 0, lfn_match |-> TRUE, done |-> FALSE, found |-> FALSE]

\* fat_dir_search is its loop.
LEMMA SearchWalk ==
  ASSUME NEW s, NEW d, NEW name
  PROVE  \E w : /\ w[0] = SearchStart(s, d)
                /\ \A i \in 1 .. WalkBound : w[i] = SearchOne(name, w[i - 1])
                /\ fat_dir_search(s, d, name) = w[WalkBound]
<1> DEFINE walk == CHOOSE w : w = [i \in 0 .. WalkBound |->
                       IF i = 0 THEN SearchStart(s, d) ELSE SearchOne(name, w[i - 1])]
<1>1. walk = [i \in 0 .. WalkBound |->
                IF i = 0 THEN SearchStart(s, d) ELSE SearchOne(name, walk[i - 1])]
  BY SearchLoop, BoundFacts
<1>2. fat_dir_search(s, d, name) = walk[WalkBound]
  BY DEF fat_dir_search, SearchStart, StartDir
<1> HIDE DEF walk
<1>3. walk[0] = SearchStart(s, d) /\ \A i \in 1 .. WalkBound : walk[i] = SearchOne(name, walk[i - 1])
  BY <1>1, BoundFacts
<1>4. QED
  BY <1>2, <1>3

\* Two searches at the same point, with different caches.
Searches(acc) == {"s", "d", "crc", "lfn_match", "done", "found"} \subseteq DOMAIN acc
Alike(a, b) ==
  /\ Searches(a) /\ Searches(b)
  /\ a.d = b.d /\ a.crc = b.crc /\ a.lfn_match = b.lfn_match
  /\ a.done = b.done /\ a.found = b.found

\* Two searches that have seen the same go on alike, over the same sector.
LEMMA SearchAlike ==
  ASSUME NEW name, NEW a, NEW b, Alike(a, b), NEW s
  PROVE  /\ Alike(SearchEntry(name, a, s), SearchEntry(name, b, s))
         /\ SearchEntry(name, a, s).s = SearchEntry(name, b, s).s
<1>1. PICK n : n = fat_dir_get_next(s, a.d) /\ n = fat_dir_get_next(s, b.d)
  BY DEF Alike
<1>2. PICK e : e = s.buffer[a.d.rw_offset] /\ e = s.buffer[b.d.rw_offset]
  BY DEF Alike
<1>3. PICK goA, goB : goA = Advance(a, n) /\ goB = Advance(b, n)
  OBVIOUS
<1>4. Alike(goA, goB) /\ goA.s = goB.s
  BY <1>3 DEF Alike, Searches, Advance, Move
<1>5. PICK crc : crc = fat_get_sfn_crc(e.name)
  OBVIOUS
<1>6. PICK cmp : cmp = fat_dir_sfn_cmp(e.name, name)
  OBVIOUS
<1>7. PICK lfn : lfn = fat_dir_lfn_cmp(e, name)
  OBVIOUS
<1>8. PICK sect : sect = fat_clust_to_sect(e.cluster)
  OBVIOUS
<1> DEFINE Match(acc) == IF acc.crc # 0 /\ acc.lfn_match THEN acc.crc = crc ELSE cmp
           Entry(acc, go) ==
             CASE e.type = "END" -> [acc EXCEPT !.s = s, !.done = TRUE]
               [] e.type = "FREE" -> go
               [] e.type = "LFN" -> [go EXCEPT !.lfn_match = @ /\ lfn, !.crc = e.crc]
               [] OTHER -> IF ~Match(acc) THEN [go EXCEPT !.lfn_match = TRUE, !.crc = 0]
                           ELSE [acc EXCEPT !.s = s, !.done = TRUE, !.found = TRUE,
                                   !.d = [cluster |-> e.cluster, sector |-> sect, start_sect |-> sect,
                                          size |-> e.size, rw_offset |-> 0]]
<1>9. SearchEntry(name, a, s) = Entry(a, goA) /\ SearchEntry(name, b, s) = Entry(b, goB)
  BY <1>1, <1>2, <1>3, <1>5, <1>6, <1>7, <1>8 DEF SearchEntry
<1>10. Match(a) = Match(b)
  BY DEF Alike
<1>11. Alike(Entry(a, goA), Entry(b, goB)) /\ Entry(a, goA).s = Entry(b, goB).s
  <2> HIDE DEF Match
  <2>1. CASE e.type = "END"
    BY <2>1 DEF Alike, Searches
  <2>2. CASE e.type = "FREE"
    BY <1>4, <2>2
  <2>3. CASE e.type = "LFN"
    BY <1>4, <2>3 DEF Alike, Searches
  <2>4. CASE e.type \notin {"END", "FREE", "LFN"} /\ ~Match(a)
    BY <1>4, <1>10, <2>4 DEF Alike, Searches
  <2>5. CASE e.type \notin {"END", "FREE", "LFN"} /\ Match(a)
    BY <1>10, <2>5 DEF Alike, Searches
  <2>6. QED
    BY <2>1, <2>2, <2>3, <2>4, <2>5
<1>12. QED
  BY <1>9, <1>11

\* A search begins with a read, so what it finds and leaves in the cache does
\* not depend on what the cache held.
LEMMA SearchFacts ==
  ASSUME NEW s, Clean(s), NEW t, Clean(t), NEW d, NEW name
  PROVE  /\ Clean(fat_dir_search(s, d, name).s)
         /\ fat_dir_search(s, d, name).s = fat_dir_search(t, d, name).s
         /\ Alike(fat_dir_search(s, d, name), fat_dir_search(t, d, name))
<1>1. PICK w : /\ w[0] = SearchStart(s, d)
               /\ \A i \in 1 .. WalkBound : w[i] = SearchOne(name, w[i - 1])
               /\ fat_dir_search(s, d, name) = w[WalkBound]
  BY SearchWalk
<1>2. PICK v : /\ v[0] = SearchStart(t, d)
               /\ \A i \in 1 .. WalkBound : v[i] = SearchOne(name, v[i - 1])
               /\ fat_dir_search(t, d, name) = v[WalkBound]
  BY SearchWalk
<1>3. /\ Kept(w[0]) /\ Kept(v[0]) /\ ~w[0].done /\ ~v[0].done
      /\ Alike(w[0], v[0])
  BY <1>1, <1>2 DEF SearchStart, Kept, Alike, Searches
<1> DEFINE S == {j \in 0 .. WalkBound :
                   /\ Kept(w[j]) /\ Kept(v[j]) /\ Alike(w[j], v[j])
                   /\ j # 0 => w[j].s = v[j].s}
<1>4. ASSUME NEW i \in 1 .. WalkBound, i - 1 \in S PROVE i \in S
  <2>1. Kept(w[i]) /\ Kept(v[i])
    BY <1>1, <1>2, <1>4, SearchKept
  <2>2. PICK a, b : /\ a = w[i - 1] /\ b = v[i - 1] /\ Kept(a) /\ Kept(b) /\ Alike(a, b)
                    /\ w[i] = SearchOne(name, a) /\ v[i] = SearchOne(name, b)
    BY <1>1, <1>2, <1>4
  <2>3. CASE a.done
    <3>1. i - 1 # 0
      BY <1>3, <2>2, <2>3
    <3>2. w[i] = w[i - 1] /\ v[i] = v[i - 1]
      BY <2>2, <2>3 DEF SearchOne, Alike
    <3>3. QED
      BY <1>4, <2>1, <3>1, <3>2
  <2>4. CASE ~a.done
    <3>1. PICK r : r = fat_read(a.s, a.d.sector) /\ r = fat_read(b.s, b.d.sector)
      BY <2>2, ReadClean DEF Kept, Alike
    <3>2. w[i] = SearchEntry(name, a, r) /\ v[i] = SearchEntry(name, b, r)
      BY <2>2, <2>4, <3>1 DEF SearchOne, Alike
    <3>3. QED
      BY <1>4, <2>1, <2>2, <3>2, SearchAlike
  <2>5. QED
    BY <2>3, <2>4
<1>5. \A i \in 0 .. WalkBound : i \in S
  <2>1. 0 \in S
    BY <1>3, BoundFacts
  <2>2. S \in SUBSET (0 .. WalkBound)
    OBVIOUS
  <2> HIDE DEF S
  <2>3. QED
    BY <1>4, <2>1, UpTo, BoundFacts
<1>6. WalkBound \in S /\ WalkBound # 0
  BY <1>5, BoundFacts
<1>7. QED
  BY <1>1, <1>2, <1>6 DEF Kept

-----------------------------------------------------------------------------
(* Paths                                                                    *)

\* The directories of a path as a chain of rounds.
LEMMA FollowLoop ==
  ASSUME NEW frags, NEW first, NEW n \in Nat
  PROVE  \E w : w = [i \in 0 .. n |-> IF i = 0 THEN first ELSE FollowOne(w[i - 1], frags[i])]
<1> DEFINE Step(acc, i) == FollowOne(acc, frags[i])
           IsWalk(w, m) == w = [i \in 0 .. m |-> IF i = 0 THEN first ELSE Step(w[i - 1], i)]
           Bad == {m \in Nat : ~ \E w : IsWalk(w, m)}
<1> HIDE DEF Step
<1>1. SUFFICES Bad = {}
  BY DEF Step
<1>2. SUFFICES ASSUME Bad # {} PROVE FALSE
  OBVIOUS
<1>3. PICK m \in Bad : \A k \in Bad : m <= k
  BY <1>2, LeastNatural
<1>4. CASE m = 0
  <2>1. IsWalk([i \in 0 .. 0 |-> first], 0)
    OBVIOUS
  <2>2. QED
    BY <1>3, <1>4, <2>1
<1>5. CASE m # 0
  <2>1. m - 1 \in Nat /\ m - 1 \notin Bad
    BY <1>3, <1>5
  <2>2. PICK g : IsWalk(g, m - 1)
    BY <2>1
  <2>3. PICK z : z = Step(g[m - 1], m)
    OBVIOUS
  <2> DEFINE w == [i \in 0 .. m |-> IF i = m THEN z ELSE g[i]]
  <2>4. w[m] = z /\ \A i \in 0 .. m - 1 : w[i] = g[i]
    BY <2>1
  <2>5. \A i \in 0 .. m : w[i] = IF i = 0 THEN first ELSE Step(w[i - 1], i)
    <3>1. ASSUME NEW i \in 0 .. m, i # m
          PROVE  w[i] = IF i = 0 THEN first ELSE Step(w[i - 1], i)
      <4>1. i \in 0 .. m - 1 /\ (i # 0 => i - 1 \in 0 .. m - 1)
        BY <2>1, <3>1
      <4>2. QED
        BY <2>2, <2>4, <4>1
    <3>2. w[m] = Step(w[m - 1], m)
      BY <2>1, <2>3, <2>4
    <3>3. QED
      BY <1>5, <3>1, <3>2
  <2>6. IsWalk(w, m)
    BY <2>5
  <2>7. QED
    BY <1>3, <2>6
<1>6. QED
  BY <1>4, <1>5

FollowStart(s) == [s |-> s, d |-> RootDir, done |-> FALSE, status |-> "OK"]

\* fat_follow_path is that chain for a path of this volume.
LEMMA FollowWalk ==
  ASSUME NEW s, NEW path, path.letter = letter, path.frags # <<>>, Len(path.frags) \in Nat
  PROVE  \E w : /\ w[0] = FollowStart(s)
                /\ \A i \in 1 .. Len(path.frags) : w[i] = FollowOne(w[i - 1], path.frags[i])
                /\ fat_follow_path(s, path) = w[Len(path.frags)]
<1> DEFINE walk == CHOOSE w : w = [i \in 0 .. Len(path.frags) |->
                       IF i = 0 THEN FollowStart(s) ELSE FollowOne(w[i - 1], path.frags[i])]
<1>1. walk = [i \in 0 .. Len(path.frags) |->
                IF i = 0 THEN FollowStart(s) ELSE FollowOne(walk[i - 1], path.frags[i])]
  BY FollowLoop
<1>2. fat_follow_path(s, path) = walk[Len(path.frags)]
  BY DEF fat_follow_path, FollowStart
<1> HIDE DEF walk
<1>3. /\ walk[0] = FollowStart(s)
      /\ \A i \in 1 .. Len(path.frags) : walk[i] = FollowOne(walk[i - 1], path.frags[i])
  BY <1>1
<1>4. QED
  BY <1>2, <1>3

\* Two calls on their way down the same path.
Follows(acc) == {"s", "d", "done", "status"} \subseteq DOMAIN acc
OnTheWay(a, b) ==
  /\ Kept(a) /\ Kept(b) /\ Follows(a) /\ Follows(b)
  /\ a.d = b.d /\ a.done = b.done /\ a.status = b.status

\* One fragment of a path leads to the same place from any cached sector.
LEMMA FollowAlike ==
  ASSUME NEW name, NEW a, NEW b, OnTheWay(a, b)
  PROVE  OnTheWay(FollowOne(a, name), FollowOne(b, name))
<1>1. PICK dot : dot = \E i \in DOMAIN name : name[i] = Dot
  OBVIOUS
<1>2. CASE a.done \/ dot
  <2>1. /\ FollowOne(a, name) = [a EXCEPT !.done = TRUE]
        /\ FollowOne(b, name) = [b EXCEPT !.done = TRUE]
    BY <1>1, <1>2 DEF FollowOne, OnTheWay
  <2>2. QED
    BY <2>1 DEF OnTheWay, Follows, Kept
<1>3. CASE ~(a.done \/ dot)
  <2>1. PICK r, q : r = fat_dir_search(a.s, a.d, name) /\ q = fat_dir_search(b.s, b.d, name)
    OBVIOUS
  <2>2. FollowOne(a, name) = Entered(a, r) /\ FollowOne(b, name) = Entered(b, q)
    BY <1>1, <1>3, <2>1 DEF FollowOne, OnTheWay
  <2>3. Clean(r.s) /\ Clean(q.s) /\ r.d = q.d /\ r.found = q.found
    BY <2>1, SearchFacts DEF OnTheWay, Kept, Alike
  <2>4. QED
    BY <2>2, <2>3 DEF OnTheWay, Follows, Kept, Entered
<1>4. QED
  BY <1>2, <1>3

\* Where a path leads does not depend on what the cache held either.
LEMMA FollowFacts ==
  ASSUME NEW s, Clean(s), NEW t, Clean(t), NEW path \in Paths
  PROVE  OnTheWay(fat_follow_path(s, path), fat_follow_path(t, path))
<1>1. Len(path.frags) \in Nat
  BY FatAssumption
<1>2. CASE path.letter # letter \/ path.frags = <<>>
  BY <1>2 DEF fat_follow_path, OnTheWay, Follows, Kept
<1>3. CASE path.letter = letter /\ path.frags # <<>>
  <2>1. PICK w : /\ w[0] = FollowStart(s)
                 /\ \A i \in 1 .. Len(path.frags) : w[i] = FollowOne(w[i - 1], path.frags[i])
                 /\ fat_follow_path(s, path) = w[Len(path.frags)]
    BY <1>1, <1>3, FollowWalk
  <2>2. PICK v : /\ v[0] = FollowStart(t)
                 /\ \A i \in 1 .. Len(path.frags) : v[i] = FollowOne(v[i - 1], path.frags[i])
                 /\ fat_follow_path(t, path) = v[Len(path.frags)]
    BY <1>1, <1>3, FollowWalk
  <2>3. OnTheWay(w[0], v[0])
    <3>1. FollowStart(s).done = FollowStart(t).done
      BY DEF FollowStart
    <3>2. QED
      BY <2>1, <2>2, <3>1 DEF FollowStart, OnTheWay, Follows, Kept
  <2>4. PICK n \in Nat : n = Len(path.frags)
    BY <1>1
  <2> DEFINE S == {j \in 0 .. n : OnTheWay(w[j], v[j])}
  <2>5. 0 \in S
    BY <2>3, <2>4
  <2>6. ASSUME NEW i \in 1 .. n, i - 1 \in S PROVE i \in S
    BY <2>1, <2>2, <2>4, <2>6, FollowAlike
  <2> HIDE DEF S
  <2>7. \A i \in 0 .. n : i \in S
    BY <2>5, <2>6, UpTo
  <2>8. OnTheWay(w[n], v[n])
    BY <2>4, <2>7 DEF S
  <2>9. QED
    BY <2>1, <2>2, <2>4, <2>8
<1>4. QED
  BY <1>2, <1>3

\* So what is opened is what the path names when the volume is read afresh.
LEMMA OpenFacts ==
  ASSUME NEW s, Clean(s), NEW t, Clean(t), NEW path \in Paths
  PROVE  /\ Clean(fat_file_open(s, path).s)
         /\ fat_file_open(s, path).status = fat_file_open(t, path).status
         /\ fat_file_open(s, path).status = "OK" => fat_file_open(s, path).f = fat_file_open(t, path).f
<1>1. PICK a, b : a = fat_follow_path(s, path) /\ b = fat_follow_path(t, path)
  OBVIOUS
<1>2. OnTheWay(a, b)
  BY <1>1, FollowFacts
<1>3. CASE a.status # "OK"
  BY <1>1, <1>2, <1>3 DEF fat_file_open, OpenIn, OnTheWay, Kept
<1>4. CASE a.status = "OK"
  <2>1. PICK name : name = path.frags[Len(path.frags)]
    OBVIOUS
  <2>2. PICK r, q : r = fat_dir_search(a.s, a.d, name) /\ q = fat_dir_search(b.s, b.d, name)
    OBVIOUS
  <2>3. Clean(r.s) /\ Clean(q.s) /\ r.d = q.d /\ r.found = q.found
    BY <1>2, <2>2, SearchFacts DEF OnTheWay, Kept, Alike
  <2>4. fat_file_open(s, path) = Opened(r, path) /\ fat_file_open(t, path) = Opened(q, path)
    BY <1>1, <1>2, <1>4, <2>1, <2>2 DEF fat_file_open, OpenIn, OnTheWay
  <2>5. QED
    BY <2>3, <2>4 DEF Opened
<1>5. QED
  BY <1>3, <1>4

-----------------------------------------------------------------------------
(* Directories                                                              *)

\* One call of fat_dir_read as a chain of rounds.
LEMMA ListLoop ==
  ASSUME NEW first, NEW n \in Nat
  PROVE  \E w : w = [i \in 0 .. n |-> IF i = 0 THEN first ELSE ReadOne(w[i - 1])]
<1> DEFINE Step(acc, i) == ReadOne(acc)
           IsWalk(w, m) == w = [i \in 0 .. m |-> IF i = 0 THEN first ELSE Step(w[i - 1], i)]
           Bad == {m \in Nat : ~ \E w : IsWalk(w, m)}
<1> HIDE DEF Step
<1>1. SUFFICES Bad = {}
  BY DEF Step
<1>2. SUFFICES ASSUME Bad # {} PROVE FALSE
  OBVIOUS
<1>3. PICK m \in Bad : \A k \in Bad : m <= k
  BY <1>2, LeastNatural
<1>4. CASE m = 0
  <2>1. IsWalk([i \in 0 .. 0 |-> first], 0)
    OBVIOUS
  <2>2. QED
    BY <1>3, <1>4, <2>1
<1>5. CASE m # 0
  <2>1. m - 1 \in Nat /\ m - 1 \notin Bad
    BY <1>3, <1>5
  <2>2. PICK g : IsWalk(g, m - 1)
    BY <2>1
  <2>3. PICK z : z = Step(g[m - 1], m)
    OBVIOUS
  <2> DEFINE w == [i \in 0 .. m |-> IF i = m THEN z ELSE g[i]]
  <2>4. w[m] = z /\ \A i \in 0 .. m - 1 : w[i] = g[i]
    BY <2>1
  <2>5. \A i \in 0 .. m : w[i] = IF i = 0 THEN first ELSE Step(w[i - 1], i)
    <3>1. ASSUME NEW i \in 0 .. m, i # m
          PROVE  w[i] = IF i = 0 THEN first ELSE Step(w[i - 1], i)
      <4>1. i \in 0 .. m - 1 /\ (i # 0 => i - 1 \in 0 .. m - 1)
        BY <2>1, <3>1
      <4>2. QED
        BY <2>2, <2>4, <4>1
    <3>2. w[m] = Step(w[m - 1], m)
      BY <2>1, <2>3, <2>4
    <3>3. QED
      BY <1>5, <3>1, <3>2
  <2>6. IsWalk(w, m)
    BY <2>5
  <2>7. QED
    BY <1>3, <2>6
<1>6. QED
  BY <1>4, <1>5

ListStart(s, d) ==
  [s |-> s, d |-> d, crc |-> 0, name |-> <<>>, length |-> 0, status |-> "walk"]

\* fat_dir_read is its loop.
LEMMA ListWalk ==
  ASSUME NEW s, NEW d
  PROVE  \E w : /\ w[0] = ListStart(s, d)
                /\ \A i \in 1 .. WalkBound : w[i] = ReadOne(w[i - 1])
                /\ fat_dir_read(s, d) = w[WalkBound]
<1> DEFINE walk == CHOOSE w : w = [i \in 0 .. WalkBound |->
                       IF i = 0 THEN ListStart(s, d) ELSE ReadOne(w[i - 1])]
<1>1. walk = [i \in 0 .. WalkBound |-> IF i = 0 THEN ListStart(s, d) ELSE ReadOne(walk[i - 1])]
  BY ListLoop, BoundFacts
<1>2. fat_dir_read(s, d) = walk[WalkBound]
  BY DEF fat_dir_read, ListStart
<1> HIDE DEF walk
<1>3. walk[0] = ListStart(s, d) /\ \A i \in 1 .. WalkBound : walk[i] = ReadOne(walk[i - 1])
  BY <1>1, BoundFacts
<1>4. QED
  BY <1>2, <1>3

\* Two readers at the same entry, with different caches.
Lists(acc) == {"s", "d", "crc", "name", "length", "status"} \subseteq DOMAIN acc
Listed(a, b) ==
  /\ Lists(a) /\ Lists(b) /\ Kept(a) /\ Kept(b)
  /\ a.d = b.d /\ a.crc = b.crc /\ a.name = b.name
  /\ a.length = b.length /\ a.status = b.status

\* Two listings that have seen the same go on alike.
LEMMA ListAlike ==
  ASSUME NEW a, NEW b, Listed(a, b), NEW s, Clean(s)
  PROVE  Listed(ReadEntry(a, s), ReadEntry(b, s))
<1>1. PICK n : n = fat_dir_get_next(s, a.d) /\ n = fat_dir_get_next(s, b.d)
  BY DEF Listed
<1>2. PICK e : e = s.buffer[a.d.rw_offset] /\ e = s.buffer[b.d.rw_offset]
  BY DEF Listed
<1>3. PICK goA, goB : goA = Move(a, n) /\ goB = Move(b, n)
  OBVIOUS
<1>4. Clean(n.s)
  BY <1>1, GetNextClean
<1>5. Listed(goA, goB) /\ goA.crc = a.crc /\ goA.length = a.length /\ goA.name = a.name
  BY <1>3, <1>4 DEF Listed, Lists, Kept, Move
<1>6. PICK crc : crc = fat_get_sfn_crc(e.name)
  OBVIOUS
<1>7. PICK off : off = FragLen * (e.seq - 1)
  OBVIOUS
<1>8. PICK l : l = Len(e.chars)
  OBVIOUS
<1>9. PICK frag : frag = [k \in off + 1 .. off + Len(e.chars) |-> e.chars[k - off]]
  OBVIOUS
<1> DEFINE Entry(acc, go) ==
             CASE e.type = "END" -> [acc EXCEPT !.s = s, !.status = "EOF"]
               [] e.type = "FREE" -> go
               [] e.type = "LFN" ->
                    [go EXCEPT !.crc = e.crc, !.length = @ + l, !.name = frag @@ @]
               [] OTHER ->
                    IF acc.crc = 0 THEN [go EXCEPT !.name = e.name, !.length = 11, !.status = "OK"]
                    ELSE IF acc.crc # crc THEN [acc EXCEPT !.s = s, !.status = "ERROR"]
                    ELSE [go EXCEPT !.status = "OK"]
<1>10. ReadEntry(a, s) = Entry(a, goA) /\ ReadEntry(b, s) = Entry(b, goB)
  BY <1>1, <1>2, <1>3, <1>6, <1>7, <1>8, <1>9 DEF ReadEntry
<1>11. Listed(Entry(a, goA), Entry(b, goB))
  <2>1. CASE e.type = "END"
    BY <2>1 DEF Listed, Lists, Kept
  <2>2. CASE e.type = "FREE"
    BY <1>5, <2>2
  <2>3. CASE e.type = "LFN"
    <3>1. PICK na, nb : na = frag @@ goA.name /\ nb = frag @@ goB.name
      OBVIOUS
    <3>2. PICK la, lb : la = goA.length + l /\ lb = goB.length + l
      OBVIOUS
    <3>3. na = nb /\ la = lb
      BY <1>5, <3>1, <3>2 DEF Listed
    <3>4. /\ Entry(a, goA) = [goA EXCEPT !.crc = e.crc, !.length = la, !.name = na]
          /\ Entry(b, goB) = [goB EXCEPT !.crc = e.crc, !.length = lb, !.name = nb]
      BY <2>3, <3>1, <3>2
    <3>5. QED
      BY <1>5, <3>3, <3>4 DEF Listed, Lists, Kept
  <2>4. CASE e.type \notin {"END", "FREE", "LFN"} /\ a.crc = 0
    BY <1>5, <2>4 DEF Listed, Lists, Kept
  <2>5. CASE e.type \notin {"END", "FREE", "LFN"} /\ a.crc # 0 /\ a.crc # crc
    BY <1>5, <2>5 DEF Listed, Lists, Kept
  <2>6. CASE e.type \notin {"END", "FREE", "LFN"} /\ a.crc # 0 /\ a.crc = crc
    BY <1>5, <2>6 DEF Listed, Lists, Kept
  <2>7. QED
    BY <2>1, <2>2, <2>3, <2>4, <2>5, <2>6
<1>12. QED
  BY <1>10, <1>11

\* What fat_dir_read gives does not depend on the cached sector.
LEMMA ListFacts ==
  ASSUME NEW s, Clean(s), NEW t, Clean(t), NEW d
  PROVE  Listed(fat_dir_read(s, d), fat_dir_read(t, d))
<1>1. PICK w : /\ w[0] = ListStart(s, d)
               /\ \A i \in 1 .. WalkBound : w[i] = ReadOne(w[i - 1])
               /\ fat_dir_read(s, d) = w[WalkBound]
  BY ListWalk
<1>2. PICK v : /\ v[0] = ListStart(t, d)
               /\ \A i \in 1 .. WalkBound : v[i] = ReadOne(v[i - 1])
               /\ fat_dir_read(t, d) = v[WalkBound]
  BY ListWalk
<1>3. Listed(w[0], v[0])
  BY <1>1, <1>2 DEF ListStart, Listed, Lists, Kept
<1>4. PICK S : S = {j \in 0 .. WalkBound : Listed(w[j], v[j])}
  OBVIOUS
<1>5. ASSUME NEW i \in 1 .. WalkBound, i - 1 \in S PROVE i \in S
  <2>1. PICK a, b : /\ a = w[i - 1] /\ b = v[i - 1] /\ Listed(a, b)
                    /\ w[i] = ReadOne(a) /\ v[i] = ReadOne(b)
    BY <1>1, <1>2, <1>4, <1>5
  <2>2. CASE a.status # "walk"
    <3>1. ReadOne(a) = a /\ ReadOne(b) = b
      BY <2>1, <2>2 DEF ReadOne, Listed
    <3>2. QED
      BY <1>4, <2>1, <3>1
  <2>3. CASE a.status = "walk"
    <3>1. PICK r : r = fat_read(a.s, a.d.sector) /\ r = fat_read(b.s, b.d.sector) /\ Clean(r)
      BY <2>1, ReadClean, CachedClean DEF Kept, Listed
    <3>2. ReadOne(a) = ReadEntry(a, r) /\ ReadOne(b) = ReadEntry(b, r)
      BY <2>1, <2>3, <3>1 DEF ReadOne, Listed
    <3>3. QED
      BY <1>4, <2>1, <3>1, <3>2, ListAlike
  <2>4. QED
    BY <2>2, <2>3
<1>6. 0 \in S
  BY <1>3, <1>4, BoundFacts
<1>7. WalkBound \in S
  BY <1>5, <1>6, UpTo, BoundFacts
<1>8. QED
  BY <1>1, <1>2, <1>4, <1>7

-----------------------------------------------------------------------------
(* The label                                                                *)

\* The search of the label as a chain of rounds.
LEMMA LabelLoop ==
  ASSUME NEW first, NEW n \in Nat
  PROVE  \E w : w = [i \in 0 .. n |-> IF i = 0 THEN first ELSE LabelOne(w[i - 1])]
<1> DEFINE Step(acc, i) == LabelOne(acc)
           IsWalk(w, m) == w = [i \in 0 .. m |-> IF i = 0 THEN first ELSE Step(w[i - 1], i)]
           Bad == {m \in Nat : ~ \E w : IsWalk(w, m)}
<1> HIDE DEF Step
<1>1. SUFFICES Bad = {}
  BY DEF Step
<1>2. SUFFICES ASSUME Bad # {} PROVE FALSE
  OBVIOUS
<1>3. PICK m \in Bad : \A k \in Bad : m <= k
  BY <1>2, LeastNatural
<1>4. CASE m = 0
  <2>1. IsWalk([i \in 0 .. 0 |-> first], 0)
    OBVIOUS
  <2>2. QED
    BY <1>3, <1>4, <2>1
<1>5. CASE m # 0
  <2>1. m - 1 \in Nat /\ m - 1 \notin Bad
    BY <1>3, <1>5
  <2>2. PICK g : IsWalk(g, m - 1)
    BY <2>1
  <2>3. PICK z : z = Step(g[m - 1], m)
    OBVIOUS
  <2> DEFINE w == [i \in 0 .. m |-> IF i = m THEN z ELSE g[i]]
  <2>4. w[m] = z /\ \A i \in 0 .. m - 1 : w[i] = g[i]
    BY <2>1
  <2>5. \A i \in 0 .. m : w[i] = IF i = 0 THEN first ELSE Step(w[i - 1], i)
    <3>1. ASSUME NEW i \in 0 .. m, i # m
          PROVE  w[i] = IF i = 0 THEN first ELSE Step(w[i - 1], i)
      <4>1. i \in 0 .. m - 1 /\ (i # 0 => i - 1 \in 0 .. m - 1)
        BY <2>1, <3>1
      <4>2. QED
        BY <2>2, <2>4, <4>1
    <3>2. w[m] = Step(w[m - 1], m)
      BY <2>1, <2>3, <2>4
    <3>3. QED
      BY <1>5, <3>1, <3>2
  <2>6. IsWalk(w, m)
    BY <2>5
  <2>7. QED
    BY <1>3, <2>6
<1>6. QED
  BY <1>4, <1>5

\* The walk begins with a read of the root, also when disk_mount makes it and
\* nothing is cached.
LEMMA LabelFacts ==
  ASSUME NEW s, Clean(s) \/ s = [buffer |-> <<>>, lba |-> 0, dirty |-> FALSE, halted |-> FALSE]
  PROVE  Clean(FindLabel(s).s)
<1>1. PICK first : first = [s |-> s, done |-> FALSE, found |-> FALSE,
                            d |-> [RootDir EXCEPT !.cluster = fat_sect_to_clust(root_lba)]]
  OBVIOUS
<1> DEFINE walk == CHOOSE w : w = [i \in 0 .. WalkBound |->
                       IF i = 0 THEN first ELSE LabelOne(w[i - 1])]
<1>2. walk = [i \in 0 .. WalkBound |-> IF i = 0 THEN first ELSE LabelOne(walk[i - 1])]
  BY LabelLoop, BoundFacts
<1>3. FindLabel(s) = walk[WalkBound]
  BY <1>1 DEF FindLabel
<1> HIDE DEF walk
<1>4. ASSUME NEW acc, Kept(acc) \/ acc = first
      PROVE  Kept(LabelOne(acc))
  <2>1. PICK r : r = fat_read(acc.s, acc.d.sector)
    OBVIOUS
  <2>2. CASE Kept(acc) /\ acc.done
    BY <2>2 DEF LabelOne
  <2>3. CASE ~acc.done
    <3>1. Clean(r)
      <4>1. CASE Clean(acc.s)
        BY <2>1, <4>1, ReadClean, CachedClean
      <4>2. CASE acc = first /\ s = [buffer |-> <<>>, lba |-> 0, dirty |-> FALSE, halted |-> FALSE]
        <5>1. acc.s = s /\ acc.d.sector = root_lba /\ s.lba # root_lba /\ ~s.halted /\ ~s.dirty
          BY <1>1, <4>2, BoundFacts DEF RootDir
        <5>2. r = [s EXCEPT !.buffer = Disk[root_lba], !.lba = root_lba]
          BY <2>1, <5>1 DEF fat_read
        <5>3. r = Cached(root_lba)
          BY <4>2, <5>2 DEF Cached
        <5>4. QED
          BY <5>3, CachedClean
      <4>3. QED
        BY <1>1, <1>4, <4>1, <4>2 DEF Kept
    <3>2. "s" \in DOMAIN acc
      BY <1>1, <1>4 DEF Kept
    <3>3. LabelOne(acc) = LabelEntry(acc, r)
      BY <2>1, <2>3 DEF LabelOne
    <3>4. PICK n : n = fat_dir_get_next(r, acc.d) /\ Clean(n.s)
      BY <3>1, GetNextClean
    <3>5. Kept(Advance(acc, n))
      BY <3>2, <3>4 DEF Advance, Move, Kept
    <3>6. QED
      BY <3>1, <3>2, <3>3, <3>4, <3>5 DEF LabelEntry, Kept
  <2>4. QED
    BY <1>1, <1>4, <2>2, <2>3
<1>5. PICK S : S = {j \in 0 .. WalkBound : j # 0 => Kept(walk[j])}
  OBVIOUS
<1>6. ASSUME NEW i \in 1 .. WalkBound, i - 1 \in S PROVE i \in S
  <2>1. walk[i] = LabelOne(walk[i - 1]) /\ walk[0] = first
    BY <1>2, BoundFacts
  <2>2. Kept(walk[i - 1]) \/ walk[i - 1] = first
    BY <1>5, <1>6, <2>1
  <2>3. QED
    BY <1>4, <1>5, <2>1, <2>2
<1>7. 0 \in S
  BY <1>5, BoundFacts
<1>8. WalkBound \in S
  BY <1>6, <1>7, UpTo, BoundFacts
<1>9. QED
  BY <1>3, <1>5, <1>8, BoundFacts DEF Kept

-----------------------------------------------------------------------------
(* Offsets and chains                                                       *)

\* Quotient and rest of an offset.
LEMMA DivMod ==
  ASSUME NEW b \in Nat \ {0}, NEW n \in Nat
  PROVE  /\ n \div b \in Nat /\ n % b \in 0 .. b - 1
         /\ n = (n \div b) * b + (n % b)
<1>1. PICK q, r : q = n \div b /\ r = n % b
  OBVIOUS
<1>2. n = q * b + r
  BY <1>1
<1>3. q \in Nat /\ r \in 0 .. b - 1
  BY <1>1
<1>4. QED
  BY <1>1, <1>2, <1>3

\* The quotient and the rest are the only ones.
LEMMA DivModOf ==
  ASSUME NEW b \in Nat \ {0}, NEW q \in Nat, NEW r \in 0 .. b - 1, NEW n, n = q * b + r
  PROVE  n \in Nat /\ n \div b = q /\ n % b = r
OBVIOUS

\* A byte offset is a cluster, a sector in it and a byte in the sector.
LEMMA Parts ==
  ASSUME NEW k \in Nat, NEW j \in 0 .. cluster_size - 1, NEW r \in 0 .. SectorSize - 1,
         NEW n, n = (k * cluster_size + j) * SectorSize + r
  PROVE  /\ n \in Nat /\ n % SectorSize = r
         /\ (n \div SectorSize) \div cluster_size = k
         /\ (n \div SectorSize) % cluster_size = j
<1>1. SectorSize \in Nat \ {0} /\ cluster_size \in Nat \ {0}
  BY FatAssumption, BoundFacts
<1>2. PICK m \in Nat : m = k * cluster_size + j
  BY <1>1
<1>3. n \in Nat /\ n \div SectorSize = m /\ n % SectorSize = r
  <2>1. n = m * SectorSize + r
    BY <1>2
  <2>2. QED
    BY <1>1, <2>1, DivModOf
<1>4. m \div cluster_size = k /\ m % cluster_size = j
  BY <1>1, <1>2, DivModOf
<1>5. QED
  BY <1>3, <1>4

\* The sector of a cluster leads back to the cluster.
LEMMA SectorOfCluster ==
  ASSUME NEW c \in Nat
  PROVE  fat_clust_to_sect(c) \in Int /\ fat_sect_to_clust(fat_clust_to_sect(c)) = c
<1>1. PICK b \in Nat \ {0}, l \in Nat : b = cluster_size /\ l = data_lba
  BY BoundFacts
<1>2. PICK q \in Int : q = c - 2
  OBVIOUS
<1>3. PICK n \in Int : n = q * b
  OBVIOUS
<1>4. n \div b = q
  BY <1>3
<1>5. fat_clust_to_sect(c) = n + l
  BY <1>1, <1>2, <1>3 DEF fat_clust_to_sect
<1>6. QED
  BY <1>1, <1>2, <1>4, <1>5 DEF fat_sect_to_clust

\* The chain of a cluster has an entry for every number.
LEMMA ChainLoop ==
  ASSUME NEW first, NEW n \in Nat
  PROVE  \E w : w = [i \in 0 .. n |-> IF i = 0 THEN first ELSE FatEntry(w[i - 1])]
<1> DEFINE Step(acc, i) == FatEntry(acc)
           IsWalk(w, m) == w = [i \in 0 .. m |-> IF i = 0 THEN first ELSE Step(w[i - 1], i)]
           Bad == {m \in Nat : ~ \E w : IsWalk(w, m)}
<1> HIDE DEF Step
<1>1. SUFFICES Bad = {}
  BY DEF Step
<1>2. SUFFICES ASSUME Bad # {} PROVE FALSE
  OBVIOUS
<1>3. PICK m \in Bad : \A k \in Bad : m <= k
  BY <1>2, LeastNatural
<1>4. CASE m = 0
  <2>1. IsWalk([i \in 0 .. 0 |-> first], 0)
    OBVIOUS
  <2>2. QED
    BY <1>3, <1>4, <2>1
<1>5. CASE m # 0
  <2>1. m - 1 \in Nat /\ m - 1 \notin Bad
    BY <1>3, <1>5
  <2>2. PICK g : IsWalk(g, m - 1)
    BY <2>1
  <2>3. PICK z : z = Step(g[m - 1], m)
    OBVIOUS
  <2> DEFINE w == [i \in 0 .. m |-> IF i = m THEN z ELSE g[i]]
  <2>4. w[m] = z /\ \A i \in 0 .. m - 1 : w[i] = g[i]
    BY <2>1
  <2>5. \A i \in 0 .. m : w[i] = IF i = 0 THEN first ELSE Step(w[i - 1], i)
    <3>1. ASSUME NEW i \in 0 .. m, i # m
          PROVE  w[i] = IF i = 0 THEN first ELSE Step(w[i - 1], i)
      <4>1. i \in 0 .. m - 1 /\ (i # 0 => i - 1 \in 0 .. m - 1)
        BY <2>1, <3>1
      <4>2. QED
        BY <2>2, <2>4, <4>1
    <3>2. w[m] = Step(w[m - 1], m)
      BY <2>1, <2>3, <2>4
    <3>3. QED
      BY <1>5, <3>1, <3>2
  <2>6. IsWalk(w, m)
    BY <2>5
  <2>7. QED
    BY <1>3, <2>6
<1>6. QED
  BY <1>4, <1>5

\* Each entry of a chain is the table's entry of the one before.
LEMMA ChainWalk ==
  ASSUME NEW c, NEW n \in Nat
  PROVE  \E w : /\ w[0] = c /\ \A i \in 1 .. n : w[i] = FatEntry(w[i - 1])
                /\ Chain(c, n) = w[n]
<1> DEFINE f == CHOOSE w : w = [k \in 0 .. n |-> IF k = 0 THEN c ELSE FatEntry(w[k - 1])]
<1>1. f = [k \in 0 .. n |-> IF k = 0 THEN c ELSE FatEntry(f[k - 1])]
  BY ChainLoop
<1>2. Chain(c, n) = f[n]
  BY DEF Chain
<1> HIDE DEF f
<1>3. f[0] = c /\ \A i \in 1 .. n : f[i] = FatEntry(f[i - 1])
  BY <1>1
<1>4. QED
  BY <1>2, <1>3

\* A chain goes on to the entry of its last cluster.
LEMMA ChainFacts ==
  ASSUME NEW c, NEW n \in Nat
  PROVE  Chain(c, 0) = c /\ Chain(c, n + 1) = FatEntry(Chain(c, n))
<1>1. Chain(c, 0) = c
  BY ChainWalk
<1>2. PICK w : /\ w[0] = c /\ \A i \in 1 .. n : w[i] = FatEntry(w[i - 1])
               /\ Chain(c, n) = w[n]
  BY ChainWalk
<1>3. n + 1 \in Nat
  OBVIOUS
<1>4. PICK v : /\ v[0] = c /\ \A i \in 1 .. n + 1 : v[i] = FatEntry(v[i - 1])
               /\ Chain(c, n + 1) = v[n + 1]
  BY <1>3, ChainWalk
<1>5. PICK S : S = {i \in 0 .. n : w[i] = v[i]}
  OBVIOUS
<1>6. 0 \in S
  BY <1>2, <1>4, <1>5
<1>7. ASSUME NEW i \in 1 .. n, i - 1 \in S PROVE i \in S
  <2>1. w[i] = FatEntry(w[i - 1]) /\ v[i] = FatEntry(v[i - 1]) /\ w[i - 1] = v[i - 1]
    BY <1>2, <1>4, <1>5, <1>7
  <2>2. QED
    BY <1>5, <2>1
<1>8. n \in S
  BY <1>6, <1>7, UpTo
<1>9. v[n + 1] = FatEntry(v[n])
  BY <1>4
<1>10. QED
  BY <1>1, <1>2, <1>4, <1>5, <1>8, <1>9

-----------------------------------------------------------------------------
(* Files: a position is a cluster of the chain, a sector in it and a byte   *)
(* in the sector, which may be the one after the last.                      *)

Right(f, p) ==
  /\ {"open", "path", "sector", "start_sect", "cluster", "glob_offset", "rw_offset", "size"}
       \subseteq DOMAIN f
  /\ f.open = TRUE /\ f.path = p /\ p \in DOMAIN Files
  /\ f.start_sect = fat_clust_to_sect(Files[p].cluster) /\ f.size = Files[p].size

At(f, p, k, j, r) ==
  /\ k \in Nat /\ j \in 0 .. cluster_size - 1 /\ r \in 0 .. SectorSize
  /\ f.cluster = Chain(Files[p].cluster, k)
  /\ f.sector = fat_clust_to_sect(f.cluster) + j
  /\ f.rw_offset = r
  /\ f.glob_offset = (k * cluster_size + j) * SectorSize + r

Somewhere(f, p) == \E k, j, r : At(f, p, k, j, r)

\* Every cluster that an offset of the file falls into is in the chain.
LEMMA InChain ==
  ASSUME WholeFiles, NEW p \in DOMAIN Files, NEW k \in Nat,
         k * cluster_size * SectorSize < Files[p].size
  PROVE  /\ Chain(Files[p].cluster, k) \in Nat \ {0, 1}
         /\ k # 0 => ~IsEoc(Chain(Files[p].cluster, k))
<1>1. PICK b, m \in Nat \ {0}, z \in Nat : b = cluster_size /\ m = SectorSize /\ z = Files[p].size
  BY FatAssumption, BoundFacts DEF WholeFiles
<1>2. PICK u \in Nat : u = k * b
  BY <1>1
<1>3. u >= k /\ u * m >= u
  BY <1>1, <1>2
<1>4. u * m < z
  BY <1>1, <1>2
<1>5. k \in 0 .. z
  BY <1>2, <1>3, <1>4
<1>6. QED
  BY <1>1, <1>5 DEF WholeFiles

\* The sector at a position holds the byte of the file that is due there.
LEMMA ByteAt ==
  ASSUME WholeFiles, NEW f, NEW p, Right(f, p), NEW k, NEW j, NEW r, At(f, p, k, j, r),
         r < SectorSize, f.glob_offset < f.size
  PROVE  /\ f.glob_offset \in Nat /\ f.glob_offset + 1 \in 1 .. Files[p].size
         /\ Content(p)[f.glob_offset + 1] = Disk[f.sector][r]
<1>1. PICK n : n = f.glob_offset
  OBVIOUS
<1>2. /\ n \in Nat /\ n % SectorSize = r
      /\ (n \div SectorSize) \div cluster_size = k
      /\ (n \div SectorSize) % cluster_size = j
  <2>1. n = (k * cluster_size + j) * SectorSize + r /\ r \in 0 .. SectorSize - 1
    BY <1>1, FatAssumption DEF At
  <2>2. QED
    BY <2>1, Parts DEF At
<1>3. n < Files[p].size /\ Files[p].size \in Nat
  BY <1>1 DEF Right, WholeFiles
<1>4. PICK i : i = n + 1 /\ i \in 1 .. Files[p].size /\ i - 1 = n
  BY <1>2, <1>3
<1>5. Content(p)[i] = Disk[fat_clust_to_sect(Chain(Files[p].cluster, k)) + j][r]
  BY <1>2, <1>4 DEF Content
<1>6. QED
  BY <1>1, <1>2, <1>4, <1>5 DEF At

\* fat_file_addr_resolve moves from the end of a sector to the start of the
\* next one of the file.
LEMMA ResolveFacts ==
  ASSUME WholeFiles, NEW s, Clean(s), NEW f, NEW p, Right(f, p),
         NEW k, NEW j, At(f, p, k, j, SectorSize), f.glob_offset < f.size
  PROVE  LET a == fat_file_addr_resolve(s, f)
         IN  /\ Clean(a.s) /\ Right(a.p, p) /\ a.p.glob_offset = f.glob_offset
             /\ \E i, l : At(a.p, p, i, l, 0)
<1>1. PICK cs, m \in Nat \ {0}, z \in Nat :
        cs = cluster_size /\ m = SectorSize /\ z = Files[p].size
  BY FatAssumption, BoundFacts DEF WholeFiles, Right
<1>2. PICK moved : moved = [f EXCEPT !.rw_offset = @ - m, !.sector = @ + 1]
  OBVIOUS
<1>3. PICK c0, c : c0 = Files[p].cluster /\ c = Chain(c0, k) /\ f.cluster = c
  BY DEF At
<1>4. k \in Nat /\ j \in 0 .. cs - 1 /\ f.glob_offset = (k * cs + j) * m + m /\ f.rw_offset = m
  BY <1>1 DEF At
<1>5. f.glob_offset < z
  BY <1>1 DEF Right
<1>6. c \in Nat
  <2>1. PICK u \in Nat : u = k * cs
    BY <1>1, <1>4
  <2>2. (u + j) * m + m = u * m + j * m + m /\ j * m \in Nat /\ u * m \in Nat
    BY <1>1, <1>4, <2>1
  <2>3. u * m < z
    BY <1>1, <1>4, <1>5, <2>1, <2>2
  <2>4. QED
    BY <1>1, <1>3, <1>4, <2>1, <2>3, InChain DEF Right
<1>7. PICK sect \in Int : sect = fat_clust_to_sect(c)
  BY <1>6, SectorOfCluster
<1>8. f.sector = sect + j
  BY <1>3, <1>7 DEF At
<1>9. /\ Right(moved, p) /\ moved.glob_offset = f.glob_offset /\ moved.rw_offset = 0
      /\ moved.sector = sect + j + 1 /\ moved.cluster = c
  BY <1>2, <1>3, <1>4, <1>7, <1>8 DEF Right
<1>10. fat_file_addr_resolve(s, f) =
         IF moved.sector < sect + cs THEN [s |-> s, p |-> moved, ok |-> TRUE]
         ELSE NextCluster(fat_table_get(s, c), moved)
  BY <1>1, <1>2, <1>3, <1>7 DEF fat_file_addr_resolve, NextSector
<1>11. CASE j + 1 < cs
  <2>1. fat_file_addr_resolve(s, f) = [s |-> s, p |-> moved, ok |-> TRUE]
    BY <1>4, <1>9, <1>10, <1>11
  <2>2. (k * cs + j) * m + m = (k * cs + (j + 1)) * m + 0
    BY <1>1, <1>4
  <2>3. At(moved, p, k, j + 1, 0)
    BY <1>1, <1>3, <1>4, <1>7, <1>9, <1>11, <2>2 DEF At
  <2>4. QED
    BY <1>9, <2>1, <2>3
<1>12. CASE j + 1 = cs
  <2>1. PICK t : t = fat_table_get(s, c) /\ Clean(t.s) /\ t.entry = FatEntry(c)
    BY TableGet
  <2>2. fat_file_addr_resolve(s, f) = NextCluster(t, moved)
    BY <1>4, <1>9, <1>10, <1>12, <2>1
  <2>3. t.entry = Chain(c0, k + 1)
    BY <1>3, <1>4, <2>1, ChainFacts
  <2>4. f.glob_offset = (k + 1) * cs * m
    <3>1. PICK u \in Nat : u = k * cs
      BY <1>1, <1>4
    <3>2. (k + 1) * cs = u + cs /\ u + j + 1 = u + cs
      BY <1>1, <1>4, <1>12, <3>1
    <3>3. (u + j) * m + m = (u + j + 1) * m
      BY <1>1, <1>4, <3>1
    <3>4. QED
      BY <1>4, <3>1, <3>2, <3>3
  <2>5. t.entry \in Nat \ {0, 1} /\ ~IsEoc(t.entry)
    BY <1>1, <1>3, <1>4, <1>5, <2>3, <2>4, InChain DEF Right
  <2>6. PICK next : next = [moved EXCEPT !.cluster = t.entry, !.sector = fat_clust_to_sect(t.entry)]
    OBVIOUS
  <2>7. NextCluster(t, moved) = [s |-> t.s, ok |-> TRUE, p |-> next]
    BY <2>5, <2>6 DEF NextCluster
  <2>8. /\ Right(next, p) /\ next.glob_offset = f.glob_offset /\ next.rw_offset = 0
        /\ next.cluster = t.entry /\ next.sector = fat_clust_to_sect(t.entry)
    BY <1>9, <2>6 DEF Right
  <2>9. At(next, p, k + 1, 0, 0)
    <3>1. ((k + 1) * cs + 0) * m + 0 = (k + 1) * cs * m
      BY <1>1, <1>4
    <3>2. fat_clust_to_sect(t.entry) + 0 = fat_clust_to_sect(t.entry)
      BY <2>5, SectorOfCluster
    <3>3. QED
      BY <1>1, <1>3, <1>4, <2>3, <2>4, <2>8, <3>1, <3>2 DEF At
  <2>10. QED
    BY <2>1, <2>2, <2>7, <2>8, <2>9
<1>13. QED
  BY <1>4, <1>11, <1>12

-----------------------------------------------------------------------------
(* fat_file_read                                                            *)

Bytes(p) == {Content(p)[i] : i \in 1 .. Files[p].size}

\* A read from offset g that has delivered m bytes.
Reading(acc, p, g, m) ==
  /\ {"s", "f", "out", "done"} \subseteq DOMAIN acc
  /\ acc.s = Cached(acc.f.sector)
  /\ Right(acc.f, p) /\ Somewhere(acc.f, p)
  /\ g \in Nat /\ m \in Nat /\ acc.f.glob_offset = g + m
  /\ acc.out \in Seq(Bytes(p)) /\ Len(acc.out) = m
  /\ \A x \in 1 .. m : acc.out[x] = Content(p)[g + x]
  /\ IF acc.done THEN g + m = Files[p].size ELSE g + m < Files[p].size

\* Delivering one byte of the cached sector adds the next byte of the file.
LEMMA DeliverFacts ==
  ASSUME WholeFiles, NEW acc, NEW p, NEW g, NEW m, Reading(acc, p, g, m), ~acc.done,
         NEW f, Right(f, p), NEW k, NEW j, NEW r, At(f, p, k, j, r), r < SectorSize,
         f.glob_offset = g + m
  PROVE  Reading(Deliver(acc, Cached(f.sector), f), p, g, m + 1)
<1>1. PICK z \in Nat : z = Files[p].size /\ f.size = z
  BY DEF WholeFiles, Right
<1>2. g \in Nat /\ m \in Nat /\ g + m < z
  BY <1>1 DEF Reading
<1>3. PICK byte : byte = Disk[f.sector][r]
  OBVIOUS
<1>4. byte = Content(p)[g + m + 1] /\ byte \in Bytes(p)
  <2>1. g + m + 1 \in 1 .. z /\ Content(p)[g + m + 1] = byte
    BY <1>1, <1>2, <1>3, ByteAt
  <2>2. QED
    BY <1>1, <2>1 DEF Bytes
<1>5. PICK next : next = [f EXCEPT !.rw_offset = @ + 1, !.glob_offset = @ + 1]
  OBVIOUS
<1>6. PICK out : out = Append(acc.out, byte)
  OBVIOUS
<1>7. PICK done \in BOOLEAN : done <=> g + m + 1 >= z
  OBVIOUS
<1>8. PICK d : d = Deliver(acc, Cached(f.sector), f)
  OBVIOUS
<1>9. d = [s |-> Cached(f.sector), out |-> out, f |-> next, done |-> done]
  <2>1. Cached(f.sector).buffer[f.rw_offset] = byte
    BY <1>3, CachedClean DEF At
  <2>2. (f.glob_offset + 1 >= f.size) = done
    BY <1>1, <1>7
  <2>3. QED
    BY <1>5, <1>6, <1>8, <2>1, <2>2 DEF Deliver
<1>10. /\ Right(next, p) /\ next.sector = f.sector /\ next.glob_offset = g + (m + 1)
  BY <1>2, <1>5 DEF Right
<1>11. At(next, p, k, j, r + 1)
  <2>1. r + 1 \in 0 .. SectorSize /\ r \in 0 .. SectorSize /\ SectorSize \in Nat
    BY FatAssumption DEF At
  <2>2. next.cluster = f.cluster /\ next.rw_offset = r + 1 /\ next.glob_offset = f.glob_offset + 1
    BY <1>5 DEF Right, At
  <2>3. PICK n \in Nat : n = (k * cluster_size + j) * SectorSize
    <3>1. PICK u \in Nat : u = k * cluster_size + j
      BY BoundFacts DEF At
    <3>2. u * SectorSize \in Nat
      BY <2>1
    <3>3. QED
      BY <3>1, <3>2
  <2>4. n + r + 1 = n + (r + 1)
    BY <2>1
  <2>5. QED
    BY <1>10, <2>1, <2>2, <2>3, <2>4 DEF At
<1>12. /\ out \in Seq(Bytes(p)) /\ Len(out) = m + 1
       /\ \A x \in 1 .. m + 1 : out[x] = Content(p)[g + x]
  <2>1. acc.out \in Seq(Bytes(p)) /\ Len(acc.out) = m
    BY DEF Reading
  <2>2. \A x \in 1 .. m : out[x] = acc.out[x]
    BY <1>2, <1>4, <1>6, <2>1
  <2>3. out[m + 1] = Content(p)[g + (m + 1)]
    BY <1>2, <1>4, <1>6, <2>1
  <2>4. \A x \in 1 .. m : out[x] = Content(p)[g + x]
    BY <2>2 DEF Reading
  <2>5. ASSUME NEW x \in 1 .. m + 1 PROVE out[x] = Content(p)[g + x]
    <3>1. x \in 1 .. m \/ x = m + 1
      BY <1>2
    <3>2. QED
      BY <2>3, <2>4, <3>1
  <2>6. out \in Seq(Bytes(p)) /\ Len(out) = m + 1
    BY <1>2, <1>4, <1>6, <2>1
  <2>7. QED
    BY <2>5, <2>6
<1>13. IF done THEN g + (m + 1) = z ELSE g + (m + 1) < z
  BY <1>1, <1>2, <1>7
<1>14. d.s = Cached(next.sector) /\ d.f = next /\ d.out = out /\ d.done = done
       /\ {"s", "f", "out", "done"} \subseteq DOMAIN d
  BY <1>9, <1>10
<1>15. Somewhere(next, p)
  BY <1>11 DEF Somewhere
<1>16. Reading(d, p, g, m + 1)
  BY <1>1, <1>2, <1>10, <1>12, <1>13, <1>14, <1>15 DEF Reading
<1>17. QED
  BY <1>8, <1>16

\* One round of fat_file_read: the next sector when the last is used up, then a byte.
LEMMA ReadByteFacts ==
  ASSUME WholeFiles, NEW acc, NEW p, NEW g, NEW m, Reading(acc, p, g, m), ~acc.done
  PROVE  Reading(ReadByte(acc), p, g, m + 1)
<1>1. PICK f : f = acc.f /\ Right(f, p) /\ f.glob_offset = g + m
  BY DEF Reading
<1>2. PICK k, j, r : At(f, p, k, j, r)
  BY <1>1 DEF Reading, Somewhere
<1>3. CASE r < SectorSize
  <2>1. ReadByte(acc) = Deliver(acc, Cached(f.sector), f)
    BY <1>1, <1>2, <1>3 DEF ReadByte, Reading, At
  <2>2. QED
    BY <1>1, <1>2, <1>3, <2>1, DeliverFacts
<1>4. CASE ~(r < SectorSize)
  <2>1. r = SectorSize
    BY <1>2, <1>4, FatAssumption DEF At
  <2>2. PICK a : a = fat_file_addr_resolve(acc.s, f)
    OBVIOUS
  <2>3. Clean(acc.s) /\ f.glob_offset < f.size
    BY <1>1, CachedClean DEF Reading, Right
  <2>4. Clean(a.s) /\ Right(a.p, p) /\ a.p.glob_offset = g + m
    BY <1>1, <1>2, <2>1, <2>2, <2>3, ResolveFacts
  <2>5. PICK i, l : At(a.p, p, i, l, 0)
    BY <1>1, <1>2, <2>1, <2>2, <2>3, ResolveFacts
  <2>6. ReadByte(acc) = Resolved(acc, a)
    BY <1>1, <1>2, <1>4, <2>2 DEF ReadByte, At
  <2>7. Resolved(acc, a) = Deliver(acc, Cached(a.p.sector), a.p)
    BY <2>4, ReadClean DEF Resolved
  <2>8. 0 < SectorSize
    BY FatAssumption
  <2>9. QED
    BY <2>4, <2>5, <2>6, <2>7, <2>8, DeliverFacts
<1>5. QED
  BY <1>3, <1>4

\* fat_file_read as a chain of rounds, one for each byte.
LEMMA CopyLoop ==
  ASSUME NEW first, NEW n \in Nat
  PROVE  \E w : w = [i \in 0 .. n |-> IF i = 0 THEN first ELSE ReadByte(w[i - 1])]
<1> DEFINE Step(acc, i) == ReadByte(acc)
           IsWalk(w, m) == w = [i \in 0 .. m |-> IF i = 0 THEN first ELSE Step(w[i - 1], i)]
           Bad == {m \in Nat : ~ \E w : IsWalk(w, m)}
<1> HIDE DEF Step
<1>1. SUFFICES Bad = {}
  BY DEF Step
<1>2. SUFFICES ASSUME Bad # {} PROVE FALSE
  OBVIOUS
<1>3. PICK m \in Bad : \A k \in Bad : m <= k
  BY <1>2, LeastNatural
<1>4. CASE m = 0
  <2>1. IsWalk([i \in 0 .. 0 |-> first], 0)
    OBVIOUS
  <2>2. QED
    BY <1>3, <1>4, <2>1
<1>5. CASE m # 0
  <2>1. m - 1 \in Nat /\ m - 1 \notin Bad
    BY <1>3, <1>5
  <2>2. PICK g : IsWalk(g, m - 1)
    BY <2>1
  <2>3. PICK z : z = Step(g[m - 1], m)
    OBVIOUS
  <2> DEFINE w == [i \in 0 .. m |-> IF i = m THEN z ELSE g[i]]
  <2>4. w[m] = z /\ \A i \in 0 .. m - 1 : w[i] = g[i]
    BY <2>1
  <2>5. \A i \in 0 .. m : w[i] = IF i = 0 THEN first ELSE Step(w[i - 1], i)
    <3>1. ASSUME NEW i \in 0 .. m, i # m
          PROVE  w[i] = IF i = 0 THEN first ELSE Step(w[i - 1], i)
      <4>1. i \in 0 .. m - 1 /\ (i # 0 => i - 1 \in 0 .. m - 1)
        BY <2>1, <3>1
      <4>2. QED
        BY <2>2, <2>4, <4>1
    <3>2. w[m] = Step(w[m - 1], m)
      BY <2>1, <2>3, <2>4
    <3>3. QED
      BY <1>5, <3>1, <3>2
  <2>6. IsWalk(w, m)
    BY <2>5
  <2>7. QED
    BY <1>3, <2>6
<1>6. QED
  BY <1>4, <1>5

CopyStart(s, f) == [s |-> fat_read(s, f.sector), f |-> f, out |-> <<>>, done |-> FALSE]

\* fat_file_read is that chain.
LEMMA CopyWalk ==
  ASSUME NEW s, NEW f, NEW count \in Nat
  PROVE  \E w : /\ w[0] = CopyStart(s, f)
                /\ \A i \in 1 .. count : w[i] = ReadByte(w[i - 1])
                /\ fat_file_read(s, f, count) = w[count]
<1> DEFINE copy == CHOOSE w : w = [i \in 0 .. count |->
                       IF i = 0 THEN CopyStart(s, f) ELSE ReadByte(w[i - 1])]
<1>1. copy = [i \in 0 .. count |-> IF i = 0 THEN CopyStart(s, f) ELSE ReadByte(copy[i - 1])]
  BY CopyLoop
<1>2. fat_file_read(s, f, count) = copy[count]
  BY DEF fat_file_read, CopyStart
<1> HIDE DEF copy
<1>3. copy[0] = CopyStart(s, f) /\ \A i \in 1 .. count : copy[i] = ReadByte(copy[i - 1])
  BY <1>1
<1>4. QED
  BY <1>2, <1>3

\* A read delivers the bytes of the file from its offset on, as many as are
\* asked for or left, and leaves the file after them.
LEMMA ReadFacts ==
  ASSUME WholeFiles, NEW s, Clean(s), NEW f, NEW p, Right(f, p), Somewhere(f, p),
         f.glob_offset < f.size, NEW count \in Nat
  PROVE  \E m \in 0 .. count :
           /\ Reading(fat_file_read(s, f, count), p, f.glob_offset, m)
           /\ m = count \/ f.glob_offset + m = Files[p].size
<1>1. PICK w : /\ w[0] = CopyStart(s, f)
               /\ \A i \in 1 .. count : w[i] = ReadByte(w[i - 1])
               /\ fat_file_read(s, f, count) = w[count]
  BY CopyWalk
<1>2. PICK g \in Nat : g = f.glob_offset
  <2>1. PICK k, j, r : At(f, p, k, j, r)
    BY DEF Somewhere
  <2>2. PICK u \in Nat : u = k * cluster_size + j
    BY <2>1, BoundFacts DEF At
  <2>3. u * SectorSize + r \in Nat
    <3>1. SectorSize \in Nat /\ r \in 0 .. SectorSize
      BY <2>1, FatAssumption DEF At
    <3>2. u * SectorSize \in Nat /\ r \in Nat
      BY <2>2, <3>1
    <3>3. QED
      BY <3>2
  <2>4. QED
    BY <2>1, <2>2, <2>3 DEF At
<1>3. Reading(w[0], p, g, 0)
  <2>1. fat_read(s, f.sector) = Cached(f.sector)
    BY ReadClean
  <2>2. w[0] = [s |-> Cached(f.sector), f |-> f, out |-> <<>>, done |-> FALSE]
    BY <1>1, <2>1 DEF CopyStart
  <2>3. /\ w[0].s = Cached(w[0].f.sector) /\ w[0].f = f /\ w[0].out = <<>> /\ ~w[0].done
        /\ {"s", "f", "out", "done"} \subseteq DOMAIN w[0]
    BY <2>2
  <2>4. <<>> \in Seq(Bytes(p)) /\ Len(<<>>) = 0 /\ g + 0 = g
    OBVIOUS
  <2>5. g < Files[p].size
    BY <1>2 DEF Right
  <2>6. QED
    BY <1>2, <2>3, <2>4, <2>5 DEF Reading
<1>4. PICK S : S = {i \in 0 .. count : \E m \in 0 .. i : Reading(w[i], p, g, m) /\ (~w[i].done => m = i)}
  OBVIOUS
<1>5. 0 \in S
  BY <1>3, <1>4
<1>6. ASSUME NEW i \in 1 .. count, i - 1 \in S PROVE i \in S
  <2>1. PICK a : a = w[i - 1] /\ w[i] = ReadByte(a)
    BY <1>1, <1>6
  <2>2. PICK m \in 0 .. i - 1 : Reading(a, p, g, m) /\ (~a.done => m = i - 1)
    BY <1>4, <1>6, <2>1
  <2>3. CASE a.done
    <3>1. w[i] = a
      BY <2>1, <2>3 DEF ReadByte
    <3>2. m \in 0 .. i
      BY <1>6, <2>2
    <3>3. QED
      BY <1>4, <1>6, <2>2, <2>3, <3>1, <3>2
  <2>4. CASE ~a.done
    <3>1. Reading(w[i], p, g, m + 1)
      BY <2>1, <2>2, <2>4, ReadByteFacts
    <3>2. m + 1 = i /\ i \in 0 .. i
      BY <1>6, <2>2, <2>4
    <3>3. QED
      BY <1>4, <1>6, <3>1, <3>2
  <2>5. QED
    BY <2>3, <2>4
<1>7. count \in S
  BY <1>5, <1>6, UpTo
<1>8. PICK m \in 0 .. count : Reading(w[count], p, g, m) /\ (~w[count].done => m = count)
  BY <1>4, <1>7
<1>9. m = count \/ g + m = Files[p].size
  BY <1>8 DEF Reading
<1>10. QED
  BY <1>1, <1>2, <1>8, <1>9

\* Wherever a file is, a read keeps the cache clean.
LEMMA ReadKept ==
  ASSUME NEW s, Clean(s), NEW f, NEW count \in Nat
  PROVE  Kept(fat_file_read(s, f, count))
<1>1. PICK w : /\ w[0] = CopyStart(s, f)
               /\ \A i \in 1 .. count : w[i] = ReadByte(w[i - 1])
               /\ fat_file_read(s, f, count) = w[count]
  BY CopyWalk
<1>2. Kept(w[0])
  BY <1>1, ReadClean, CachedClean DEF CopyStart, Kept
<1>3. PICK S : S = {i \in 0 .. count : Kept(w[i])}
  OBVIOUS
<1>4. ASSUME NEW i \in 1 .. count, i - 1 \in S PROVE i \in S
  <2>1. PICK a : a = w[i - 1] /\ w[i] = ReadByte(a) /\ Kept(a)
    BY <1>1, <1>3, <1>4
  <2>2. Kept(Deliver(a, a.s, a.f))
    BY <2>1 DEF Deliver, Kept
  <2>3. PICK n : n = fat_file_addr_resolve(a.s, a.f)
    OBVIOUS
  <2>4. Clean(n.s)
    BY <2>1, <2>3, NextClean DEF fat_file_addr_resolve, Kept
  <2>5. Kept(Resolved(a, n))
    BY <2>4, ReadClean, CachedClean DEF Resolved, Deliver, Kept
  <2>6. Kept(w[i])
    BY <2>1, <2>2, <2>3, <2>5 DEF ReadByte
  <2>7. QED
    BY <1>3, <1>4, <2>6
<1>5. 0 \in S
  BY <1>2, <1>3
<1>6. count \in S
  BY <1>4, <1>5, UpTo
<1>7. QED
  BY <1>1, <1>3, <1>6

-----------------------------------------------------------------------------
(* fat_file_jump                                                            *)

\* fat_file_jump as a chain of rounds, one for each cluster.
LEMMA JumpLoop ==
  ASSUME NEW first, NEW n \in Nat
  PROVE  \E w : w = [i \in 0 .. n |-> IF i = 0 THEN first ELSE FollowCluster(w[i - 1])]
<1> DEFINE Step(acc, i) == FollowCluster(acc)
           IsWalk(w, m) == w = [i \in 0 .. m |-> IF i = 0 THEN first ELSE Step(w[i - 1], i)]
           Bad == {m \in Nat : ~ \E w : IsWalk(w, m)}
<1> HIDE DEF Step
<1>1. SUFFICES Bad = {}
  BY DEF Step
<1>2. SUFFICES ASSUME Bad # {} PROVE FALSE
  OBVIOUS
<1>3. PICK m \in Bad : \A k \in Bad : m <= k
  BY <1>2, LeastNatural
<1>4. CASE m = 0
  <2>1. IsWalk([i \in 0 .. 0 |-> first], 0)
    OBVIOUS
  <2>2. QED
    BY <1>3, <1>4, <2>1
<1>5. CASE m # 0
  <2>1. m - 1 \in Nat /\ m - 1 \notin Bad
    BY <1>3, <1>5
  <2>2. PICK g : IsWalk(g, m - 1)
    BY <2>1
  <2>3. PICK z : z = Step(g[m - 1], m)
    OBVIOUS
  <2> DEFINE w == [i \in 0 .. m |-> IF i = m THEN z ELSE g[i]]
  <2>4. w[m] = z /\ \A i \in 0 .. m - 1 : w[i] = g[i]
    BY <2>1
  <2>5. \A i \in 0 .. m : w[i] = IF i = 0 THEN first ELSE Step(w[i - 1], i)
    <3>1. ASSUME NEW i \in 0 .. m, i # m
          PROVE  w[i] = IF i = 0 THEN first ELSE Step(w[i - 1], i)
      <4>1. i \in 0 .. m - 1 /\ (i # 0 => i - 1 \in 0 .. m - 1)
        BY <2>1, <3>1
      <4>2. QED
        BY <2>2, <2>4, <4>1
    <3>2. w[m] = Step(w[m - 1], m)
      BY <2>1, <2>3, <2>4
    <3>3. QED
      BY <1>5, <3>1, <3>2
  <2>6. IsWalk(w, m)
    BY <2>5
  <2>7. QED
    BY <1>3, <2>6
<1>6. QED
  BY <1>4, <1>5

JumpStart(s, f) ==
  [s |-> s, eoc |-> FALSE, f |-> [f EXCEPT !.cluster = fat_sect_to_clust(f.start_sect)]]

\* fat_file_jump is that chain, and then the sector and the byte.
LEMMA JumpWalk ==
  ASSUME NEW s, NEW f, NEW offset,
         NEW clusters \in Nat, clusters = (offset \div SectorSize) \div cluster_size
  PROVE  \E w : /\ w[0] = JumpStart(s, f)
                /\ \A i \in 1 .. clusters : w[i] = FollowCluster(w[i - 1])
                /\ fat_file_jump(s, f, offset) = Landed(w[clusters], offset)
<1> DEFINE chain == CHOOSE w : w = [i \in 0 .. clusters |->
                       IF i = 0 THEN JumpStart(s, f) ELSE FollowCluster(w[i - 1])]
<1>1. chain = [i \in 0 .. clusters |->
                 IF i = 0 THEN JumpStart(s, f) ELSE FollowCluster(chain[i - 1])]
  BY JumpLoop
<1>2. fat_file_jump(s, f, offset) = Landed(chain[clusters], offset)
  BY DEF fat_file_jump, JumpStart
<1> HIDE DEF chain
<1>3. chain[0] = JumpStart(s, f) /\ \A i \in 1 .. clusters : chain[i] = FollowCluster(chain[i - 1])
  BY <1>1
<1>4. QED
  BY <1>2, <1>3

\* A jump that has followed i links of the chain.
Jumping(acc, p, i) ==
  /\ {"s", "f", "eoc"} \subseteq DOMAIN acc /\ Clean(acc.s) /\ ~acc.eoc
  /\ Right(acc.f, p) /\ acc.f.cluster = Chain(Files[p].cluster, i)

\* A jump inside the file ends at the offset.
LEMMA JumpFacts ==
  ASSUME WholeFiles, NEW s, Clean(s), NEW f, NEW p, Right(f, p),
         NEW offset \in Nat, offset < f.size
  PROVE  LET r == fat_file_jump(s, f, offset)
         IN  Clean(r.s) /\ Right(r.f, p) /\ Somewhere(r.f, p) /\ r.f.glob_offset = offset
<1>1. PICK cs, m \in Nat \ {0}, z \in Nat :
        cs = cluster_size /\ m = SectorSize /\ z = Files[p].size /\ f.size = z
  BY FatAssumption, BoundFacts DEF WholeFiles, Right
<1>2. PICK q \in Nat, r \in 0 .. m - 1 : q = offset \div m /\ r = offset % m /\ offset = q * m + r
  <2>1. /\ offset \div m \in Nat /\ offset % m \in 0 .. m - 1
        /\ offset = (offset \div m) * m + (offset % m)
    BY DivMod
  <2>2. QED
    BY <2>1, Zenon
<1>3. PICK n \in Nat, j \in 0 .. cs - 1 : n = q \div cs /\ j = q % cs /\ q = n * cs + j
  <2>1. /\ q \div cs \in Nat /\ q % cs \in 0 .. cs - 1
        /\ q = (q \div cs) * cs + (q % cs)
    BY DivMod
  <2>2. QED
    BY <2>1, Zenon
<1>4. PICK w : /\ w[0] = JumpStart(s, f)
               /\ \A i \in 1 .. n : w[i] = FollowCluster(w[i - 1])
               /\ fat_file_jump(s, f, offset) = Landed(w[n], offset)
  BY <1>1, <1>2, <1>3, JumpWalk
<1>5. PICK c0 : c0 = Files[p].cluster
  OBVIOUS
<1>6. ASSUME NEW i \in 0 .. n
      PROVE  Chain(c0, i) \in Nat \ {0, 1} /\ (i # 0 => ~IsEoc(Chain(c0, i)))
  <2>1. PICK d \in Nat : n = i + d
    <3>1. n - i \in Nat /\ n = i + (n - i)
      BY <1>3
    <3>2. QED
      BY <3>1
  <2>2. PICK u, v, x \in Nat : u = i * cs /\ v = d * cs /\ x = u * m
    BY <1>1, <2>1
  <2>3. PICK y \in Nat : y = v + j /\ q = u + y
    <3>1. (i + d) * cs = u + v
      BY <1>1, <2>1, <2>2
    <3>2. QED
      BY <1>1, <1>3, <2>1, <2>2, <3>1
  <2>4. q * m = x + y * m /\ y * m \in Nat
    BY <1>1, <2>2, <2>3
  <2>5. x < z
    BY <1>1, <1>2, <2>2, <2>4
  <2>6. QED
    BY <1>1, <1>5, <2>2, <2>5, InChain DEF Right
<1>7. Jumping(w[0], p, 0)
  <2>1. c0 \in Nat
    BY <1>3, <1>5, <1>6, ChainFacts
  <2>2. fat_sect_to_clust(f.start_sect) = Chain(c0, 0)
    BY <1>5, <2>1, SectorOfCluster, ChainFacts DEF Right
  <2>3. PICK g : g = [f EXCEPT !.cluster = Chain(c0, 0)]
    OBVIOUS
  <2>4. Right(g, p) /\ g.cluster = Chain(c0, 0)
    BY <2>3 DEF Right
  <2>5. w[0] = [s |-> s, eoc |-> FALSE, f |-> g]
    BY <1>4, <2>2, <2>3 DEF JumpStart
  <2>6. QED
    BY <1>5, <2>4, <2>5 DEF Jumping
<1>8. PICK S : S = {i \in 0 .. n : Jumping(w[i], p, i)}
  OBVIOUS
<1>9. ASSUME NEW i \in 1 .. n, i - 1 \in S PROVE i \in S
  <2>1. PICK a : a = w[i - 1] /\ w[i] = FollowCluster(a) /\ Jumping(a, p, i - 1)
    BY <1>4, <1>8, <1>9
  <2>2. PICK t : t = fat_table_get(a.s, a.f.cluster) /\ Clean(t.s) /\ t.entry = FatEntry(a.f.cluster)
    BY <2>1, TableGet DEF Jumping
  <2>3. t.entry = Chain(c0, i)
    <3>1. i - 1 \in Nat /\ i - 1 + 1 = i
      BY <1>9
    <3>2. QED
      BY <1>5, <2>1, <2>2, <3>1, ChainFacts DEF Jumping
  <2>4. ~IsEoc(t.entry)
    <3>1. i \in 0 .. n /\ i # 0
      BY <1>9
    <3>2. QED
      BY <1>6, <2>3, <3>1
  <2>5. w[i] = [a EXCEPT !.s = t.s, !.f.cluster = t.entry]
    BY <2>1, <2>2, <2>4 DEF FollowCluster, Link, Jumping
  <2>6. PICK g : g = [a.f EXCEPT !.cluster = t.entry]
    OBVIOUS
  <2>7. Right(g, p) /\ g.cluster = t.entry
    BY <2>1, <2>6 DEF Right, Jumping
  <2>8. w[i].f = g /\ w[i].s = t.s /\ w[i].eoc = a.eoc /\ DOMAIN w[i] = DOMAIN a
    BY <2>1, <2>5, <2>6 DEF Jumping
  <2>9. Jumping(w[i], p, i)
    BY <1>5, <2>1, <2>2, <2>3, <2>7, <2>8 DEF Jumping
  <2>10. QED
    BY <1>8, <1>9, <2>9
<1>10. Jumping(w[n], p, n)
  <2>1. 0 \in S
    BY <1>7, <1>8
  <2>2. n \in S
    BY <1>9, <2>1, UpTo
  <2>3. QED
    BY <1>8, <2>2
<1>11. PICK a : a = w[n] /\ Jumping(a, p, n)
  BY <1>10
<1>12. PICK sect \in Int : sect = fat_clust_to_sect(a.f.cluster)
  BY <1>3, <1>5, <1>6, <1>11, SectorOfCluster DEF Jumping
<1>13. PICK g : g = [a.f EXCEPT !.sector = sect + j, !.rw_offset = r, !.glob_offset = offset]
  OBVIOUS
<1>14. fat_file_jump(s, f, offset) = [s |-> a.s, f |-> g]
  BY <1>1, <1>2, <1>3, <1>4, <1>11, <1>12, <1>13 DEF Landed, Jumping
<1>15. /\ Right(g, p) /\ g.cluster = a.f.cluster /\ g.sector = sect + j
       /\ g.rw_offset = r /\ g.glob_offset = offset
  BY <1>11, <1>13 DEF Right, Jumping
<1>16. At(g, p, n, j, r)
  <2>1. offset = (n * cs + j) * m + r
    BY <1>2, <1>3
  <2>2. r \in 0 .. m
    BY <1>2
  <2>3. QED
    BY <1>1, <1>3, <1>11, <1>12, <1>15, <2>1, <2>2 DEF At, Jumping
<1>17. QED
  BY <1>11, <1>14, <1>15, <1>16 DEF Somewhere, Jumping

-----------------------------------------------------------------------------
(* run_binary                                                               *)

\* The pages of run_binary as a chain of rounds.
LEMMA LoadLoop ==
  ASSUME NEW first, NEW n \in Nat
  PROVE  \E w : w = [i \in 0 .. n |-> IF i = 0 THEN first ELSE ReadPage(w[i - 1])]
<1> DEFINE Step(acc, i) == ReadPage(acc)
           IsWalk(w, m) == w = [i \in 0 .. m |-> IF i = 0 THEN first ELSE Step(w[i - 1], i)]
           Bad == {m \in Nat : ~ \E w : IsWalk(w, m)}
<1> HIDE DEF Step
<1>1. SUFFICES Bad = {}
  BY DEF Step
<1>2. SUFFICES ASSUME Bad # {} PROVE FALSE
  OBVIOUS
<1>3. PICK m \in Bad : \A k \in Bad : m <= k
  BY <1>2, LeastNatural
<1>4. CASE m = 0
  <2>1. IsWalk([i \in 0 .. 0 |-> first], 0)
    OBVIOUS
  <2>2. QED
    BY <1>3, <1>4, <2>1
<1>5. CASE m # 0
  <2>1. m - 1 \in Nat /\ m - 1 \notin Bad
    BY <1>3, <1>5
  <2>2. PICK g : IsWalk(g, m - 1)
    BY <2>1
  <2>3. PICK z : z = Step(g[m - 1], m)
    OBVIOUS
  <2> DEFINE w == [i \in 0 .. m |-> IF i = m THEN z ELSE g[i]]
  <2>4. w[m] = z /\ \A i \in 0 .. m - 1 : w[i] = g[i]
    BY <2>1
  <2>5. \A i \in 0 .. m : w[i] = IF i = 0 THEN first ELSE Step(w[i - 1], i)
    <3>1. ASSUME NEW i \in 0 .. m, i # m
          PROVE  w[i] = IF i = 0 THEN first ELSE Step(w[i - 1], i)
      <4>1. i \in 0 .. m - 1 /\ (i # 0 => i - 1 \in 0 .. m - 1)
        BY <2>1, <3>1
      <4>2. QED
        BY <2>2, <2>4, <4>1
    <3>2. w[m] = Step(w[m - 1], m)
      BY <2>1, <2>3, <2>4
    <3>3. QED
      BY <1>5, <3>1, <3>2
  <2>6. IsWalk(w, m)
    BY <2>5
  <2>7. QED
    BY <1>3, <2>6
<1>6. QED
  BY <1>4, <1>5

LoadStart(word, j) ==
  [s |-> j.s, f |-> j.f, out |-> <<>>, pages |-> 0, done |-> FALSE, page_count |-> PageCount(word)]

\* LoadPages is that chain.
LEMMA LoadWalk ==
  ASSUME NEW word \in Nat, NEW j, NEW n \in Nat, n = j.f.size + 1
  PROVE  \E w : /\ w[0] = LoadStart(word, j)
                /\ \A i \in 1 .. n : w[i] = ReadPage(w[i - 1])
                /\ LoadPages(word, j) = w[n]
<1> DEFINE load == CHOOSE w : w = [i \in 0 .. n |->
                       IF i = 0 THEN LoadStart(word, j) ELSE ReadPage(w[i - 1])]
<1>1. load = [i \in 0 .. n |-> IF i = 0 THEN LoadStart(word, j) ELSE ReadPage(load[i - 1])]
  BY LoadLoop
<1>2. LoadPages(word, j) = load[n]
  BY DEF LoadPages, LoadStart
<1> HIDE DEF load
<1>3. load[0] = LoadStart(word, j) /\ \A i \in 1 .. n : load[i] = ReadPage(load[i - 1])
  BY <1>1
<1>4. QED
  BY <1>2, <1>3

\* Whatever the word says, the loop keeps the cache clean.
LEMMA LoadKept ==
  ASSUME NEW word \in Nat, NEW j, Clean(j.s), NEW n \in Nat, n = j.f.size + 1
  PROVE  /\ Kept(LoadPages(word, j))
         /\ LoadPages(word, j).page_count = PageCount(word)
<1>0. PICK pc : pc = PageCount(word)
  OBVIOUS
<1> DEFINE Ok(acc) == Kept(acc) /\ "page_count" \in DOMAIN acc /\ acc.page_count = pc
<1>1. PICK w : /\ w[0] = LoadStart(word, j)
               /\ \A i \in 1 .. n : w[i] = ReadPage(w[i - 1])
               /\ LoadPages(word, j) = w[n]
  BY LoadWalk
<1>3. PICK S : S = {i \in 0 .. n : Ok(w[i])}
  OBVIOUS
<1>4. Ok(w[0])
  BY <1>0, <1>1 DEF LoadStart, Kept
<1>5. ASSUME NEW i \in 1 .. n, i - 1 \in S PROVE i \in S
  <2>1. PICK a : a = w[i - 1] /\ w[i] = ReadPage(a) /\ Ok(a)
    BY <1>1, <1>3, <1>5
  <2>2. PICK r : r = fat_file_read(a.s, a.f, SectorSize) /\ Clean(r.s)
    BY <2>1, ReadKept, FatAssumption DEF Kept
  <2>3. Ok(AddPage(a, r))
    BY <2>1, <2>2 DEF AddPage, Kept
  <2>4. Ok(w[i])
    BY <2>1, <2>2, <2>3 DEF ReadPage
  <2>5. QED
    BY <1>3, <1>5, <2>4
<1>6. n \in S
  BY <1>3, <1>4, <1>5, UpTo
<1>7. QED
  BY <1>0, <1>1, <1>3, <1>6

\* A read at the end of the file delivers one byte, which is not of the file.
LEMMA EofRead ==
  ASSUME NEW s, NEW f, NEW p, Right(f, p), NEW z \in Nat, f.size = z, f.glob_offset = z,
         NEW count \in Nat \ {0}
  PROVE  \E b : fat_file_read(s, f, count).out = <<b>>
<1>1. PICK w : /\ w[0] = CopyStart(s, f)
               /\ \A i \in 1 .. count : w[i] = ReadByte(w[i - 1])
               /\ fat_file_read(s, f, count) = w[count]
  BY CopyWalk
<1> DEFINE One(acc) == acc.done /\ \E b : acc.out = <<b>>
<1>2. ASSUME NEW acc, acc.out = <<>>, NEW t, NEW g, g.glob_offset = z, g.size = z
      PROVE  One(Deliver(acc, t, g))
  <2>1. PICK b : b = t.buffer[g.rw_offset]
    OBVIOUS
  <2>2. Append(<<>>, b) = <<b>>
    OBVIOUS
  <2>3. z + 1 >= z
    OBVIOUS
  <2>4. Deliver(acc, t, g).out = <<b>>
    BY <1>2, <2>1, <2>2 DEF Deliver
  <2>5. Deliver(acc, t, g).done
    BY <1>2, <2>3 DEF Deliver
  <2>6. QED
    BY <2>4, <2>5
<1>3. One(ReadByte(w[0]))
  <2>1. PICK a : a = w[0] /\ a.f = f /\ a.out = <<>> /\ a.done = FALSE
    BY <1>1 DEF CopyStart
  <2>2. One(Deliver(a, a.s, a.f))
    BY <1>2, <2>1
  <2>3. PICK n : n = fat_file_addr_resolve(a.s, a.f)
    OBVIOUS
  <2>4. n.p.glob_offset = z /\ n.p.size = z
    BY <2>1, <2>3 DEF fat_file_addr_resolve, NextSector, NextCluster, Right
  <2>5. One(Resolved(a, n))
    BY <1>2, <2>1, <2>4 DEF Resolved
  <2>6. QED
    BY <2>1, <2>2, <2>3, <2>5 DEF ReadByte
<1> HIDE DEF One
<1>4. PICK S : S = {i \in 0 .. count : i = 0 \/ One(w[i])}
  OBVIOUS
<1>5. ASSUME NEW i \in 1 .. count, i - 1 \in S PROVE i \in S
  <2>1. w[i] = ReadByte(w[i - 1])
    BY <1>1
  <2>2. CASE i = 1
    BY <1>3, <1>4, <2>1, <2>2
  <2>3. CASE i # 1
    <3>1. One(w[i - 1])
      BY <1>4, <1>5, <2>3
    <3>2. w[i] = w[i - 1]
      BY <2>1, <3>1 DEF ReadByte, One
    <3>3. QED
      BY <1>4, <3>1, <3>2
  <2>4. QED
    BY <2>2, <2>3
<1>6. 0 \in S
  BY <1>4
<1>7. count \in S
  BY <1>5, <1>6, UpTo
<1>8. QED
  BY <1>1, <1>4, <1>7 DEF One

\* What a load has read is the beginning of the file.
Faithful(acc, p) ==
  /\ Clean(acc.s) /\ Right(acc.f, p) /\ Somewhere(acc.f, p)
  /\ acc.out \in Seq(Bytes(p)) /\ Len(acc.out) = acc.f.glob_offset
  /\ \A x \in 1 .. Len(acc.out) : acc.out[x] = Content(p)[x]

\* A load that has read i full pages, or the file, or a byte too many.
Loading(acc, p, i) ==
  /\ {"s", "f", "out", "pages", "done"} \subseteq DOMAIN acc
  /\ IF acc.done
       THEN /\ acc.pages = (Files[p].size \div SectorSize) + 1
            /\ IF Files[p].size % SectorSize # 0
                 THEN Faithful(acc, p) /\ acc.f.glob_offset = Files[p].size
                 ELSE Len(acc.out) = Files[p].size + 1
       ELSE /\ Faithful(acc, p) /\ acc.pages = i
            /\ acc.f.glob_offset = i * SectorSize /\ i * SectorSize <= Files[p].size

\* When all pages of the file were full, one more byte is read.
LEMMA EofPage ==
  ASSUME WholeFiles, NEW acc, NEW p \in DOMAIN Files, NEW i \in Nat, Loading(acc, p, i), ~acc.done,
         i * SectorSize = Files[p].size
  PROVE  Loading(ReadPage(acc), p, i + 1)
<1>1. PICK ss \in Nat \ {0, 1}, z \in Nat : ss = SectorSize /\ z = Files[p].size /\ z = i * ss
  BY FatAssumption DEF WholeFiles
<1>2. acc.f.glob_offset = z /\ acc.pages = i /\ acc.f.size = z /\ Right(acc.f, p)
  BY <1>1 DEF Loading, Faithful, Right
<1>3. PICK r : r = fat_file_read(acc.s, acc.f, ss)
  OBVIOUS
<1>4. PICK b : r.out = <<b>>
  <2>1. PICK f : f = acc.f
    OBVIOUS
  <2>2. ss \in Nat \ {0} /\ Right(f, p) /\ f.size = z /\ f.glob_offset = z
    BY <1>1, <1>2, <2>1
  <2>3. \A s : \E b : fat_file_read(s, f, ss).out = <<b>>
    <3>1. TAKE s
    <3>2. z \in Nat /\ ss \in Nat \ {0}
      BY <1>1
    <3>3. QED
      BY <2>2, <3>2, EofRead
  <2>4. QED
    BY <1>3, <2>1, <2>3
<1>5. PICK a : a = AddPage(acc, r) /\ ReadPage(acc) = a
  BY <1>1, <1>3 DEF ReadPage
<1>6. Len(acc.out \o r.out) = z + 1
  <2>1. PICK q : q = acc.out
    OBVIOUS
  <2>2. q \in Seq(Bytes(p)) /\ Len(q) = z
    BY <1>2, <2>1 DEF Loading, Faithful
  <2>3. q \in Seq(Bytes(p) \cup {b}) /\ <<b>> \in Seq(Bytes(p) \cup {b}) /\ Len(<<b>>) = 1
    BY <2>2
  <2>4. Len(q \o <<b>>) = Len(q) + Len(<<b>>)
    BY <2>3, ConcatProperties
  <2>5. QED
    BY <1>4, <2>1, <2>2, <2>3, <2>4
<1>7. Len(r.out) # ss
  BY <1>1, <1>4
<1>8. /\ {"s", "f", "out", "pages", "done"} \subseteq DOMAIN a
      /\ a.out = acc.out \o r.out /\ a.pages = i + 1 /\ a.done = TRUE
  BY <1>1, <1>2, <1>5, <1>7 DEF AddPage, Loading
<1>9. z % ss = 0 /\ z \div ss = i
  <2>1. z = i * ss + 0 /\ 0 \in 0 .. ss - 1
    BY <1>1
  <2>2. QED
    BY <1>1, <2>1, DivModOf
<1>10. QED
  BY <1>1, <1>5, <1>6, <1>8, <1>9 DEF Loading

\* One round reads the next page, until the last one, which is not whole.
LEMMA PageFacts ==
  ASSUME WholeFiles, NEW acc, NEW p, NEW i \in Nat, Loading(acc, p, i), ~acc.done,
         i * SectorSize < Files[p].size
  PROVE  Loading(ReadPage(acc), p, i + 1)
<1>1. PICK ss \in Nat \ {0}, z \in Nat : ss = SectorSize /\ z = Files[p].size
  BY FatAssumption DEF WholeFiles, Loading, Faithful, Right
<1>2. PICK g \in Nat : g = i * ss
  BY <1>1
<1>3. acc.f.glob_offset = g /\ g < z /\ acc.pages = i /\ acc.f.size = z
  BY <1>1, <1>2 DEF Loading, Faithful, Right
<1>4. PICK r : r = fat_file_read(acc.s, acc.f, ss)
  OBVIOUS
<1>5. PICK m \in 0 .. ss : Reading(r, p, g, m) /\ (m = ss \/ g + m = z)
  BY <1>1, <1>3, <1>4, ReadFacts DEF Loading, Faithful
<1>6. PICK out : out = acc.out \o r.out
  OBVIOUS
<1>7. /\ out \in Seq(Bytes(p)) /\ Len(out) = g + m
      /\ \A x \in 1 .. Len(out) : out[x] = Content(p)[x]
  <2>1. /\ acc.out \in Seq(Bytes(p)) /\ Len(acc.out) = g
        /\ \A x \in 1 .. g : acc.out[x] = Content(p)[x]
    BY <1>3 DEF Loading, Faithful
  <2>2. /\ r.out \in Seq(Bytes(p)) /\ Len(r.out) = m
        /\ \A x \in 1 .. m : r.out[x] = Content(p)[g + x]
    BY <1>5 DEF Reading
  <2>3. /\ out \in Seq(Bytes(p)) /\ Len(out) = g + m
        /\ \A x \in 1 .. g + m : out[x] = IF x <= g THEN acc.out[x] ELSE r.out[x - g]
    <3>1. PICK q, t : q = acc.out /\ t = r.out
      OBVIOUS
    <3>2. q \in Seq(Bytes(p)) /\ t \in Seq(Bytes(p)) /\ Len(q) = g /\ Len(t) = m /\ out = q \o t
      BY <1>6, <2>1, <2>2, <3>1
    <3>3. /\ q \o t \in Seq(Bytes(p)) /\ Len(q \o t) = Len(q) + Len(t)
          /\ \A x \in 1 .. Len(q) + Len(t) :
               (q \o t)[x] = IF x <= Len(q) THEN q[x] ELSE t[x - Len(q)]
      BY <3>2, ConcatProperties
    <3>4. QED
      BY <3>1, <3>2, <3>3, Zenon
  <2>4. ASSUME NEW x \in 1 .. g + m PROVE out[x] = Content(p)[x]
    <3>1. CASE x <= g
      <4>1. x \in 1 .. g
        BY <3>1
      <4>2. QED
        BY <2>1, <2>3, <3>1, <4>1
    <3>2. CASE ~(x <= g)
      <4>1. x - g \in 1 .. m /\ g + (x - g) = x
        BY <3>2
      <4>2. QED
        BY <2>2, <2>3, <3>2, <4>1
    <3>3. QED
      BY <3>1, <3>2
  <2>5. QED
    BY <2>3, <2>4
<1>8. ReadPage(acc) = AddPage(acc, r)
  BY <1>1, <1>4 DEF ReadPage
<1>9. PICK a : a = AddPage(acc, r)
  OBVIOUS
<1>10. PICK full \in BOOLEAN : full <=> Len(r.out) = ss
  OBVIOUS
<1>11. /\ {"s", "f", "out", "pages", "done"} \subseteq DOMAIN a
       /\ a.s = r.s /\ a.f = r.f /\ a.out = out /\ a.pages = i + 1
       /\ a.done = ~full
  BY <1>1, <1>3, <1>6, <1>9, <1>10 DEF AddPage, Loading
<1>12. /\ Clean(r.s) /\ Right(r.f, p) /\ Somewhere(r.f, p) /\ r.f.glob_offset = g + m
       /\ Len(r.out) = m /\ g + m <= z
  BY <1>1, <1>5, CachedClean DEF Reading
<1>13. CASE m = ss
  <2>1. PICK v \in Nat : v = (i + 1) * ss /\ g + m = v
    <3>1. (i + 1) * ss = g + m /\ g + m \in Nat
      BY <1>1, <1>2, <1>13
    <3>2. QED
      BY <3>1
  <2>2. a.done = FALSE
    BY <1>10, <1>11, <1>12, <1>13
  <2>3. v <= z /\ v = (i + 1) * SectorSize /\ a.f.glob_offset = v /\ Len(out) = v
    BY <1>1, <1>7, <1>11, <1>12, <2>1
  <2>4. Faithful(a, p)
    BY <1>7, <1>11, <1>12, <2>3 DEF Faithful
  <2>5. Loading(a, p, i + 1)
    BY <1>1, <1>11, <2>2, <2>3, <2>4 DEF Loading
  <2>6. QED
    BY <1>8, <1>9, <2>5
<1>14. CASE m # ss
  <2>1. z = i * ss + m /\ m \in 0 .. ss - 1
    BY <1>2, <1>5, <1>14
  <2>2. z \div ss = i /\ z % ss = m /\ m # 0
    <3>1. z \div ss = i /\ z % ss = m
      BY <2>1, DivModOf
    <3>2. m # 0
      BY <1>3, <1>5, <1>14
    <3>3. QED
      BY <3>1, <3>2
  <2>3. a.done = TRUE
    BY <1>10, <1>11, <1>12, <1>14
  <2>4. Faithful(a, p) /\ a.f.glob_offset = z
    BY <1>5, <1>7, <1>11, <1>12, <1>14 DEF Faithful
  <2>5. Loading(a, p, i + 1)
    BY <1>1, <1>11, <2>2, <2>3, <2>4 DEF Loading
  <2>6. QED
    BY <1>8, <1>9, <2>5
<1>15. QED
  BY <1>13, <1>14

\* The bytes of a file are a sequence of its size.
LEMMA ContentSeq ==
  ASSUME WholeFiles, NEW p \in DOMAIN Files
  PROVE  Content(p) \in Seq(Bytes(p)) /\ Len(Content(p)) = Files[p].size
<1>1. PICK z \in Nat : z = Files[p].size
  BY DEF WholeFiles
<1>2. DOMAIN Content(p) = 1 .. z
  BY <1>1 DEF Content
<1>3. Content(p) = [i \in 1 .. z |-> Content(p)[i]]
  BY <1>1, <1>2 DEF Content
<1>4. \A i \in 1 .. z : Content(p)[i] \in Bytes(p)
  BY <1>1 DEF Bytes
<1>5. PICK c : c = Content(p)
  OBVIOUS
<1>6. c = [i \in 1 .. z |-> c[i]] /\ \A i \in 1 .. z : c[i] \in Bytes(p)
  BY <1>3, <1>4, <1>5
<1>7. c \in Seq(Bytes(p)) /\ Len(c) = z
  BY <1>6
<1>8. QED
  BY <1>1, <1>5, <1>7

\* The loop loads the whole file, and a byte more when it ends with a page.
LEMMA LoadFacts ==
  ASSUME WholeFiles, NEW p \in DOMAIN Files, NEW word \in Nat,
         NEW j, Clean(j.s), Right(j.f, p), Somewhere(j.f, p), j.f.glob_offset = 0
  PROVE  LET l == LoadPages(word, j)
         IN  /\ l.pages = (Files[p].size \div SectorSize) + 1
             /\ l.out = Content(p) <=> Files[p].size % SectorSize # 0
<1>1. PICK ss \in Nat \ {0, 1}, z \in Nat : ss = SectorSize /\ z = Files[p].size /\ z = j.f.size
  BY FatAssumption DEF WholeFiles, Right
<1>2. PICK n \in Nat : n = z + 1
  OBVIOUS
<1>3. PICK w : /\ w[0] = LoadStart(word, j)
               /\ \A i \in 1 .. n : w[i] = ReadPage(w[i - 1])
               /\ LoadPages(word, j) = w[n]
  BY <1>1, <1>2, LoadWalk
<1>5. Loading(w[0], p, 0)
  <2>1. /\ {"s", "f", "out", "pages", "done"} \subseteq DOMAIN w[0]
        /\ w[0].s = j.s /\ w[0].f = j.f /\ w[0].out = <<>> /\ w[0].pages = 0 /\ w[0].done = FALSE
    BY <1>3 DEF LoadStart
  <2>2. <<>> \in Seq(Bytes(p)) /\ Len(<<>>) = 0
    OBVIOUS
  <2>3. 0 * SectorSize = 0 /\ 0 <= Files[p].size
    BY <1>1
  <2>4. Faithful(w[0], p)
    BY <2>1, <2>2 DEF Faithful
  <2>5. QED
    BY <2>1, <2>3, <2>4 DEF Loading
<1>6. PICK S : S = {i \in 0 .. n : Loading(w[i], p, i)}
  OBVIOUS
<1>7. ASSUME NEW i \in 1 .. n, i - 1 \in S PROVE i \in S
  <2>1. PICK a : a = w[i - 1] /\ w[i] = ReadPage(a) /\ Loading(a, p, i - 1)
    BY <1>3, <1>6, <1>7
  <2>2. CASE a.done
    <3>1. w[i] = a
      BY <2>1, <2>2 DEF ReadPage
    <3>2. Loading(a, p, i)
      BY <2>1, <2>2 DEF Loading
    <3>3. QED
      BY <1>6, <1>7, <3>1, <3>2
  <2>3. CASE ~a.done
    <3>1. i - 1 \in Nat /\ i - 1 + 1 = i
      BY <1>7
    <3>2. (i - 1) * SectorSize <= Files[p].size
      BY <2>1, <2>3 DEF Loading
    <3>3. (i - 1) * SectorSize < Files[p].size \/ (i - 1) * SectorSize = Files[p].size
      <4>1. PICK y \in Nat : y = (i - 1) * ss
        BY <1>1, <3>1
      <4>2. QED
        BY <1>1, <3>2, <4>1
    <3>4. Loading(w[i], p, i)
      BY <2>1, <2>3, <3>1, <3>3, PageFacts, EofPage
    <3>5. QED
      BY <1>6, <1>7, <3>4
  <2>4. QED
    BY <2>2, <2>3
<1>8. Loading(w[n], p, n)
  <2>1. 0 \in S
    BY <1>5, <1>6
  <2>2. n \in S
    BY <1>7, <2>1, UpTo
  <2>3. QED
    BY <1>6, <2>2
<1>9. PICK a : a = LoadPages(word, j) /\ Loading(a, p, n)
  BY <1>3, <1>8
<1>10. a.done
  <2>1. ~(n * ss <= z)
    <3>1. PICK k \in Nat : ss = k + 1
      <4>1. ss - 1 \in Nat /\ ss = (ss - 1) + 1
        BY <1>1
      <4>2. QED
        BY <4>1
    <3>2. n * ss = n * k + n /\ n * k \in Nat
      BY <1>2, <3>1
    <3>3. QED
      BY <1>2, <3>2
  <2>2. QED
    BY <1>1, <1>9, <2>1 DEF Loading
<1>11. PICK c : c = Content(p) /\ c \in Seq(Bytes(p)) /\ Len(c) = z
  BY <1>1, ContentSeq
<1>12. a.out = c <=> z % ss # 0
  <2>1. CASE z % ss # 0
    <3>1. /\ a.out \in Seq(Bytes(p)) /\ Len(a.out) = z
          /\ \A x \in 1 .. Len(a.out) : a.out[x] = c[x]
      BY <1>1, <1>9, <1>10, <1>11, <2>1 DEF Loading, Faithful
    <3>2. QED
      BY <1>11, <2>1, <3>1, SeqEqual
  <2>2. CASE z % ss = 0
    <3>1. Len(a.out) = z + 1
      BY <1>1, <1>9, <1>10, <2>2 DEF Loading
    <3>2. QED
      BY <1>11, <2>2, <3>1
  <2>3. QED
    BY <2>1, <2>2
<1>13. QED
  BY <1>1, <1>9, <1>10, <1>11, <1>12 DEF Loading

-----------------------------------------------------------------------------
(* What the calls find                                                      *)

\* The entry a search ends at gives the first sector of its cluster.
LEMMA SearchFinds ==
  ASSUME NEW s, NEW d, NEW name, fat_dir_search(s, d, name).found
  PROVE  fat_dir_search(s, d, name).d.sector
           = fat_clust_to_sect(fat_dir_search(s, d, name).d.cluster)
<1> DEFINE Good(acc) == /\ Searches(acc)
                        /\ acc.found => /\ acc.done
                                        /\ acc.d.sector = fat_clust_to_sect(acc.d.cluster)
<1>1. PICK w : /\ w[0] = SearchStart(s, d)
               /\ \A i \in 1 .. WalkBound : w[i] = SearchOne(name, w[i - 1])
               /\ fat_dir_search(s, d, name) = w[WalkBound]
  BY SearchWalk
<1>2. Good(w[0])
  BY <1>1 DEF SearchStart, Searches
<1>3. ASSUME NEW acc, Good(acc) PROVE Good(SearchOne(name, acc))
  <2>1. CASE acc.done
    BY <1>3, <2>1 DEF SearchOne
  <2>2. CASE ~acc.done
    <3> DEFINE r == fat_read(acc.s, acc.d.sector)
               e == r.buffer[acc.d.rw_offset]
               byLfn == acc.crc # 0 /\ acc.lfn_match
               match == IF byLfn THEN acc.crc = fat_get_sfn_crc(e.name)
                        ELSE fat_dir_sfn_cmp(e.name, name)
               go == Advance(acc, fat_dir_get_next(r, acc.d))
    <3>1. ~acc.found
      BY <1>3, <2>2
    <3>2. Searches(go) /\ ~go.found
      BY <1>3, <3>1 DEF Searches, Advance, Move
    <3>3. SearchOne(name, acc) = SearchEntry(name, acc, r)
      BY <2>2 DEF SearchOne
    <3> HIDE DEF r, go
    <3>4. CASE e.type = "END"
      BY <1>3, <3>1, <3>3, <3>4 DEF SearchEntry, Searches
    <3>5. CASE e.type = "FREE"
      BY <3>2, <3>3, <3>5 DEF SearchEntry, go
    <3>6. CASE e.type = "LFN"
      BY <3>2, <3>3, <3>6 DEF SearchEntry, Searches, go
    <3>7. CASE e.type \notin {"END", "FREE", "LFN"} /\ ~match
      BY <3>2, <3>3, <3>7 DEF SearchEntry, Searches, go
    <3>8. CASE e.type \notin {"END", "FREE", "LFN"} /\ match
      BY <1>3, <3>3, <3>8 DEF SearchEntry, Searches
    <3>9. QED
      BY <3>4, <3>5, <3>6, <3>7, <3>8
  <2>3. QED
    BY <2>1, <2>2
<1> HIDE DEF Good
<1>4. PICK S : S = {i \in 0 .. WalkBound : Good(w[i])}
  OBVIOUS
<1>5. 0 \in S
  BY <1>2, <1>4, BoundFacts
<1>6. ASSUME NEW i \in 1 .. WalkBound, i - 1 \in S PROVE i \in S
  BY <1>1, <1>3, <1>4, <1>6
<1>7. WalkBound \in S
  BY <1>5, <1>6, UpTo, BoundFacts
<1>8. QED
  BY <1>1, <1>4, <1>7 DEF Good

\* What opening a path finds, whatever the cache holds.
LEMMA OpenRight ==
  ASSUME NamesResolve, NEW s, Clean(s), NEW path \in Paths
  PROVE  LET o == fat_file_open(s, path)
         IN  /\ Clean(o.s)
             /\ IF path \in DOMAIN Files
                  THEN /\ o.status = "OK" /\ Right(o.f, path) /\ Somewhere(o.f, path)
                       /\ o.f.glob_offset = 0
                  ELSE o.status # "OK"
<1>1. PICK o : o = fat_file_open(s, path)
  OBVIOUS
<1>2. PICK t : t = Cached(root_lba) /\ Clean(t)
  BY CachedClean
<1>3. PICK r : r = fat_file_open(t, path) /\ IF path \in DOMAIN Files
        THEN r.status = "OK" /\ Files[path] = [cluster |-> r.f.cluster, size |-> r.f.size]
        ELSE r.status # "OK"
  BY <1>2 DEF NamesResolve, Mounted, Cached
<1>4. Clean(o.s) /\ o.status = r.status /\ (o.status = "OK" => o.f = r.f)
  BY <1>1, <1>2, <1>3, OpenFacts
<1>5. CASE path \notin DOMAIN Files
  BY <1>1, <1>3, <1>4, <1>5
<1>6. CASE path \in DOMAIN Files
  <2>1. o.status = "OK" /\ Files[path] = [cluster |-> o.f.cluster, size |-> o.f.size]
    BY <1>3, <1>4, <1>6
  <2>2. PICK at : at = fat_follow_path(s, path)
    OBVIOUS
  <2>3. PICK q : q = fat_dir_search(at.s, at.d, path.frags[Len(path.frags)])
    OBVIOUS
  <2>4. at.status = "OK" /\ o = Opened(q, path)
    BY <1>1, <2>1, <2>2, <2>3 DEF fat_file_open, OpenIn
  <2>5. q.found
    BY <2>1, <2>4 DEF Opened
  <2>6. q.d.sector = fat_clust_to_sect(q.d.cluster)
    BY <2>3, <2>5, SearchFinds
  <2>7. PICK f : f = [open |-> TRUE, path |-> path, sector |-> q.d.sector, start_sect |-> q.d.sector,
                      cluster |-> q.d.cluster, glob_offset |-> 0, rw_offset |-> 0, size |-> q.d.size]
    OBVIOUS
  <2>8. o.f = f
    BY <2>4, <2>5, <2>7 DEF Opened
  <2>9. Files[path].cluster = f.cluster /\ Files[path].size = f.size
    BY <2>1, <2>8
  <2>10. Right(f, path)
    BY <1>6, <2>6, <2>7, <2>9 DEF Right
  <2>11. At(f, path, 0, 0, 0)
    <3>1. f.cluster \in Nat /\ f.sector = fat_clust_to_sect(f.cluster)
      BY <1>6, <2>6, <2>7, <2>9, VolumeAssumption DEF WholeFiles
    <3>2. PICK x \in Int : x = f.sector /\ x = fat_clust_to_sect(f.cluster)
      BY <3>1, SectorOfCluster
    <3>3. f.cluster = Chain(Files[path].cluster, 0)
      BY <2>9, ChainFacts
    <3>4. PICK cs, m \in Nat \ {0} : cs = cluster_size /\ m = SectorSize
      BY FatAssumption, BoundFacts
    <3>5. (0 * cs + 0) * m + 0 = 0 /\ x + 0 = x /\ 0 \in 0 .. cs - 1 /\ 0 \in 0 .. m
      BY <3>4
    <3>6. f.rw_offset = 0 /\ f.glob_offset = 0
      BY <2>7
    <3>7. QED
      BY <3>2, <3>3, <3>4, <3>5, <3>6 DEF At
  <2>12. f.glob_offset = 0
    BY <2>7
  <2>13. QED
    BY <1>1, <1>4, <1>6, <2>1, <2>8, <2>10, <2>11, <2>12 DEF Somewhere
<1>7. QED
  BY <1>5, <1>6

\* A binary is opened, its size is read, and its pages are loaded from 0 on.
LEMMA RunFacts ==
  ASSUME NamesResolve, NEW s, Clean(s), NEW path \in Binaries
  PROVE  LET r == run_binary(s, path)
             z == Files[path].size
         IN  /\ IF path \in DOMAIN Files THEN Clean(r.s) ELSE r.s.halted = TRUE
             /\ path \in DOMAIN Files =>
                  /\ r.out = Content(path) <=> z % SectorSize # 0
                  /\ r.pages = (z \div SectorSize) + 1
                  /\ r.page_count = PageCount(Content(path)[1])
<1>1. PICK o : o = fat_file_open(s, path)
  OBVIOUS
<1>2. path \in Paths
  BY FatAssumption
<1>3. CASE path \notin DOMAIN Files
  <2>1. o.status # "OK" /\ Clean(o.s)
    BY <1>1, <1>2, <1>3, OpenRight
  <2>2. PICK h : h = [o.s EXCEPT !.halted = TRUE]
    OBVIOUS
  <2>3. h.halted = TRUE
    BY <2>1, <2>2 DEF Clean, Cached
  <2>4. run_binary(s, path).s = h
    BY <1>1, <2>1, <2>2 DEF run_binary, RunOpened
  <2>5. QED
    BY <1>3, <2>3, <2>4
<1>4. CASE path \in DOMAIN Files
  <2>1. /\ Clean(o.s) /\ o.status = "OK" /\ Right(o.f, path) /\ Somewhere(o.f, path)
        /\ o.f.glob_offset = 0
    BY <1>1, <1>2, <1>4, OpenRight
  <2>2. PICK z \in Nat : z = Files[path].size /\ z > 0
    BY <1>4, VolumeAssumption DEF WholeFiles, BinariesHeaded
  <2>a. PICK word \in Nat : word = Content(path)[1]
    BY <1>4, VolumeAssumption DEF BinariesHeaded
  <2>3. PICK h : h = fat_file_read(o.s, o.f, 1)
    OBVIOUS
  <2>4. o.f.glob_offset < o.f.size /\ 1 \in Nat
    BY <2>1, <2>2 DEF Right
  <2>5. PICK m \in 0 .. 1 : Reading(h, path, o.f.glob_offset, m) /\ (m = 1 \/ o.f.glob_offset + m = z)
    BY <2>1, <2>2, <2>3, <2>4, ReadFacts, VolumeAssumption
  <2>6. m = 1 /\ Reading(h, path, 0, 1)
    BY <2>1, <2>2, <2>5
  <2>7. h.out[1] = word /\ Clean(h.s) /\ Right(h.f, path)
    <3>1. 1 \in 1 .. 1 /\ 0 + 1 = 1
      OBVIOUS
    <3>2. h.out[1] = Content(path)[1]
      BY <2>6, <3>1 DEF Reading
    <3>3. QED
      BY <2>a, <2>6, <3>2, CachedClean DEF Reading
  <2>8. PICK j : j = fat_file_jump(h.s, h.f, 0)
    OBVIOUS
  <2>9. Clean(j.s) /\ Right(j.f, path) /\ Somewhere(j.f, path) /\ j.f.glob_offset = 0
    <3>1. 0 \in Nat /\ 0 < h.f.size
      BY <2>2, <2>7 DEF Right
    <3>2. QED
      BY <2>7, <2>8, <3>1, JumpFacts, VolumeAssumption
  <2>10. run_binary(s, path) = LoadPages(word, j)
    BY <1>1, <2>1, <2>3, <2>7, <2>8 DEF run_binary, RunOpened, Load
  <2>11. PICK n \in Nat : n = j.f.size + 1
    BY <2>2, <2>9 DEF Right
  <2>12. Clean(run_binary(s, path).s) /\ run_binary(s, path).page_count = PageCount(word)
    BY <2>9, <2>10, <2>11, LoadKept DEF Kept
  <2>13. /\ LoadPages(word, j).pages = (z \div SectorSize) + 1
         /\ LoadPages(word, j).out = Content(path) <=> z % SectorSize # 0
    BY <1>4, <2>2, <2>9, LoadFacts, VolumeAssumption
  <2>14. QED
    BY <1>4, <2>a, <2>2, <2>10, <2>12, <2>13
<1>5. QED
  BY <1>3, <1>4

-----------------------------------------------------------------------------
(* The invariant                                                            *)

CacheInv ==
  \/ halted = TRUE
  \/ halted = FALSE /\ cache = [buffer |-> Disk[cache.lba], lba |-> cache.lba, dirty |-> FALSE]

FileInv == file = NoFile \/ \E p : Right(file, p) /\ Somewhere(file, p)

\* A binary is loaded whole and into its pages exactly when they fit.
LoadedIfFits ==
  last.call = "run" /\ last.path \in DOMAIN Files => (BinaryLoaded <=> BinaryFits(last.path))

LastInv ==
  /\ ReadsRight
  /\ last.call = "open" /\ last.status = "PATH_ERR" => last.path \notin DOMAIN Files
  /\ LoadedIfFits

FatInv == CacheInv /\ FileInv /\ LastInv

\* What a call starts with is clean.
LEMMA StateClean ==
  ASSUME CacheInv, ~halted
  PROVE  Clean(State)
<1>1. cache = [buffer |-> Disk[cache.lba], lba |-> cache.lba, dirty |-> FALSE]
  BY DEF CacheInv
<1>2. PICK x : x = cache.lba
  OBVIOUS
<1>3. cache.buffer = Disk[x] /\ cache.dirty = FALSE
  BY <1>1, <1>2
<1>4. State = Cached(x)
  BY <1>2, <1>3 DEF State, Cached
<1>5. QED
  BY <1>4, CachedClean

\* A call that leaves the buffer clean keeps the invariant of the cache,
LEMMA AfterClean ==
  ASSUME NEW s, Clean(s), After(s)
  PROVE  CacheInv'
<1>1. PICK x : x = s.lba
  OBVIOUS
<1>2. s = Cached(x)
  BY <1>1 DEF Clean
<1>3. s.buffer = Disk[x] /\ s.lba = x /\ s.dirty = FALSE /\ s.halted = FALSE
  BY <1>2 DEF Cached
<1>4. cache' = [buffer |-> Disk[x], lba |-> x, dirty |-> FALSE] /\ halted' = FALSE
  BY <1>3 DEF After
<1>5. cache'.lba = x
  BY <1>4
<1>6. QED
  BY <1>4, <1>5 DEF CacheInv

\* and so does one that halts the machine.
LEMMA AfterHalted ==
  ASSUME NEW s, s.halted = TRUE, After(s)
  PROVE  CacheInv'
BY DEF After, CacheInv

\* A dirty sector is written, which halts the system.
LEMMA FlushHalts ==
  ASSUME NEW s, "halted" \in DOMAIN s, s.dirty = TRUE
  PROVE  fat_flush(s).halted = TRUE
BY DEF fat_flush

\* fat_table_set flushes its own change, and a flush of a change halts.
LEMMA TableSetHalts ==
  ASSUME NEW s, Clean(s), NEW c, NEW entry
  PROVE  fat_table_set(s, c, entry).halted = TRUE
<1>1. PICK r : r = fat_read(s, fat_lba + c \div FatPerSector) /\ Clean(r)
  BY ReadClean, CachedClean
<1>2. PICK e : e = [r EXCEPT !.buffer[c % FatPerSector] = entry, !.dirty = TRUE]
  OBVIOUS
<1>3. "halted" \in DOMAIN e /\ e.dirty = TRUE
  BY <1>1, <1>2 DEF Clean, Cached
<1>4. fat_table_set(s, c, entry) = fat_flush(e)
  BY <1>1, <1>2 DEF fat_table_set
<1>5. QED
  BY <1>3, <1>4, FlushHalts

\* fat_get_cluster marks an entry and reads FSinfo again, which is another
\* sector.
LEMMA GetClusterHalts ==
  ASSUME NEW s, Clean(s)
  PROVE  fat_get_cluster(s).halted = TRUE
<1>1. PICK info : info = Cached(fsinfo_lba) /\ info = fat_read(s, fsinfo_lba)
  BY ReadClean
<1>2. PICK from \in Nat : from = info.buffer[0].next_free
  BY <1>1, CachedClean, VolumeAssumption DEF RoomLeft
<1>3. PICK S : S = {c \in from .. (data_lba - fat_lba) * FatPerSector - 1 : FatEntry(c) % FreeMask = 0}
  OBVIOUS
<1>4. S # {}
  BY <1>1, <1>2, <1>3, CachedClean, VolumeAssumption DEF RoomLeft
<1>5. S \in SUBSET Nat
  BY <1>2, <1>3
<1>6. PICK free \in Nat : free = Min(S)
  BY <1>4, <1>5, MinFacts
<1>7. PICK r : r = Cached(fat_lba + free \div FatPerSector) /\ r = fat_read(info, fat_lba + free \div FatPerSector)
  BY <1>1, ReadClean, CachedClean
<1>8. PICK marked : marked = [r EXCEPT !.buffer[free % FatPerSector] = 2^28 - 1, !.dirty = TRUE]
  OBVIOUS
<1>9. ~info.halted
  BY <1>1 DEF Cached
<1>10. fat_get_cluster(s) = fat_read(marked, fsinfo_lba)
  BY <1>1, <1>2, <1>3, <1>6, <1>7, <1>8, <1>9 DEF fat_get_cluster
<1>11. "halted" \in DOMAIN marked /\ marked.dirty = TRUE /\ marked.halted = FALSE
       /\ marked.lba = fat_lba + free \div FatPerSector
  BY <1>7, <1>8 DEF Cached
<1>12. fat_lba + free \div FatPerSector # fsinfo_lba
  <2>1. free \div FatPerSector \in Nat
    BY FatAssumption, DivMod
  <2>2. /\ Partition \in Nat /\ Bpb.fsinfo \in Nat /\ Bpb.rsvd_cnt \in Nat
        /\ Bpb.fsinfo < Bpb.rsvd_cnt
    BY FatAssumption
  <2>3. QED
    BY <2>1, <2>2 DEF fat_lba, fsinfo_lba
<1>13. fat_read(marked, fsinfo_lba) = fat_flush(marked)
  BY <1>11, <1>12 DEF fat_read
<1>14. QED
  BY <1>10, <1>11, <1>13, FlushHalts

\* The mounted volume has the sector of the root cached.
LEMMA FatInit ==
  ASSUME Init
  PROVE  FatInv
<1>1. PICK s : /\ s = FindLabel([buffer |-> <<>>, lba |-> 0, dirty |-> FALSE, halted |-> FALSE]).s
               /\ cache = [buffer |-> s.buffer, lba |-> s.lba, dirty |-> s.dirty]
  BY DEF Init
<1>2. Clean(s)
  BY <1>1, LabelFacts
<1>3. CacheInv
  <2>1. PICK x : x = s.lba /\ s = Cached(x)
    BY <1>2 DEF Clean
  <2>2. s.buffer = Disk[x] /\ s.lba = x /\ s.dirty = FALSE
    BY <2>1 DEF Cached
  <2>3. cache = [buffer |-> Disk[x], lba |-> x, dirty |-> FALSE]
    BY <1>1, <2>2
  <2>4. cache.lba = x
    BY <2>3
  <2>5. QED
    BY <2>3, <2>4 DEF CacheInv, Init
<1>4. last.call = "mount"
  BY DEF Init
<1>5. QED
  BY <1>3, <1>4 DEF FatInv, FileInv, LastInv, ReadsRight, LoadedIfFits, Init

\* A call that says nothing of a read, an open or a binary.
Quiet == last'.call \notin {"read", "open", "run"}

\* Such a call leaves nothing to show.
LEMMA QuietLast ==
  ASSUME Quiet PROVE LastInv'
BY DEF Quiet, LastInv, ReadsRight, LoadedIfFits

\* An open file is right and at its first byte.
LEMMA FileOpenStep ==
  ASSUME NamesResolve, FatInv, NEW path \in Paths, FileOpen(path)
  PROVE  FatInv'
<1>1. Clean(State)
  BY StateClean DEF FatInv, FileOpen
<1>2. PICK r : /\ r = fat_file_open(State, path) /\ After(r.s)
               /\ file' = (IF r.status = "OK" THEN r.f ELSE NoFile)
               /\ last' = [call |-> "open", path |-> path, status |-> r.status]
  BY DEF FileOpen
<1>3. /\ Clean(r.s)
      /\ IF path \in DOMAIN Files
           THEN r.status = "OK" /\ Right(r.f, path) /\ Somewhere(r.f, path)
           ELSE r.status # "OK"
  BY <1>1, <1>2, OpenRight
<1>4. CacheInv'
  BY <1>2, <1>3, AfterClean
<1>5. FileInv'
  BY <1>2, <1>3 DEF FileInv, NoFile
<1>6. LastInv'
  <2>1. last'.call = "open" /\ last'.path = path /\ last'.status = r.status
    BY <1>2
  <2>2. r.status = "PATH_ERR" => path \notin DOMAIN Files
    BY <1>3
  <2>3. QED
    BY <2>1, <2>2 DEF LastInv, ReadsRight, LoadedIfFits
<1>7. QED
  BY <1>4, <1>5, <1>6 DEF FatInv

\* A read delivers the right bytes and leaves the file somewhere in its chain.
LEMMA FileReadStep ==
  ASSUME FatInv, NEW count \in 1 .. MaxCount, FileRead(count)
  PROVE  FatInv'
<1>1. Clean(State)
  BY StateClean DEF FatInv, FileRead
<1>2. PICK r : /\ r = fat_file_read(State, file, count) /\ After(r.s) /\ file' = r.f
               /\ last' = [call |-> "read", from |-> file.glob_offset, count |-> count, out |-> r.out]
  BY DEF FileRead
<1>3. PICK p : Right(file, p) /\ Somewhere(file, p)
  BY DEF FatInv, FileInv, FileRead, NoFile
<1>4. PICK n \in Nat : n = count /\ n > 0
  BY FatAssumption
<1>5. PICK g : g = file.glob_offset /\ g < file.size
  BY DEF FileRead
<1>6. PICK m \in 0 .. n : Reading(r, p, g, m) /\ (m = n \/ g + m = Files[p].size)
  BY <1>1, <1>2, <1>3, <1>4, <1>5, ReadFacts, VolumeAssumption
<1>7. CacheInv'
  <2>1. Clean(r.s)
    BY <1>6, CachedClean DEF Reading
  <2>2. QED
    BY <1>2, <2>1, AfterClean
<1>8. FileInv' /\ file'.path = p
  BY <1>2, <1>6 DEF FileInv, Reading, Right
<1>9. LastInv'
  <2>1. PICK z \in Nat : z = Files[p].size /\ p \in DOMAIN Files /\ g < z
    BY <1>3, <1>5, VolumeAssumption DEF Right, WholeFiles
  <2>2. /\ g \in Nat /\ g + m <= z /\ r.out \in Seq(Bytes(p)) /\ Len(r.out) = m
        /\ \A x \in 1 .. m : r.out[x] = Content(p)[g + x]
    BY <1>6, <2>1 DEF Reading
  <2>3. Min({g + n, z}) = g + m
    <3>1. {g + n, z} \in SUBSET Nat /\ {g + n, z} # {}
      BY <1>4, <2>1, <2>2
    <3>2. PICK mn : mn = Min({g + n, z}) /\ mn \in {g + n, z} /\ mn <= g + n /\ mn <= z
      BY <3>1, MinFacts
    <3>3. QED
      BY <1>4, <1>6, <2>1, <2>2, <3>2
  <2>4. r.out = SubSeq(Content(p), g + 1, g + m)
    <3>1. PICK c, t : c = Content(p) /\ t = SubSeq(c, g + 1, g + m)
      OBVIOUS
    <3>2. \A i \in g + 1 .. g + m : c[i] \in Bytes(p)
      BY <2>1, <2>2, <3>1 DEF Bytes
    <3>3. g + 1 \in Int /\ g + m \in Int
      BY <2>2
    <3>4. /\ t \in Seq(Bytes(p))
          /\ Len(t) = IF g + 1 <= g + m THEN (g + m) - (g + 1) + 1 ELSE 0
          /\ \A i \in 1 .. (g + m) - (g + 1) + 1 : t[i] = c[(g + 1) + i - 1]
      BY <3>1, <3>2, <3>3, SubSeqProperties
    <3>5. Len(t) = m /\ \A i \in 1 .. m : t[i] = c[g + i]
      BY <2>2, <3>4
    <3>6. \A i \in 1 .. Len(r.out) : r.out[i] = t[i]
      BY <2>2, <3>1, <3>5
    <3>7. r.out = t
      BY <2>2, <3>4, <3>5, <3>6, SeqEqual
    <3>8. QED
      BY <3>1, <3>7
  <2>5. last'.call = "read" /\ last'.from = g /\ last'.count = n /\ last'.out = r.out
    BY <1>2, <1>4, <1>5
  <2>6. ReadsRight'
    BY <1>8, <2>1, <2>3, <2>4, <2>5 DEF ReadsRight
  <2>7. QED
    BY <2>5, <2>6 DEF LastInv, LoadedIfFits
<1>10. QED
  BY <1>7, <1>8, <1>9 DEF FatInv

\* A jump inside the file lands in its chain.
LEMMA FileJumpStep ==
  ASSUME FatInv, NEW offset \in Nat, FileJump(offset)
  PROVE  FatInv'
<1>1. Clean(State)
  BY StateClean DEF FatInv, FileJump
<1>2. PICK r : r = fat_file_jump(State, file, offset) /\ After(r.s) /\ file' = r.f /\ Quiet
  BY DEF FileJump, Quiet
<1>3. PICK p : Right(file, p) /\ Somewhere(file, p)
  BY DEF FatInv, FileInv, FileJump, NoFile
<1>4. offset < file.size
  BY DEF FileJump
<1>5. Clean(r.s) /\ Right(r.f, p) /\ Somewhere(r.f, p)
  BY <1>1, <1>2, <1>3, <1>4, JumpFacts, VolumeAssumption
<1>6. FileInv'
  BY <1>2, <1>5 DEF FileInv
<1>7. QED
  BY <1>2, <1>5, <1>6, AfterClean, QuietLast DEF FatInv

\* A part of a page takes a page: n pages reach to the end of z bytes when they
\* are more than the full ones.
LEMMA PagesReach ==
  ASSUME NEW ss \in Nat \ {0}, NEW z \in Nat, NEW n \in Nat, z % ss # 0
  PROVE  (z \div ss) + 1 <= n <=> z <= n * ss
<1>1. PICK q \in Nat, r \in 0 .. ss - 1 : q = z \div ss /\ r = z % ss /\ z = q * ss + r /\ r # 0
  <2>1. z \div ss \in Nat /\ z % ss \in 0 .. ss - 1 /\ z = (z \div ss) * ss + (z % ss)
    BY DivMod
  <2>2. QED
    BY <2>1, Zenon
<1>2. CASE q + 1 <= n
  <2>1. PICK d \in Nat : n = q + 1 + d
    <3>1. n - (q + 1) \in Nat /\ n = q + 1 + (n - (q + 1))
      BY <1>1, <1>2
    <3>2. QED
      BY <3>1
  <2>2. n * ss = q * ss + ss + d * ss /\ d * ss \in Nat /\ q * ss \in Nat
    BY <1>1, <2>1
  <2>3. z <= n * ss
    BY <1>1, <2>2
  <2>4. QED
    BY <1>1, <1>2, <2>3
<1>3. CASE n < q + 1
  <2>1. PICK d \in Nat : q = n + d
    <3>1. q - n \in Nat /\ q = n + (q - n)
      BY <1>1, <1>3
    <3>2. QED
      BY <3>1
  <2>2. q * ss = n * ss + d * ss /\ d * ss \in Nat /\ n * ss \in Nat
    BY <1>1, <2>1
  <2>3. ~(z <= n * ss)
    BY <1>1, <2>2
  <2>4. QED
    BY <1>1, <1>3, <2>3
<1>4. QED
  BY <1>1, <1>2, <1>3

\* run_binary opens, reads the header, jumps back and loads the pages.
LEMMA RunStep ==
  ASSUME NamesResolve, FatInv, NEW path \in Binaries, RunBinary(path)
  PROVE  FatInv'
<1>1. Clean(State)
  BY StateClean DEF FatInv, RunBinary
<1>2. PICK r : /\ r = run_binary(State, path) /\ After(r.s) /\ file' = file
               /\ last' = [call |-> "run", path |-> path, out |-> r.out, pages |-> r.pages,
                           page_count |-> r.page_count]
  BY DEF RunBinary
<1>3. PICK z : z = Files[path].size
  OBVIOUS
<1>4. /\ IF path \in DOMAIN Files THEN Clean(r.s) ELSE r.s.halted = TRUE
      /\ path \in DOMAIN Files =>
           /\ r.out = Content(path) <=> z % SectorSize # 0
           /\ r.pages = (z \div SectorSize) + 1
           /\ r.page_count = PageCount(Content(path)[1])
  BY <1>1, <1>2, <1>3, RunFacts
<1>5. CacheInv'
  BY <1>2, <1>4, AfterClean, AfterHalted
<1>6. FileInv'
  BY <1>2 DEF FatInv, FileInv
<1>7. LastInv'
  <2>1. /\ last'.call = "run" /\ last'.path = path /\ last'.out = r.out
        /\ last'.pages = r.pages /\ last'.page_count = r.page_count
    BY <1>2
  <2>2. ASSUME path \in DOMAIN Files PROVE BinaryLoaded' <=> BinaryFits(path)
    <3>1. PICK ss \in Nat \ {0} : ss = SectorSize
      BY FatAssumption
    <3>2. z \in Nat /\ Content(path)[1] \in Nat
      BY <1>3, <2>2, VolumeAssumption DEF WholeFiles, BinariesHeaded
    <3>3. PICK pc \in Nat : pc = PageCount(Content(path)[1])
      <4>1. PICK word \in Nat : word = Content(path)[1]
        BY <3>2
      <4>2. PICK full \in Nat : full = word \div ss
        BY <3>1, <4>1, DivMod
      <4>3. full + (full % 2) \in Nat
        BY <4>2
      <4>4. QED
        BY <3>1, <4>1, <4>2, <4>3 DEF PageCount
    <3>4. BinaryLoaded' <=> z % ss # 0 /\ (z \div ss) + 1 <= pc
      BY <1>4, <2>1, <2>2, <3>1, <3>3 DEF BinaryLoaded
    <3>5. BinaryFits(path) <=> z % ss # 0 /\ z <= pc * ss
      BY <1>3, <3>1, <3>3 DEF BinaryFits
    <3>6. z % ss # 0 => ((z \div ss) + 1 <= pc <=> z <= pc * ss)
      BY <3>1, <3>2, PagesReach
    <3>7. QED
      BY <3>4, <3>5, <3>6
  <2>3. QED
    BY <2>1, <2>2 DEF LastInv, ReadsRight, LoadedIfFits
<1>8. QED
  BY <1>5, <1>6, <1>7 DEF FatInv

\* The calls that leave the open file alone, close it, or stop the system.
LEMMA OtherSteps ==
  ASSUME FatInv,
         \/ FileClose \/ DirRead \/ DirClose \/ DirRename \/ VolumeGetLabel
         \/ VolumeSetLabel \/ TableSet(2) \/ GetCluster
         \/ \E p \in Paths : DirOpen(p)
  PROVE  FatInv'
<1>1. Clean(State)
  BY StateClean DEF FatInv, FileClose, DirRead, DirClose, DirRename, VolumeGetLabel,
                    VolumeSetLabel, TableSet, GetCluster, DirOpen
<1>2. Quiet
  BY DEF Quiet, FileClose, DirRead, DirClose, DirRename, VolumeGetLabel,
         VolumeSetLabel, TableSet, GetCluster, DirOpen
<1>3. file' \in {file, NoFile}
  BY DEF FileClose, DirRead, DirClose, DirRename, VolumeGetLabel,
         VolumeSetLabel, TableSet, GetCluster, DirOpen
<1>4. fat_flush(State) = State
  <2>1. ~State.dirty
    BY <1>1 DEF Clean, Cached
  <2>2. QED
    BY <2>1 DEF fat_flush
<1>5. CacheInv'
  <2>1. CASE FileClose \/ DirClose
    <3>1. After(State)
      BY <1>4, <2>1 DEF FileClose, DirClose
    <3>2. QED
      BY <1>1, <3>1, AfterClean
  <2>2. CASE DirRead
    <3>1. PICK r : r = fat_dir_read(State, dir.d) /\ After(r.s)
      BY <2>2 DEF DirRead
    <3>2. Clean(r.s)
      BY <1>1, <3>1, ListFacts DEF Listed, Kept
    <3>3. QED
      BY <3>1, <3>2, AfterClean
  <2>3. CASE DirRename
    <3>1. PICK r : r = fat_read(State, dir.d.sector) /\ After(r)
      BY <2>3 DEF DirRename
    <3>2. Clean(r)
      BY <1>1, <3>1, ReadClean, CachedClean
    <3>3. QED
      BY <3>1, <3>2, AfterClean
  <2>4. CASE VolumeGetLabel
    <3>1. PICK r : r = FindLabel(State).s /\ After(r)
      BY <2>4 DEF VolumeGetLabel
    <3>2. Clean(r)
      BY <1>1, <3>1, LabelFacts
    <3>3. QED
      BY <3>1, <3>2, AfterClean
  <2>5. CASE VolumeSetLabel
    <3>1. PICK r : r = FindLabel(State).s /\ After(fat_flush([r EXCEPT !.dirty = TRUE]))
      BY <2>5 DEF VolumeSetLabel
    <3>2. Clean(r)
      BY <1>1, <3>1, LabelFacts
    <3>3. PICK e : e = [r EXCEPT !.dirty = TRUE]
      OBVIOUS
    <3>4. "halted" \in DOMAIN e /\ e.dirty = TRUE
      BY <3>2, <3>3 DEF Clean, Cached
    <3>5. fat_flush(e).halted = TRUE
      BY <3>4, FlushHalts
    <3>6. QED
      BY <3>1, <3>3, <3>5, AfterHalted
  <2>6. CASE TableSet(2)
    <3>1. After(fat_table_set(State, 2, 0))
      BY <2>6 DEF TableSet
    <3>2. QED
      BY <1>1, <3>1, TableSetHalts, AfterHalted
  <2>7. CASE GetCluster
    <3>1. After(fat_get_cluster(State))
      BY <2>7 DEF GetCluster
    <3>2. QED
      BY <1>1, <3>1, GetClusterHalts, AfterHalted
  <2>8. ASSUME NEW p \in Paths, DirOpen(p) PROVE CacheInv'
    <3>1. PICK r : r = fat_follow_path(State, p) /\ After(r.s)
      BY <2>8 DEF DirOpen
    <3>2. Clean(r.s)
      BY <1>1, <3>1, FollowFacts DEF OnTheWay, Kept
    <3>3. QED
      BY <3>1, <3>2, AfterClean
  <2>9. QED
    BY <2>1, <2>2, <2>3, <2>4, <2>5, <2>6, <2>7, <2>8
<1>6. FileInv'
  BY <1>3 DEF FatInv, FileInv
<1>7. QED
  BY <1>2, <1>5, <1>6, QuietLast DEF FatInv

\* Every step keeps the invariant.
LEMMA FatStep ==
  ASSUME NamesResolve, FatInv, [Next]_vars
  PROVE  FatInv'
<1>1. CASE Next
  <2>1. ASSUME NEW p \in Paths, FileOpen(p) PROVE FatInv'
    BY <2>1, FileOpenStep
  <2>2. ASSUME NEW n \in 1 .. MaxCount, FileRead(n) PROVE FatInv'
    BY <2>2, FileReadStep
  <2>3. ASSUME NEW n \in 0 .. 3 * SectorSize * cluster_size, FileJump(n) PROVE FatInv'
    <3>1. n \in Nat
      OBVIOUS
    <3>2. QED
      BY <2>3, <3>1, FileJumpStep
  <2>4. ASSUME NEW p \in Binaries, RunBinary(p) PROVE FatInv'
    BY <2>4, RunStep
  <2>5. QED
    BY <1>1, <2>1, <2>2, <2>3, <2>4, OtherSteps DEF Next
<1>2. CASE UNCHANGED vars
  BY <1>2 DEF vars, FatInv, CacheInv, FileInv, LastInv, ReadsRight, LoadedIfFits, BinaryLoaded
<1>3. QED
  BY <1>1, <1>2

\* The theorems are about a volume whose directories lead to its files.
THEOREM FatInvariant == NamesResolve => (Spec => []FatInv)
<1> SUFFICES ASSUME NamesResolve PROVE Spec => []FatInv
  OBVIOUS
<1>1. Init => FatInv
  BY FatInit
<1>2. FatInv /\ [Next]_vars => FatInv'
  BY FatStep
<1>3. QED
  BY <1>1, <1>2, PTL DEF Spec

\* An open file is the one the path names, whatever was called before.
THEOREM OpensTheNamedFile == NamesResolve => (Spec => []OpensNamedFile)
<1>1. FatInv => OpensNamedFile
  <2>1. ASSUME FatInv, file.open
        PROVE  /\ file.path \in DOMAIN Files
               /\ file.start_sect = fat_clust_to_sect(Files[file.path].cluster)
               /\ file.size = Files[file.path].size
    BY <2>1 DEF FatInv, FileInv, NoFile, Right
  <2>2. QED
    BY <2>1 DEF OpensNamedFile, FatInv, LastInv
<1>2. QED
  BY <1>1, FatInvariant, PTL

\* fat_file_read delivers the bytes of the file at its offset, after any jumps
\* and reads and whatever the other calls have left in the buffer.
THEOREM ReadsTheFile == NamesResolve => (Spec => []ReadsRight)
<1>1. FatInv => ReadsRight
  BY DEF FatInv, LastInv
<1>2. QED
  BY <1>1, FatInvariant, PTL

\* A binary is loaded whole and into its pages exactly when its size is not a
\* multiple of a page and the pages allocated for its first word reach to its
\* end, for any file and any first word.
THEOREM LoadsTheBinary ==
  NamesResolve =>
    (Spec => [](last.call = "run" /\ last.path \in DOMAIN Files
                  => (BinaryLoaded <=> BinaryFits(last.path))))
<1>1. FatInv => LoadedIfFits
  BY DEF FatInv, LastInv
<1>2. QED
  BY <1>1, FatInvariant, PTL DEF LoadedIfFits

-----------------------------------------------------------------------------
(* Listings                                                                 *)

\* A listing without other calls as a chain of reads.
LEMMA AloneLoop ==
  ASSUME NEW first, NEW n \in Nat
  PROVE  \E w : w = [i \in 0 .. n |-> IF i = 0 THEN first
                        ELSE ListRead(w[i - 1], fat_dir_read(Mounted, w[i - 1].d))]
<1> DEFINE Step(acc, i) == ListRead(acc, fat_dir_read(Mounted, acc.d))
           IsWalk(w, m) == w = [i \in 0 .. m |-> IF i = 0 THEN first ELSE Step(w[i - 1], i)]
           Bad == {m \in Nat : ~ \E w : IsWalk(w, m)}
<1> HIDE DEF Step
<1>1. SUFFICES Bad = {}
  BY DEF Step
<1>2. SUFFICES ASSUME Bad # {} PROVE FALSE
  OBVIOUS
<1>3. PICK m \in Bad : \A k \in Bad : m <= k
  BY <1>2, LeastNatural
<1>4. CASE m = 0
  <2>1. IsWalk([i \in 0 .. 0 |-> first], 0)
    OBVIOUS
  <2>2. QED
    BY <1>3, <1>4, <2>1
<1>5. CASE m # 0
  <2>1. m - 1 \in Nat /\ m - 1 \notin Bad
    BY <1>3, <1>5
  <2>2. PICK g : IsWalk(g, m - 1)
    BY <2>1
  <2>3. PICK z : z = Step(g[m - 1], m)
    OBVIOUS
  <2> DEFINE w == [i \in 0 .. m |-> IF i = m THEN z ELSE g[i]]
  <2>4. w[m] = z /\ \A i \in 0 .. m - 1 : w[i] = g[i]
    BY <2>1
  <2>5. \A i \in 0 .. m : w[i] = IF i = 0 THEN first ELSE Step(w[i - 1], i)
    <3>1. ASSUME NEW i \in 0 .. m, i # m
          PROVE  w[i] = IF i = 0 THEN first ELSE Step(w[i - 1], i)
      <4>1. i \in 0 .. m - 1 /\ (i # 0 => i - 1 \in 0 .. m - 1)
        BY <2>1, <3>1
      <4>2. QED
        BY <2>2, <2>4, <4>1
    <3>2. w[m] = Step(w[m - 1], m)
      BY <2>1, <2>3, <2>4
    <3>3. QED
      BY <1>5, <3>1, <3>2
  <2>6. IsWalk(w, m)
    BY <2>5
  <2>7. QED
    BY <1>3, <2>6
<1>6. QED
  BY <1>4, <1>5

AloneStart(path) == [d |-> fat_follow_path(Mounted, path).d, status |-> "OK", listed |-> <<>>]
AloneNext(acc) == ListRead(acc, fat_dir_read(Mounted, acc.d))

\* Alone is that chain.
LEMMA AloneWalk ==
  ASSUME NEW path, NEW n \in Nat
  PROVE  \E w : /\ w[0] = AloneStart(path) /\ \A i \in 1 .. n : w[i] = AloneNext(w[i - 1])
                /\ Alone(path, n) = w[n]
<1> DEFINE list == CHOOSE w : w = [i \in 0 .. n |-> IF i = 0 THEN AloneStart(path)
                        ELSE ListRead(w[i - 1], fat_dir_read(Mounted, w[i - 1].d))]
<1>1. list = [i \in 0 .. n |-> IF i = 0 THEN AloneStart(path)
                        ELSE ListRead(list[i - 1], fat_dir_read(Mounted, list[i - 1].d))]
  BY AloneLoop
<1>2. Alone(path, n) = list[n]
  BY DEF Alone, AloneStart
<1> HIDE DEF list
<1>3. list[0] = AloneStart(path) /\ \A i \in 1 .. n : list[i] = AloneNext(list[i - 1])
  BY <1>1 DEF AloneNext
<1>4. QED
  BY <1>2, <1>3

\* Each read goes on from where the one before stopped.
LEMMA AloneFacts ==
  ASSUME NEW path, NEW n \in Nat
  PROVE  /\ Alone(path, 0) = AloneStart(path)
         /\ Alone(path, n + 1) = AloneNext(Alone(path, n))
<1>1. Alone(path, 0) = AloneStart(path)
  BY AloneWalk
<1>2. PICK w : /\ w[0] = AloneStart(path) /\ \A i \in 1 .. n : w[i] = AloneNext(w[i - 1])
               /\ Alone(path, n) = w[n]
  BY AloneWalk
<1>3. n + 1 \in Nat
  OBVIOUS
<1>4. PICK v : /\ v[0] = AloneStart(path) /\ \A i \in 1 .. n + 1 : v[i] = AloneNext(v[i - 1])
               /\ Alone(path, n + 1) = v[n + 1]
  BY <1>3, AloneWalk
<1>5. PICK S : S = {i \in 0 .. n : w[i] = v[i]}
  OBVIOUS
<1>6. 0 \in S
  BY <1>2, <1>4, <1>5
<1>7. ASSUME NEW i \in 1 .. n, i - 1 \in S PROVE i \in S
  <2>1. w[i] = AloneNext(w[i - 1]) /\ v[i] = AloneNext(v[i - 1]) /\ w[i - 1] = v[i - 1]
    BY <1>2, <1>4, <1>5, <1>7
  <2>2. QED
    BY <1>5, <2>1
<1>8. n \in S
  BY <1>6, <1>7, UpTo
<1>9. v[n + 1] = AloneNext(v[n])
  BY <1>4
<1>10. QED
  BY <1>1, <1>2, <1>4, <1>5, <1>8, <1>9

\* A read that ends with EOF stays at the end entry, where the next one ends too.
LEMMA EndStays ==
  ASSUME NEW s, Clean(s), NEW d, fat_dir_read(s, d).status = "EOF",
         NEW e, e = fat_dir_read(s, d).d
  PROVE  fat_dir_read(s, e).status = "EOF" /\ fat_dir_read(s, e).d = e
<1> DEFINE Ends(acc) == /\ Lists(acc) /\ Kept(acc)
                        /\ acc.status = "EOF" => Disk[acc.d.sector][acc.d.rw_offset].type = "END"
<1>1. ASSUME NEW acc, Ends(acc) PROVE Ends(ReadOne(acc))
  <2>1. CASE acc.status # "walk"
    BY <1>1, <2>1 DEF ReadOne
  <2>2. CASE acc.status = "walk"
    <3>1. PICK r : r = fat_read(acc.s, acc.d.sector) /\ Clean(r) /\ r.buffer = Disk[acc.d.sector]
      BY <1>1, ReadClean, CachedClean DEF Kept
    <3>2. PICK x : x = r.buffer[acc.d.rw_offset]
      OBVIOUS
    <3>3. PICK go : go = Move(acc, fat_dir_get_next(r, acc.d))
      OBVIOUS
    <3>4. Lists(go) /\ Kept(go) /\ go.status = "walk"
      BY <1>1, <2>2, <3>1, <3>3, GetNextClean DEF Lists, Kept, Move
    <3>5. ReadOne(acc) = ReadEntry(acc, r)
      BY <2>2, <3>1 DEF ReadOne
    <3>6. CASE x.type = "END"
      <4>1. ReadOne(acc) = [acc EXCEPT !.s = r, !.status = "EOF"]
        BY <3>2, <3>5, <3>6 DEF ReadEntry
      <4>2. QED
        BY <1>1, <3>1, <3>2, <3>6, <4>1 DEF Lists, Kept
    <3>7. CASE x.type = "FREE"
      BY <3>2, <3>3, <3>4, <3>5, <3>7 DEF ReadEntry
    <3>8. CASE x.type = "LFN"
      <4>1. PICK off : off = FragLen * (x.seq - 1)
        OBVIOUS
      <4>2. PICK l, m : /\ l = go.length + Len(x.chars)
                        /\ m = [k \in off + 1 .. off + Len(x.chars) |-> x.chars[k - off]] @@ go.name
        OBVIOUS
      <4>3. ReadOne(acc) = [go EXCEPT !.crc = x.crc, !.length = l, !.name = m]
        BY <3>2, <3>3, <3>5, <3>8, <4>1, <4>2 DEF ReadEntry
      <4>4. QED
        BY <3>4, <4>3 DEF Lists, Kept
    <3>9. CASE x.type \notin {"END", "FREE", "LFN"} /\ acc.crc = 0
      <4>1. PICK m : ReadOne(acc) = [go EXCEPT !.name = m, !.length = 11, !.status = "OK"]
        BY <3>2, <3>3, <3>5, <3>9 DEF ReadEntry
      <4>2. QED
        BY <3>4, <4>1 DEF Lists, Kept
    <3>10. CASE x.type \notin {"END", "FREE", "LFN"} /\ acc.crc # 0 /\ acc.crc # fat_get_sfn_crc(x.name)
      <4>1. ReadOne(acc) = [acc EXCEPT !.s = r, !.status = "ERROR"]
        BY <3>2, <3>5, <3>10 DEF ReadEntry
      <4>2. QED
        BY <1>1, <3>1, <4>1 DEF Lists, Kept
    <3>11. CASE x.type \notin {"END", "FREE", "LFN"} /\ acc.crc # 0 /\ acc.crc = fat_get_sfn_crc(x.name)
      <4>1. ReadOne(acc) = [go EXCEPT !.status = "OK"]
        BY <3>2, <3>3, <3>5, <3>11 DEF ReadEntry
      <4>2. QED
        BY <3>4, <4>1 DEF Lists, Kept
    <3>12. QED
      BY <3>6, <3>7, <3>8, <3>9, <3>10, <3>11
  <2>3. QED
    BY <2>1, <2>2
<1>2. PICK w : /\ w[0] = ListStart(s, d)
               /\ \A i \in 1 .. WalkBound : w[i] = ReadOne(w[i - 1])
               /\ fat_dir_read(s, d) = w[WalkBound]
  BY ListWalk
<1>3. Ends(w[0])
  BY <1>2 DEF ListStart, Lists, Kept
<1> HIDE DEF Ends
<1>4. PICK S : S = {i \in 0 .. WalkBound : Ends(w[i])}
  OBVIOUS
<1>5. 0 \in S
  BY <1>3, <1>4, BoundFacts
<1>6. ASSUME NEW i \in 1 .. WalkBound, i - 1 \in S PROVE i \in S
  BY <1>1, <1>2, <1>4, <1>6
<1>7. WalkBound \in S
  BY <1>5, <1>6, UpTo, BoundFacts
<1>8. Disk[e.sector][e.rw_offset].type = "END"
  BY <1>2, <1>4, <1>7 DEF Ends
<1>9. PICK v : /\ v[0] = ListStart(s, e)
               /\ \A i \in 1 .. WalkBound : v[i] = ReadOne(v[i - 1])
               /\ fat_dir_read(s, e) = v[WalkBound]
  BY ListWalk
<1>10. v[1].status = "EOF" /\ v[1].d = e
  <2>1. PICK a : a = v[0] /\ v[1] = ReadOne(a)
    BY <1>9, BoundFacts
  <2>2. a.s = s /\ a.d = e /\ a.status = "walk" /\ Lists(a)
    BY <1>9, <2>1 DEF ListStart, Lists
  <2>3. PICK r : r = fat_read(s, e.sector) /\ r.buffer = Disk[e.sector]
    BY ReadClean, CachedClean
  <2>4. v[1] = [a EXCEPT !.s = r, !.status = "EOF"]
    <3>1. ReadOne(a) = ReadEntry(a, r)
      BY <2>2, <2>3 DEF ReadOne
    <3>2. PICK x : x = r.buffer[a.d.rw_offset] /\ x.type = "END"
      BY <1>8, <2>2, <2>3
    <3>3. ReadEntry(a, r) = [a EXCEPT !.s = r, !.status = "EOF"]
      BY <3>2 DEF ReadEntry
    <3>4. QED
      BY <2>1, <3>1, <3>3
  <2>5. QED
    BY <2>2, <2>4 DEF Lists
<1>11. PICK T : T = {i \in 0 .. WalkBound : i # 0 => v[i].status = "EOF" /\ v[i].d = e}
  OBVIOUS
<1>12. 0 \in T
  BY <1>11, BoundFacts
<1>13. ASSUME NEW i \in 1 .. WalkBound, i - 1 \in T PROVE i \in T
  <2>1. CASE i = 1
    BY <1>10, <1>11, <1>13, <2>1
  <2>2. CASE i # 1
    <3>1. v[i] = v[i - 1] /\ v[i - 1].status = "EOF" /\ v[i - 1].d = e
      BY <1>9, <1>11, <1>13, <2>2 DEF ReadOne
    <3>2. QED
      BY <1>11, <1>13, <3>1
  <2>3. QED
    BY <2>1, <2>2
<1>14. WalkBound \in T /\ WalkBound # 0
  BY <1>12, <1>13, UpTo, BoundFacts
<1>15. QED
  BY <1>9, <1>11, <1>14

\* A listing is what a client that is alone has after as many reads.
Follower(p, n) ==
  /\ {"open", "path", "d", "listed"} \subseteq DOMAIN dir
  /\ dir.open = TRUE /\ dir.path = p /\ p \in Paths /\ n \in Nat
  /\ fat_follow_path(Mounted, p).status = "OK"
  /\ dir.d = Alone(p, n).d /\ dir.listed = Alone(p, n).listed
  /\ last.call = "readdir" => last.status = Alone(p, n).status

DirInv == dir = NoDir \/ \E p, n : Follower(p, n)

\* The volume is mounted with a clean buffer.
LEMMA MountedClean == Clean(Mounted)
<1>1. Mounted = Cached(root_lba)
  BY DEF Mounted, Cached
<1>2. QED
  BY <1>1, CachedClean

\* An open directory stands at its first entry.
LEMMA DirOpenStep ==
  ASSUME FatInv, NEW p \in Paths, DirOpen(p)
  PROVE  DirInv'
<1>1. Clean(State)
  BY StateClean DEF FatInv, DirOpen
<1>2. PICK r : /\ r = fat_follow_path(State, p)
               /\ dir' = (IF r.status = "OK" THEN [open |-> TRUE, path |-> p, d |-> r.d, listed |-> <<>>]
                          ELSE NoDir)
               /\ last' = [call |-> "opendir", status |-> r.status]
  BY DEF DirOpen
<1>3. r.d = fat_follow_path(Mounted, p).d /\ r.status = fat_follow_path(Mounted, p).status
  BY <1>1, <1>2, MountedClean, FollowFacts DEF OnTheWay
<1>4. CASE r.status = "OK"
  <2>1. Alone(p, 0).d = r.d /\ Alone(p, 0).listed = <<>>
    BY <1>3, AloneFacts DEF AloneStart
  <2>2. /\ {"open", "path", "d", "listed"} \subseteq DOMAIN dir'
        /\ dir'.open = TRUE /\ dir'.path = p /\ dir'.d = r.d /\ dir'.listed = <<>>
    BY <1>2, <1>4
  <2>3. last'.call # "readdir"
    BY <1>2
  <2>4. Follower(p, 0)'
    BY <1>3, <1>4, <2>1, <2>2, <2>3 DEF Follower
  <2>5. QED
    BY <2>4 DEF DirInv
<1>5. CASE r.status # "OK"
  BY <1>2, <1>5 DEF DirInv
<1>6. QED
  BY <1>4, <1>5

\* A read goes on as it would alone, whatever is cached.
LEMMA DirReadStep ==
  ASSUME FatInv, DirInv, DirRead
  PROVE  DirInv'
<1>1. Clean(State)
  BY StateClean DEF FatInv, DirRead
<1>2. PICK p, n : Follower(p, n)
  BY DEF DirInv, DirRead, NoDir
<1>3. PICK r : /\ r = fat_dir_read(State, dir.d)
               /\ dir' = [dir EXCEPT !.d = r.d,
                            !.listed = IF r.status = "OK"
                                         THEN Append(@, [i \in 1 .. r.length |-> r.name[i]]) ELSE @]
               /\ last' = [call |-> "readdir", status |-> r.status]
  BY DEF DirRead
<1>4. PICK q : q = fat_dir_read(Mounted, dir.d)
  OBVIOUS
<1>5. r.d = q.d /\ r.name = q.name /\ r.length = q.length /\ r.status = q.status
  BY <1>1, <1>3, <1>4, MountedClean, ListFacts DEF Listed
<1>6. PICK listed : listed = IF q.status = "OK"
                               THEN Append(dir.listed, [i \in 1 .. q.length |-> q.name[i]])
                               ELSE dir.listed
  OBVIOUS
<1>7. n + 1 \in Nat
  BY <1>2 DEF Follower
<1>8. Alone(p, n + 1).d = q.d /\ Alone(p, n + 1).status = q.status /\ Alone(p, n + 1).listed = listed
  <2>1. Alone(p, n + 1) = AloneNext(Alone(p, n))
    BY <1>2, AloneFacts DEF Follower
  <2>2. Alone(p, n).d = dir.d /\ Alone(p, n).listed = dir.listed
    BY <1>2 DEF Follower
  <2>3. Alone(p, n + 1) = [d |-> q.d, status |-> q.status, listed |-> listed]
    BY <1>4, <1>6, <2>1, <2>2 DEF AloneNext, ListRead
  <2>4. QED
    BY <2>3
<1>9. /\ {"open", "path", "d", "listed"} \subseteq DOMAIN dir'
      /\ dir'.open = dir.open /\ dir'.path = dir.path /\ dir'.d = q.d
      /\ dir'.listed = listed
  <2>1. PICK l : /\ l = IF r.status = "OK" THEN Append(dir.listed, [i \in 1 .. r.length |-> r.name[i]])
                        ELSE dir.listed
                 /\ dir' = [dir EXCEPT !.d = r.d, !.listed = l]
    BY <1>3
  <2>2. l = listed
    BY <1>5, <1>6, <2>1
  <2>3. QED
    BY <1>2, <1>5, <2>1, <2>2 DEF Follower
<1>10. last'.call = "readdir" /\ last'.status = q.status
  BY <1>3, <1>5
<1>11. Follower(p, n + 1)'
  BY <1>2, <1>7, <1>8, <1>9, <1>10 DEF Follower
<1>12. QED
  BY <1>11 DEF DirInv

\* Every step keeps the open directory a follower of the listing alone.
LEMMA DirStep ==
  ASSUME FatInv, DirInv, [Next]_vars
  PROVE  DirInv'
<1>1. CASE \E p \in Paths : DirOpen(p)
  BY <1>1, DirOpenStep
<1>2. CASE DirRead
  BY <1>2, DirReadStep
<1>3. ASSUME dir' = dir, last' = last \/ last'.call # "readdir" PROVE DirInv'
  <2>1. CASE dir = NoDir
    BY <1>3, <2>1 DEF DirInv
  <2>2. ASSUME NEW p, NEW n, Follower(p, n) PROVE Follower(p, n)'
    BY <1>3, <2>2 DEF Follower
  <2>3. QED
    BY <2>1, <2>2 DEF DirInv
<1>4. CASE DirClose
  BY <1>4 DEF DirClose, DirInv
<1>5. CASE UNCHANGED vars
  BY <1>3, <1>5 DEF vars
<1>6. CASE \/ \E p \in Paths : FileOpen(p)
           \/ \E n \in 1 .. MaxCount : FileRead(n)
           \/ \E n \in 0 .. 3 * SectorSize * cluster_size : FileJump(n)
           \/ FileClose \/ DirRename \/ VolumeGetLabel
           \/ VolumeSetLabel \/ TableSet(2) \/ GetCluster
           \/ \E p \in Binaries : RunBinary(p)
  <2>1. dir' = dir /\ last'.call # "readdir"
    BY <1>6 DEF FileOpen, FileRead, FileJump, FileClose, DirRename, VolumeGetLabel,
                VolumeSetLabel, TableSet, GetCluster, RunBinary
  <2>2. QED
    BY <1>3, <2>1
<1>7. QED
  BY <1>1, <1>2, <1>4, <1>5, <1>6 DEF Next

\* The names are listed, and after them nothing.
LEMMA AloneLists ==
  ASSUME ListsNames, NEW p \in Paths, fat_follow_path(Mounted, p).status = "OK", NEW n \in Nat
  PROVE  /\ IsPrefix(Alone(p, n).listed, Listings[p]) /\ Alone(p, n).status # "ERROR"
         /\ Alone(p, n).status = "EOF" => Alone(p, n).listed = Listings[p]
<1>1. PICK k \in Nat : k = Len(Listings[p]) + 1
  BY DEF ListsNames
<1>2. ASSUME NEW i \in 0 .. k
      PROVE  /\ IsPrefix(Alone(p, i).listed, Listings[p]) /\ Alone(p, i).status # "ERROR"
             /\ Alone(p, i).status = "EOF" => Alone(p, i).listed = Listings[p]
  BY <1>1, <1>2 DEF ListsNames
<1>3. Alone(p, k).status = "EOF" /\ k # 0
  BY <1>1 DEF ListsNames
<1>4. PICK e, l : e = Alone(p, k).d /\ l = Alone(p, k).listed
  OBVIOUS
<1>5. fat_dir_read(Mounted, e).status = "EOF" /\ fat_dir_read(Mounted, e).d = e
  <2>1. PICK m \in Nat : k = m + 1
    <3>1. k - 1 \in Nat /\ k = (k - 1) + 1
      BY <1>3
    <3>2. QED
      BY <3>1
  <2>2. PICK a, r : a = Alone(p, m) /\ r = fat_dir_read(Mounted, a.d)
    OBVIOUS
  <2>3. Alone(p, k) = ListRead(a, r)
    BY <2>1, <2>2, AloneFacts DEF AloneNext
  <2>4. r.status = "EOF" /\ r.d = e
    BY <1>3, <1>4, <2>3 DEF ListRead
  <2>5. QED
    BY <2>2, <2>4, EndStays, MountedClean
<1>6. PICK S : S = {i \in 0 .. n : i >= k => /\ Alone(p, i).status = "EOF"
                                            /\ Alone(p, i).d = e /\ Alone(p, i).listed = l}
  OBVIOUS
<1>7. 0 \in S
  BY <1>1, <1>3, <1>6
<1>8. ASSUME NEW i \in 1 .. n, i - 1 \in S PROVE i \in S
  <2>1. CASE i < k
    BY <1>6, <1>8, <2>1
  <2>2. CASE i = k
    BY <1>3, <1>4, <1>6, <1>8, <2>2
  <2>3. CASE i > k
    <3>1. i - 1 \in Nat /\ i - 1 + 1 = i /\ i - 1 >= k
      BY <1>1, <1>8, <2>3
    <3>2. PICK a : a = Alone(p, i - 1) /\ a.d = e /\ a.listed = l
      BY <1>6, <1>8, <3>1
    <3>3. Alone(p, i) = ListRead(a, fat_dir_read(Mounted, e))
      BY <3>1, <3>2, AloneFacts DEF AloneNext
    <3>4. Alone(p, i).status = "EOF" /\ Alone(p, i).d = e /\ Alone(p, i).listed = l
      BY <1>5, <3>2, <3>3 DEF ListRead
    <3>5. QED
      BY <1>6, <1>8, <3>4
  <2>4. QED
    BY <1>1, <1>8, <2>1, <2>2, <2>3
<1>9. n \in S
  BY <1>7, <1>8, UpTo
<1>10. CASE n < k
  <2>1. n \in 0 .. k
    BY <1>1, <1>10
  <2>2. QED
    BY <1>2, <2>1
<1>11. CASE n >= k
  <2>1. Alone(p, n).status = "EOF" /\ Alone(p, n).listed = l
    BY <1>6, <1>9, <1>11
  <2>2. k \in 0 .. k
    BY <1>1
  <2>3. l = Listings[p] /\ IsPrefix(l, Listings[p])
    BY <1>2, <1>3, <1>4, <2>2
  <2>4. QED
    BY <2>1, <2>3
<1>12. QED
  BY <1>1, <1>10, <1>11

\* A directory is listed as if nobody else used the volume.
THEOREM ListsTheDirectory == NamesResolve /\ ListsNames => (Spec => []DirListed)
<1> SUFFICES ASSUME NamesResolve, ListsNames PROVE Spec => []DirListed
  OBVIOUS
<1>1. Init => DirInv
  BY DEF Init, DirInv
<1>2. FatInv /\ DirInv /\ [Next]_vars => DirInv'
  BY DirStep
<1>3. DirInv => DirListed
  <2>1. ASSUME NEW p, NEW n, Follower(p, n) PROVE DirListed
    <3>1. /\ IsPrefix(Alone(p, n).listed, Listings[p]) /\ Alone(p, n).status # "ERROR"
          /\ Alone(p, n).status = "EOF" => Alone(p, n).listed = Listings[p]
      BY <2>1, AloneLists DEF Follower
    <3>2. QED
      BY <2>1, <3>1 DEF Follower, DirListed
  <2>2. CASE dir = NoDir
    BY <2>2 DEF DirListed, NoDir
  <2>3. QED
    BY <2>1, <2>2 DEF DirInv
<1>4. Spec => []FatInv
  BY FatInvariant
<1>5. QED
  BY <1>1, <1>2, <1>3, <1>4, PTL DEF Spec

=============================================================================
