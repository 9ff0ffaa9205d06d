------------------------------- MODULE MC_Fat32 -------------------------------
(***************************************************************************)
(* A volume with 2 sectors in a cluster. Cluster 2 is the root; 3 -> 6 the *)
(* file /ab.c; 4 -> 7 the directory /d, whose chain of long-name entries   *)
(* for ef.g crosses the boundary; 8 the file /d/ef.g; 5 -> 9 the binary.   *)
(* The second sector of the root is its last, with the end in its last     *)
(* entry.                                                                  *)
(***************************************************************************)
EXTENDS Fat32

EOC == 2^28 - 1
Pad(s) == [i \in 1 .. 11 |-> IF i <= Len(s) THEN s[i] ELSE 32]
Zero(seq) == [i \in 0 .. Len(seq) - 1 |-> seq[i + 1]]

End == [type |-> "END"]
Free == [type |-> "FREE"]
Sfn(s, c, n) == [type |-> "SFN", name |-> Pad(s), cluster |-> c, size |-> n]
Lfn(seq, chars, s) == [type |-> "LFN", seq |-> seq, chars |-> chars, crc |-> fat_get_sfn_crc(Pad(s))]

MCBpb == [fsinfo |-> 1, rsvd_cnt |-> 2, fat_size |-> 3, num_fats |-> 2, cluster_size |-> 2,
          root_clust |-> 2]
MCPartition == 10

Ab == <<97, 98, Dot, 99>>
Ef == <<101, 102, Dot, 103>>
Bin == <<120, Dot, 121>>
D == <<100>>

Root == <<[type |-> "LABEL", name |-> Pad(<<86>>), cluster |-> 0, size |-> 0],
          Lfn(2, <<99>>, <<65, 66>>), Lfn(1, <<97, 98, Dot>>, <<65, 66>>), Sfn(<<65, 66>>, 3, 7),
          Sfn(<<68>>, 4, 0), Lfn(1, Bin, <<88>>), Sfn(<<88>>, 5, 0), End>>
SubDir == <<Sfn(<<46>>, 4, 0), Sfn(<<46, 46>>, 0, 0), Free, Sfn(<<90>>, 8, 1), Free, Free,
            Free, Lfn(2, <<103>>, <<69, 70>>),
            Lfn(1, <<101, 102, Dot>>, <<69, 70>>), Sfn(<<69, 70>>, 8, 3), End, End, End, End, End, End>>

FatTable == <<EOC, EOC, EOC, 6, 7, 9, EOC, EOC, EOC, EOC, 0, 0>>

\* The size of the binary and the word it begins with: one has .bss and gets the
\* pages it takes; the other has none, and an even number of full pages.
OddSize == 7
OddWord == 11
EvenSize == 5
EvenWord == 5

Sector(size, word, lba) ==
  LET clust == (lba - 18) \div 2 + 2
      dirPart(s, n) == Zero(SubSeq(s, 4 * n + 1, 4 * n + 4))
      fixSize(e) == IF e.type = "SFN" /\ e.cluster = 5 THEN [e EXCEPT !.size = size] ELSE e
  IN CASE lba < 11 -> Zero(<<0, 0>>)
       [] lba = 11 -> Zero(<<[next_free |-> 3, count |-> 2]>>)
       [] lba \in 12 .. 17 -> Zero(SubSeq(FatTable, 4 * ((lba - 12) % 3) + 1, 4 * ((lba - 12) % 3) + 4))
       [] clust = 2 -> [i \in 0 .. 3 |-> fixSize(dirPart(Root, lba % 2)[i])]
       [] clust = 4 -> dirPart(SubDir, lba % 2)
       [] clust = 7 -> dirPart(SubDir, 2 + (lba % 2))
       [] OTHER -> Zero(<<IF clust = 5 /\ lba % 2 = 0 THEN word ELSE 10 * lba, 10 * lba + 1>>)

OddDisk == [lba \in 0 .. 37 |-> Sector(OddSize, OddWord, lba)]
EvenDisk == [lba \in 0 .. 37 |-> Sector(EvenSize, EvenWord, lba)]

P(frags) == [letter |-> "C", frags |-> frags]
GoodPaths == {P(<<Ab>>), P(<<D, Ef>>), P(<<Bin>>), P(<<<<119, Dot>>>>), P(<<>>), [letter |-> "D", frags |-> <<Ab>>]}
BinPaths == {P(<<Bin>>)}

MCFiles(size) ==
  [p \in {P(<<Ab>>), P(<<D, Ef>>), P(<<Bin>>)} |->
     CASE p = P(<<Ab>>) -> [cluster |-> 3, size |-> 7]
       [] p = P(<<D, Ef>>) -> [cluster |-> 8, size |-> 3]
       [] p = P(<<Bin>>) -> [cluster |-> 5, size |-> size]]
OddFiles == MCFiles(OddSize)
EvenFiles == MCFiles(EvenSize)

RootNames == <<Pad(<<86>>), Ab, Pad(<<68>>), Bin>>
SubNames == <<Pad(<<46>>), Pad(<<46, 46>>), Pad(<<90>>), Ef>>
MCListings == [p \in GoodPaths |-> IF p = P(<<D, Ef>>) THEN SubNames ELSE RootNames]
MCNames ==
  [long |-> {Ab, Ef, Bin},
   short |-> {e.name : e \in {x \in Range(Root \o SubDir) : x.type \in {"SFN", "LABEL"}}}]
=============================================================================
