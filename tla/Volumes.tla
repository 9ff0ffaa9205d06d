------------------------------- MODULE Volumes --------------------------------
(***************************************************************************)
(* The list of mounted volumes of disk/fat32.c, its letters, and the test  *)
(* that recognises a FAT32 partition. A volume is [letter, disk, part].    *)
(***************************************************************************)
EXTENDS Integers, Sequences, FiniteSets, FiniteSetsExt, SequencesExt

CONSTANT Letters     \* size of volume_bitmask (32); letter i is 'C' + i

\* Room for the four partitions of a card and another disk.
ASSUME LettersAssumption == Letters \in Nat /\ Letters > 5

NoLetter == -1       \* vol->letter is not assigned

\* fat_search: a boot signature, the string "FAT", and enough clusters. The
\* divisor of root_sectors is one less than the sector size.
fat_search(bpb) ==
  LET root_sectors == (bpb.root_ent_cnt * 32 + bpb.sector_size - 1) \div (bpb.sector_size - 1)
      fat_size == IF bpb.fat_size_16 # 0 THEN bpb.fat_size_16 ELSE bpb.fat_size_32
      tot_sect == IF bpb.tot_sect_16 # 0 THEN bpb.tot_sect_16 ELSE bpb.tot_sect_32
      data_sectors == tot_sect - (bpb.rsvd_cnt + bpb.num_fats * fat_size + root_sectors)
  IN bpb.signature /\ bpb.fat_string /\ data_sectors \div bpb.cluster_size >= 65525

\* Mutant: the letter follows the number of volumes.
MutVolumeAdd(v, disk, part) ==
  [list |-> Append(v.list, [letter |-> Len(v.list), disk |-> disk, part |-> part]),
   bitmask |-> v.bitmask \cup {Len(v.list)}]

\* fat_volume_add: to the end of the list, with the lowest letter that is free.
fat_volume_add(v, disk, part) ==
  LET free == (0 .. Letters - 1) \ v.bitmask
      l == IF free = {} THEN NoLetter ELSE Min(free)
  IN [list |-> Append(v.list, [letter |-> l, disk |-> disk, part |-> part]),
      bitmask |-> IF free = {} THEN v.bitmask ELSE v.bitmask \cup {l}]

\* The volumes with a letter; fat_volume_remove takes the first.
fat_volume_find(v, letter) == {i \in DOMAIN v.list : v.list[i].letter = letter}

fat_volume_remove(v, letter) ==
  LET at == fat_volume_find(v, letter)
  IN IF at = {} THEN v
     ELSE [list |-> RemoveAt(v.list, Min(at)), bitmask |-> v.bitmask \ {letter}]
=============================================================================
