-------------------------------- MODULE Fat32 ---------------------------------
(***************************************************************************)
(* disk/fat32.c on one mounted volume: the one-sector cache, the FAT,      *)
(* directories, paths and files, and kernel/run.c, which loads a binary    *)
(* through them. disk_mount is in Volumes.                                 *)
(*                                                                         *)
(* A call is one action: there is one client at a time. disk_read does not *)
(* return on an error and disk_write never returns (sd_write starts with a *)
(* panic), so a call that has to write a sector stops the system and Disk  *)
(* is a constant.                                                          *)
(***************************************************************************)
EXTENDS Integers, Sequences, FiniteSets, FiniteSetsExt, SequencesExt

CONSTANTS
  Disk,          \* LBA -> sector, a function from 0: bytes, FAT or directory entries
  Bpb,           \* the fields of the first sector of the partition
  Partition,     \* its LBA
  SectorSize,    \* bytes in a sector; also the page of run_binary (512)
  FatPerSector,  \* FAT entries in a sector (128)
  DirPerSector,  \* directory entries in a sector (16)
  FragLen,       \* characters in an LFN entry (13)
  FreeMask,      \* an entry is taken as free when it is 0 modulo this (128)
  Paths,         \* paths that are opened: a letter and name fragments
  Binaries,      \* paths that run_binary is given
  MaxCount,      \* bound: bytes asked for in one fat_file_read
  Files,         \* what is on the disk: path -> [cluster, size] ...
  Listings,      \* ... path of a directory -> its names in order ...
  Names          \* ... and the names of all entries: [long, short], sets

ASSUME FatAssumption ==
  /\ {SectorSize, FatPerSector, DirPerSector, FragLen, FreeMask} \subseteq Nat \ {0} /\ SectorSize # 1
  /\ {Partition, Bpb.cluster_size} \subseteq Nat \ {0} /\ Bpb.root_clust \in Nat \ {0, 1}
  /\ {Bpb.fsinfo, Bpb.rsvd_cnt, Bpb.fat_size, Bpb.num_fats} \subseteq Nat
  /\ Bpb.fsinfo < Bpb.rsvd_cnt
  /\ \A p \in Paths : p.frags \in Seq(Seq(Nat))
  /\ Binaries \subseteq Paths /\ MaxCount \in Nat

VARIABLES
  cache,   \* vol->buffer, buffer_lba, buffer_dirty
  file,    \* an open struct file
  dir,     \* an open struct dir
  halted,  \* panic has stopped the system
  last     \* what the last call did, for the properties

vars == <<cache, file, dir, halted, last>>

-----------------------------------------------------------------------------
(***************************************************************************)
(* Volume geometry, as disk_mount computes it                              *)
(***************************************************************************)
fsinfo_lba == Partition + Bpb.fsinfo
fat_lba == Partition + Bpb.rsvd_cnt
data_lba == fat_lba + Bpb.fat_size * Bpb.num_fats
cluster_size == Bpb.cluster_size
\* volume_get knows this one volume.
letter == "C"

fat_clust_to_sect(clust) == (clust - 2) * cluster_size + data_lba
\* Mutant: clusters count from 0.
MutSectToClust(sect) == (sect - data_lba) \div cluster_size
fat_sect_to_clust(sect) == (sect - data_lba) \div cluster_size + 2
root_lba == fat_clust_to_sect(Bpb.root_clust)

-----------------------------------------------------------------------------
(***************************************************************************)
(* The cache. s = [buffer, lba, dirty, halted]                             *)
(***************************************************************************)
fat_flush(s) == IF s.dirty THEN [s EXCEPT !.halted = TRUE] ELSE s

\* fat_read: nothing to do for the cached sector; a dirty one is written first.
fat_read(s, lba) ==
  IF s.lba = lba \/ s.halted THEN s
  ELSE IF s.dirty THEN fat_flush(s) ELSE [s EXCEPT !.buffer = Disk[lba], !.lba = lba]

fat_table_get(s, cluster) ==
  LET r == fat_read(s, fat_lba + cluster \div FatPerSector)
  IN [s |-> r, entry |-> r.buffer[cluster % FatPerSector]]

\* The entry changes in the buffer, which is then flushed.
fat_table_set(s, cluster, entry) ==
  LET r == fat_read(s, fat_lba + cluster \div FatPerSector)
  IN fat_flush([r EXCEPT !.buffer[cluster % FatPerSector] = entry, !.dirty = TRUE])

IsEoc(entry) == entry % 2^28 >= 2^28 - 8

FatEntry(c) == Disk[fat_lba + c \div FatPerSector][c % FatPerSector]

\* fat_get_cluster: from next_free on, the first entry taken as free is marked
\* in the buffer; the scan runs on into the second FAT. Whatever sector is read
\* next flushes the mark, FSinfo at the latest.
fat_get_cluster(s) ==
  LET info == fat_read(s, fsinfo_lba)
      scanned == info.buffer[0].next_free .. (data_lba - fat_lba) * FatPerSector - 1
      free == Min({c \in scanned : FatEntry(c) % FreeMask = 0})
      r == fat_read(info, fat_lba + free \div FatPerSector)
      marked == [r EXCEPT !.buffer[free % FatPerSector] = 2^28 - 1, !.dirty = TRUE]
  IN IF info.halted THEN info ELSE fat_read(marked, fsinfo_lba)

\* Mutant: the next cluster is entered at its second sector.
MutNextCluster(t, p) ==
  IF IsEoc(t.entry) THEN [s |-> t.s, p |-> p, ok |-> FALSE]
  ELSE [s |-> t.s, ok |-> TRUE,
        p |-> [p EXCEPT !.cluster = t.entry, !.sector = fat_clust_to_sect(t.entry) + 1]]

\* The position p has left its cluster, whose FAT entry t was read.
NextCluster(t, p) ==
  IF IsEoc(t.entry) THEN [s |-> t.s, p |-> p, ok |-> FALSE]
  ELSE [s |-> t.s, ok |-> TRUE,
        p |-> [p EXCEPT !.cluster = t.entry, !.sector = fat_clust_to_sect(t.entry)]]

\* The end of fat_dir_get_next and of fat_file_addr_resolve: the position p
\* has left its sector of `unit` items; go to the next one, through the FAT at
\* the end of a cluster.
NextSector(s, p, unit) ==
  LET moved == [p EXCEPT !.rw_offset = @ - unit, !.sector = @ + 1]
  IN IF moved.sector < fat_clust_to_sect(p.cluster) + cluster_size
       THEN [s |-> s, p |-> moved, ok |-> TRUE]
       ELSE NextCluster(fat_table_get(s, p.cluster), moved)

fat_dir_get_next(s, d) ==
  LET n == [d EXCEPT !.rw_offset = @ + 1]
  IN IF n.rw_offset >= DirPerSector THEN NextSector(s, n, DirPerSector)
     ELSE [s |-> s, p |-> n, ok |-> TRUE]

fat_file_addr_resolve(s, f) == NextSector(s, f, SectorSize)

-----------------------------------------------------------------------------
(***************************************************************************)
(* Names and directories. An entry is [type, ...] with type END (0x00),    *)
(* FREE (0xE5 or 0x05), LABEL, LFN [seq, chars, crc] or SFN [name,         *)
(* cluster, size]; characters are their codes.                             *)
(***************************************************************************)
Dot == 46
ToUpper(c) == IF c \in 97 .. 122 THEN c - 32 ELSE c

fat_get_sfn_crc(sfn) ==
  FoldLeft(LAMBDA crc, c : ((crc % 2) * 128 + crc \div 2 + c) % 256, 0, sfn)

\* Only as many characters as the name has, and at most 8, are compared.
fat_dir_sfn_cmp(sfn, name) ==
  \A i \in 1 .. (IF Len(name) > 8 THEN 8 ELSE Len(name)) : ToUpper(name[i]) = sfn[i]

\* Mutant: every fragment is compared with the start of the name.
MutLfnCmp(lfn, name) ==
  \A i \in DOMAIN lfn.chars : i <= Len(name) /\ lfn.chars[i] = name[i]

\* The fragment must agree with the name; the name may go on after it.
fat_dir_lfn_cmp(lfn, name) ==
  LET off == FragLen * (lfn.seq - 1)
  IN \A i \in DOMAIN lfn.chars : off + i <= Len(name) /\ lfn.chars[i] = name[off + i]

\* Entries a walk may look at: all that the volume can hold.
WalkBound == DirPerSector * cluster_size * 4

\* A walk goes on to what fat_dir_get_next returned.
Move(acc, next) == [acc EXCEPT !.s = next.s, !.d = next.p]
Advance(acc, next) == [Move(acc, next) EXCEPT !.done = ~next.ok]

\* One round of the loop of fat_dir_search, with the sector in the cache s.
SearchEntry(name, acc, s) ==
  LET e == s.buffer[acc.d.rw_offset]
      byLfn == acc.crc # 0 /\ acc.lfn_match
      match == IF byLfn THEN acc.crc = fat_get_sfn_crc(e.name) ELSE fat_dir_sfn_cmp(e.name, name)
      go == Advance(acc, fat_dir_get_next(s, acc.d))
  IN CASE e.type = "END" -> [acc EXCEPT !.s = s, !.done = TRUE]
       [] e.type = "FREE" -> go
       [] e.type = "LFN" -> [go EXCEPT !.lfn_match = @ /\ fat_dir_lfn_cmp(e, name), !.crc = e.crc]
       [] OTHER ->
            IF ~match THEN [go EXCEPT !.lfn_match = TRUE, !.crc = 0]
            ELSE LET sect == fat_clust_to_sect(e.cluster)
                 IN [acc EXCEPT !.s = s, !.done = TRUE, !.found = TRUE,
                       !.d = [cluster |-> e.cluster, sector |-> sect, start_sect |-> sect,
                              size |-> e.size, rw_offset |-> 0]]

SearchOne(name, acc) ==
  IF acc.done THEN acc ELSE SearchEntry(name, acc, fat_read(acc.s, acc.d.sector))

\* fat_dir_search: from the first sector of the directory.
fat_dir_search(s, d, name) ==
  LET start == IF d.start_sect = d.sector THEN d
               ELSE [d EXCEPT !.sector = d.start_sect, !.rw_offset = 0,
                              !.cluster = fat_sect_to_clust(d.start_sect)]
      first == [s |-> s, d |-> start, crc |-> 0, lfn_match |-> TRUE, done |-> FALSE, found |-> FALSE]
      walk[i \in 0 .. WalkBound] == IF i = 0 THEN first ELSE SearchOne(name, walk[i - 1])
  IN walk[WalkBound]

\* The cluster of the root is a sector number here: the walk of the root does
\* not see the end of its cluster.
RootDir ==
  [start_sect |-> root_lba, sector |-> root_lba, cluster |-> fat_clust_to_sect(root_lba),
   rw_offset |-> 0, size |-> 0]

\* fat_follow_path: fragments up to one with a dot are searched in turn. A
\* fragment that is not found ends it with 0, which is FSTATUS_OK. A path
\* without fragments is one without a slash after the colon.
Entered(acc, r) == [acc EXCEPT !.s = r.s, !.d = r.d, !.done = ~r.found]

FollowOne(acc, name) ==
  IF acc.done \/ \E i \in DOMAIN name : name[i] = Dot THEN [acc EXCEPT !.done = TRUE]
  ELSE Entered(acc, fat_dir_search(acc.s, acc.d, name))

fat_follow_path(s, path) ==
  LET at(status) == [s |-> s, d |-> RootDir, done |-> FALSE, status |-> status]
      walk[i \in 0 .. Len(path.frags)] ==
        IF i = 0 THEN at("OK") ELSE FollowOne(walk[i - 1], path.frags[i])
  IN IF path.letter # letter THEN at("NO_VOLUME")
     ELSE IF path.frags = <<>> THEN at("PATH_ERR")
     ELSE walk[Len(path.frags)]

\* One round of the loop of fat_dir_read, with the result of its get_next
\* ignored. name collects the fragments, which are stored last one first.
ReadEntry(acc, s) ==
  LET e == s.buffer[acc.d.rw_offset]
      go == Move(acc, fat_dir_get_next(s, acc.d))
      off == FragLen * (e.seq - 1)
  IN CASE e.type = "END" -> [acc EXCEPT !.s = s, !.status = "EOF"]
       [] e.type = "FREE" -> go
       [] e.type = "LFN" ->
            [go EXCEPT !.crc = e.crc, !.length = @ + Len(e.chars),
               !.name = [k \in off + 1 .. off + Len(e.chars) |-> e.chars[k - off]] @@ @]
       [] OTHER ->
            IF acc.crc = 0 THEN [go EXCEPT !.name = e.name, !.length = 11, !.status = "OK"]
            ELSE IF acc.crc # fat_get_sfn_crc(e.name) THEN [acc EXCEPT !.s = s, !.status = "ERROR"]
            ELSE [go EXCEPT !.status = "OK"]

ReadOne(acc) ==
  IF acc.status # "walk" THEN acc ELSE ReadEntry(acc, fat_read(acc.s, acc.d.sector))

fat_dir_read(s, d) ==
  LET first == [s |-> s, d |-> d, crc |-> 0, name |-> <<>>, length |-> 0, status |-> "walk"]
      walk[i \in 0 .. WalkBound] == IF i = 0 THEN first ELSE ReadOne(walk[i - 1])
  IN walk[WalkBound]

-----------------------------------------------------------------------------
(***************************************************************************)
(* Files                                                                   *)
(***************************************************************************)
NoFile == [open |-> FALSE]
NoDir == [open |-> FALSE]

Opened(r, path) ==
  IF ~r.found THEN [s |-> r.s, status |-> "PATH_ERR"]
  ELSE [s |-> r.s, status |-> "OK",
        f |-> [open |-> TRUE, path |-> path, sector |-> r.d.sector, start_sect |-> r.d.sector,
               cluster |-> r.d.cluster, glob_offset |-> 0, rw_offset |-> 0, size |-> r.d.size]]

OpenIn(at, path) ==
  IF at.status # "OK" THEN [s |-> at.s, status |-> at.status]
  ELSE Opened(fat_dir_search(at.s, at.d, path.frags[Len(path.frags)]), path)

fat_file_open(s, path) == OpenIn(fat_follow_path(s, path), path)

\* One round of the loop of fat_file_read: the byte at the position f. The
\* result of the resolve is not looked at.
Deliver(acc, s, f) ==
  [s |-> s, out |-> Append(acc.out, s.buffer[f.rw_offset]),
   f |-> [f EXCEPT !.rw_offset = @ + 1, !.glob_offset = @ + 1],
   done |-> f.glob_offset + 1 >= f.size]

Resolved(acc, a) == Deliver(acc, fat_read(a.s, a.p.sector), a.p)

ReadByte(acc) ==
  IF acc.done THEN acc
  ELSE IF acc.f.rw_offset < SectorSize THEN Deliver(acc, acc.s, acc.f)
  ELSE Resolved(acc, fat_file_addr_resolve(acc.s, acc.f))

fat_file_read(s, f, count) ==
  LET first == [s |-> fat_read(s, f.sector), f |-> f, out |-> <<>>, done |-> FALSE]
      copy[i \in 0 .. count] == IF i = 0 THEN first ELSE ReadByte(copy[i - 1])
  IN copy[count]

\* One round of the loop of fat_file_jump, with the FAT entry t.
Link(acc, t) ==
  IF IsEoc(t.entry) THEN [acc EXCEPT !.s = t.s, !.eoc = TRUE]
  ELSE [acc EXCEPT !.s = t.s, !.f.cluster = t.entry]

FollowCluster(acc) ==
  IF acc.eoc THEN acc ELSE Link(acc, fat_table_get(acc.s, acc.f.cluster))

\* At the end of the chain the call returns with the new cluster and the old
\* sector and offset.
Landed(r, offset) ==
  IF r.eoc THEN [s |-> r.s, f |-> r.f]
  ELSE [s |-> r.s,
        f |-> [r.f EXCEPT !.sector = fat_clust_to_sect(r.f.cluster)
                                     + ((offset \div SectorSize) % cluster_size),
                          !.rw_offset = offset % SectorSize, !.glob_offset = offset]]

\* fat_file_jump: follow the chain from the start.
fat_file_jump(s, f, offset) ==
  LET first == [s |-> s, eoc |-> FALSE,
                f |-> [f EXCEPT !.cluster = fat_sect_to_clust(f.start_sect)]]
      clusters == (offset \div SectorSize) \div cluster_size
      chain[i \in 0 .. clusters] == IF i = 0 THEN first ELSE FollowCluster(chain[i - 1])
  IN Landed(chain[clusters], offset)

\* The loop of run_binary: page after page until one is not full.
AddPage(acc, r) ==
  [acc EXCEPT !.s = r.s, !.f = r.f, !.out = @ \o r.out, !.pages = @ + 1,
              !.done = Len(r.out) # SectorSize]

ReadPage(acc) == IF acc.done THEN acc ELSE AddPage(acc, fat_file_read(acc.s, acc.f, SectorSize))

\* binary_size gives the pages to allocate: one more than the full ones if
\* `binary_size & 512`.
PageCount(binary_size) == (binary_size \div SectorSize) + ((binary_size \div SectorSize) % 2)

\* The loop ends with the file, whatever binary_size says.
LoadPages(binary_size, j) ==
  LET first == [s |-> j.s, f |-> j.f, out |-> <<>>, pages |-> 0, done |-> FALSE,
                page_count |-> PageCount(binary_size)]
      load[i \in 0 .. j.f.size + 1] == IF i = 0 THEN first ELSE ReadPage(load[i - 1])
  IN load[j.f.size + 1]

\* run_binary: the first word of the file is the size of its memory.
Load(h) == LoadPages(h.out[1], fat_file_jump(h.s, h.f, 0))

RunOpened(o) ==
  IF o.status = "OK" THEN Load(fat_file_read(o.s, o.f, 1))
  ELSE [s |-> [o.s EXCEPT !.halted = TRUE], out |-> <<>>, pages |-> 0, page_count |-> 0]

run_binary(s, path) == RunOpened(fat_file_open(s, path))

\* fat_get_vol_label and the walk of volume_set_label: the first label entry
\* of the root, whose cluster is right here.
LabelEntry(acc, s) ==
  IF s.buffer[acc.d.rw_offset].type = "LABEL"
    THEN [acc EXCEPT !.s = s, !.done = TRUE, !.found = TRUE]
    ELSE Advance(acc, fat_dir_get_next(s, acc.d))

LabelOne(acc) == IF acc.done THEN acc ELSE LabelEntry(acc, fat_read(acc.s, acc.d.sector))

FindLabel(s) ==
  LET first == [s |-> s, done |-> FALSE, found |-> FALSE,
                d |-> [RootDir EXCEPT !.cluster = fat_sect_to_clust(root_lba)]]
      walk[i \in 0 .. WalkBound] == IF i = 0 THEN first ELSE LabelOne(walk[i - 1])
  IN walk[WalkBound]

-----------------------------------------------------------------------------
(***************************************************************************)
(* The calls                                                               *)
(***************************************************************************)
State == [buffer |-> cache.buffer, lba |-> cache.lba, dirty |-> cache.dirty, halted |-> FALSE]

After(s) ==
  /\ cache' = [buffer |-> s.buffer, lba |-> s.lba, dirty |-> s.dirty]
  /\ halted' = s.halted

\* disk_mount sets buffer_lba to 0, which no sector of a volume has, and reads
\* the label.
Init ==
  /\ LET s == FindLabel([buffer |-> <<>>, lba |-> 0, dirty |-> FALSE, halted |-> FALSE]).s
     IN cache = [buffer |-> s.buffer, lba |-> s.lba, dirty |-> s.dirty]
  /\ file = NoFile /\ dir = NoDir /\ halted = FALSE
  /\ last = [call |-> "mount"]

FileOpen(path) ==
  /\ ~halted /\ ~file.open
  /\ \E r \in {fat_file_open(State, path)} :
     /\ After(r.s)
     /\ file' = IF r.status = "OK" THEN r.f ELSE NoFile
     /\ last' = [call |-> "open", path |-> path, status |-> r.status]
     /\ UNCHANGED dir

\* Supported use: at least one byte is left (a read at the end of the file
\* delivers one byte that is not part of it).
FileRead(count) ==
  /\ ~halted /\ file.open /\ file.glob_offset < file.size
  /\ \E r \in {fat_file_read(State, file, count)} :
     /\ After(r.s)
     /\ file' = r.f
     /\ last' = [call |-> "read", from |-> file.glob_offset, count |-> count, out |-> r.out]
     /\ UNCHANGED dir

\* Supported use: inside the file.
FileJump(offset) ==
  /\ ~halted /\ file.open /\ offset < file.size
  /\ \E r \in {fat_file_jump(State, file, offset)} :
     /\ After(r.s)
     /\ file' = r.f
     /\ last' = [call |-> "jump"]
     /\ UNCHANGED dir

FileClose ==
  /\ ~halted /\ file.open
  /\ After(fat_flush(State))
  /\ file' = NoFile
  /\ last' = [call |-> "close"]
  /\ UNCHANGED dir

DirOpen(path) ==
  /\ ~halted /\ ~dir.open
  /\ \E r \in {fat_follow_path(State, path)} :
     /\ After(r.s)
     /\ dir' = IF r.status = "OK" THEN [open |-> TRUE, path |-> path, d |-> r.d, listed |-> <<>>]
               ELSE NoDir
     /\ last' = [call |-> "opendir", status |-> r.status]
     /\ UNCHANGED file

DirRead ==
  /\ ~halted /\ dir.open
  /\ \E r \in {fat_dir_read(State, dir.d)} :
     LET name == [i \in 1 .. r.length |-> r.name[i]] IN
     /\ After(r.s)
     /\ dir' = [dir EXCEPT !.d = r.d, !.listed = IF r.status = "OK" THEN Append(@, name) ELSE @]
     /\ last' = [call |-> "readdir", status |-> r.status]
     /\ UNCHANGED file

DirClose ==
  /\ ~halted /\ dir.open
  /\ After(fat_flush(State))
  /\ dir' = NoDir
  /\ last' = [call |-> "closedir"]
  /\ UNCHANGED file

\* fat_dir_rename compares the entries it needs with those it finds, and leaves
\* them as they are.
DirRename ==
  /\ ~halted /\ dir.open
  /\ After(fat_read(State, dir.d.sector))
  /\ last' = [call |-> "rename"]
  /\ UNCHANGED <<file, dir>>

RunBinary(path) ==
  /\ ~halted
  /\ \E r \in {run_binary(State, path)} :
     /\ After(r.s)
     /\ last' = [call |-> "run", path |-> path, out |-> r.out, pages |-> r.pages,
                 page_count |-> r.page_count]
     /\ UNCHANGED <<file, dir>>

VolumeGetLabel ==
  /\ ~halted
  /\ After(FindLabel(State).s)
  /\ last' = [call |-> "label"]
  /\ UNCHANGED <<file, dir>>

\* volume_set_label, and fat_table_set and fat_get_cluster (which nothing calls
\* yet), end in the write that panics.
VolumeSetLabel ==
  LET l == FindLabel(State)
  IN /\ ~halted /\ l.found
     /\ After(fat_flush([l.s EXCEPT !.dirty = TRUE]))
     /\ last' = [call |-> "setlabel"]
     /\ UNCHANGED <<file, dir>>

TableSet(cluster) ==
  /\ ~halted
  /\ After(fat_table_set(State, cluster, 0))
  /\ last' = [call |-> "set"]
  /\ UNCHANGED <<file, dir>>

GetCluster ==
  /\ ~halted
  /\ After(fat_get_cluster(State))
  /\ last' = [call |-> "cluster"]
  /\ UNCHANGED <<file, dir>>

Next ==
  \/ \E p \in Paths : FileOpen(p) \/ DirOpen(p)
  \/ \E n \in 1 .. MaxCount : FileRead(n)
  \/ \E n \in 0 .. 3 * SectorSize * cluster_size : FileJump(n)
  \/ FileClose \/ DirRead \/ DirClose \/ DirRename \/ VolumeGetLabel
  \/ VolumeSetLabel \/ TableSet(2) \/ GetCluster
  \/ \E p \in Binaries : RunBinary(p)

Spec == Init /\ [][Next]_vars

-----------------------------------------------------------------------------
(***************************************************************************)
(* Properties                                                              *)
(***************************************************************************)
\* The n-th cluster of a chain (from 0), and the bytes of a file.
Chain(c, n) == LET f[k \in 0 .. n] == IF k = 0 THEN c ELSE FatEntry(f[k - 1]) IN f[n]
Content(path) ==
  [i \in 1 .. Files[path].size |->
     LET sect == (i - 1) \div SectorSize
     IN Disk[fat_clust_to_sect(Chain(Files[path].cluster, sect \div cluster_size))
             + (sect % cluster_size)][(i - 1) % SectorSize]]

\* fat_file_read delivers the bytes of the file from its position on, as many
\* as asked or left, after any jumps, reads and evictions of the one cached
\* sector by other handles.
ReadsRight ==
  last.call = "read" =>
    last.out = SubSeq(Content(file.path), last.from + 1,
                      Min({last.from + last.count, Files[file.path].size}))

\* An open file is the one the path names, and a path that names a file opens,
\* for paths as DirectoryAssumption has them: fat32.c compares the beginnings of
\* names only, and a path ab.cd would open ab.c.
OpensNamedFile ==
  /\ file.open => /\ file.path \in DOMAIN Files
                  /\ file.start_sect = fat_clust_to_sect(Files[file.path].cluster)
                  /\ file.size = Files[file.path].size
  /\ last.call = "open" /\ last.status = "PATH_ERR" => last.path \notin DOMAIN Files

\* Reading a directory lists its names in order, over sector boundaries, in a
\* directory below the root over cluster boundaries too (the root is one cluster:
\* DirectoryAssumption), and over chains of long-name entries, and EOF comes
\* after the last.
DirListed ==
  dir.open => /\ IsPrefix(dir.listed, Listings[dir.path])
              /\ last.call = "readdir" => last.status # "ERROR"
              /\ last.call = "readdir" /\ last.status = "EOF" => dir.listed = Listings[dir.path]

\* run_binary loads the whole file, and into the pages it has allocated.
BinaryLoaded ==
  last.call = "run" => last.out = Content(last.path) /\ last.pages <= last.page_count

-----------------------------------------------------------------------------
(***************************************************************************)
(* What the theorems of Fat32_proofs ask of the volume                     *)
(***************************************************************************)
\* The chain of a file reaches to its size.
WholeFiles ==
  \A p \in DOMAIN Files :
    LET f == Files[p]
    IN /\ {f.cluster, f.size} \subseteq Nat
       /\ \A k \in 0 .. f.size :
            k * cluster_size * SectorSize < f.size =>
              /\ Chain(f.cluster, k) \in Nat \ {0, 1}
              /\ k # 0 => ~IsEoc(Chain(f.cluster, k))

\* FSinfo points at or before a free entry.
RoomLeft ==
  LET from == Disk[fsinfo_lba][0].next_free
  IN /\ from \in Nat
     /\ \E c \in from .. (data_lba - fat_lba) * FatPerSector - 1 : FatEntry(c) % FreeMask = 0

\* A binary begins with the size of its memory, app_info.end. This is the size
\* of the file when the program has no .bss (linker.ld:110-120: NOLOAD), and
\* more when it has one; nothing is asked of the two.
BinariesHeaded ==
  \A p \in Binaries \cap DOMAIN Files : Files[p].size > 0 /\ Content(p)[1] \in Nat

ASSUME VolumeAssumption == WholeFiles /\ RoomLeft /\ BinariesHeaded

\* The names of a path are not found by another name: fat_dir_lfn_cmp does not
\* see that the name goes on after the entry, and fat_dir_sfn_cmp compares 8
\* characters at most, and no more than the name has.
ExactNames ==
  \A p \in Paths : \A i \in DOMAIN p.frags :
    LET name == p.frags[i]
        short == [k \in 1 .. 11 |-> IF k <= Len(name) THEN ToUpper(name[k]) ELSE 32]
    IN /\ name # <<>>
       /\ \A n \in Names.long : IsPrefix(n, name) => n = name
       /\ \A n \in Names.short : fat_dir_sfn_cmp(n, name) => n = short

\* The root ends within its first cluster: a walk of it does not see the end of
\* the cluster (RootDir), and would go on into the next sectors of the disk.
RootInOneCluster ==
  \E n \in 0 .. cluster_size * DirPerSector - 1 :
    Disk[root_lba + (n \div DirPerSector)][n % DirPerSector].type = "END"

ASSUME DirectoryAssumption == ExactNames /\ RootInOneCluster

\* The directories lead to the files: a path of a file opens it, and no other
\* path opens, when the sector of the root is cached.
Mounted == [buffer |-> Disk[root_lba], lba |-> root_lba, dirty |-> FALSE, halted |-> FALSE]

NamesResolve ==
  \A p \in Paths : \E r \in {fat_file_open(Mounted, p)} :
    IF p \in DOMAIN Files
      THEN r.status = "OK" /\ Files[p] = [cluster |-> r.f.cluster, size |-> r.f.size]
      ELSE r.status # "OK"

\* The file ends within a page, and the pages allocated for the size that it
\* begins with reach to its end.
BinaryFits(p) ==
  /\ Files[p].size % SectorSize # 0
  /\ Files[p].size <= PageCount(Content(p)[1]) * SectorSize

\* What n reads of a directory list, when each finds the sector of the root
\* cached and nobody else calls.
ListRead(acc, r) ==
  [d |-> r.d, status |-> r.status,
   listed |-> IF r.status = "OK" THEN Append(acc.listed, [i \in 1 .. r.length |-> r.name[i]])
              ELSE acc.listed]
Alone(path, n) ==
  LET first == [d |-> fat_follow_path(Mounted, path).d, status |-> "OK", listed |-> <<>>]
      list[i \in 0 .. n] == IF i = 0 THEN first
                            ELSE ListRead(list[i - 1], fat_dir_read(Mounted, list[i - 1].d))
  IN list[n]

\* The names and then EOF.
ListsNames ==
  \A p \in Paths : fat_follow_path(Mounted, p).status = "OK" =>
    /\ Len(Listings[p]) \in Nat
    /\ \A n \in 0 .. Len(Listings[p]) + 1 :
         /\ IsPrefix(Alone(p, n).listed, Listings[p]) /\ Alone(p, n).status # "ERROR"
         /\ Alone(p, n).status = "EOF" => Alone(p, n).listed = Listings[p]
    /\ Alone(p, Len(Listings[p]) + 1).status = "EOF"

=============================================================================
