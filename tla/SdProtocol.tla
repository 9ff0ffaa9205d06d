------------------------------ MODULE SdProtocol ------------------------------
(***************************************************************************)
(* fat32_thread over disk_io.c, disk/sd_protocol.c and drivers/mmc.c: a    *)
(* card that comes and goes is identified, read and mounted. The card is   *)
(* external, and so is the second disk that Volumes may hold.              *)
(*                                                                         *)
(* One action is one command on the bus. mmc_send_cmd and mmc_send_adtc    *)
(* panic when the card does not answer; a data word that does not come is  *)
(* awaited for ever. Left out are the panics over what an answer says: an  *)
(* operating voltage or a switch function refused, a CSD of an unknown     *)
(* structure, an error in a status.                                        *)
(***************************************************************************)
EXTENDS Volumes

CONSTANTS
  Cards,        \* cards that may be inserted: records, see MC_Sd
  MaxInserts,   \* bound: cards inserted
  BusyPolls,    \* times a busy card is asked by ACMD41 (1000)
  MountTries    \* attempts to mount (10)

\* A card has up to four partitions, which begin at different sectors; the
\* sector of one that is not there is 0.
ASSUME SdAssumption ==
  /\ MaxInserts \in Nat /\ BusyPolls \in Nat \ {0} /\ MountTries \in Nat \ {0}
  /\ \A k \in Cards :
       /\ {k.hc, k.four_bit, k.past_v1_10, k.high_speed, k.mbr} \subseteq BOOLEAN
       /\ DOMAIN k.parts \subseteq 1 .. 4
       /\ \A i \in DOMAIN k.parts :
            /\ {k.parts[i].lba, k.parts[i].bpb.rsvd_cnt, k.parts[i].bpb.num_fats,
                 k.parts[i].bpb.fat_size_32} \subseteq Nat
            /\ \A j \in DOMAIN k.parts :
                 k.parts[i].lba = k.parts[j].lba /\ k.parts[i].lba # 0 => i = j

VARIABLES
  pc,        \* where fat32_thread is: polling, or the next command
  slot,      \* slot_1
  mmc,       \* the host interface: divider, bus width, high-speed timing
  card,      \* the card in the slot (external)
  sd_status, \* a card has been mounted
  tries,     \* attempts left
  part,      \* partition that disk_mount reads
  label,     \* it reads the partition's root directory, for the label
  volumes,   \* the list and its bitmask
  ejecting,  \* the part of the list that disk_eject has not looked at
  mounted,   \* history: the card that was mounted last
  halted, inserts, busy

vars == <<pc, slot, mmc, card, sd_status, tries, part, label, volumes, ejecting, mounted, halted,
          inserts, busy>>

NoCard == [present |-> FALSE]
sd_is_connected == card.present

Init ==
  /\ pc = "poll" /\ sd_status = FALSE /\ tries = 0 /\ part = 0 /\ label = FALSE /\ halted = FALSE
  /\ slot = [rca |-> 0, high_capacity |-> FALSE, four_bit |-> FALSE, past_v1_10 |-> FALSE,
             high_speed |-> FALSE, kib_size |-> 0]
  /\ mmc = [div |-> {}, odd |-> 0, width |-> 1, high_speed |-> FALSE]
  /\ card = NoCard
  /\ volumes = [list |-> <<>>, bitmask |-> {}] /\ ejecting = <<>> /\ mounted = NoCard
  /\ inserts = 0 /\ busy = 0

-----------------------------------------------------------------------------
(***************************************************************************)
(* The host interface                                                      *)
(***************************************************************************)
Weight == <<1, 2, 4, 8, 16, 32, 64, 128>>
Bits(n) == {i \in 1 .. 8 : (n \div Weight[i]) % 2 = 1}

\* mmc_set_bus_freq, in kHz. The mask that should clear the divider clears
\* nothing, so the new bits are added to the old ones.
Divider(freq) == 150000 \div freq - 2 + (IF 150000 % freq # 0 THEN 1 ELSE 0)
AddDivider(m, bits, odd) == [m EXCEPT !.div = @ \cup bits, !.odd = IF odd THEN 1 ELSE @]
mmc_set_bus_freq(m, freq) ==
  IF 2 * freq < 150000
    THEN AddDivider(m, Bits(Divider(freq) \div 2), Divider(freq) % 2 = 1)
    ELSE m

\* The frequency that the hardware makes of the divider.
ClkDiv(m) ==
  LET bit(i) == IF i \in m.div THEN Weight[i] ELSE 0
  IN bit(1) + bit(2) + bit(3) + bit(4) + bit(5) + bit(6) + bit(7) + bit(8)
BusFreq(m) == 150000 \div (2 * ClkDiv(m) + m.odd + 2)

mmc_set_bus_width(m, width) == [m EXCEPT !.width = width]
mmc_enable_high_speed(m) == [m EXCEPT !.high_speed = TRUE]

\* mmc_init leaves high-speed mode and keeps the divider.
mmc_init(m) == [m EXCEPT !.high_speed = FALSE]

\* Mutant: the number of lanes is kept.
MutStartInterface(m) == mmc_set_bus_freq(mmc_init(m), 400)

\* mmc_reset restores every register; then mmc_init, one lane, 400 kHz.
StartInterface(m) == mmc_set_bus_freq(mmc_set_bus_width(mmc_init(m), 1), 400)

\* csd_decode: c_size where the standard has c_size + 1, and thousands of
\* bytes for a CSD of version 1.0.
csd_decode(csd) ==
  IF csd.structure = 0
    THEN ((csd.c_size + 1) * 2^(csd.c_size_mult + 2) * 2^csd.read_bl_len) \div 1000
    ELSE csd.c_size * 512

-----------------------------------------------------------------------------
(***************************************************************************)
(* The card (external): the states of the SD standard                      *)
(***************************************************************************)
\* "unseen" is history: the card replaces one that is still mounted, and which
\* fat32_thread has not seen gone, or one that is being read from.
Unseen == (sd_status /\ pc # "walk") \/ pc = "data"

CardIn ==
  /\ ~card.present /\ inserts < MaxInserts
  /\ \E k \in Cards :
       card' = [present |-> TRUE, kind |-> k, state |-> "idle", rca |-> 0, width |-> 1, lba |-> -1,
                unseen |-> Unseen]
  /\ inserts' = inserts + 1
  /\ UNCHANGED <<pc, slot, mmc, sd_status, tries, part, label, volumes, ejecting, mounted, halted,
                 busy>>

CardOut ==
  /\ card.present
  /\ card' = NoCard
  /\ UNCHANGED <<pc, slot, mmc, sd_status, tries, part, label, volumes, ejecting, mounted, halted,
                 inserts, busy>>

\* Whether the card answers a command with the given address.
Answers(cmd, rca) ==
  card.present /\
  CASE cmd = 8 -> card.kind.v2 /\ card.state = "idle"
    [] cmd \in {41, 55} -> card.state = "idle" \/ (cmd = 55 /\ card.rca = rca)
    [] cmd = 2 -> card.state = "ready"
    [] cmd = 3 -> card.state = "ident"
    [] cmd \in {7, 9} -> card.state = "stby" /\ card.rca = rca
    [] cmd \in {51, 106} -> card.state = "tran"
    [] cmd = 6 -> card.state = "tran" /\ card.kind.past_v1_10
    [] cmd = 13 -> card.state = "tran" /\ card.rca = rca
    [] cmd = 17 -> card.state = "tran"

-----------------------------------------------------------------------------
(***************************************************************************)
(* sd_protocol_init, a command at a time                                   *)
(***************************************************************************)
rest == <<sd_status, tries, part, label, volumes, ejecting, mounted, inserts>>

\* mmc_send_cmd / mmc_send_adtc: without an answer, panic.
Panic == halted' = TRUE /\ UNCHANGED <<pc, slot, mmc, card, rest, busy>>

Command(at, cmd, next, newSlot, newCard) ==
  /\ pc = at /\ ~halted
  /\ IF Answers(cmd, slot.rca)
       THEN /\ pc' = next /\ slot' = newSlot /\ card' = newCard
            /\ UNCHANGED <<mmc, halted, rest, busy>>
       ELSE Panic

\* mmc_send_adtc: a command that is followed by data; it fails like any other.
DataCommand(at, cmd, next, newSlot, newCard) == Command(at, cmd, next, newSlot, newCard)

\* CMD0 has no response; the card goes to the idle state.
sd_exec_cmd_0(c) == IF c.present THEN [c EXCEPT !.state = "idle", !.rca = 0, !.width = 1] ELSE c

SdStart ==
  /\ pc = "init" /\ ~halted
  /\ mmc' = StartInterface(mmc)
  /\ slot' = [slot EXCEPT !.rca = 0]
  /\ card' = sd_exec_cmd_0(card)
  /\ pc' = "cmd8" /\ busy' = 0
  /\ UNCHANGED <<halted, rest>>

sd_exec_cmd_8 == Command("cmd8", 8, "cmd55", slot, card)

\* sd_exec_acmd_41: CMD55 with address 0, then ACMD41, until the card is not
\* busy; a card that is busy for too long is a panic.
Acmd41Prefix == Command("cmd55", 55, "acmd41", slot, card)

sd_exec_acmd_41 ==
  \/ Command("acmd41", 41, "cmd2", [slot EXCEPT !.high_capacity = card.kind.hc],
             [card EXCEPT !.state = "ready"])
  \/ /\ pc = "acmd41" /\ ~halted /\ Answers(41, 0)
     /\ busy' = busy + 1
     /\ pc' = "cmd55"
     /\ halted' = (busy + 1 = BusyPolls)
     /\ UNCHANGED <<slot, mmc, card, rest>>

sd_exec_cmd_2 == Command("cmd2", 2, "cmd3", slot, [card EXCEPT !.state = "ident"])

\* The card publishes an address of its own choice.
sd_exec_cmd_3 ==
  Command("cmd3", 3, "cmd9", [slot EXCEPT !.rca = card.kind.rca],
          [card EXCEPT !.state = "stby", !.rca = card.kind.rca])

sd_exec_cmd_9 ==
  Command("cmd9", 9, "cmd7", [slot EXCEPT !.kib_size = csd_decode(card.kind.csd)], card)

sd_exec_cmd_7 == Command("cmd7", 7, "acmd51", slot, [card EXCEPT !.state = "tran"])

\* past_v1_10 is set and never cleared.
sd_exec_acmd_51 ==
  DataCommand("acmd51", 51, IF card.kind.four_bit THEN "acmd6" ELSE "cmd6",
              [slot EXCEPT !.four_bit = card.kind.four_bit,
                           !.past_v1_10 = @ \/ card.kind.past_v1_10], card)

sd_exec_acmd_6 ==
  /\ pc = "acmd6" /\ ~halted
  /\ IF Answers(106, 0)
       THEN /\ card' = [card EXCEPT !.width = 4]
            /\ mmc' = mmc_set_bus_width(mmc, 4)
            /\ pc' = "cmd6"
            /\ UNCHANGED <<slot, halted, rest, busy>>
       ELSE Panic

\* CMD6 asks in check mode, so the card keeps its timing; the host changes its
\* own. A card before version 1.10 is not asked.
sd_exec_cmd_6 ==
  /\ pc = "cmd6" /\ ~halted
  /\ IF ~slot.past_v1_10
       THEN pc' = "ready" /\ UNCHANGED <<slot, mmc, card, halted, rest, busy>>
     ELSE IF Answers(6, 0)
       THEN /\ slot' = [slot EXCEPT !.high_speed = card.kind.high_speed]
            /\ mmc' = IF card.kind.high_speed
                         THEN mmc_set_bus_freq(mmc_enable_high_speed(mmc), 50000)
                         ELSE mmc_set_bus_freq(mmc, 25000)
            /\ pc' = "ready"
            /\ UNCHANGED <<card, halted, rest, busy>>
     ELSE Panic

\* A card that is removed after ACMD51 or CMD6 and before its data:
\* mmc_read_data_reverse waits for a word for ever.
RemovedInTransfer ==
  /\ pc = "acmd51" \/ (pc = "cmd6" /\ slot.past_v1_10)
  /\ ~halted /\ ~card.present
  /\ pc' = "data"
  /\ UNCHANGED <<slot, mmc, card, halted, rest, busy>>

-----------------------------------------------------------------------------
(***************************************************************************)
(* sd_read and disk_mount: part 0 is the MBR                               *)
(***************************************************************************)
MbrPart == 0
RootLba(p) == p.lba + p.bpb.rsvd_cnt + p.bpb.num_fats * p.bpb.fat_size_32
Sector(p) ==
  CASE p = MbrPart -> 0
    [] p # MbrPart /\ ~label -> card.kind.parts[p].lba
    [] OTHER -> RootLba(card.kind.parts[p])

\* sd_read refuses a sector beyond the size and polls with CMD13 ...
ReadStatus ==
  /\ pc = "ready" /\ ~halted
  /\ IF Answers(13, slot.rca) /\ Sector(part) + 1 <= slot.kib_size * 2
       THEN pc' = "cmd17" /\ UNCHANGED <<slot, mmc, card, halted, rest, busy>>
       ELSE Panic

\* Mutant: the address is a block number whatever the card.
MutReadArg(sector) == sector

\* ... and asks for it in blocks or in bytes.
ReadArg(sector) == IF slot.high_capacity THEN sector ELSE sector * 512

ReadBlock ==
  DataCommand("cmd17", 17, "data", slot,
              [card EXCEPT !.lba = IF card.kind.hc THEN ReadArg(Sector(part))
                                   ELSE ReadArg(Sector(part)) \div 512])

\* disk_mount after a sector has arrived: the MBR is refused without its
\* signature, and then each partition is looked at in turn. One with a FAT32
\* file system is added once fat_get_vol_label has read its root directory, of
\* which cluster 2 is the first.
NextPart(p) ==
  LET more == {i \in DOMAIN card.kind.parts : i > p /\ card.kind.parts[i].lba # 0}
  IN IF more = {} THEN -1 ELSE Min(more)

\* mmc_read_data waits until the card sends.
mmc_read_data == card.present /\ card.lba # -1

ReadData ==
  /\ pc = "data" /\ ~halted /\ mmc_read_data
  /\ card' = [card EXCEPT !.lba = -1]
  /\ LET refused == part = MbrPart /\ ~card.kind.mbr
         found == part # MbrPart /\ ~label /\ fat_search(card.kind.parts[part].bpb)
         done == ~found /\ ~refused /\ NextPart(part) = -1
     IN /\ volumes' = IF label THEN fat_volume_add(volumes, "SD", card.kind.parts[part].lba)
                      ELSE volumes
        /\ label' = found
        /\ pc' = IF refused THEN "retry" ELSE IF done THEN "eject" ELSE "ready"
        /\ part' = IF refused \/ done THEN MbrPart ELSE IF found THEN part ELSE NextPart(part)
        /\ sd_status' = (done \/ sd_status)
        /\ mounted' = IF done THEN card.kind ELSE mounted
  /\ UNCHANGED <<slot, mmc, ejecting, halted, tries, inserts, busy>>

-----------------------------------------------------------------------------
(***************************************************************************)
(* fat32_thread                                                            *)
(***************************************************************************)
\* Mutant: the test of sd_status is the wrong way round.
MutPoll ==
  /\ pc = "poll" /\ ~halted
  /\ pc' = IF sd_is_connected /\ sd_status THEN "mount" ELSE "eject"
  /\ tries' = MountTries
  /\ UNCHANGED <<slot, mmc, card, sd_status, part, label, volumes, ejecting, mounted, halted,
                 inserts, busy>>

Poll ==
  /\ pc = "poll" /\ ~halted
  /\ pc' = IF sd_is_connected /\ ~sd_status THEN "mount" ELSE "eject"
  /\ tries' = MountTries
  /\ UNCHANGED <<slot, mmc, card, sd_status, part, label, volumes, ejecting, mounted, halted,
                 inserts, busy>>

\* disk_mount panics if the card has gone since it was last looked at.
Mount ==
  /\ pc = "mount" /\ ~halted
  /\ IF sd_is_connected
       THEN pc' = "init" /\ tries' = tries - 1
            /\ UNCHANGED <<slot, mmc, card, sd_status, part, label, volumes, ejecting, mounted, halted,
                           inserts, busy>>
       ELSE Panic

Retry ==
  /\ pc = "retry" /\ ~halted
  /\ pc' = IF tries > 0 THEN "mount" ELSE "eject"
  /\ UNCHANGED <<slot, mmc, card, rest, halted, busy>>

Eject ==
  /\ pc = "eject" /\ ~halted
  /\ \/ ~sd_is_connected /\ sd_status /\ pc' = "walk" /\ ejecting' = volumes.list
     \/ ~(~sd_is_connected /\ sd_status) /\ pc' = "poll" /\ UNCHANGED ejecting
  /\ UNCHANGED <<slot, mmc, card, sd_status, tries, part, label, volumes, mounted, halted,
                 inserts, busy>>

\* disk_eject, a volume at a time. The walk goes on through the next pointer of
\* the volume it has just freed, which mm_free leaves in place. A letter that
\* is not found is a panic.
EjectVolume ==
  /\ pc = "walk" /\ ~halted /\ ejecting # <<>>
  /\ ejecting' = Tail(ejecting)
  /\ IF Head(ejecting).disk = "SD"
       THEN /\ volumes' = fat_volume_remove(volumes, Head(ejecting).letter)
            /\ halted' = (fat_volume_find(volumes, Head(ejecting).letter) = {})
       ELSE UNCHANGED <<volumes, halted>>
  /\ UNCHANGED <<pc, slot, mmc, card, sd_status, tries, part, label, mounted, inserts, busy>>

Ejected ==
  /\ pc = "walk" /\ ~halted /\ ejecting = <<>>
  /\ pc' = "poll" /\ sd_status' = FALSE
  /\ UNCHANGED <<slot, mmc, card, tries, part, label, volumes, ejecting, mounted, halted,
                 inserts, busy>>

\* Another disk is mounted or ejected (external: disk_io.c knows only the card).
OtherDisk ==
  /\ pc = "poll"
  /\ LET other == {i \in DOMAIN volumes.list : volumes.list[i].disk = "USB"}
     IN \/ other = {} /\ volumes' = fat_volume_add(volumes, "USB", 1)
        \/ \E i \in other : volumes' = fat_volume_remove(volumes, volumes.list[i].letter)
  /\ UNCHANGED <<pc, slot, mmc, card, sd_status, tries, part, label, ejecting, mounted, halted, inserts,
                 busy>>

SdInit ==
  \/ SdStart \/ sd_exec_cmd_8 \/ Acmd41Prefix \/ sd_exec_acmd_41 \/ sd_exec_cmd_2
  \/ sd_exec_cmd_3 \/ sd_exec_cmd_9 \/ sd_exec_cmd_7 \/ sd_exec_acmd_51 \/ sd_exec_acmd_6
  \/ sd_exec_cmd_6 \/ RemovedInTransfer

Thread == Poll \/ Mount \/ SdInit \/ ReadStatus \/ ReadBlock \/ ReadData \/ Retry
          \/ Eject \/ EjectVolume \/ Ejected

Next == CardIn \/ CardOut \/ OtherDisk \/ Thread

Spec == Init /\ [][Next]_vars

\* The thread runs; nobody has to insert or remove a card.
FairSpec == Spec /\ WF_vars(Thread)

-----------------------------------------------------------------------------
(***************************************************************************)
(* Properties                                                              *)
(***************************************************************************)
\* The block the card sends is the sector that was asked for, in cards with
\* byte and with block addresses, whatever card was in the slot before.
AddressRight == pc = "data" /\ mmc_read_data => card.lba = Sector(part)

\* Data moves at the width both sides have, and a card that is being
\* identified is clocked with at most 400 kHz, also after a faster one.
BusAgrees ==
  /\ pc = "data" /\ mmc_read_data => mmc.width = card.width
  /\ pc \in {"cmd8", "cmd55", "acmd41", "cmd2", "cmd3"} => BusFreq(mmc) <= 400

Fat32Parts(k) == {k.parts[i].lba : i \in {j \in DOMAIN k.parts :
                    k.parts[j].lba # 0 /\ fat_search(k.parts[j].bpb)}}
SdVolumes == {i \in DOMAIN volumes.list : volumes.list[i].disk = "SD"}

\* No two volumes share a letter and the bitmask holds the letters in use. When
\* the thread polls, the volumes of cards are exactly the FAT32 partitions of
\* the card mounted last, and that is the card in the slot, if one is there,
\* unless it was put in unseen: the polls look at the level of the pin, so a
\* card swapped between two of them leaves the volumes of the card before.
\* Without a mounted card there are none.
VolumesRight ==
  /\ \A i, j \in DOMAIN volumes.list :
       volumes.list[i].letter = volumes.list[j].letter => i = j
  /\ volumes.bitmask = {volumes.list[i].letter : i \in DOMAIN volumes.list}
  /\ pc = "poll" /\ ~sd_status => SdVolumes = {}
  /\ pc = "poll" /\ sd_status =>
       /\ {volumes.list[i].part : i \in SdVolumes} = Fat32Parts(mounted)
       /\ Cardinality(SdVolumes) = Cardinality(Fat32Parts(mounted))
       /\ card.present /\ ~card.unseen => card.kind = mounted

\* A card that stays is mounted in the end, at whatever step of the thread it
\* was put in, unless its MBR is refused or the system panics. Not so a card
\* put in unseen: while the card before is still mounted it is taken for that
\* one, and while the thread waits for data of the card before, mmc_read_data
\* never ends.
CardIsMounted ==
  (card.present /\ ~card.unseen) ~>
    (~card.present \/ halted \/ (sd_status /\ mounted = card.kind) \/ ~card.kind.mbr)
=============================================================================
