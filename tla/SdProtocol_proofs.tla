-------------------------- MODULE SdProtocol_proofs ---------------------------
(***************************************************************************)
(* For all cards and any sequence of insertions, removals and commands:    *)
(* the sectors that are read are the ones asked for, host and card agree   *)
(* on the bus, and the list of volumes is that of the mounted card.        *)
(***************************************************************************)
EXTENDS SdProtocol, ListLemmas, FiniteSetTheorems

Identifying == {"cmd8", "cmd55", "acmd41", "cmd2", "cmd3"}
OneLane == Identifying \cup {"cmd9", "cmd7", "acmd51", "acmd6"}
Reading == {"ready", "cmd17", "data"}
Locations == {"poll", "mount", "init", "retry", "eject", "walk", "cmd6"} \cup OneLane \cup Reading

Mmc == [div : SUBSET (1 .. 8), odd : {0, 1}, width : {1, 4}, high_speed : BOOLEAN]
CardFields == {"present", "kind", "state", "rca", "width", "lba", "unseen"}
SlotFields == {"rca", "high_capacity", "four_bit", "past_v1_10", "high_speed", "kib_size"}
CardStates == {"idle", "ready", "ident", "stby", "tran"}

Types ==
  /\ pc \in Locations /\ sd_status \in BOOLEAN /\ label \in BOOLEAN /\ halted \in BOOLEAN
  /\ slot = [f \in SlotFields |-> slot[f]]
  /\ mmc \in Mmc
  /\ card.present \in BOOLEAN
  /\ card.present => /\ card = [f \in CardFields |-> card[f]]
                     /\ card.kind \in Cards /\ card.state \in CardStates

\* What the host has learnt of a card stays true until the card is reset or
\* taken away: a card that is put in starts in the idle state.
Learnt ==
  /\ card.present /\ card.state # "idle" =>
       /\ slot.high_capacity = card.kind.hc
       /\ mmc.width = card.width
  /\ card.present /\ card.state = "idle" => card.width = 1
  /\ pc \in OneLane => mmc.width = 1
  /\ pc \in Identifying => {2, 4, 5, 6, 8} \subseteq mmc.div /\ mmc.odd = 1

\* The partition that is being looked at is one of the card's.
PartKnown ==
  /\ pc \notin Reading => part = MbrPart /\ ~label
  /\ card.present /\ card.state = "tran" /\ pc \in Reading =>
       \/ part = MbrPart /\ ~label
       \/ /\ part \in DOMAIN card.kind.parts /\ card.kind.parts[part].lba # 0
          /\ label => fat_search(card.kind.parts[part].bpb)

\* A block is under way only between CMD17 and its data.
InFlight ==
  card.present /\ card.lba # -1 =>
    pc = "data" /\ card.state = "tran" /\ card.lba = Sector(part)

-----------------------------------------------------------------------------
Volume == [letter : 0 .. Letters - 1, disk : {"SD", "USB"}, part : Nat]

GoodVolumes(v) ==
  /\ v \in [list : Seq(Volume), bitmask : SUBSET (0 .. Letters - 1)]
  /\ \A i, j \in DOMAIN v.list : v.list[i].letter = v.list[j].letter => i = j
  /\ v.bitmask = {v.list[i].letter : i \in DOMAIN v.list}

\* The volumes of card k among vs are some of its FAT32 partitions, each once,
\* and there is at most one other volume.
VolumesOf(k, vs) ==
  /\ \A a \in vs : a.disk = "SD" => a.part \in Fat32Parts(k)
  /\ \A a, b \in vs : a.disk = b.disk /\ (a.disk = "SD" => a.part = b.part) => a = b

SdParts(vs) == {a.part : a \in {b \in vs : b.disk = "SD"}}

\* The FAT32 partitions of the card before partition p.
PartsBefore(k, p) ==
  {k.parts[i].lba : i \in {j \in DOMAIN k.parts :
     j < p /\ k.parts[j].lba # 0 /\ fat_search(k.parts[j].bpb)}}

Vols == Range(volumes.list)

Mounted ==
  /\ GoodVolumes(volumes)
  /\ pc \notin {"poll", "eject", "walk"} => ~sd_status
  /\ pc = "walk" => sd_status
  /\ ~sd_status /\ pc \notin Reading => SdParts(Vols) = {}
  /\ \A a, b \in Vols : a.disk = "USB" /\ b.disk = "USB" => a = b
  /\ sd_status => /\ mounted \in Cards /\ VolumesOf(mounted, Vols)
                  /\ pc # "walk" => SdParts(Vols) = Fat32Parts(mounted)
  /\ card.present /\ card.state = "tran" /\ pc \in Reading =>
       /\ VolumesOf(card.kind, Vols)
       /\ SdParts(Vols) = PartsBefore(card.kind, part)

\* The card's volumes that are left are the ones disk_eject will meet.
Ejecting ==
  pc = "walk" =>
    /\ ejecting \in Seq(Volume)
    /\ \A i, j \in DOMAIN ejecting : ejecting[i].letter = ejecting[j].letter => i = j
    /\ {a \in Vols : a.disk = "SD"} = {a \in Range(ejecting) : a.disk = "SD"}

\* The card that is mounted is the one in the slot, if that was not put in
\* unseen.
InSlot ==
  sd_status /\ pc # "walk" /\ card.present /\ ~card.unseen => card.kind = mounted

SdInv == Types /\ Learnt /\ PartKnown /\ InFlight /\ Mounted /\ Ejecting /\ InSlot

LEMMA UnionBelow ==
  ASSUME NEW a, NEW b, NEW s, a \subseteq s, b \subseteq s
  PROVE  a \cup b \subseteq s
OBVIOUS

LEMMA IdentificationBits == {2, 4, 5, 6, 8} \subseteq Bits(186)
<1>1. Weight[2] = 2 /\ Weight[4] = 8 /\ Weight[5] = 16 /\ Weight[6] = 32 /\ Weight[8] = 128
  BY DEF Weight
<1>2. QED
  BY <1>1 DEF Bits

IdFreq == 400
Freqs == {IdFreq, 25000, 50000}

LEMMA DividerBits ==
  ASSUME NEW m \in Mmc, NEW b \in SUBSET (1 .. 8), NEW q \in BOOLEAN, NEW r, r = AddDivider(m, b, q)
  PROVE  /\ r \in Mmc /\ r.width = m.width /\ b \subseteq r.div
         /\ q => r.odd = 1
<1>1. m.div \cup b \in SUBSET (1 .. 8)
  BY UnionBelow DEF Mmc
<1>2. PICK o \in {0, 1} : o = IF q THEN 1 ELSE m.odd
  BY DEF Mmc
<1>3. r = [m EXCEPT !.div = m.div \cup b, !.odd = o]
  BY <1>2, Zenon DEF AddDivider
<1>4. r \in Mmc /\ r.width = m.width /\ r.div = m.div \cup b /\ r.odd = o
  BY <1>1, <1>3 DEF Mmc
<1>5. QED
  BY <1>2, <1>4

\* A new frequency adds bits to the divider.
LEMMA SetFreq ==
  ASSUME NEW m \in Mmc, NEW f \in Freqs
  PROVE  /\ mmc_set_bus_freq(m, f) \in Mmc
         /\ mmc_set_bus_freq(m, f).width = m.width
         /\ f = IdFreq => /\ {2, 4, 5, 6, 8} \subseteq mmc_set_bus_freq(m, f).div
                          /\ mmc_set_bus_freq(m, f).odd = 1
<1>1. PICK b : b = Bits(Divider(f) \div 2)
  OBVIOUS
<1>2. PICK q \in BOOLEAN : q <=> Divider(f) % 2 = 1
  OBVIOUS
<1>3. PICK r : r = AddDivider(m, b, q)
  OBVIOUS
<1>4. mmc_set_bus_freq(m, f) = r
  <2>1. 2 * f < 150000
    BY DEF Freqs, IdFreq
  <2>2. q = (Divider(f) % 2 = 1)
    BY <1>2
  <2>3. QED
    BY <1>1, <1>3, <2>1, <2>2 DEF mmc_set_bus_freq
<1>5. b \in SUBSET (1 .. 8)
  BY <1>1 DEF Bits
<1>6. r \in Mmc /\ r.width = m.width /\ b \subseteq r.div /\ (q => r.odd = 1)
  BY <1>3, <1>5, DividerBits
<1>7. f = IdFreq => q /\ b = Bits(186)
  <2>1. Divider(IdFreq) = 373
    BY DEF Divider, IdFreq
  <2>2. QED
    BY <1>1, <1>2, <2>1
<1>8. f = IdFreq => {2, 4, 5, 6, 8} \subseteq r.div /\ r.odd = 1
  <2>1. ASSUME f = IdFreq PROVE {2, 4, 5, 6, 8} \subseteq r.div /\ r.odd = 1
    <3>1. Bits(186) \subseteq r.div /\ r.odd = 1
      BY <1>6, <1>7, <2>1
    <3>2. QED
      BY <3>1, IdentificationBits
  <2>2. QED
    BY <2>1
<1>9. QED
  BY <1>4, <1>6, <1>8

\* mmc_reset and the identification clock.
LEMMA StartFacts ==
  ASSUME NEW m \in Mmc
  PROVE  /\ StartInterface(m) \in Mmc /\ StartInterface(m).width = 1
         /\ {2, 4, 5, 6, 8} \subseteq StartInterface(m).div /\ StartInterface(m).odd = 1
<1> DEFINE n == mmc_set_bus_width(mmc_init(m), 1)
<1>1. n \in Mmc /\ n.width = 1
  BY DEF mmc_set_bus_width, mmc_init, Mmc
<1>2. StartInterface(m) = mmc_set_bus_freq(n, 400)
  BY DEF StartInterface
<1> HIDE DEF n
<1>3. QED
  BY <1>1, <1>2, SetFreq DEF Freqs, IdFreq

LEMMA Cmd6Effect ==
  sd_exec_cmd_6 =>
    /\ UNCHANGED card /\ UNCHANGED rest
    /\ pc' = "ready" \/ pc' = pc
    /\ halted' = TRUE \/ halted' = halted
    /\ slot' = slot \/ slot' = [slot EXCEPT !.high_speed = card.kind.high_speed]
BY DEF sd_exec_cmd_6, Panic

LEMMA TypesStep == Types /\ [Next]_vars => Types'
<1> SUFFICES ASSUME Types, [Next]_vars PROVE Types'
  OBVIOUS
<1> USE DEF Types, Locations, OneLane, Identifying, Reading, SlotFields, CardFields, CardStates
<1>1. CASE CardIn
  BY <1>1 DEF CardIn
<1>2. CASE CardOut
  BY <1>2 DEF CardOut, NoCard
<1>3. CASE OtherDisk
  BY <1>3 DEF OtherDisk
<1>4. CASE Poll
  BY <1>4 DEF Poll
<1>5. CASE Mount
  BY <1>5 DEF Mount, Panic, rest
<1>6. CASE SdStart
  BY <1>6, StartFacts DEF SdStart, rest, sd_exec_cmd_0
<1>7. CASE sd_exec_cmd_8
  BY <1>7 DEF sd_exec_cmd_8, Command, Panic, rest, Answers
<1>8. CASE Acmd41Prefix
  BY <1>8 DEF Acmd41Prefix, Command, Panic, rest, Answers
<1>9. CASE sd_exec_acmd_41
  BY <1>9 DEF sd_exec_acmd_41, Command, Panic, rest, Answers
<1>10. CASE sd_exec_cmd_2
  BY <1>10 DEF sd_exec_cmd_2, Command, Panic, rest, Answers
<1>11. CASE sd_exec_cmd_3
  BY <1>11 DEF sd_exec_cmd_3, Command, Panic, rest, Answers
<1>12. CASE sd_exec_cmd_9
  BY <1>12 DEF sd_exec_cmd_9, Command, Panic, rest, Answers
<1>13. CASE sd_exec_cmd_7
  BY <1>13 DEF sd_exec_cmd_7, Command, Panic, rest, Answers
<1>14. CASE sd_exec_acmd_51
  BY <1>14 DEF sd_exec_acmd_51, DataCommand, Command, Panic, rest, Answers
<1>15. CASE sd_exec_acmd_6
  <2>1. mmc_set_bus_width(mmc, 4) \in Mmc
    BY DEF mmc_set_bus_width, Mmc
  <2>2. mmc' \in Mmc
    BY <1>15, <2>1 DEF sd_exec_acmd_6, Panic
  <2>3. UNCHANGED card \/ (card.present /\ card' = [card EXCEPT !.width = 4])
    BY <1>15 DEF sd_exec_acmd_6, Panic, Answers
  <2>4. UNCHANGED <<slot, sd_status, label>> /\ pc' \in Locations /\ halted' \in BOOLEAN
    BY <1>15 DEF sd_exec_acmd_6, Panic, rest
  <2>5. QED
    BY <2>2, <2>3, <2>4
<1>16. CASE sd_exec_cmd_6
  <2>1. mmc_enable_high_speed(mmc) \in Mmc
    BY DEF mmc_enable_high_speed, Mmc
  <2>2. mmc' \in Mmc
    <3>1. /\ mmc_set_bus_freq(mmc_enable_high_speed(mmc), 50000) \in Mmc
          /\ mmc_set_bus_freq(mmc, 25000) \in Mmc
      BY <2>1, SetFreq DEF Freqs
    <3>2. QED
      BY <1>16, <3>1 DEF sd_exec_cmd_6, Panic
  <2>3. UNCHANGED <<card, sd_status, label>> /\ pc' \in Locations /\ halted' \in BOOLEAN
    BY <1>16, Cmd6Effect DEF rest
  <2>4. slot' = slot \/ slot' = [slot EXCEPT !.high_speed = card.kind.high_speed]
    BY <1>16, Cmd6Effect
  <2>5. slot' = [f \in SlotFields |-> slot'[f]]
    BY <2>4
  <2>6. QED
    BY <2>2, <2>3, <2>5
<1>17. CASE RemovedInTransfer
  BY <1>17 DEF RemovedInTransfer, rest
<1>18. CASE ReadStatus
  BY <1>18 DEF ReadStatus, Panic, rest
<1>19. CASE ReadBlock
  <2>1. UNCHANGED card \/ (card.present /\ \E a : card' = [card EXCEPT !.lba = a])
    BY <1>19 DEF ReadBlock, DataCommand, Command, Panic, Answers
  <2>2. UNCHANGED <<slot, mmc, sd_status, label>> /\ pc' \in Locations /\ halted' \in BOOLEAN
    BY <1>19 DEF ReadBlock, DataCommand, Command, Panic, rest
  <2>3. QED
    BY <2>1, <2>2
<1>20. CASE ReadData
  BY <1>20 DEF ReadData, mmc_read_data
<1>21. CASE Retry
  BY <1>21 DEF Retry, rest
<1>22. CASE Eject
  BY <1>22 DEF Eject
<1>23. CASE EjectVolume
  BY <1>23 DEF EjectVolume
<1>24. CASE Ejected
  BY <1>24 DEF Ejected
<1>25. CASE UNCHANGED vars
  BY <1>25 DEF vars
<1>26. QED
  BY <1>1, <1>2, <1>3, <1>4, <1>5, <1>6, <1>7, <1>8, <1>9, <1>10, <1>11, <1>12, <1>13, <1>14, <1>15, <1>16, <1>17, <1>18, <1>19, <1>20, <1>21, <1>22, <1>23, <1>24, <1>25 DEF Next, Thread, SdInit

-----------------------------------------------------------------------------
(***************************************************************************)
(* What each command does to the state the invariant speaks of             *)
(***************************************************************************)
files == <<sd_status, part, label, volumes, ejecting, mounted>>
seen == <<pc, slot, mmc, card, files>>

\* The card goes to state s and keeps the rest.
CardTo(s) ==
  /\ card.present /\ card'.present
  /\ card'.kind = card.kind /\ card'.state = s /\ card'.width = card.width /\ card'.lba = card.lba

LEMMA AnswerFacts ==
  /\ \A r : Answers(8, r) \/ Answers(41, r) => card.present /\ card.state = "idle"
  /\ \A r : Answers(55, r) => card.present
  /\ \A r : Answers(2, r) => card.present /\ card.state = "ready"
  /\ \A r : Answers(3, r) => card.present /\ card.state = "ident"
  /\ \A r : Answers(7, r) \/ Answers(9, r) => card.present /\ card.state = "stby"
  /\ \A r : Answers(51, r) \/ Answers(106, r) \/ Answers(6, r) => card.present /\ card.state = "tran"
  /\ \A r : Answers(13, r) \/ Answers(17, r) => card.present /\ card.state = "tran"
BY DEF Answers

LEMMA CommandEffect ==
  ASSUME NEW at, NEW cmd, NEW next, NEW newSlot, NEW newCard, Command(at, cmd, next, newSlot, newCard)
  PROVE  \/ UNCHANGED seen
         \/ /\ pc = at /\ Answers(cmd, slot.rca)
            /\ pc' = next /\ slot' = newSlot /\ card' = newCard
            /\ UNCHANGED <<mmc, files>>
BY DEF Command, Panic, rest, seen, files

LEMMA Cmd8Effect ==
  sd_exec_cmd_8 =>
    \/ UNCHANGED seen
    \/ pc = "cmd8" /\ pc' = "cmd55" /\ UNCHANGED <<slot, mmc, card, files>>
BY CommandEffect DEF sd_exec_cmd_8

LEMMA PrefixEffect ==
  Acmd41Prefix =>
    \/ UNCHANGED seen
    \/ pc = "cmd55" /\ pc' = "acmd41" /\ UNCHANGED <<slot, mmc, card, files>>
BY CommandEffect DEF Acmd41Prefix

LEMMA Acmd41Effect ==
  ASSUME Types, sd_exec_acmd_41
  PROVE  \/ UNCHANGED seen
         \/ pc = "acmd41" /\ pc' = "cmd55" /\ UNCHANGED <<slot, mmc, card, files>>
         \/ /\ pc = "acmd41" /\ pc' = "cmd2" /\ card.state = "idle" /\ CardTo("ready")
            /\ slot'.high_capacity = card.kind.hc /\ UNCHANGED <<mmc, files>>
<1>1. \/ UNCHANGED seen
      \/ pc = "acmd41" /\ pc' = "cmd55" /\ UNCHANGED <<slot, mmc, card, files>>
      \/ /\ pc = "acmd41" /\ Answers(41, slot.rca) /\ pc' = "cmd2"
         /\ slot' = [slot EXCEPT !.high_capacity = card.kind.hc]
         /\ card' = [card EXCEPT !.state = "ready"]
         /\ UNCHANGED <<mmc, files>>
  BY CommandEffect DEF sd_exec_acmd_41, rest, files
<1>2. QED
  BY <1>1, AnswerFacts DEF Types, SlotFields, CardFields, CardTo

LEMMA Cmd2Effect ==
  ASSUME Types, sd_exec_cmd_2
  PROVE  \/ UNCHANGED seen
         \/ /\ pc = "cmd2" /\ pc' = "cmd3" /\ card.state = "ready" /\ CardTo("ident")
            /\ UNCHANGED <<slot, mmc, files>>
<1>1. \/ UNCHANGED seen
      \/ /\ pc = "cmd2" /\ Answers(2, slot.rca) /\ pc' = "cmd3"
         /\ card' = [card EXCEPT !.state = "ident"] /\ UNCHANGED <<slot, mmc, files>>
  BY CommandEffect DEF sd_exec_cmd_2
<1>2. QED
  BY <1>1, AnswerFacts DEF Types, CardFields, CardTo

LEMMA Cmd3Effect ==
  ASSUME Types, sd_exec_cmd_3
  PROVE  \/ UNCHANGED seen
         \/ /\ pc = "cmd3" /\ pc' = "cmd9" /\ card.state = "ident" /\ CardTo("stby")
            /\ slot'.high_capacity = slot.high_capacity /\ UNCHANGED <<mmc, files>>
<1>1. \/ UNCHANGED seen
      \/ /\ pc = "cmd3" /\ Answers(3, slot.rca) /\ pc' = "cmd9"
         /\ slot' = [slot EXCEPT !.rca = card.kind.rca]
         /\ card' = [card EXCEPT !.state = "stby", !.rca = card.kind.rca]
         /\ UNCHANGED <<mmc, files>>
  BY CommandEffect DEF sd_exec_cmd_3
<1>2. ASSUME Answers(3, slot.rca), card' = [card EXCEPT !.state = "stby", !.rca = card.kind.rca]
      PROVE  card.state = "ident" /\ CardTo("stby")
  <2>1. card.present /\ card.state = "ident"
    BY <1>2, AnswerFacts
  <2>2. card = [f \in CardFields |-> card[f]]
    BY <2>1 DEF Types
  <2>3. QED
    BY <1>2, <2>1, <2>2 DEF CardFields, CardTo
<1>3. ASSUME slot' = [slot EXCEPT !.rca = card.kind.rca]
      PROVE  slot'.high_capacity = slot.high_capacity
  BY <1>3 DEF Types, SlotFields
<1>4. QED
  BY <1>1, <1>2, <1>3

LEMMA Cmd9Effect ==
  ASSUME Types, sd_exec_cmd_9
  PROVE  \/ UNCHANGED seen
         \/ /\ pc = "cmd9" /\ pc' = "cmd7" /\ UNCHANGED <<mmc, card, files>>
            /\ slot'.high_capacity = slot.high_capacity
<1>1. \/ UNCHANGED seen
      \/ /\ pc = "cmd9" /\ pc' = "cmd7" /\ UNCHANGED <<mmc, card, files>>
         /\ slot' = [slot EXCEPT !.kib_size = csd_decode(card.kind.csd)]
  BY CommandEffect DEF sd_exec_cmd_9
<1>2. QED
  BY <1>1 DEF Types, SlotFields

LEMMA Cmd7Effect ==
  ASSUME Types, sd_exec_cmd_7
  PROVE  \/ UNCHANGED seen
         \/ /\ pc = "cmd7" /\ pc' = "acmd51" /\ card.state = "stby" /\ CardTo("tran")
            /\ UNCHANGED <<slot, mmc, files>>
<1>1. \/ UNCHANGED seen
      \/ /\ pc = "cmd7" /\ Answers(7, slot.rca) /\ pc' = "acmd51"
         /\ card' = [card EXCEPT !.state = "tran"] /\ UNCHANGED <<slot, mmc, files>>
  BY CommandEffect DEF sd_exec_cmd_7
<1>2. QED
  BY <1>1, AnswerFacts DEF Types, CardFields, CardTo

LEMMA Acmd51Effect ==
  ASSUME Types, sd_exec_acmd_51
  PROVE  \/ UNCHANGED seen
         \/ /\ pc = "acmd51" /\ pc' \in {"acmd6", "cmd6"} /\ UNCHANGED <<mmc, card, files>>
            /\ slot'.high_capacity = slot.high_capacity
<1>1. \/ UNCHANGED seen
      \/ /\ pc = "acmd51" /\ pc' \in {"acmd6", "cmd6"} /\ UNCHANGED <<mmc, card, files>>
         /\ slot' = [slot EXCEPT !.four_bit = card.kind.four_bit,
                                 !.past_v1_10 = slot.past_v1_10 \/ card.kind.past_v1_10]
  BY CommandEffect DEF sd_exec_acmd_51, DataCommand
<1>2. QED
  BY <1>1 DEF Types, SlotFields

LEMMA Acmd6Effect ==
  ASSUME Types, sd_exec_acmd_6
  PROVE  \/ UNCHANGED seen
         \/ /\ pc = "acmd6" /\ pc' = "cmd6" /\ card.state = "tran" /\ mmc'.width = 4
            /\ card.present /\ card'.present /\ card'.kind = card.kind /\ card'.state = "tran"
            /\ card'.width = 4 /\ card'.lba = card.lba /\ UNCHANGED <<slot, files>>
<1>1. \/ UNCHANGED seen
      \/ /\ pc = "acmd6" /\ Answers(106, 0) /\ pc' = "cmd6" /\ mmc' = mmc_set_bus_width(mmc, 4)
         /\ card' = [card EXCEPT !.width = 4] /\ UNCHANGED <<slot, files>>
  BY DEF sd_exec_acmd_6, Panic, rest, seen, files
<1>2. mmc_set_bus_width(mmc, 4).width = 4
  BY DEF mmc_set_bus_width, Types, Mmc
<1>3. QED
  BY <1>1, <1>2, AnswerFacts DEF Types, CardFields

LEMMA Cmd6Bus ==
  ASSUME Types, sd_exec_cmd_6
  PROVE  \/ UNCHANGED seen
         \/ /\ pc = "cmd6" /\ pc' = "ready" /\ mmc'.width = mmc.width
            /\ slot'.high_capacity = slot.high_capacity /\ UNCHANGED <<card, files>>
<1>1. mmc_enable_high_speed(mmc) \in Mmc /\ mmc_enable_high_speed(mmc).width = mmc.width
  BY DEF mmc_enable_high_speed, Types, Mmc
<1>2. mmc \in Mmc
  BY DEF Types
<1>3. /\ mmc_set_bus_freq(mmc_enable_high_speed(mmc), 50000).width = mmc.width
      /\ mmc_set_bus_freq(mmc, 25000).width = mmc.width
  BY <1>1, <1>2, SetFreq DEF Freqs
<1>4. \/ UNCHANGED seen
      \/ /\ pc = "cmd6" /\ pc' = "ready" /\ UNCHANGED <<card, files>>
         /\ \/ mmc' = mmc
            \/ mmc' = mmc_set_bus_freq(mmc_enable_high_speed(mmc), 50000)
            \/ mmc' = mmc_set_bus_freq(mmc, 25000)
         /\ slot' = slot \/ slot' = [slot EXCEPT !.high_speed = card.kind.high_speed]
  BY DEF sd_exec_cmd_6, Panic, rest, seen, files
<1>5. slot' = [slot EXCEPT !.high_speed = card.kind.high_speed] =>
        slot'.high_capacity = slot.high_capacity
  BY DEF Types, SlotFields
<1>6. QED
  BY <1>3, <1>4, <1>5

LEMMA StartEffect ==
  ASSUME Types, SdStart
  PROVE  /\ pc = "init" /\ pc' = "cmd8" /\ UNCHANGED files
         /\ mmc'.width = 1 /\ {2, 4, 5, 6, 8} \subseteq mmc'.div /\ mmc'.odd = 1
         /\ card'.present = card.present
         /\ card.present => /\ card'.kind = card.kind /\ card'.state = "idle" /\ card'.width = 1
                            /\ card'.lba = card.lba
<1>1. pc = "init" /\ pc' = "cmd8" /\ UNCHANGED files /\ mmc' = StartInterface(mmc)
  BY DEF SdStart, rest, files
<1>2. mmc \in Mmc
  BY DEF Types
<1>3. card' = IF card.present THEN [card EXCEPT !.state = "idle", !.rca = 0, !.width = 1] ELSE card
  BY DEF SdStart, sd_exec_cmd_0
<1>4. /\ card'.present = card.present
      /\ card.present => /\ card'.kind = card.kind /\ card'.state = "idle" /\ card'.width = 1
                         /\ card'.lba = card.lba
  BY <1>3 DEF Types, CardFields
<1>5. QED
  BY <1>1, <1>2, <1>4, StartFacts

\* The partition that comes next on a card.
LEMMA NextFacts ==
  ASSUME Types, card.present, NEW p \in Nat
  PROVE  \/ /\ NextPart(p) = -1
            /\ \A i \in DOMAIN card.kind.parts : i > p => card.kind.parts[i].lba = 0
         \/ /\ NextPart(p) # -1 /\ NextPart(p) \in DOMAIN card.kind.parts /\ NextPart(p) > p
            /\ card.kind.parts[NextPart(p)].lba # 0
            /\ \A i \in DOMAIN card.kind.parts :
                 i > p /\ i < NextPart(p) => card.kind.parts[i].lba = 0
<1> DEFINE more == {i \in DOMAIN card.kind.parts : i > p /\ card.kind.parts[i].lba # 0}
<1>1. DOMAIN card.kind.parts \subseteq 1 .. 4
  BY SdAssumption DEF Types
<1>2. NextPart(p) = IF more = {} THEN -1 ELSE Min(more)
  BY DEF NextPart
<1>3. CASE more = {}
  BY <1>2, <1>3
<1>4. CASE more # {}
  <2>1. more \subseteq Nat
    BY <1>1
  <2>2. Min(more) \in more /\ \A i \in more : Min(more) <= i
    BY <1>4, <2>1, MinFacts
  <2>3. PICK n : n = NextPart(p)
    OBVIOUS
  <2>4. n \in more /\ \A i \in more : n <= i
    BY <1>2, <1>4, <2>2, <2>3
  <2>5. ASSUME NEW i \in DOMAIN card.kind.parts, i > p, i < n
        PROVE  card.kind.parts[i].lba = 0
    <3>1. i \notin more
      BY <1>1, <2>1, <2>4, <2>5
    <3>2. QED
      BY <2>5, <3>1
  <2>6. n \in Nat /\ n # -1
    BY <2>1, <2>4
  <2>7. QED
    BY <2>3, <2>4, <2>5, <2>6
<1>5. QED
  BY <1>3, <1>4

LEMMA SectorNat ==
  ASSUME Types, card.present, part = MbrPart \/ part \in DOMAIN card.kind.parts
  PROVE  Sector(part) \in Nat
<1>1. CASE part = MbrPart
  BY <1>1 DEF Sector
<1>2. CASE part # MbrPart
  <2>1. {card.kind.parts[part].lba, card.kind.parts[part].bpb.rsvd_cnt,
          card.kind.parts[part].bpb.num_fats, card.kind.parts[part].bpb.fat_size_32} \subseteq Nat
    BY <1>2, SdAssumption DEF Types
  <2>2. ASSUME NEW a \in Nat, NEW b \in Nat, NEW c \in Nat, NEW d \in Nat
        PROVE  a + b + c * d \in Nat
    OBVIOUS
  <2>3. RootLba(card.kind.parts[part]) \in Nat
    BY <2>1, <2>2 DEF RootLba
  <2>4. QED
    BY <1>2, <2>1, <2>3 DEF Sector
<1>3. QED
  BY <1>1, <1>2

LEMMA SectorSame ==
  card'.kind = card.kind /\ UNCHANGED <<part, label>> => Sector(part)' = Sector(part)
BY DEF Sector

LEMMA ReadBlockEffect ==
  ASSUME Types, ReadBlock
  PROVE  \/ UNCHANGED seen
         \/ /\ pc = "cmd17" /\ pc' = "data" /\ card.present /\ card.state = "tran"
            /\ card'.present /\ card'.kind = card.kind /\ card'.state = "tran"
            /\ card'.width = card.width
            /\ card'.lba = IF card.kind.hc THEN ReadArg(Sector(part))
                           ELSE ReadArg(Sector(part)) \div 512
            /\ UNCHANGED <<slot, mmc, files>>
<1>1. \/ UNCHANGED seen
      \/ /\ pc = "cmd17" /\ Answers(17, slot.rca) /\ pc' = "data"
         /\ card' = [card EXCEPT !.lba = IF card.kind.hc THEN ReadArg(Sector(part))
                                         ELSE ReadArg(Sector(part)) \div 512]
         /\ UNCHANGED <<slot, mmc, files>>
  BY CommandEffect DEF ReadBlock, DataCommand
<1>2. QED
  BY <1>1, AnswerFacts DEF Types, CardFields

\* The four ways disk_mount goes on with a sector.
Found == part # MbrPart /\ ~label /\ fat_search(card.kind.parts[part].bpb)
Refused == part = MbrPart /\ ~card.kind.mbr

LEMMA ReadDataEffect ==
  ASSUME Types, ReadData
  PROVE  /\ pc = "data" /\ card.present /\ card.lba # -1
         /\ card'.present /\ card'.kind = card.kind /\ card'.state = card.state
         /\ card'.width = card.width /\ card'.lba = -1
         /\ UNCHANGED <<slot, mmc, ejecting>>
         /\ volumes' = IF label THEN fat_volume_add(volumes, "SD", card.kind.parts[part].lba)
                       ELSE volumes
         /\ \/ Refused /\ ~label' /\ pc' = "retry" /\ part' = MbrPart /\ sd_status' = sd_status
            \/ Found /\ label' /\ pc' = "ready" /\ part' = part /\ sd_status' = sd_status
            \/ /\ ~Refused /\ ~Found /\ NextPart(part) = -1
               /\ ~label' /\ pc' = "eject" /\ part' = MbrPart /\ sd_status' /\ mounted' = card.kind
            \/ /\ ~Refused /\ ~Found /\ NextPart(part) # -1
               /\ ~label' /\ pc' = "ready" /\ part' = NextPart(part) /\ sd_status' = sd_status
<1>1. card' = [card EXCEPT !.lba = -1] /\ card.present /\ card.lba # -1
  BY DEF ReadData, mmc_read_data
<1>2. /\ card'.present /\ card'.kind = card.kind /\ card'.state = card.state
      /\ card'.width = card.width /\ card'.lba = -1
  BY <1>1 DEF Types, CardFields
<1>3. ~(Refused /\ Found)
  BY DEF Refused, Found
<1>4. /\ pc = "data" /\ UNCHANGED <<slot, mmc, ejecting>>
      /\ volumes' = IF label THEN fat_volume_add(volumes, "SD", card.kind.parts[part].lba)
                    ELSE volumes
  BY DEF ReadData
<1>5. LET done == ~Found /\ ~Refused /\ NextPart(part) = -1
      IN /\ label' = Found
         /\ mounted' = IF done THEN card.kind ELSE mounted
         /\ pc' = IF Refused THEN "retry" ELSE IF done THEN "eject" ELSE "ready"
         /\ part' = IF Refused \/ done THEN MbrPart ELSE IF Found THEN part ELSE NextPart(part)
         /\ sd_status' = (done \/ sd_status)
  BY Zenon DEF ReadData, Found, Refused
<1>6. label' <=> Found
  BY <1>5
<1>7. sd_status \in BOOLEAN
  BY DEF Types
<1>8. QED
  BY <1>1, <1>2, <1>3, <1>4, <1>5, <1>6, <1>7

-----------------------------------------------------------------------------
(***************************************************************************)
(* The bus: what host and card know of each other                          *)
(***************************************************************************)
Outside == {"poll", "mount", "init", "retry", "eject", "walk"}

\* The steps that leave host interface and card alone.
Quiet == \/ OtherDisk \/ Poll \/ Mount \/ RemovedInTransfer \/ ReadStatus \/ Retry
         \/ Eject \/ EjectVolume \/ Ejected \/ UNCHANGED vars

LEMMA QuietEffect ==
  ASSUME Quiet
  PROVE  /\ UNCHANGED <<slot, mmc, card, part, label>>
         /\ \/ pc' = pc
            \/ pc \in Outside /\ pc' \in Outside
            \/ pc = "ready" /\ pc' = "cmd17"
            \/ ~card.present /\ pc \in {"acmd51", "cmd6"} /\ pc' = "data"
<1>1. CASE OtherDisk
  BY <1>1 DEF OtherDisk
<1>2. CASE Poll
  BY <1>2 DEF Poll, Outside
<1>3. CASE Mount
  BY <1>3 DEF Mount, Panic, rest, Outside
<1>4. CASE RemovedInTransfer
  BY <1>4 DEF RemovedInTransfer, rest
<1>5. CASE ReadStatus
  BY <1>5 DEF ReadStatus, Panic, rest
<1>6. CASE Retry
  BY <1>6 DEF Retry, rest, Outside
<1>7. CASE Eject
  BY <1>7 DEF Eject, Outside
<1>8. CASE EjectVolume
  BY <1>8 DEF EjectVolume
<1>9. CASE Ejected
  BY <1>9 DEF Ejected, Outside
<1>10. CASE UNCHANGED vars
  BY <1>10 DEF vars
<1>11. QED
  BY <1>1, <1>2, <1>3, <1>4, <1>5, <1>6, <1>7, <1>8, <1>9, <1>10 DEF Quiet

CardInOut ==
  /\ UNCHANGED <<pc, slot, mmc, files>>
  /\ \/ ~card.present /\ card'.present /\ card'.state = "idle" /\ card'.width = 1 /\ card'.lba = -1
     \/ ~card'.present

LEMMA CardInOutEffect == CardIn \/ CardOut => CardInOut
<1>1. CardIn => CardInOut
  BY DEF CardIn, CardInOut, files
<1>2. CardOut => CardInOut
  BY DEF CardOut, NoCard, CardInOut, files
<1>3. QED
  BY <1>1, <1>2

LEMMA LearntStep == Types /\ Learnt /\ [Next]_vars => Learnt'
<1> SUFFICES ASSUME Types, Learnt, [Next]_vars PROVE Learnt'
  OBVIOUS
<1> USE DEF Learnt, OneLane, Identifying
<1>1. CASE Quiet
  BY <1>1, QuietEffect DEF Outside
<1>2. CASE CardIn \/ CardOut
  BY <1>2, CardInOutEffect DEF CardInOut
<1>3. CASE SdStart
  BY <1>3, StartEffect
<1>4. CASE UNCHANGED seen
  BY <1>4 DEF seen
<1>5. CASE sd_exec_cmd_8
  BY <1>4, <1>5, Cmd8Effect
<1>6. CASE Acmd41Prefix
  BY <1>4, <1>6, PrefixEffect
<1>7. CASE sd_exec_acmd_41
  BY <1>4, <1>7, Acmd41Effect DEF CardTo
<1>8. CASE sd_exec_cmd_2
  BY <1>4, <1>8, Cmd2Effect DEF CardTo
<1>9. CASE sd_exec_cmd_3
  BY <1>4, <1>9, Cmd3Effect DEF CardTo
<1>10. CASE sd_exec_cmd_9
  BY <1>4, <1>10, Cmd9Effect
<1>11. CASE sd_exec_cmd_7
  BY <1>4, <1>11, Cmd7Effect DEF CardTo
<1>12. CASE sd_exec_acmd_51
  BY <1>4, <1>12, Acmd51Effect
<1>13. CASE sd_exec_acmd_6
  BY <1>4, <1>13, Acmd6Effect
<1>14. CASE sd_exec_cmd_6
  BY <1>4, <1>14, Cmd6Bus
<1>15. CASE ReadBlock
  BY <1>4, <1>15, ReadBlockEffect
<1>16. CASE ReadData
  BY <1>16, ReadDataEffect
<1>17. QED
  BY <1>1, <1>2, <1>3, <1>5, <1>6, <1>7, <1>8, <1>9, <1>10, <1>11, <1>12, <1>13, <1>14, <1>15, <1>16
     DEF Next, Thread, SdInit, Quiet

LEMMA PartKnownStep == Types /\ PartKnown /\ InFlight /\ [Next]_vars => PartKnown'
<1> SUFFICES ASSUME Types, PartKnown, InFlight, [Next]_vars PROVE PartKnown'
  OBVIOUS
<1> USE DEF PartKnown, Reading, files
<1>1. CASE Quiet
  BY <1>1, QuietEffect DEF Outside
<1>2. CASE CardIn \/ CardOut
  BY <1>2, CardInOutEffect DEF CardInOut
<1>3. CASE SdStart
  BY <1>3, StartEffect
<1>4. CASE UNCHANGED seen
  BY <1>4 DEF seen
<1>5. CASE sd_exec_cmd_8
  BY <1>4, <1>5, Cmd8Effect
<1>6. CASE Acmd41Prefix
  BY <1>4, <1>6, PrefixEffect
<1>7. CASE sd_exec_acmd_41
  BY <1>4, <1>7, Acmd41Effect DEF CardTo
<1>8. CASE sd_exec_cmd_2
  BY <1>4, <1>8, Cmd2Effect DEF CardTo
<1>9. CASE sd_exec_cmd_3
  BY <1>4, <1>9, Cmd3Effect DEF CardTo
<1>10. CASE sd_exec_cmd_9
  BY <1>4, <1>10, Cmd9Effect
<1>11. CASE sd_exec_cmd_7
  BY <1>4, <1>11, Cmd7Effect DEF CardTo
<1>12. CASE sd_exec_acmd_51
  BY <1>4, <1>12, Acmd51Effect
<1>13. CASE sd_exec_acmd_6
  BY <1>4, <1>13, Acmd6Effect
<1>14. CASE sd_exec_cmd_6
  BY <1>4, <1>14, Cmd6Bus
<1>15. CASE ReadBlock
  BY <1>4, <1>15, ReadBlockEffect
<1>16. CASE ReadData
  <2>1. card.present /\ card.state = "tran" /\ pc = "data"
    BY <1>16, ReadDataEffect DEF InFlight
  <2>2. part \in Nat
    BY <2>1, SdAssumption DEF Types, MbrPart
  <2>3. NextPart(part) # -1 =>
          /\ NextPart(part) \in DOMAIN card.kind.parts /\ card.kind.parts[NextPart(part)].lba # 0
    BY <2>1, <2>2, NextFacts
  <2>4. QED
    BY <1>16, <2>1, <2>3, ReadDataEffect DEF Found
<1>17. QED
  BY <1>1, <1>2, <1>3, <1>5, <1>6, <1>7, <1>8, <1>9, <1>10, <1>11, <1>12, <1>13, <1>14, <1>15, <1>16
     DEF Next, Thread, SdInit, Quiet

LEMMA InFlightStep == Types /\ Learnt /\ PartKnown /\ InFlight /\ [Next]_vars => InFlight'
<1> SUFFICES ASSUME Types, Learnt, PartKnown, InFlight, [Next]_vars PROVE InFlight'
  OBVIOUS
<1> USE DEF InFlight
<1>0. CASE UNCHANGED <<card, part, label, pc>>
  <2>1. Sector(part)' = Sector(part)
    BY <1>0, SectorSame
  <2>2. QED
    BY <1>0, <2>1
<1>1. CASE Quiet
  BY <1>0, <1>1, QuietEffect DEF Outside
<1>2. CASE CardIn \/ CardOut
  BY <1>2, CardInOutEffect DEF CardInOut
<1>3. CASE SdStart
  BY <1>3, StartEffect
<1>4. CASE UNCHANGED seen
  BY <1>0, <1>4 DEF seen, files
<1>5. CASE sd_exec_cmd_8
  BY <1>4, <1>5, Cmd8Effect
<1>6. CASE Acmd41Prefix
  BY <1>4, <1>6, PrefixEffect
<1>7. CASE sd_exec_acmd_41
  BY <1>4, <1>7, Acmd41Effect DEF CardTo
<1>8. CASE sd_exec_cmd_2
  BY <1>4, <1>8, Cmd2Effect DEF CardTo
<1>9. CASE sd_exec_cmd_3
  BY <1>4, <1>9, Cmd3Effect DEF CardTo
<1>10. CASE sd_exec_cmd_9
  BY <1>4, <1>10, Cmd9Effect
<1>11. CASE sd_exec_cmd_7
  BY <1>4, <1>11, Cmd7Effect DEF CardTo
<1>12. CASE sd_exec_acmd_51
  BY <1>4, <1>12, Acmd51Effect
<1>13. CASE sd_exec_acmd_6
  BY <1>4, <1>13, Acmd6Effect
<1>14. CASE sd_exec_cmd_6
  BY <1>4, <1>14, Cmd6Bus
<1>15. CASE ReadBlock
  <2>1. CASE ~UNCHANGED seen
    <3>1. /\ pc = "cmd17" /\ pc' = "data" /\ card.present /\ card.state = "tran"
          /\ card'.present /\ card'.kind = card.kind /\ card'.state = "tran"
          /\ card'.lba = IF card.kind.hc THEN ReadArg(Sector(part))
                         ELSE ReadArg(Sector(part)) \div 512
          /\ UNCHANGED <<part, label>>
      BY <1>15, <2>1, ReadBlockEffect DEF files
    <3>2. part = MbrPart \/ part \in DOMAIN card.kind.parts
      BY <3>1 DEF PartKnown, Reading
    <3>3. Sector(part) \in Nat
      BY <3>1, <3>2, SectorNat
    <3>4. slot.high_capacity = card.kind.hc
      BY <3>1 DEF Learnt
    <3>5. \A n \in Nat : (n * 512) \div 512 = n
      OBVIOUS
    <3>6. card'.lba = Sector(part)
      BY <3>1, <3>3, <3>4, <3>5 DEF ReadArg
    <3>7. Sector(part)' = Sector(part)
      BY <3>1, SectorSame
    <3>8. QED
      BY <3>1, <3>6, <3>7
  <2>2. QED
    BY <1>4, <2>1
<1>16. CASE ReadData
  BY <1>16, ReadDataEffect
<1>17. QED
  BY <1>1, <1>2, <1>3, <1>5, <1>6, <1>7, <1>8, <1>9, <1>10, <1>11, <1>12, <1>13, <1>14, <1>15, <1>16
     DEF Next, Thread, SdInit, Quiet

-----------------------------------------------------------------------------
(***************************************************************************)
(* The list of volumes                                                     *)
(***************************************************************************)
LEMMA GoodFacts ==
  ASSUME NEW v, GoodVolumes(v)
  PROVE  /\ v.list \in Seq(Volume) /\ Len(v.list) \in Nat /\ DOMAIN v.list = 1 .. Len(v.list)
         /\ v = [list |-> v.list, bitmask |-> v.bitmask]
         /\ IsInjective(v.list) /\ Range(v.list) \subseteq Volume
         /\ \A a, b \in Range(v.list) : a.letter = b.letter => a = b
         /\ \A l : l \in v.bitmask <=> \E a \in Range(v.list) : a.letter = l
<1>1. v.list \in Seq(Volume) /\ v = [list |-> v.list, bitmask |-> v.bitmask]
  BY DEF GoodVolumes
<1>2. Len(v.list) \in Nat /\ DOMAIN v.list = 1 .. Len(v.list)
  BY <1>1, LenProperties
<1>3. IsInjective(v.list)
  BY DEF GoodVolumes, IsInjective
<1>4. Range(v.list) \subseteq Volume
  BY <1>1, <1>2, ElementOfSeq DEF Range
<1>5. \A a, b \in Range(v.list) : a.letter = b.letter => a = b
  BY DEF GoodVolumes, Range
<1>6. \A l : l \in v.bitmask <=> \E a \in Range(v.list) : a.letter = l
  BY DEF GoodVolumes, Range
<1>7. QED
  BY <1>1, <1>2, <1>3, <1>4, <1>5, <1>6

\* GoodVolumes from what is known of the volumes as a set.
LEMMA GoodFrom ==
  ASSUME NEW q \in Seq(Volume), NEW m, IsInjective(q),
         \A a, b \in Range(q) : a.letter = b.letter => a = b,
         \A l : l \in m <=> \E a \in Range(q) : a.letter = l
  PROVE  GoodVolumes([list |-> q, bitmask |-> m])
<1> DEFINE v == [list |-> q, bitmask |-> m]
<1>1. DOMAIN q = 1 .. Len(q) /\ \A i \in DOMAIN q : q[i] \in Volume /\ q[i] \in Range(q)
  BY LenProperties, ElementOfSeq DEF Range
<1>2. m \subseteq 0 .. Letters - 1
  <2>1. ASSUME NEW l \in m PROVE l \in 0 .. Letters - 1
    <3>1. PICK i \in DOMAIN q : q[i].letter = l
      BY <2>1 DEF Range
    <3>2. QED
      BY <1>1, <3>1 DEF Volume
  <2>2. QED
    BY <2>1
<1>3. \A i, j \in DOMAIN q : q[i].letter = q[j].letter => i = j
  BY <1>1 DEF IsInjective
<1>4. m = {q[i].letter : i \in DOMAIN q}
  BY DEF Range
<1>5. v.list = q /\ v.bitmask = m
  OBVIOUS
<1>6. v \in [list : Seq(Volume), bitmask : SUBSET (0 .. Letters - 1)]
  BY <1>2
<1> HIDE DEF v
<1>7. GoodVolumes(v)
  BY <1>3, <1>4, <1>5, <1>6 DEF GoodVolumes
<1>8. QED
  BY <1>7 DEF v

LEMMA AppendRange ==
  ASSUME NEW S, NEW q \in Seq(S), NEW e \in S
  PROVE  /\ Append(q, e) \in Seq(S) /\ Range(Append(q, e)) = Range(q) \cup {e}
         /\ IsInjective(q) /\ e \notin Range(q) => IsInjective(Append(q, e))
<1>1. /\ Append(q, e) \in Seq(S) /\ Len(Append(q, e)) = Len(q) + 1 /\ Len(q) \in Nat
      /\ \A i \in 1 .. Len(q) : Append(q, e)[i] = q[i]
      /\ Append(q, e)[Len(q) + 1] = e
  BY AppendProperties, LenProperties
<1>2. DOMAIN Append(q, e) = 1 .. Len(q) + 1 /\ DOMAIN q = 1 .. Len(q)
  BY <1>1, LenProperties
<1>3. 1 .. Len(q) + 1 = (1 .. Len(q)) \cup {Len(q) + 1}
  BY <1>1
<1>4. Range(Append(q, e)) = Range(q) \cup {e}
  BY <1>1, <1>2, <1>3 DEF Range
<1>5. ASSUME IsInjective(q), e \notin Range(q) PROVE IsInjective(Append(q, e))
  <2>1. \A i \in 1 .. Len(q) : Append(q, e)[i] # e
    BY <1>1, <1>2, <1>5 DEF Range
  <2>2. SUFFICES ASSUME NEW i \in 1 .. Len(q) + 1, NEW j \in 1 .. Len(q) + 1,
                        Append(q, e)[i] = Append(q, e)[j]
                 PROVE  i = j
    BY <1>2 DEF IsInjective
  <2>3. CASE i \in 1 .. Len(q) /\ j \in 1 .. Len(q)
    BY <1>1, <1>2, <1>5, <2>2, <2>3 DEF IsInjective
  <2>4. QED
    BY <1>1, <1>3, <2>1, <2>2, <2>3
<1>6. QED
  BY <1>1, <1>4, <1>5

\* fat_volume_add with a letter free.
LEMMA AddVolume ==
  ASSUME NEW v, GoodVolumes(v), v.bitmask # 0 .. Letters - 1, NEW d, d = "SD" \/ d = "USB", NEW p \in Nat,
         NEW w, w = fat_volume_add(v, d, p)
  PROVE  GoodVolumes(w) /\ \E a : a.disk = d /\ a.part = p /\ Range(w.list) = Range(v.list) \cup {a}
<1> DEFINE free == (0 .. Letters - 1) \ v.bitmask
           l == Min(free)
           a == [letter |-> l, disk |-> d, part |-> p]
<1>1. v.bitmask \subseteq 0 .. Letters - 1
  BY DEF GoodVolumes
<1>2. free # {} /\ free \in SUBSET Nat
  <2>1. \E n \in 0 .. Letters - 1 : n \notin v.bitmask
    BY <1>1
  <2>2. 0 .. Letters - 1 \subseteq Nat
    OBVIOUS
  <2>3. QED
    BY <2>1, <2>2
<1>3. l \in free
  <2> HIDE DEF free
  <2>1. QED
    BY <1>2, MinFacts
<1>4. w = [list |-> Append(v.list, a), bitmask |-> v.bitmask \cup {l}]
  BY <1>2 DEF fat_volume_add
<1>5. l \in 0 .. Letters - 1 /\ l \notin v.bitmask
  BY <1>3
<1> HIDE DEF l, free
<1>6. a \in Volume /\ a.letter = l /\ a.disk = d /\ a.part = p
  BY <1>5 DEF Volume
<1> HIDE DEF a
<1>7. a \notin Range(v.list)
  BY <1>5, <1>6, GoodFacts
<1>8. /\ Append(v.list, a) \in Seq(Volume) /\ IsInjective(Append(v.list, a))
      /\ Range(Append(v.list, a)) = Range(v.list) \cup {a}
  BY <1>6, <1>7, AppendRange, GoodFacts
<1>9. GoodVolumes([list |-> Append(v.list, a), bitmask |-> v.bitmask \cup {l}])
  <2>1. \A b, c \in Range(Append(v.list, a)) : b.letter = c.letter => b = c
    BY <1>5, <1>6, <1>8, GoodFacts
  <2>2. \A k : k \in v.bitmask \cup {l} <=> \E b \in Range(Append(v.list, a)) : b.letter = k
    BY <1>6, <1>8, GoodFacts
  <2>3. QED
    BY <1>8, <2>1, <2>2, GoodFrom
<1>10. Range(w.list) = Range(v.list) \cup {a}
  BY <1>4, <1>8
<1>11. QED
  BY <1>4, <1>6, <1>9, <1>10

\* fat_volume_remove of a volume that is in the list.
LEMMA RemoveVolume ==
  ASSUME NEW v, GoodVolumes(v), NEW a \in Range(v.list)
  PROVE  /\ GoodVolumes(fat_volume_remove(v, a.letter))
         /\ Range(fat_volume_remove(v, a.letter).list) = Range(v.list) \ {a}
<1> DEFINE at == fat_volume_find(v, a.letter)
<1>1. PICK i \in DOMAIN v.list : v.list[i] = a
  BY DEF Range
<1>2. at = {i}
  BY <1>1 DEF fat_volume_find, GoodVolumes
<1>3. Min(at) = i
  BY <1>1, <1>2, GoodFacts, MinFacts
<1>4. fat_volume_remove(v, a.letter)
        = [list |-> RemoveAt(v.list, i), bitmask |-> v.bitmask \ {a.letter}]
  BY <1>2, <1>3 DEF fat_volume_remove
<1>5. /\ RemoveAt(v.list, i) \in Seq(Volume) /\ IsInjective(RemoveAt(v.list, i))
      /\ Range(RemoveAt(v.list, i)) = Range(v.list) \ {a}
  BY <1>1, GoodFacts, RemoveAtFacts, RemoveAtRange
<1>6. GoodVolumes([list |-> RemoveAt(v.list, i), bitmask |-> v.bitmask \ {a.letter}])
  <2>1. \A b, c \in Range(RemoveAt(v.list, i)) : b.letter = c.letter => b = c
    BY <1>5, GoodFacts
  <2>2. \A k : k \in v.bitmask \ {a.letter} <=> \E b \in Range(RemoveAt(v.list, i)) : b.letter = k
    BY <1>5, GoodFacts
  <2>3. QED
    BY <1>5, <2>1, <2>2, GoodFrom
<1>7. QED
  BY <1>4, <1>5, <1>6

\* At most five volumes never use up the letters.
LEMMA FreeLetter ==
  ASSUME NEW v, GoodVolumes(v), NEW g \in [Range(v.list) -> 0 .. 4],
         \A a, b \in Range(v.list) : g[a] = g[b] => a = b
  PROVE  v.bitmask # 0 .. Letters - 1
<1> DEFINE of(l) == CHOOSE a \in Range(v.list) : a.letter = l
           f == [l \in v.bitmask |-> g[of(l)]]
<1>1. \A l \in v.bitmask : of(l) \in Range(v.list) /\ of(l).letter = l
  BY GoodFacts
<1> HIDE DEF of
<1>2. f \in [v.bitmask -> 0 .. 4]
  BY <1>1
<1>3. \A l, m \in v.bitmask : f[l] = f[m] => l = m
  BY <1>1
<1> HIDE DEF f
<1>4. f \in Injection(v.bitmask, 0 .. 4)
  BY <1>2, <1>3 DEF Injection, IsInjective
<1>5. IsFiniteSet(0 .. 4) /\ Cardinality(0 .. 4) = 5
  <2>1. 0 \in Int /\ 4 \in Int /\ ~(0 > 4) /\ 4 - 0 + 1 = 5
    OBVIOUS
  <2>2. \A a, b \in Int : IsFiniteSet(a .. b) /\ Cardinality(a .. b) = IF a > b THEN 0 ELSE b - a + 1
    BY FS_Interval
  <2>3. QED
    BY <2>1, <2>2
<1>6. Cardinality(v.bitmask) <= 5
  BY <1>4, <1>5, FS_Injection
<1>7. Cardinality(0 .. Letters - 1) = Letters
  BY LettersAssumption, FS_Interval
<1>8. QED
  BY <1>6, <1>7, LettersAssumption

LEMMA LetterLeft ==
  ASSUME NEW v, GoodVolumes(v), NEW k \in Cards, VolumesOf(k, Range(v.list))
  PROVE  v.bitmask # 0 .. Letters - 1
<1> DEFINE of(a) == CHOOSE j \in DOMAIN k.parts : k.parts[j].lba = a.part
           g == [a \in Range(v.list) |-> IF a.disk = "USB" THEN 0 ELSE of(a)]
<1>1. \A a \in Range(v.list) : a.disk \in {"SD", "USB"}
  BY GoodFacts DEF Volume
<1>2. \A a \in Range(v.list) : a.disk = "SD" => of(a) \in DOMAIN k.parts /\ k.parts[of(a)].lba = a.part
  BY DEF VolumesOf, Fat32Parts
<1>3. DOMAIN k.parts \subseteq 1 .. 4
  BY SdAssumption
<1> HIDE DEF of
<1>4. g \in [Range(v.list) -> 0 .. 4]
  BY <1>1, <1>2, <1>3
<1>5. ASSUME NEW a \in Range(v.list), NEW b \in Range(v.list), g[a] = g[b] PROVE a = b
  <2>1. a.disk = b.disk
    BY <1>1, <1>2, <1>3, <1>5
  <2>2. a.disk = "SD" => a.part = b.part
    BY <1>2, <1>5, <2>1
  <2>3. QED
    BY <2>1, <2>2 DEF VolumesOf
<1> HIDE DEF g
<1>6. QED
  BY <1>4, <1>5, FreeLetter

\* Without the card's volumes there is at most one.
LEMMA NoSdVolumes ==
  ASSUME NEW vs \in SUBSET Volume, SdParts(vs) = {},
         \A a, b \in vs : a.disk = "USB" /\ b.disk = "USB" => a = b
  PROVE  /\ \A a, b \in vs : a = b
         /\ \A a \in vs : a.disk = "USB"
         /\ \A k : VolumesOf(k, vs)
<1>1. \A a \in vs : a.disk = "USB"
  BY DEF SdParts, Volume
<1>2. QED
  BY <1>1 DEF VolumesOf

LEMMA LetterLeftNoSd ==
  ASSUME NEW v, GoodVolumes(v), \A a, b \in Range(v.list) : a = b
  PROVE  v.bitmask # 0 .. Letters - 1
<1> DEFINE g == [a \in Range(v.list) |-> 0]
<1>1. g \in [Range(v.list) -> 0 .. 4]
  OBVIOUS
<1> HIDE DEF g
<1>2. QED
  BY <1>1, FreeLetter

LEMMA FewerVolumes ==
  ASSUME NEW k, NEW vs, NEW ws \in SUBSET vs, VolumesOf(k, vs)
  PROVE  VolumesOf(k, ws)
BY DEF VolumesOf

LEMMA BeforeNone == ASSUME NEW k \in Cards PROVE PartsBefore(k, MbrPart) = {}
<1>1. DOMAIN k.parts \subseteq 1 .. 4
  BY SdAssumption
<1>2. QED
  BY <1>1 DEF PartsBefore, MbrPart

\* From a partition to the next that disk_mount looks at.
LEMMA BeforeNext ==
  ASSUME NEW k \in Cards, NEW p \in Nat, NEW n \in Nat, p < n,
         \A i \in DOMAIN k.parts : i > p /\ i < n => k.parts[i].lba = 0
  PROVE  PartsBefore(k, n) =
           PartsBefore(k, p) \cup
             {k.parts[i].lba : i \in {j \in DOMAIN k.parts :
                j = p /\ k.parts[j].lba # 0 /\ fat_search(k.parts[j].bpb)}}
<1>1. DOMAIN k.parts \subseteq 1 .. 4
  BY SdAssumption
<1>2. \A i \in DOMAIN k.parts : k.parts[i].lba # 0 => (i < n <=> i < p \/ i = p)
  BY <1>1
<1>3. QED
  BY <1>2 DEF PartsBefore

LEMMA BeforeEnd ==
  ASSUME NEW k \in Cards, NEW p \in Nat, \A i \in DOMAIN k.parts : i > p => k.parts[i].lba = 0
  PROVE  Fat32Parts(k) =
           PartsBefore(k, p) \cup
             {k.parts[i].lba : i \in {j \in DOMAIN k.parts :
                j = p /\ k.parts[j].lba # 0 /\ fat_search(k.parts[j].bpb)}}
<1>1. DOMAIN k.parts \subseteq 1 .. 4
  BY SdAssumption
<1>2. \A i \in DOMAIN k.parts : k.parts[i].lba # 0 => i < p \/ i = p
  BY <1>1
<1>3. QED
  BY <1>2 DEF PartsBefore, Fat32Parts

\* The volume of a partition joins those of the partitions before it.
LEMMA AddPart ==
  ASSUME NEW k \in Cards, NEW vs, NEW p \in DOMAIN k.parts, NEW a,
         k.parts[p].lba # 0, fat_search(k.parts[p].bpb),
         a.disk = "SD", a.part = k.parts[p].lba,
         VolumesOf(k, vs), SdParts(vs) = PartsBefore(k, p)
  PROVE  /\ VolumesOf(k, vs \cup {a})
         /\ SdParts(vs \cup {a}) = PartsBefore(k, p) \cup {k.parts[p].lba}
<1>1. DOMAIN k.parts \subseteq 1 .. 4 /\ \A i, j \in DOMAIN k.parts :
        k.parts[i].lba = k.parts[j].lba /\ k.parts[i].lba # 0 => i = j
  BY SdAssumption
<1>2. k.parts[p].lba \notin PartsBefore(k, p)
  BY <1>1 DEF PartsBefore
<1>3. a.part \in Fat32Parts(k)
  BY DEF Fat32Parts
<1>4. \A b \in vs : b.disk = "SD" => b.part # a.part
  BY <1>2 DEF SdParts
<1>5. VolumesOf(k, vs \cup {a})
  BY <1>3, <1>4 DEF VolumesOf
<1>6. SdParts(vs \cup {a}) = SdParts(vs) \cup {a.part}
  BY DEF SdParts
<1>7. QED
  BY <1>5, <1>6

-----------------------------------------------------------------------------
(***************************************************************************)
(* Mounting and ejecting                                                   *)
(***************************************************************************)
ReadingRight ==
  card.present /\ card.state = "tran" /\ pc \in Reading =>
    /\ VolumesOf(card.kind, Vols)
    /\ SdParts(Vols) = PartsBefore(card.kind, part)

LEMMA MountedKeep ==
  ASSUME Mounted, UNCHANGED <<sd_status, volumes, mounted>>, ReadingRight',
         pc' \notin {"poll", "eject", "walk"} => ~sd_status,
         pc' = "walk" => sd_status,
         ~sd_status /\ pc' \notin Reading => SdParts(Vols) = {},
         sd_status /\ pc' # "walk" => pc # "walk"
  PROVE  Mounted'
<1>1. Vols' = Vols
  BY DEF Vols
<1>2. GoodVolumes(volumes)'
  BY DEF Mounted, GoodVolumes
<1>3. sd_status' => /\ mounted' \in Cards /\ VolumesOf(mounted', Vols')
                    /\ pc' # "walk" => SdParts(Vols') = Fat32Parts(mounted')
  BY <1>1 DEF Mounted
<1>4. SdParts(Vols)' = SdParts(Vols)
  BY <1>1 DEF SdParts
<1>5. \A a, b \in Vols' : a.disk = "USB" /\ b.disk = "USB" => a = b
  BY <1>1 DEF Mounted
<1>6. QED
  BY <1>2, <1>3, <1>4, <1>5 DEF Mounted, ReadingRight

\* A step that keeps the card and the partition and does not begin to read.
LEMMA ReadingKept ==
  ASSUME Mounted, UNCHANGED <<volumes, part>>,
         card'.present /\ card'.state = "tran" /\ pc' \in Reading =>
           card.present /\ card.state = "tran" /\ card'.kind = card.kind /\ pc \in Reading
  PROVE  ReadingRight'
<1>1. Vols' = Vols
  BY DEF Vols
<1>2. SUFFICES ASSUME card'.present /\ card'.state = "tran" /\ pc' \in Reading
               PROVE  /\ VolumesOf(card'.kind, Vols)
                      /\ SdParts(Vols) = PartsBefore(card'.kind, part)
  <2>1. part' = part
    OBVIOUS
  <2>2. QED
    BY <1>1, <2>1, ZenonT(40) DEF ReadingRight, VolumesOf, SdParts, Fat32Parts, PartsBefore
<1>3. card.present /\ card.state = "tran" /\ card'.kind = card.kind /\ pc \in Reading
  BY <1>2
<1>4. VolumesOf(card.kind, Vols) /\ SdParts(Vols) = PartsBefore(card.kind, part)
  BY <1>3 DEF Mounted
<1>5. QED
  BY <1>3, <1>4

LEMMA ReadingBegins ==
  ASSUME Types, Mounted, PartKnown, UNCHANGED <<volumes, part, card>>, pc \notin Reading, ~sd_status
  PROVE  ReadingRight'
<1>1. Vols' = Vols /\ part = MbrPart
  BY DEF Vols, PartKnown
<1>2. SdParts(Vols) = {} /\ Vols \subseteq Volume
  BY GoodFacts DEF Mounted, Vols
<1>3. \A k : VolumesOf(k, Vols)
  BY <1>2, NoSdVolumes DEF Mounted
<1>4. card.present => PartsBefore(card.kind, part) = {}
  BY <1>1, BeforeNone DEF Types
<1>5. QED
  BY <1>1, <1>2, <1>3, <1>4 DEF ReadingRight

LEMMA MountedCommand ==
  ASSUME Types, PartKnown, Mounted,
         SdStart \/ sd_exec_cmd_8 \/ Acmd41Prefix \/ sd_exec_acmd_41 \/ sd_exec_cmd_2
         \/ sd_exec_cmd_3 \/ sd_exec_cmd_9 \/ sd_exec_cmd_7 \/ sd_exec_acmd_51 \/ sd_exec_acmd_6
         \/ sd_exec_cmd_6 \/ ReadBlock
  PROVE  Mounted'
<1> DEFINE Before == {"init", "cmd8", "cmd55", "acmd41", "cmd2", "cmd3", "cmd9", "cmd7", "acmd51", "acmd6",
                      "cmd6"}
<1>1. /\ UNCHANGED <<sd_status, volumes, part, mounted>>
      /\ \/ pc' = pc /\ UNCHANGED card
         \/ pc \in Before /\ pc' \in Before
         \/ pc = "cmd6" /\ pc' = "ready" /\ UNCHANGED card
         \/ /\ pc = "cmd17" /\ pc' = "data" /\ card.present /\ card.state = "tran"
            /\ card'.kind = card.kind
  <2> USE DEF seen, files
  <2>1. CASE SdStart
    BY <2>1, StartEffect
  <2>2. CASE sd_exec_cmd_8
    BY <2>2, Cmd8Effect
  <2>3. CASE Acmd41Prefix
    BY <2>3, PrefixEffect
  <2>4. CASE sd_exec_acmd_41
    BY <2>4, Acmd41Effect
  <2>5. CASE sd_exec_cmd_2
    BY <2>5, Cmd2Effect
  <2>6. CASE sd_exec_cmd_3
    BY <2>6, Cmd3Effect
  <2>7. CASE sd_exec_cmd_9
    BY <2>7, Cmd9Effect
  <2>8. CASE sd_exec_cmd_7
    BY <2>8, Cmd7Effect
  <2>9. CASE sd_exec_acmd_51
    BY <2>9, Acmd51Effect
  <2>10. CASE sd_exec_acmd_6
    BY <2>10, Acmd6Effect
  <2>11. CASE sd_exec_cmd_6
    BY <2>11, Cmd6Bus
  <2>12. CASE ReadBlock
    BY <2>12, ReadBlockEffect
  <2>13. QED
    BY <2>1, <2>2, <2>3, <2>4, <2>5, <2>6, <2>7, <2>8, <2>9, <2>10, <2>11, <2>12
<1>2. ReadingRight'
  <2>1. CASE pc' = pc /\ UNCHANGED card
    BY <1>1, <2>1, ReadingKept
  <2>2. CASE pc \in Before /\ pc' \in Before
    BY <1>1, <2>2, ReadingKept DEF Reading
  <2>3. CASE pc = "cmd6" /\ pc' = "ready" /\ UNCHANGED card
    BY <1>1, <2>3, ReadingBegins DEF Reading, Mounted
  <2>4. CASE /\ pc = "cmd17" /\ pc' = "data" /\ card.present /\ card.state = "tran"
             /\ card'.kind = card.kind
    BY <1>1, <2>4, ReadingKept DEF Reading
  <2>5. QED
    BY <1>1, <2>1, <2>2, <2>3, <2>4
<1>3. /\ pc' \notin {"poll", "eject", "walk"} => ~sd_status
      /\ pc' = "walk" => sd_status
      /\ ~sd_status /\ pc' \notin Reading => SdParts(Vols) = {}
      /\ sd_status /\ pc' # "walk" => pc # "walk"
  BY <1>1 DEF Mounted, Reading
<1>4. QED
  BY <1>1, <1>2, <1>3, MountedKeep

LEMMA MountedQuiet ==
  ASSUME Types, PartKnown, Mounted,
         CardIn \/ CardOut \/ Poll \/ Mount \/ RemovedInTransfer \/ ReadStatus \/ Retry
         \/ Eject \/ UNCHANGED vars
  PROVE  Mounted'
<1>1. /\ UNCHANGED <<sd_status, volumes, part, mounted>>
      /\ ReadingRight'
      /\ \/ pc' = pc
         \/ pc = "poll" /\ ((pc' = "mount" /\ ~sd_status) \/ pc' = "eject")
         \/ pc = "mount" /\ pc' = "init"
         \/ pc = "ready" /\ pc' = "cmd17"
         \/ pc \in {"acmd51", "cmd6"} /\ pc' = "data"
         \/ pc = "retry" /\ pc' \in {"mount", "eject"}
         \/ pc = "eject" /\ ((pc' = "walk" /\ sd_status) \/ pc' = "poll")
  <2>1. CASE CardIn
    BY <2>1, ReadingKept DEF CardIn
  <2>2. CASE CardOut
    BY <2>2, ReadingKept DEF CardOut, NoCard
  <2>3. CASE Poll
    BY <2>3, ReadingKept DEF Poll, Reading
  <2>4. CASE Mount
    BY <2>4, ReadingKept DEF Mount, Panic, rest, Reading
  <2>5. CASE RemovedInTransfer
    BY <2>5, ReadingKept DEF RemovedInTransfer, rest, Reading
  <2>6. CASE ReadStatus
    BY <2>6, ReadingKept DEF ReadStatus, Panic, rest, Reading
  <2>7. CASE Retry
    BY <2>7, ReadingKept DEF Retry, rest, Reading
  <2>8. CASE Eject
    BY <2>8, ReadingKept DEF Eject, Reading
  <2>9. CASE UNCHANGED vars
    BY <2>9, ReadingKept DEF vars
  <2>10. QED
    BY <2>1, <2>2, <2>3, <2>4, <2>5, <2>6, <2>7, <2>8, <2>9
<1>2. /\ pc' \notin {"poll", "eject", "walk"} => ~sd_status
      /\ pc' = "walk" => sd_status
      /\ ~sd_status /\ pc' \notin Reading => SdParts(Vols) = {}
      /\ sd_status /\ pc' # "walk" => pc # "walk"
  BY <1>1 DEF Mounted, Reading
<1>3. QED
  BY <1>1, <1>2, MountedKeep

LEMMA MountedOther ==
  ASSUME Mounted, OtherDisk
  PROVE  Mounted'
<1>1. /\ pc = "poll" /\ UNCHANGED <<pc, card, sd_status, part, mounted>>
  BY DEF OtherDisk
<1>2. Vols \subseteq Volume /\ Vols = Range(volumes.list) /\ GoodVolumes(volumes)
  BY GoodFacts DEF Mounted, Vols
<1>3. ASSUME \A a \in Vols : a.disk # "USB", volumes' = fat_volume_add(volumes, "USB", 1)
      PROVE  Mounted'
  <2>1. volumes.bitmask # 0 .. Letters - 1
    <3>1. CASE ~sd_status
      <4>1. SdParts(Vols) = {}
        BY <1>1, <3>1 DEF Mounted, Reading
      <4>2. \A a, b \in Range(volumes.list) : a = b
        BY <1>2, <4>1, NoSdVolumes DEF Mounted
      <4>3. QED
        BY <1>2, <4>2, LetterLeftNoSd
    <3>2. CASE sd_status
      BY <1>2, <3>2, LetterLeft DEF Mounted
    <3>3. QED
      BY <3>1, <3>2
  <2>2. PICK w : w = fat_volume_add(volumes, "USB", 1) /\ w = volumes'
    BY <1>3
  <2>3. GoodVolumes(volumes') /\ \E a : Vols' = Vols \cup {a} /\ a.disk = "USB"
    <3>1. GoodVolumes(w) /\ \E a : a.disk = "USB" /\ a.part = 1 /\ Range(w.list) = Range(volumes.list) \cup {a}
      <4>1. 1 \in Nat /\ "USB" \in {"SD", "USB"} /\ GoodVolumes(volumes)
        BY <1>2
      <4>2. w = fat_volume_add(volumes, "USB", 1)
        BY <2>2
      <4>3. QED
        BY <2>1, <4>1, <4>2, AddVolume
    <3>2. Range(w.list) = Vols'
      BY <2>2 DEF Vols
    <3>3. QED
      BY <1>2, <2>2, <3>1, <3>2
  <2>4. PICK a : Vols' = Vols \cup {a} /\ a.disk = "USB"
    BY <2>3
  <2>5. SdParts(Vols') = SdParts(Vols)
    BY <2>4 DEF SdParts
  <2>6. \A k : VolumesOf(k, Vols) => VolumesOf(k, Vols')
    BY <1>3, <2>4 DEF VolumesOf
  <2>7. \A b, c \in Vols' : b.disk = "USB" /\ c.disk = "USB" => b = c
    BY <1>3, <2>4
  <2>8. QED
    BY <1>1, <2>3, <2>5, <2>6, <2>7 DEF Mounted, Reading
<1>4. ASSUME NEW i \in DOMAIN volumes.list, volumes.list[i].disk = "USB",
             volumes' = fat_volume_remove(volumes, volumes.list[i].letter)
      PROVE  Mounted'
  <2>1. PICK a \in Vols : a = volumes.list[i]
    BY <1>2 DEF Range
  <2>2. GoodVolumes(volumes') /\ Vols' = Vols \ {a}
    BY <1>2, <1>4, <2>1, RemoveVolume DEF Vols
  <2>3. SdParts(Vols') = SdParts(Vols)
    BY <1>4, <2>1, <2>2 DEF SdParts
  <2>4. \A k : VolumesOf(k, Vols) => VolumesOf(k, Vols')
    BY <2>2, FewerVolumes
  <2>5. \A b, c \in Vols' : b.disk = "USB" /\ c.disk = "USB" => b = c
    BY <2>2 DEF Mounted
  <2>6. QED
    BY <1>1, <2>2, <2>3, <2>4, <2>5 DEF Mounted, Reading
<1>5. \/ (\A a \in Vols : a.disk # "USB") /\ volumes' = fat_volume_add(volumes, "USB", 1)
      \/ \E i \in DOMAIN volumes.list :
           /\ volumes.list[i].disk = "USB"
           /\ volumes' = fat_volume_remove(volumes, volumes.list[i].letter)
  BY <1>2 DEF OtherDisk, Range
<1>6. QED
  BY <1>3, <1>4, <1>5

\* disk_eject finds every volume of the card that it meets, and frees it.
LEMMA EjectVolumeStep ==
  ASSUME Mounted, Ejecting, EjectVolume
  PROVE  Mounted' /\ Ejecting'
<1>1. /\ pc = "walk" /\ UNCHANGED <<pc, card, sd_status, part, mounted>>
      /\ ejecting # <<>> /\ ejecting' = Tail(ejecting)
  BY DEF EjectVolume
<1>2. Vols = Range(volumes.list) /\ GoodVolumes(volumes) /\ sd_status
  BY <1>1 DEF Mounted, Vols
<1>3. PICK h : h = Head(ejecting)
  OBVIOUS
<1>4. IsInjective(ejecting) /\ ejecting \in Seq(Volume)
  BY <1>1 DEF Ejecting, IsInjective
<1>5. /\ Tail(ejecting) \in Seq(Volume) /\ h \in Volume /\ h \in Range(ejecting)
      /\ Range(Tail(ejecting)) = Range(ejecting) \ {h} /\ IsInjective(Tail(ejecting))
  BY <1>1, <1>3, <1>4, TailRange
<1>6. \A a, b \in Range(ejecting) : a.letter = b.letter => a = b
  BY <1>1 DEF Ejecting, Range
<1>7. \A i, j \in DOMAIN Tail(ejecting) :
        Tail(ejecting)[i].letter = Tail(ejecting)[j].letter => i = j
  <2>1. \A i \in DOMAIN Tail(ejecting) : Tail(ejecting)[i] \in Range(ejecting)
    BY <1>5 DEF Range
  <2>2. QED
    BY <1>5, <1>6, <2>1 DEF IsInjective
<1>8. CASE h.disk = "SD"
  <2>1. h \in Vols
    BY <1>1, <1>5, <1>8 DEF Ejecting
  <2>2. volumes' = fat_volume_remove(volumes, h.letter)
    BY <1>3, <1>8 DEF EjectVolume
  <2>3. GoodVolumes(volumes') /\ Vols' = Vols \ {h}
    BY <1>2, <2>1, <2>2, RemoveVolume DEF Vols
  <2>4. \A k : VolumesOf(k, Vols) => VolumesOf(k, Vols')
    BY <2>3, FewerVolumes
  <2>5. Mounted'
    BY <1>1, <1>2, <2>3, <2>4 DEF Mounted, Reading
  <2>6. {a \in Vols' : a.disk = "SD"} = {a \in Range(ejecting') : a.disk = "SD"}
    BY <1>1, <1>5, <2>3 DEF Ejecting
  <2>7. QED
    BY <1>1, <1>5, <1>7, <2>5, <2>6 DEF Ejecting
<1>9. CASE h.disk # "SD"
  <2>1. UNCHANGED volumes /\ Vols' = Vols
    BY <1>3, <1>9 DEF EjectVolume, Vols
  <2>2. Mounted'
    BY <1>1, <1>2, <2>1 DEF Mounted, Reading
  <2>3. {a \in Vols' : a.disk = "SD"} = {a \in Range(ejecting') : a.disk = "SD"}
    BY <1>1, <1>5, <1>9, <2>1 DEF Ejecting
  <2>4. QED
    BY <1>1, <1>5, <1>7, <2>2, <2>3 DEF Ejecting
<1>10. QED
  BY <1>8, <1>9

LEMMA EjectedStep ==
  ASSUME Mounted, Ejecting, Ejected
  PROVE  Mounted'
<1>1. /\ pc = "walk" /\ pc' = "poll" /\ ejecting = <<>> /\ ~sd_status'
      /\ UNCHANGED <<volumes, card, part>> /\ Vols' = Vols
  BY DEF Ejected, Vols
<1>2. Range(ejecting) = {}
  BY <1>1 DEF Range
<1>3. SdParts(Vols) = {}
  BY <1>1, <1>2 DEF Ejecting, SdParts
<1>4. GoodVolumes(volumes') /\ \A a, b \in Vols' : a.disk = "USB" /\ b.disk = "USB" => a = b
  BY <1>1 DEF Mounted
<1>5. SdParts(Vols') = {}
  BY <1>1, <1>3
<1>6. QED
  BY <1>1, <1>4, <1>5 DEF Mounted, Reading

LEMMA EjectingStep == Types /\ Mounted /\ Ejecting /\ [Next]_vars => Ejecting'
<1> SUFFICES ASSUME Types, Mounted, Ejecting, [Next]_vars PROVE Ejecting'
  OBVIOUS
<1>1. CASE EjectVolume
  BY <1>1, EjectVolumeStep
<1>2. CASE Eject
  <2>1. pc' = "walk" => ejecting' = volumes.list /\ UNCHANGED volumes
    BY <1>2 DEF Eject
  <2>2. GoodVolumes(volumes)
    BY DEF Mounted
  <2>3. volumes.list \in Seq(Volume)
    BY <2>2, GoodFacts
  <2>4. \A i, j \in DOMAIN volumes.list : volumes.list[i].letter = volumes.list[j].letter => i = j
    BY <2>2 DEF GoodVolumes
  <2>5. QED
    BY <2>1, <2>3, <2>4 DEF Ejecting, Vols
<1>3. CASE ~EjectVolume /\ ~Eject
  <2>1. pc' = "walk" => pc = "walk"
    <3>1. CASE Quiet
      BY <1>3, <3>1 DEF Quiet, OtherDisk, Poll, Mount, Panic, rest, RemovedInTransfer, ReadStatus, Retry,
                        Ejected, vars
    <3>2. CASE CardIn \/ CardOut
      BY <3>2 DEF CardIn, CardOut
    <3>3. CASE SdInit
      BY <1>3, <3>3 DEF SdInit, SdStart, sd_exec_cmd_8, Acmd41Prefix, sd_exec_acmd_41, sd_exec_cmd_2,
                        sd_exec_cmd_3, sd_exec_cmd_9, sd_exec_cmd_7, sd_exec_acmd_51, sd_exec_acmd_6,
                        sd_exec_cmd_6, RemovedInTransfer, DataCommand, Command, Panic
    <3>4. CASE ReadBlock \/ ReadData
      BY <3>4 DEF ReadBlock, ReadData, DataCommand, Command, Panic
    <3>5. QED
      BY <1>3, <3>1, <3>2, <3>3, <3>4 DEF Next, Thread, Quiet
  <2>2. pc = "walk" => UNCHANGED <<volumes, ejecting>> \/ pc' # "walk"
    <3>1. CASE Quiet
      BY <1>3, <3>1 DEF Quiet, OtherDisk, Poll, Mount, Panic, rest, RemovedInTransfer, ReadStatus, Retry,
                        Ejected, vars
    <3>2. CASE CardIn \/ CardOut
      BY <3>2 DEF CardIn, CardOut
    <3>3. CASE SdInit
      BY <1>3, <3>3 DEF SdInit, SdStart, sd_exec_cmd_8, Acmd41Prefix, sd_exec_acmd_41, sd_exec_cmd_2,
                        sd_exec_cmd_3, sd_exec_cmd_9, sd_exec_cmd_7, sd_exec_acmd_51, sd_exec_acmd_6,
                        sd_exec_cmd_6, RemovedInTransfer, DataCommand, Command
    <3>4. CASE ReadBlock \/ ReadData
      BY <3>4 DEF ReadBlock, ReadData, DataCommand, Command
    <3>5. QED
      BY <1>3, <3>1, <3>2, <3>3, <3>4 DEF Next, Thread, Quiet
  <2>3. CASE pc' = "walk"
    <3>1. UNCHANGED <<volumes, ejecting>> /\ pc = "walk" /\ Vols' = Vols
      BY <2>1, <2>2, <2>3 DEF Vols
    <3>2. QED
      BY <3>1 DEF Ejecting
  <2>4. QED
    BY <2>3 DEF Ejecting
<1>4. QED
  BY <1>1, <1>2, <1>3

\* disk_mount adds the partition whose label it has read, and goes on.
LEMMA MountedRead ==
  ASSUME Types, PartKnown, InFlight, Mounted, ReadData
  PROVE  Mounted'
<1>1. /\ pc = "data" /\ card.present /\ card.state = "tran" /\ card.kind \in Cards
      /\ card'.present /\ card'.kind = card.kind /\ card'.state = "tran"
  BY ReadDataEffect DEF InFlight, Types
<1>2. PICK k \in Cards : k = card.kind
  BY <1>1
<1>3. Vols = Range(volumes.list) /\ GoodVolumes(volumes) /\ ~sd_status
  BY <1>1 DEF Mounted, Vols
<1>4. VolumesOf(k, Vols) /\ SdParts(Vols) = PartsBefore(k, part)
  BY <1>1, <1>2 DEF Mounted, Reading
<1>5. \/ part = MbrPart /\ ~label
      \/ /\ part \in DOMAIN k.parts /\ k.parts[part].lba # 0
         /\ label => fat_search(k.parts[part].bpb)
  BY <1>1, <1>2 DEF PartKnown, Reading
<1>6. DOMAIN k.parts \subseteq 1 .. 4 /\ part \in Nat /\ MbrPart = 0
  BY <1>5, SdAssumption DEF MbrPart
<1>7. PICK here : here = {k.parts[i].lba : i \in {j \in DOMAIN k.parts :
                            j = part /\ k.parts[j].lba # 0 /\ fat_search(k.parts[j].bpb)}}
  OBVIOUS
<1>8. /\ GoodVolumes(volumes') /\ VolumesOf(k, Vols')
      /\ \A a, b \in Vols' : a.disk = "USB" /\ b.disk = "USB" => a = b
      /\ SdParts(Vols') = IF label THEN PartsBefore(k, part) \cup here ELSE PartsBefore(k, part)
  <2>1. CASE label
    <3>1. volumes.bitmask # 0 .. Letters - 1
      BY <1>3, <1>4, LetterLeft
    <3>2. part \in DOMAIN k.parts /\ k.parts[part].lba # 0 /\ fat_search(k.parts[part].bpb)
      BY <1>5, <2>1
    <3>3. k.parts[part].lba \in Nat
      BY <3>2, SdAssumption
    <3>4. PICK n \in Nat : n = k.parts[part].lba
      BY <3>3
    <3>5. PICK w : w = volumes' /\ w = fat_volume_add(volumes, "SD", n)
      BY <1>2, <2>1, <3>4, ReadDataEffect
    <3>6. GoodVolumes(w) /\ \E a : a.disk = "SD" /\ a.part = n /\ Range(w.list) = Range(volumes.list) \cup {a}
      BY <1>3, <3>1, <3>5, AddVolume
    <3>7. PICK a : a.disk = "SD" /\ a.part = k.parts[part].lba /\ Range(w.list) = Vols \cup {a}
      BY <1>3, <3>4, <3>6
    <3>8. Vols' = Vols \cup {a}
      BY <3>5, <3>7 DEF Vols
    <3>9. VolumesOf(k, Vols') /\ SdParts(Vols') = PartsBefore(k, part) \cup {k.parts[part].lba}
      BY <1>4, <3>2, <3>7, <3>8, AddPart
    <3>10. here = {k.parts[part].lba}
      BY <1>7, <3>2
    <3>11. \A b, c \in Vols' : b.disk = "USB" /\ c.disk = "USB" => b = c
      BY <3>7, <3>8 DEF Mounted
    <3>12. QED
      BY <2>1, <3>5, <3>6, <3>9, <3>10, <3>11
  <2>2. CASE ~label
    <3>1. volumes' = volumes /\ Vols' = Vols
      BY <2>2, ReadDataEffect DEF Vols
    <3>2. QED
      BY <1>3, <1>4, <2>2, <3>1 DEF Mounted
  <2>3. QED
    BY <2>1, <2>2
<1>9. CASE Refused /\ ~label' /\ pc' = "retry" /\ part' = MbrPart /\ sd_status' = sd_status
  <2>1. SdParts(Vols') = {}
    BY <1>5, <1>6, <1>8, <1>9, BeforeNone DEF Refused
  <2>2. QED
    BY <1>3, <1>8, <1>9, <2>1 DEF Mounted, Reading
<1>10. CASE Found /\ label' /\ pc' = "ready" /\ part' = part /\ sd_status' = sd_status
  <2>1. SdParts(Vols') = PartsBefore(k, part)
    BY <1>8, <1>10 DEF Found
  <2>2. QED
    BY <1>1, <1>2, <1>3, <1>8, <1>10, <2>1 DEF Mounted, Reading
<1>11. ASSUME ~Found PROVE SdParts(Vols') = PartsBefore(k, part) \cup here
  <2>1. CASE label
    BY <1>8, <2>1
  <2>2. CASE ~label
    <3>1. here = {}
      BY <1>2, <1>5, <1>6, <1>7, <1>11, <2>2 DEF Found
    <3>2. QED
      BY <1>8, <2>2, <3>1
  <2>3. QED
    BY <2>1, <2>2
<1>12. CASE /\ ~Refused /\ ~Found /\ NextPart(part) = -1
            /\ ~label' /\ pc' = "eject" /\ part' = MbrPart /\ sd_status'
  <2>1. \A i \in DOMAIN k.parts : i > part => k.parts[i].lba = 0
    BY <1>1, <1>2, <1>6, <1>12, NextFacts
  <2>2. SdParts(Vols') = Fat32Parts(k)
    BY <1>6, <1>7, <1>11, <1>12, <2>1, BeforeEnd
  <2>3. mounted' = k
    BY <1>2, <1>12, ReadDataEffect
  <2>4. QED
    BY <1>8, <1>12, <2>2, <2>3 DEF Mounted, Reading
<1>13. CASE /\ ~Refused /\ ~Found /\ NextPart(part) # -1
            /\ ~label' /\ pc' = "ready" /\ part' = NextPart(part) /\ sd_status' = sd_status
  <2>1. /\ part' \in DOMAIN k.parts /\ part' > part
        /\ \A i \in DOMAIN k.parts : i > part /\ i < part' => k.parts[i].lba = 0
    BY <1>1, <1>2, <1>6, <1>13, NextFacts
  <2>2. SdParts(Vols') = PartsBefore(k, part')
    <3>1. PICK n \in Nat : n = part'
      BY <1>6, <2>1
    <3>2. PartsBefore(k, n) = PartsBefore(k, part) \cup here
      BY <1>6, <1>7, <2>1, <3>1, BeforeNext
    <3>3. QED
      BY <1>11, <1>13, <3>1, <3>2
  <2>3. QED
    BY <1>1, <1>2, <1>3, <1>8, <1>13, <2>2 DEF Mounted, Reading
<1>14. QED
  BY <1>9, <1>10, <1>12, <1>13, ReadDataEffect

LEMMA MountedStep ==
  Types /\ PartKnown /\ InFlight /\ Mounted /\ Ejecting /\ [Next]_vars => Mounted'
BY MountedCommand, MountedQuiet, MountedOther, EjectVolumeStep, EjectedStep, MountedRead
   DEF Next, Thread, SdInit

LEMMA InSlotStep == Types /\ Mounted /\ InSlot /\ [Next]_vars => InSlot'
<1> SUFFICES ASSUME Types, Mounted, InSlot, [Next]_vars PROVE InSlot'
  OBVIOUS
<1> USE DEF InSlot, files
<1>1. pc \notin {"poll", "eject", "walk"} => ~sd_status
  BY DEF Mounted
<1>2. CASE Quiet
  <2>1. UNCHANGED <<card, mounted>> /\ (sd_status' => sd_status)
        /\ (pc = "walk" /\ pc' # "walk" => ~sd_status')
    BY <1>2 DEF Quiet, OtherDisk, Poll, Mount, Panic, rest, RemovedInTransfer, ReadStatus, Retry,
                Eject, EjectVolume, Ejected, vars
  <2>2. QED
    BY <2>1
<1>3. CASE CardIn
  <2>1. PICK u : u = Unseen
    OBVIOUS
  <2>2. \E k : card' = [present |-> TRUE, kind |-> k, state |-> "idle", rca |-> 0, width |-> 1,
                       lba |-> -1, unseen |-> u]
    BY <1>3, <2>1, Zenon DEF CardIn
  <2>3. card'.unseen = u
    BY <2>2
  <2>4. sd_status /\ pc # "walk" => card'.unseen
    BY <2>1, <2>3, Zenon DEF Unseen
  <2>5. QED
    BY <1>3, <2>4 DEF CardIn
<1>4. CASE CardOut
  BY <1>4 DEF CardOut, NoCard
<1>5. CASE ReadData
  BY <1>1, <1>5, ReadDataEffect
<1>6. CASE UNCHANGED seen
  BY <1>6 DEF seen
<1>7. CASE SdInit \/ ReadBlock
  <2>1. \/ UNCHANGED seen
        \/ pc \notin {"poll", "eject", "walk"} /\ UNCHANGED sd_status
        \/ RemovedInTransfer
    BY <1>7, StartEffect, Cmd8Effect, PrefixEffect, Acmd41Effect, Cmd2Effect, Cmd3Effect, Cmd9Effect,
       Cmd7Effect, Acmd51Effect, Acmd6Effect, Cmd6Bus, ReadBlockEffect DEF SdInit
  <2>2. QED
    BY <1>1, <1>2, <1>6, <2>1 DEF Quiet
<1>8. QED
  BY <1>2, <1>3, <1>4, <1>5, <1>7 DEF Next, Thread, Quiet

LEMMA SdInitially == Init => SdInv
<1> SUFFICES ASSUME Init PROVE SdInv
  OBVIOUS
<1> USE DEF Init, NoCard
<1>1. Types
  <2>1. slot = [f \in SlotFields |-> slot[f]]
    BY DEF SlotFields
  <2>2. mmc \in Mmc
    BY DEF Mmc
  <2>3. QED
    BY <2>1, <2>2, Zenon DEF Types, Locations
<1>2. Learnt /\ PartKnown /\ InFlight /\ Ejecting /\ InSlot
  <2>1. ~card.present /\ pc = "poll" /\ part = MbrPart /\ ~label
    BY DEF MbrPart
  <2>2. QED
    BY <2>1 DEF Learnt, PartKnown, InFlight, Ejecting, InSlot, OneLane, Identifying, Reading
<1>3. Mounted
  <2>1. volumes.list = <<>> /\ volumes.bitmask = {} /\ Range(volumes.list) = {}
    BY DEF Range
  <2>2. <<>> \in Seq(Volume) /\ IsInjective(<<>>)
    BY DEF IsInjective
  <2>3. GoodVolumes(volumes)
    BY <2>1, <2>2, GoodFrom
  <2>4. QED
    BY <2>1, <2>3 DEF Mounted, Vols, SdParts, Reading
<1>4. QED
  BY <1>1, <1>2, <1>3 DEF SdInv

\* The invariant of the card reader and of the list of volumes.
THEOREM SdInvariant == Spec => []SdInv
<1>1. SdInv /\ [Next]_vars => SdInv'
  BY TypesStep, LearntStep, PartKnownStep, InFlightStep, MountedStep, EjectingStep, InSlotStep DEF SdInv
<1>2. QED
  BY <1>1, SdInitially, PTL DEF Spec

-----------------------------------------------------------------------------
(***************************************************************************)
(* The properties of the run "mount", for all cards                        *)
(***************************************************************************)
\* Whatever cards are put in and taken out between the commands: the block the
\* card sends is the sector that was asked for. The host's idea of how the card
\* counts (slot->high_capacity) is never that of an earlier card.
THEOREM AddressIsRight == Spec => []AddressRight
<1>1. SdInv => AddressRight
  BY DEF SdInv, InFlight, AddressRight, mmc_read_data
<1>2. QED
  BY <1>1, SdInvariant, PTL

LEMMA IdentificationClock ==
  ASSUME NEW m \in Mmc, {2, 4, 5, 6, 8} \subseteq m.div, m.odd = 1
  PROVE  BusFreq(m) <= 400
<1> DEFINE bit(i) == IF i \in m.div THEN Weight[i] ELSE 0
<1>1. /\ bit(2) = 2 /\ bit(4) = 8 /\ bit(5) = 16 /\ bit(6) = 32 /\ bit(8) = 128
      /\ bit(1) \in {0, 1} /\ bit(3) \in {0, 4} /\ bit(7) \in {0, 64}
  BY DEF Weight
<1>2. bit(1) \in Nat /\ bit(3) \in Nat /\ bit(7) \in Nat
  BY <1>1
<1>3. ClkDiv(m) = bit(1) + bit(2) + bit(3) + bit(4) + bit(5) + bit(6) + bit(7) + bit(8)
  BY DEF ClkDiv
<1> HIDE DEF bit
<1>4. ClkDiv(m) \in Nat /\ ClkDiv(m) >= 186
  BY <1>1, <1>2, <1>3
<1>5. \A n \in Nat : n >= 186 => 150000 \div (2 * n + 1 + 2) <= 400
  BY SMT
<1>6. QED
  BY <1>4, <1>5, SMT DEF BusFreq

\* Data moves on as many lanes as both sides use, and a card that is being
\* identified is clocked with at most 400 kHz, although mmc_set_bus_freq only
\* ever adds bits to the divider.
THEOREM BusIsRight == Spec => []BusAgrees
<1>1. SdInv => BusAgrees
  <2> SUFFICES ASSUME SdInv PROVE BusAgrees
    OBVIOUS
  <2>1. pc = "data" /\ mmc_read_data => mmc.width = card.width
    BY DEF SdInv, InFlight, Learnt, mmc_read_data
  <2>2. ASSUME pc \in Identifying PROVE BusFreq(mmc) <= 400
    <3>1. {2, 4, 5, 6, 8} \subseteq mmc.div /\ mmc.odd = 1 /\ mmc \in Mmc
      BY <2>2 DEF SdInv, Learnt, Types
    <3>2. QED
      BY <3>1, IdentificationClock
  <2>3. QED
    BY <2>1, <2>2 DEF BusAgrees, Identifying
<1>2. QED
  BY <1>1, SdInvariant, PTL

\* The volumes of a card are as many as its FAT32 partitions.
LEMMA VolumeCount ==
  ASSUME NEW k \in Cards, GoodVolumes(volumes), VolumesOf(k, Vols), SdParts(Vols) = Fat32Parts(k)
  PROVE  /\ {volumes.list[i].part : i \in SdVolumes} = Fat32Parts(k)
         /\ Cardinality(SdVolumes) = Cardinality(Fat32Parts(k))
<1> DEFINE f == [i \in SdVolumes |-> volumes.list[i].part]
<1>1. {volumes.list[i].part : i \in SdVolumes} = SdParts(Vols)
  BY DEF SdVolumes, SdParts, Vols, Range
<1>2. \A i, j \in SdVolumes : volumes.list[i].part = volumes.list[j].part => i = j
  <2>1. SUFFICES ASSUME NEW i \in SdVolumes, NEW j \in SdVolumes,
                        volumes.list[i].part = volumes.list[j].part
                 PROVE  i = j
    OBVIOUS
  <2>2. volumes.list[i] = volumes.list[j]
    BY <2>1 DEF VolumesOf, SdVolumes, Vols, Range
  <2>3. QED
    BY <2>2, GoodFacts DEF IsInjective, SdVolumes
<1>3. f \in [SdVolumes -> Fat32Parts(k)] /\ \A p \in Fat32Parts(k) : \E i \in SdVolumes : f[i] = p
  BY <1>1
<1>4. \A i, j \in SdVolumes : f[i] = f[j] => i = j
  BY <1>2
<1> HIDE DEF f
<1>5. ExistsBijection(SdVolumes, Fat32Parts(k))
  BY <1>3, <1>4, Zenon DEF ExistsBijection, Bijection, Injection, Surjection, IsInjective
<1>6. IsFiniteSet(SdVolumes)
  <2>1. SdVolumes \subseteq 1 .. Len(volumes.list) /\ Len(volumes.list) \in Nat
    BY GoodFacts DEF SdVolumes
  <2>2. IsFiniteSet(1 .. Len(volumes.list))
    BY <2>1, FS_Interval
  <2>3. QED
    BY <2>1, <2>2, FS_Subset
<1>7. QED
  BY <1>1, <1>5, <1>6, FS_Bijection

\* No two volumes have a letter in common and the bitmask holds the letters in
\* use. The volumes of cards are the FAT32 partitions of the card that was
\* mounted last, each once, and this is the card in the slot unless that one was
\* put in unseen; none of them is left when the thread polls without a mounted
\* card.
THEOREM VolumesAreRight == Spec => []VolumesRight
<1>1. SdInv => VolumesRight
  <2> SUFFICES ASSUME SdInv PROVE VolumesRight
    OBVIOUS
  <2>1. GoodVolumes(volumes)
    BY DEF SdInv, Mounted
  <2>2. ASSUME pc = "poll", ~sd_status PROVE SdVolumes = {}
    <3>1. SdParts(Vols) = {}
      BY <2>2 DEF SdInv, Mounted, Reading
    <3>2. QED
      BY <3>1 DEF SdVolumes, SdParts, Vols, Range
  <2>3. ASSUME pc = "poll", sd_status
        PROVE  /\ {volumes.list[i].part : i \in SdVolumes} = Fat32Parts(mounted)
               /\ Cardinality(SdVolumes) = Cardinality(Fat32Parts(mounted))
               /\ card.present /\ ~card.unseen => card.kind = mounted
    <3>1. mounted \in Cards /\ VolumesOf(mounted, Vols) /\ SdParts(Vols) = Fat32Parts(mounted)
      BY <2>3 DEF SdInv, Mounted
    <3>2. card.present /\ ~card.unseen => card.kind = mounted
      BY <2>3 DEF SdInv, InSlot
    <3>3. QED
      BY <2>1, <3>1, <3>2, VolumeCount
  <2>4. QED
    BY <2>1, <2>2, <2>3 DEF VolumesRight, GoodVolumes
<1>2. QED
  BY <1>1, SdInvariant, PTL

=============================================================================
