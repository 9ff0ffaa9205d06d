----------------------------- MODULE Bootloader -----------------------------
(***************************************************************************)
(* bootloader/src: main.c, bootloader.c, drivers/flash.c and               *)
(* drivers/hash.c. Flash is an array of pages counted from the kernel      *)
(* base, and the hash sector beside it; both survive a reset, everything   *)
(* else starts from zero.                                                  *)
(***************************************************************************)
EXTENDS Serial

CONSTANTS
  FlashPages,    \* pages of the kernel partition
  BlockPages,    \* pages of one erase block (16)
  ImageBase,     \* the kernel partition starts at this page (32)
  FcrPages,      \* pages the FCR argument can name (256)
  InfoPages,     \* contents of a first page whose image_info matches
  TornSizes      \* what an interrupted write may leave in the size word

ASSUME FlashAssumption ==
  /\ FlashPages \in Nat /\ BlockPages \in Nat \ {0} /\ ImageBase \in Nat
  /\ FcrPages \in Nat \ {0} /\ InfoPages \subseteq Nat /\ TornSizes \subseteq Nat

VARIABLES
  mode,                \* "boot", "bootloader", "kernel" or "panic"
  pc,                  \* where main()'s command loop stands
  op,                  \* locals of the command: flash_buffer, page, block count
  flash, hash_sector,
  signature,           \* "StayInBootloader" in the no-init RAM
  pin,                 \* the boot button is held down
  kernel_page, kernel_total_size

flashVars == <<flash, hash_sector>>
mainVars == <<pc, op, kernel_page, kernel_total_size>>
bootVars == <<mode, pc, op, flash, hash_sector, signature, pin, kernel_page, kernel_total_size>>

CMD_ERASE_FLASH == 3
CMD_WRITE_PAGE == 4
CMD_WRITE_PAGE_LAST == 5
CMD_SET_FLASH_OFFSET == 6

Erased == 255      \* a page of 0xFF
Torn == 254        \* a page whose erase or write did not finish, or was written over
Blank == 65535     \* the size field of an erased hash sector
Pages == 0 .. FlashPages - 1
noOp == [page |-> 0, buffer |-> Erased, blocks |-> 0]

\* The hash engine is told size / 32 blocks of 64 bytes, so it covers twice the
\* size; beyond the flash it meets a bus error, and hash256_generate panics.
Covered(size) == 0 .. 2 * size - 1
HashError(size) == ~(Covered(size) \subseteq Pages)

\* The SHA-256 of `size` pages, as the contents it covers.
hash256_generate(size) == [p \in Covered(size) |-> flash[p]]

check_info_match == flash[0] \in InfoPages

\* verify_kernel_hash runs whenever nothing asks for the bootloader, whatever
\* check_info_match said, and hashes whatever the size word says.
HasSize == hash_sector.size \notin {0, Blank}
BootPanics == HasSize /\ HashError(hash_sector.size)

\* Mutant: the digest is generated and not compared.
MutVerifyHash == HasSize

verify_kernel_hash ==
  /\ HasSize
  /\ hash256_generate(hash_sector.size) = hash_sector.digest

check_boot_signature == signature
clear_boot_signature == signature' = FALSE

\* Stacks, vector table and interrupts are handed over and the kernel entered.
start_kernel == mode' = "kernel" /\ UNCHANGED resp

\* The start of main(): stay in the bootloader, jump to the kernel, or panic in
\* the hash engine. Bytes that arrive before frame_init are lost.
Boot ==
  /\ mode = "boot"
  /\ clear_boot_signature
  /\ pin' = FALSE
  /\ FrameInit
  /\ \E lost \in 0 .. Len(line) : line' = SubSeq(line, lost + 1, Len(line))
  /\ pc' = "poll" /\ op' = noOp /\ kernel_page' = 0 /\ kernel_total_size' = 0
  /\ LET execute_kernel == ~check_boot_signature /\ ~pin
     IN  IF execute_kernel /\ BootPanics THEN mode' = "panic" /\ UNCHANGED resp
         ELSE IF execute_kernel /\ check_info_match /\ verify_kernel_hash THEN start_kernel
         ELSE mode' = "bootloader" /\ resp' = Append(resp, RESP_OK)
  /\ UNCHANGED flashVars

\* Mutant: an idle 0x00 is not answered.
MutBootloaderByte ==
  /\ mode = "bootloader"
  /\ line # <<>>
  /\ line' = Tail(line)
  /\ FrameFsm(Head(line))
  /\ UNCHANGED bootVars

\* usart0_handler of the bootloader.
BootloaderByte ==
  /\ mode = "bootloader"
  /\ line # <<>>
  /\ line' = Tail(line)
  /\ IF bus_state = "IDLE" /\ Head(line) = ZERO
       THEN send_response(RESP_OK) /\ UNCHANGED <<bus_state, frame>>
       ELSE FrameFsm(Head(line))
  /\ UNCHANGED bootVars

\* main() sees a frame and branches on its command.
Dispatch ==
  /\ mode = "bootloader" /\ pc = "poll" /\ frame_received
  /\ frame.cmd \in CMD_ERASE_FLASH .. CMD_SET_FLASH_OFFSET
  /\ pc' = CASE frame.cmd = CMD_ERASE_FLASH -> "erase_size"
             [] frame.cmd = CMD_WRITE_PAGE -> "write"
             [] frame.cmd = CMD_WRITE_PAGE_LAST -> "write_last"
             [] frame.cmd = CMD_SET_FLASH_OFFSET -> "offset"
  /\ UNCHANGED <<serialVars, mode, op, flashVars, signature, pin, kernel_page, kernel_total_size>>

Answer(code) == send_response(code) /\ pc' = "poll" /\ op' = noOp

SetFlashOffset ==
  /\ mode = "bootloader" /\ pc = "offset"
  /\ kernel_page' = frame.payload[1][1]
  /\ Answer(RESP_OK)
  /\ UNCHANGED <<line, bus_state, frame, mode, flashVars, signature, pin, kernel_total_size>>

\* erase_kernel_image reads the size, rounded up to whole erase blocks.
EraseSize ==
  /\ mode = "bootloader" /\ pc = "erase_size"
  /\ op' = [op EXCEPT !.page = 0,
                      !.blocks = (frame.payload[1][1] + BlockPages - 1) \div BlockPages]
  /\ pc' = "erase"
  /\ UNCHANGED <<serialVars, mode, flashVars, signature, pin, kernel_page, kernel_total_size>>

Block(p) == (p \div BlockPages) * BlockPages .. (p \div BlockPages) * BlockPages + BlockPages - 1

\* flash_erase_image: one erase block.
EraseBlock ==
  /\ mode = "bootloader" /\ pc = "erase"
  /\ op.page < op.blocks * BlockPages /\ op.page \in Pages
  /\ flash' = [p \in Pages |-> IF p \in Block(op.page) THEN Erased ELSE flash[p]]
  /\ op' = [op EXCEPT !.page = @ + BlockPages]
  /\ UNCHANGED <<serialVars, mode, pc, hash_sector, signature, pin, kernel_page, kernel_total_size>>

\* Nothing erased, or a block the flash controller refuses, is an error.
EraseDone ==
  /\ mode = "bootloader" /\ pc = "erase"
  /\ op.page >= op.blocks * BlockPages \/ op.page \notin Pages
  /\ IF op.blocks = 0 \/ op.page < op.blocks * BlockPages
       THEN Answer(RESP_ERROR) /\ UNCHANGED kernel_total_size
       ELSE Answer(RESP_OK) /\ kernel_total_size' = op.blocks * BlockPages
  /\ UNCHANGED <<line, bus_state, frame, mode, flashVars, signature, pin, kernel_page>>

\* Mutant: the page is acknowledged before it is written.
MutLoadPage ==
  /\ mode = "bootloader" /\ pc \in {"write", "write_last"}
  /\ op' = [op EXCEPT !.page = kernel_page, !.buffer = frame.payload[1][1]]
  /\ kernel_page' = IF pc = "write" THEN kernel_page + 1 ELSE kernel_page
  /\ pc' = IF pc = "write" THEN "program" ELSE "program_last"
  /\ send_response(RESP_OK)
  /\ UNCHANGED <<line, bus_state, frame, mode, flashVars, signature, pin, kernel_total_size>>

\* write_kernel_page fills flash_buffer. Only WRITE_PAGE moves kernel_page.
LoadPage ==
  /\ mode = "bootloader" /\ pc \in {"write", "write_last"}
  /\ op' = [op EXCEPT !.page = kernel_page, !.buffer = frame.payload[1][1]]
  /\ kernel_page' = IF pc = "write" THEN kernel_page + 1 ELSE kernel_page
  /\ pc' = IF pc = "write" THEN "program" ELSE "program_last"
  /\ UNCHANGED <<serialVars, mode, flashVars, signature, pin, kernel_total_size>>

\* What a page holds once written: programming only clears bits.
Programmed(old, new) == IF old \in {Erased, new} THEN new ELSE Torn

\* flash_write_image_page: the FCR page argument wraps, the verification does not.
flash_write_image_page(page, buffer) ==
  LET target == ((page + ImageBase) % FcrPages) - ImageBase
  IN [flash EXCEPT ![target] = Programmed(@, buffer)]

\* A page outside the partition, or one that does not read back, halts.
Halt == mode' = "panic" /\ pc' = "poll" /\ UNCHANGED <<resp, frame_received>>

ProgramPage ==
  /\ mode = "bootloader" /\ pc \in {"program", "program_last"}
  /\ flash' = IF op.page \in Pages THEN flash_write_image_page(op.page, op.buffer) ELSE flash
  /\ IF op.page \notin Pages \/ flash'[op.page] # op.buffer
       THEN Halt
       ELSE /\ send_response(RESP_OK)
            /\ pc' = IF pc = "program" THEN "poll" ELSE "store"
            /\ UNCHANGED mode
  /\ op' = noOp
  /\ UNCHANGED <<line, bus_state, frame, hash_sector, signature, pin, kernel_page, kernel_total_size>>

\* store_kernel_hash, after the last page was already acknowledged, and the reset.
\* An image the engine cannot cover twice ends in the panic.
StoreHash ==
  /\ mode = "bootloader" /\ pc = "store"
  /\ IF HashError(kernel_total_size)
       THEN mode' = "panic" /\ UNCHANGED hash_sector
       ELSE /\ hash_sector' = [size |-> kernel_total_size,
                               digest |-> hash256_generate(kernel_total_size)]
            /\ mode' = "boot"
  /\ pc' = "poll"
  /\ UNCHANGED <<serialVars, op, flash, signature, pin, kernel_page, kernel_total_size>>

\* What an interrupted erase, write or hash store may leave behind.
TornFlash ==
  IF mode # "bootloader" THEN {flash}
  ELSE IF pc = "erase" /\ op.page < op.blocks * BlockPages
    THEN {flash, [p \in Pages |-> IF p \in Block(op.page) THEN Torn ELSE flash[p]],
          [p \in Pages |-> IF p \in Block(op.page) THEN Erased ELSE flash[p]]}
  ELSE IF pc \in {"program", "program_last"} /\ op.page \in Pages
    THEN {flash, [flash EXCEPT ![op.page] = Torn],
          [flash EXCEPT ![op.page] = Programmed(@, op.buffer)]}
  ELSE {flash}

\* The size word and the digest of the hash sector are programmed and torn
\* independently of each other; only a torn digest matches nothing.
TornHash ==
  IF mode = "bootloader" /\ pc = "store" /\ ~HashError(kernel_total_size)
    THEN {hash_sector} \cup
         [size : TornSizes \cup {kernel_total_size, Blank},
          digest : {<<Torn>>, hash256_generate(kernel_total_size)}]
    ELSE {hash_sector}

\* A reset at any moment, with the boot pin held or not.
Reset(pins) ==
  /\ mode' = "boot"
  /\ flash' \in TornFlash
  /\ hash_sector' \in TornHash
  /\ pin' \in pins
  /\ FrameInit
  /\ pc' = "poll" /\ op' = noOp /\ kernel_page' = 0 /\ kernel_total_size' = 0
  /\ UNCHANGED signature

BootloaderStep ==
  \/ Boot \/ BootloaderByte \/ Dispatch \/ SetFlashOffset \/ EraseSize
  \/ EraseBlock \/ EraseDone \/ LoadPage \/ ProgramPage \/ StoreHash
=============================================================================
