# A TLA+ model of the Cortex-M7 operating system

This directory holds TLA+ modules that model the kernel in `src/`, the TLC
configurations that check them on small instances, and TLAPS proofs of the safety
of the scheduler, the memory manager, the pool and the lists, the download, the
USB stack, FAT32 and the SD protocol for every instance that satisfies the
hypotheses named under Proofs. `PROJECT.json` maps every definition to the lines
it models and lists the runs, the mutants, the findings, the hazards and the
theorems.

## The system

The repository is a small operating system for the SAME70 (one Cortex-M7 core),
its bootloader and the programs that download images to it.

| Component | State | Operations | Interacts through |
|---|---|---|---|
| scheduler (`kernel/scheduler.c`, `rt.c`, `app.c`, `background.c`, `idle.c`, `context.s`) | `cpu_rq`: four run queues, `sleep_q`, `blocked_q`, `threads`, `tick_to_wake`; `curr_thread`, `next_thread`, `tick`, `scheduler_status` | `scheduler_start`, SysTick, PendSV, sleep, block, unblock | interrupts, TCB fields, `mm_free` |
| threads (`kernel/thread.c`) | the TCBs | `new_thread`, `thread_exit`, `kill_thread`, `thread_sleep`, `thread_block` | suspends and resumes the scheduler, SVC |
| intrusive list (`kernel/dlist.c`) | `next`/`prev` per node, `first`/`last`/`size` per list | insert, remove | embedded in TCBs and elsewhere |
| memory manager (`mm/mm.c`) | headers in the heap, `physmem` per memory | `mm_init`, `mm_alloc`, `mm_free` | every allocation in the kernel, system calls |
| page and block allocators (`mm/pmalloc.c`, `bmalloc.c`, `umalloc.c`) | a bitmap per pool | allocate, free | on top of `mm.c` |
| system calls (`kernel/svc.s`, `syscall.c`) | none | dispatch | scheduler, `mm.c` |
| button (`board/button.c`, `main.c`) | a static toggle | interrupt | `thread_block`, `thread_unblock` |
| bootloader (`bootloader/src`) | frame receiver, page counter, image and hash in flash | receive, erase, write page, store and check hash, boot | serial line, flash |
| host programmers (`tools/*.py`) | file position, last response | send a frame, wait for the response | serial line |
| kernel frame receiver, FPI, dynamic linker (`kernel/bootloader.c`, `misc/fpi.c`) | receiver state, binary buffer | receive frame, start application, leave for the bootloader | serial interrupt, `mm_alloc`, `new_thread` |
| USB host controller (`drivers/usbhc.c`) | pipes, URB queues, root hub | submit, interrupt | callbacks of the USB core |
| USB core and HID (`usb/usb.c`, `usb/drivers/usb_hid.c`) | device list, enumeration state, descriptor tree, drivers | enumerate, parse, match a driver | URBs and their callbacks |
| FAT32 (`disk/fat32.c`, `kernel/run.c`) | volumes, a sector cache per volume, file and directory handles | mount, open, read, jump, list, eject, run a binary | block reads |
| SD protocol and MMC driver (`disk/sd_protocol.c`, `drivers/mmc.c`, `disk/disk_io.c`) | `slot_1`, the bus interface | identify, set up the bus, read | polled by `fat32_thread` |
| lists and pools (`kernel/list.h`, `mm/umalloc.c`) | links, a bitmap | insert, remove, allocate, free | used by all of the above |
| ring buffer, serial, spinlock, tic-tac-toe | - | - | not modelled, see below |
| drivers, start-up, faults, benchmarks | registers | - | not modelled, see below |

What is hard about this code is that almost all of it runs in handlers of
different priority that share queues without locks, and that a thread control
block lives in several intrusive lists and is freed by the handler that
schedules the next thread. The USB stack
runs as callbacks of one interrupt handler while hardware raises the next event;
the download runs over a line on which either side may stop, restart or answer
late; files, directories and labels share one sector buffer; and a card or a
device can be replaced between any two commands.

What makes the parts correct:

- *scheduler and threads*: one node is in one list; no thread gets lost between
  queues and processor; a freed TCB is never touched again; no `panic` is
  reached; sleepers wake neither early nor more than a bounded time late; the
  highest class runs; ready threads run, sleepers wake, exiting threads go.
- *memory manager*: blocks tile the memory; free neighbours are merged; the
  accounting agrees; callers get what they asked for.
- *lists and pools*: both directions of a list agree, each operation is the
  operation on a sequence that the scheduler takes it for, a block has one owner.
- *download*: an image starts only if it is complete; nobody sends while the
  one frame buffer is read; an update that was interrupted at any point can be
  repeated; an application starts as it was sent.
- *USB*: pipe and device agree about the address; no request gets stuck; the
  descriptor tree is the device's; an enumeration finishes.
- *FAT32*: calls deliver what is on the disk whatever handles were used in
  between. *SD*: address unit and bus width belong to the card in the slot, the
  volumes to the card that was mounted last.

## Modules

| Module | Content |
|---|---|
| `Scheduler` | the scheduler, the threads, the system call and the button: state, actions, properties |
| `ThreadLifecycle` | what the scheduler promises to threads, without queues |
| `SchedulerInv` | the inductive invariant `IInv` |
| `MC_Scheduler` | instances of `Scheduler` for TLC |
| `ListLemmas` | facts about sequences, least numbers and rounding |
| `Scheduler_proofs` | type correctness; what each kernel function preserves of the invariant; one lemma per action, the theorems, the refinement |
| `MemoryManager` | the allocator of `mm.c`, header by header |
| `Heap` | a first-fit heap without headers |
| `MC_MemoryManager` | an instance of `MemoryManager` for TLC |
| `MemoryManager_proofs` | the invariant of the allocator, its theorems, and that it implements `Heap` |
| `LinkedLists` | the pointer operations of `dlist.c` and `list.h` |
| `Umalloc` | the bitmap pool of `umalloc.c` |
| `Containers`, `Containers_proofs` | objects of a pool in dlists and a ring; the safety of the pool and of the lists |
| `Serial` | the frame receiver and both directions of the line |
| `Bootloader` | boot decision, commands, flash and hash; extends `Serial` |
| `AppLoader` | the kernel's receiver, `fpi` and the dynamic linker; extends `Bootloader` |
| `Download`, `MC_Download` | the programmers and the faults, composed with the device |
| `Download_proofs` | the invariant of a download and its theorems |
| `UsbHostController` | pipe 0, its queue, root hub and interrupt, with the bus |
| `UsbCore`, `MC_Usb` | enumeration, descriptors, drivers, as callbacks of the above |
| `Usb_proofs` | the tree that the parse loop builds, the invariant of pipe, bus and core, and the theorems |
| `Fat32`, `MC_Fat32` | one volume: cache, FAT, paths, files, directories, `run_binary` |
| `Fat32_proofs` | the invariant of the sector buffer and of the open handles, and the theorems |
| `Volumes` | the volume list, its letters, the test for FAT32 |
| `SdProtocol`, `MC_Sd` | card identification and reading under `fat32_thread` |
| `SdProtocol_proofs` | the invariant of slot, card, bus and volumes, and its theorems |

### Scheduler

The globals of `scheduler.c` and the fields of the TCBs are one record,
`kernel`. Every C function that updates them (`dlist_insert_last`, `enqueue`,
`pick_thread`, `process_expired_delays`, `scheduler_remove_thread`, ...) is an
operator from records to records, and a handler is the composition of the
functions it calls. A list is a sequence; the checks `dlist.c` starts with are
kept (`ListError`), including their blind spot: a node that is alone in a list
has no links, so only the list that is asked can notice it (`Linked`). A failed
check, a `panic` and an access through NULL set `panic` and stop the machine.

`cpu` says what executes next. Priorities are those `scheduler_start` sets (SVC 5,
SysTick 6, PendSV 7; other interrupts above). SysTick sets FAULTMASK for its
whole length, so it is one action. After it, `cpu = "pendsv"` until the context
switch; in between `next_thread` is in no list. A thread step is possible only in
thread mode and not while `reschedule()` has made SysTick pending.
`new_thread` and `kill_thread` are two actions each, since the scheduler is
suspended and interrupts arrive between suspending and resuming it. `new_thread`
enqueues a TCB whose `tick_to_wake` and `exit_pending` still hold whatever the
memory held (`pmalloc` does not clear it); the model takes 0 or a stale value,
and the flag set or not.

Parameters of the workload (`SleepMs`, `Sleepers`, `Exits`, `Spawners`,
`ButtonTid`, `LongISR`) say what threads and interrupts do. `Supported` names the workloads
the scheduler handles: real-time threads only exit, nobody sleeps for 0 ms, no
interrupt blocks threads, no interrupt handler outlasts a slice. Outside it the
code stops in a panic (see Limits). With a button, the properties that hold until
the machine stops are checked (run `button`).

Abstractions: runtime statistics (read by printing only) are left out. The
registers that PendSV saves are left out; what it does is `curr_thread :=
next_thread`. The clock `tick` counts units of the SysTick counter, a slice being
`SYSTICK_RVR` of them; a slice cut short counts any amount up to a full one. A
TCB that was freed is not created again, so that a use after free stays visible.
Wrap-around of the 64-bit tick is
out of reach of the hardware's life time.

The SVC that walks `sleep_q` is one step, and so is the enqueue in `new_thread`,
although the button interrupt can preempt both. That is sound for the workload of
`main.c` only, and `WorkloadAssumption` and `MayCreate` confine the model to it:
the thread that the button blocks is the only one that sleeps, so that a press
inside its SVC finds it running and `scheduler_block_thread` panics; and the thread
of the button is created last in the real-time class, so that a press inside a
later `new_thread` touches the real-time and the blocked queue and `new_thread`
another. A press that comes before the step or after it is in the model. Any other
workload would need the scheduler on the level of single pointers (a hazard in
`PROJECT.json`).

`ThreadLifecycle` leaves open how many sleepers a dispatch wakes. The code wakes
one, where its comment says all that have expired: run `expired`.

### MemoryManager

`next`, `size` and `region` are the header fields at each aligned address;
a root object is named by its memory. Unlike the kernel record, the list is the
chain of pointers itself, as `mm.c` has it, and a block that is merged keeps its
old header in memory. The allocator writes all fields of a header before it
reads them, so what callers store in their blocks does not matter. Sizes are
`u32` (`Word`); the addition of the header wraps for a size within eight bytes
of `Word`, and then `GetsItsBytes` fails, as a configuration with such a size
shows; the runs ask for sizes that fit the memory. Callers free what they hold,
the NULL a refused request gave them (which panics), and, if `Careless`, pointers
they have freed before.

`Heap` says what that implements: blocks in use, no structure for free memory,
every request served from the lowest gap that is large enough. An allocator that
fails to merge, splits at the wrong size or refuses too early does not implement
it.

### Lists and pools

`LinkedLists` has the four links of `dlist.c` and the ring of `list.h` as they are
in memory, `Umalloc` the bitmap behind the arena with the rounding of
`umalloc_new`. `Containers` lets callers do everything with them in any order:
`OpsAreSequenceOps`, which is proved, justifies the sequences of `Scheduler`. `dlist.c`
cannot notice a node that is the only one of *another* list (`OnlyElsewhere`);
callers do not insert such a node, which `ListsDisjoint` shows of the scheduler.

### Download

The device is in `boot`, `bootloader`, `kernel` or `panic` mode. The frame
receiver takes a byte a step and is the same in the bootloader and in the kernel.
Erase, page write and hash store are a step per flash operation, so that power
can fail inside each; a page that was being written then is `Torn`, and the hash
sector keeps its old contents or has a torn or a right digest and, as size, the
right one, a blank word or any of `TornSizes` (`TornHash`). `hash.c:50` sets a
length of twice the size (`Covered`); if that reaches beyond the flash, the hash
engine reports an error and `hash256_generate` panics (`HashError`), when the hash
is stored and at every start (`BootPanics`). `doc/bootloader.md:76` has the chip
continue to the bootloader then. The way out is the one the document calls "Force
bootloader", the boot pin held during a reset (`ForceBootloader`). A digest is
the pages it covers and a frame check is the frame it covers, because only their
equality matters. The programmers are what they write (`Script`) and which
responses they look at (`Tested`): the answers to pages are read and not tested.
Left out, as neither programmer sends them: `CMD_CTRL_LED`, which switches an LED,
and payloads larger than the frame buffer.

Assumed of the environment: the operator starts a tool on a quiet device, more
than a second after the last byte; opening the port drops old responses; a power
loss takes the programmer's port away; no damaged byte passes the 8-bit check. A
write through the null `binary_buffer` faults. The kernel's time-out handler is
named `timer0_ch0_handler`, the vector table wants `timer0_ch0_exception`, so the
time-out is a panic, after which the device stays in the bootloader. The page
number of a flash command is cut to a byte (`FcrPages`), which the instance does
not reach and the theorems exclude (`SmallImage`).

### USB

The pipe is a record and each driver function maps records to records, as one
interrupt runs a chain of them and of callbacks. `usb_exception` is two steps: it
reads the status, then runs the handlers and clears all flags; the hub may raise
events between the two. The device answers by its own state (address, last SETUP,
bytes left), with NAKs. `core` holds the device list, the enumeration state and
the parsed descriptors, which lie in one buffer at the offsets that
`usbc_get_desc_offset` computes. `bmalloc` does not clear the memory of a device
and `usbc_add_device` does not clear `num_configs`, which is counted up
(`usb.c:628`): it starts at `Garbage`, remembered as `leftover`, and with a leftover
the loop over the configurations follows pointers past them and may fault (`stray`).
Plugging in is slower than the retries of a
transaction, the interrupt latency and a bus reset (`Attach`). Left out: pipes
1..9, which nothing requests; the wake-up event; printing.

Known limits of the code that the model keeps or excludes: an unplugged device
leads to a pipe error and a panic; addresses and URBs are not given back;
`num_configs` is right only if the memory was zero, which `EnumeratedRight` states as
it is; a string descriptor shorter than two bytes, a descriptor of length zero,
which is read for ever, and more than 1024 bytes of descriptors, which overrun
`enum_buffer`, are not refused (`UsbAssumption` excludes the last two).

### FAT32 and SD

In `Fat32` a call is one action on the shared cache, since one thread uses the
volume. `disk_write` ends in a panic, so the disk is a constant and a call that
must write stops the system (`DirRename`, `VolumeSetLabel`, `TableSet`,
`GetCluster`). Names are sequences of character codes, because comparing them,
case and check sum included, is what opening a file is about. `Files` and
`Listings` say what is on the disk, independently of the code, and `Names` what
names its entries have. Excluded, because the code does not handle it: reading at
the end of a file, which delivers one byte too many; paths through missing
directories, which `fat_follow_path` reports as found; paths that go on after the
name of an entry, which open that entry, as the comparisons end with it
(`ExactNames`); and a root directory longer than one cluster, of which `fat32.c:696`
stores a sector where the walk expects a cluster (`RootInOneCluster`). So
`OpensNamedFile` and `DirListed` say nothing of such paths and roots. Clusters are
crossed in the directory below the root and in the files.

A binary begins with `app_info.end`, its size in memory. That is more than the size
of the file if the program has a `.bss`, which the linker script does not load; the
model has both words, and `run_binary` takes the pages from the one (`PageCount`)
and what it loads from the other.

In `SdProtocol` one action is one command. Without an answer `mmc_send_cmd`
panics; data that does not come is awaited for ever. The card follows the states
of the SD standard and can be removed or replaced between any two commands.
`mmc_set_bus_freq` keeps its faulty mask: the divider only ever gains bits, which
leaves the bus slow and the identification legal. `BusAgrees` compares the bus
width: the host turns high-speed timing on although CMD6 asks in check mode and the
card does not follow. The size of a card with a CSD of version 1 is computed in
thousands. A card of version 1.0 or 1.1 does not answer CMD8, which is a panic, so
the flag `past_v1_10`, which is never cleared, cannot be met by a card without
it. The panics over what an answer says (a refused voltage or switch function, an
unknown CSD structure, an error status) are left out.

`fat32_thread` looks at the level of the card switch every half second. A card that
is put in while the one before is still mounted goes unnoticed: the old volumes
stay and the card is never mounted. One that is put in while the thread waits for
data of another is not noticed either (`mmc.c:239` waits without a time-out). The
model marks such a card (`unseen`); `mounted` remembers the card mounted last. Both
are history and no action looks at them. `VolumesRight` says that the volumes are
those of `mounted`, which is the card in the slot unless that one is marked;
`CardIsMounted` is about the cards that are not. A second disk comes and goes so
that letters are reused out of order.

## Runs

| Run | Bounds | Shows |
|---|---|---|
| `core` | idle, 2 real-time threads, an application and a background thread, three of them sleepers; sleeps of 1 and 2 slices; one thread exits or is killed; a clock of six slices, each of one unit | all safety properties, `IInv`, `NoEarlyWake`, that the scheduler implements `ThreadLifecycle`, and that ready real-time threads run, sleepers wake and exits complete |
| `button` | idle, 2 real-time, 1 application, button on the second, which is the one that sleeps; three slices of two units | a press between any two steps of this workload corrupts no list and keeps the life cycle, as long as no panic stops the machine |
| `heap` | memories of 56 and 32 bytes with smallest blocks of 16 and 24, two sizes | tiling, merging, accounting, blocks go back to their memory, refinement of `Heap` |
| `lists` | a pool of 4 blocks, two dlists, a ring | lists and pool stay sound, operations are sequence operations |
| `update` | images of 2 and 3 pages, erase blocks of 2, an application of 2 blocks; 3 faults (power loss, stopped programmer, early time-out); torn sizes 0, 1 and 7, of which 7 is beyond the flash | only whole images and applications start, the host waits, the update completes, if need be with the boot pin |
| `enum` | 3 devices, 2 plug-ins, 1 NAK | addresses, queue, descriptor tree (with `num_configs` off by the leftover), termination |
| `files` | 12 clusters of 2 sectors, a root of one cluster, a directory of two below it, long names over the boundary, one file, one directory and one binary | calls deliver what is on the disk |
| `mount` | 4 kinds of card, 3 insertions, busy at most once, 3 attempts | addresses, width and identification clock, volumes; a card that stays and was not put in unseen is mounted |
| `expired`, `noise`, `lost_event`, `binary` | smallest that show it | the findings |

The bounds suffice for what can go wrong: four threads besides idle give every
combination of a running, a picked and several queued or sleeping threads of
every class, equal and different wake-up times, and a thread killed in each of
its states; the clock bound leaves room for a thread to sleep, wake and sleep
again, and for a sleeper that is overlooked to exceed the bound of
`WakeLatency`. At the bound
the clock stops and the rest goes on, so no behaviour is cut off by it; liveness
properties that depend on the clock say `< MaxTick`. The proofs below hold
without these bounds. 56 bytes are room for three blocks with and without a
remainder too small to split off, and for every order of giving them back:
merging forwards, backwards, both ways and not at all.

Three faults let an update fail in each phase, be repeated and fail again; two
pages in an erase block and an odd image make the hash cover an erased page. Two
plug-ins give a second device while requests of the first are queued; a keyboard
with 8-byte packets and a length that is a multiple of them meets the full last
packet. Three insertions are enough for a fast card, a slow card and a fast one
again. Four pool blocks fill two words of the bitmap.

All passing runs but `core` leave deadlock unchecked, since a panic, or all
that the bounds allow being done, really stops the system.

Every property of a passing run has a mutant: a changed definition (next to
the original, marked as one) under which TLC finds the property violated.

## Fairness

`FairSpec` assumes what the hardware guarantees: main reaches `scheduler_start`;
a pending PendSV is taken; a thread that runs and is not preempted gets on with
`new_thread` or `kill_thread`, which have no loops that wait. `TimerFires` is
strong fairness of SysTick: the timer does not for ever expire just in the
moments when the scheduler is suspended, in which case the code drops the tick.
(Written out with the guard of the action, as evaluating ENABLED of the whole
handler in every state is costly.) Nothing is assumed about the threads' own
code. Lower classes may starve, so `ReadyRuns` is about the real-time class.

`Download`: interrupts and polling loops run, the tools run and time out, and the
operator tries again, holding the boot pin when the board has stopped in a panic of
the bootloader (without that `UpdateCompletes` fails on a torn size word); nothing forces a fault,
and the faults are finite. `UsbCore`:
the interrupt handler runs, the bus performs transactions, frames and the reset.
`SdProtocol`: `fat32_thread` runs (a real-time thread, see `ReadyRuns`); nobody
has to insert or remove a card.

## Proofs

Every theorem is for all values of the constants that satisfy the ASSUMEs of the
modules and the hypotheses named here; no bound of a run is used. Induction over
the length of a walk, over addresses and over finite sets is done with least
counterexamples (`LeastNatural` of `ListLemmas`).

### Scheduler

`Scheduler_proofs` assumes the ASSUMEs of `Scheduler`
(finite `Thread`, one idle thread, a slice of positive length) and, except for
the first, `Supported`:

- `TypeCorrect`: `Spec => []TypeOK` for every workload, the failing ones
  included. It rests on `TypeInv`, which adds what makes the handlers' arguments
  well typed (when the processor is in thread or PendSV mode there is a thread).
- `Safety`: `Spec => []IInv`, and from it `NeverPanics`, `QueuesDisjoint`,
  `NobodyLost`, `FreedUnused`, `SleepersSorted`, `SleepersOnTime` and
  `HighestClassRuns`: for any number of threads, any sleep times, any clock.
- `NoEarlyWakeups`: no step takes a thread off the sleep queue before its time.
- `Refinement`: every step of the scheduler is a step of `ThreadLifecycle` or
  leaves it unchanged, under the mapping `lifecycle`.

The safety properties are not inductive by themselves. That SysTick does not
link `curr_thread` twice depends on `tick_to_wake` being zero exactly for those
not in `sleep_q` (`ThreadOK`); that fails for a TCB that `new_thread` is setting
up, so `CallsOK` ties such TCBs to a suspended scheduler and the running
thread's program counter. That a killed thread is unlinked before it is freed
needs `rq_list` to name the list that holds it, which is true for real-time
threads and for sleepers of all classes (`ListField`), hence `Supported`. That a
sleep longer than 0 ms is not over at the SysTick it pends is the last conjunct
of `RunnerOK`. The bound of `WakeLatency` is inductive thanks to the position in
the queue: each SysTick adds at most a slice to the clock, and once the first
sleeper has expired it also removes it, so all others move up by one.

The argument is layered as the model is: the first half of `Scheduler_proofs` shows
for each kernel function what it preserves of `KernelOK` and what it does to the
set of queued threads; the second puts these together for each action. `NoEarlyWake`
and the refinement reuse these lemmas: an action moves at most the thread it is
about and the one that SysTick wakes.

### Memory manager

`MemoryManager_proofs` is for memories of every position and size, and for callers
that satisfy `Disciplined`: nobody frees a block twice, and no request is so large
that adding the header and the alignment wraps around in 32 bits. Both are limits
of the code (see Limits), and the memories end below 2^32.

- `MemoryInvariant`: in each memory the chain from the root object is sorted and
  ends at the last node; free and held blocks together cover the memory, each block
  ending where the next begins (`Covers`); no two free blocks touch (`Apart`); a
  held block carries the mark, its region and enough bytes.
- `TilingHolds`, `EnoughBytes`, `FreeNeverPanics`: `Tiling`, `GetsItsBytes`,
  `HeldCanBeFreed`.
- `AccountingHolds`: `Accounting`, where the u32 subtraction of `mm_free` wraps
  only in form: what it subtracts is part of the sum.
- `FirstFitHeap`: the allocator implements `Heap`.
  As no free blocks touch and free and held blocks cover the memory, the free
  blocks are exactly the longest stretches without a held block; so the first in
  the list that is large enough is the lowest gap, and a request is refused only
  if there is none.

`Covers` speaks of the set of blocks and not of the list, so that a split replaces
one member by two and a merge two or three by one; that the chain of pointers
visits exactly the free ones follows the walk step by step.

### Lists and pools

`Containers_proofs` is for pools of every size and any set of dlists next to the
ring, with callers that insert, take, free and free wrongly in any order.
`NodeAssumption` says that `NULL` and the head of the ring are not addresses of
the pool.

- `PoolStaysSound`: `held` is the set of the blocks whose bits are clear, `used`
  counts them, and the rounding of `umalloc_new` leaves room for all of them and
  the bitmap.
- `ListsStaySound`: `ListsSound`. The invariant `Rep` gives each list a sequence of
  objects: the links of each object are its neighbours in the sequence, the ends
  are in the `dlist` or in the head, the sequences are disjoint, and an object in
  none has the links of `node_init`. It is needed because `ListsSound` speaks of
  walks, and an operation changes two or three links whatever lies between: the
  proof says once what these writes do to linked sequences (`Joined`, `Parted`),
  once that a walk along a linked sequence reads it back, and that no sequence is
  longer than the pool, so that the bound of the walk is never met.
- `SequenceOps`: `OpsAreSequenceOps`. Each operation takes the sequence to the one
  its name says and leaves the other lists alone.

### Download

`Download_proofs` is for images and applications of every length and any number of
faults. `SmallImage` (the last page of the new image has a number below
`FcrPages`) is the one hypothesis: without it `flash.c:132` programs another page
than it verifies, and a page of the image that is blank would pass the
verification while an earlier page is destroyed.

- `DownloadInvariant`: `DownloadInv` is an invariant. Its core is `Phase`: at any
  time nothing is under way, or one thing is, and that is the first byte of an
  update, one frame of a script of which k bytes have arrived, a frame that the
  bootloader or the thread of the kernel is working on, an answer, the hash
  about to be stored, or a restart; each phase says what flash, page counter or
  buffer hold. A programmer that gave up leaves the phase as it is, and a
  restart of the tool finds the device quiet.
- `HostAlwaysWaits`, `WholeImageBoots`, `AppStaysIntact`: `HostWaits`,
  `BootsWholeImage`, `AppIntact`. The second needs that a digest which can match
  covers a whole image (`HashOK`) and survives every torn write of the sector.

### USB

`Usb_proofs` is for any set of devices with descriptors of every number, order and
length, any pool of URBs, any number of pipes, and plug-ins, unplugs and NAKs at
every moment. `DeviceAssumption` gives a device the fields that the stack reads
and makes a string descriptor 2 + 2n bytes long; `UsbAssumption` gives the pools
a size, every descriptor a length, and has the descriptors fit `enum_buffer`.

- `UsbInvariant`: `UsbInv` has three parts beside the types. `HubInv` follows the
  port: from a plug-in to the end of the reset the pipe is quiet, and the device
  that is then on the bus is at address 0. `Stages` gives every state of the pipe
  the token, the flags and the bytes of the one transfer that is under way; at
  most one URB is in the queue outside a callback, which is why the two places
  that start a transfer never start it twice. `Transferring` ties that transfer
  to the enumeration: the request is the one its state asks for (`Asked`), the
  answer comes from the device the core believes in (`SameDevice`), whose address
  is the old one until the status stage of SET_ADDRESS has been received
  (`AddressMoves`), and the device record holds what the states passed have
  stored (`Stored`). An unplugged device turns every stage into a pipe error,
  and so into the panic.
- `TokensReachTheDevice`, `QueueKeepsMoving`: `AddressesAgree`, `QueueMoves`.
- `EnumerationRight`: `EnumeratedRight`. The parse loop is a recursive function
  over the descriptors; `TreeSoFar` says, of the descriptors passed so far, that
  each lies at the place its rank gives it, that places are distinct
  (`PlacesDistinct`), and that the array of the last configuration and of the last
  interface spans exactly its children. `WalkInOrder` then reads the finished
  tree back, and `AssignedRight` shows that assigning drivers changes nothing
  else of it.

### FAT32

`Fat32_proofs` is for volumes of every geometry, files of every length and any
order of calls. What it asks of a volume stands at the end of `Fat32`:

- `FatAssumption`: the fields of the BIOS parameter block are numbers, clusters
  and the partition are not empty, FSinfo lies in the reserved sectors.
- `VolumeAssumption`: the chain of a file reaches to its size, FSinfo points at
  or before a free entry (otherwise `fat_get_cluster` scans on without end), and
  a binary is not empty and begins with a number.
- `DirectoryAssumption`: `ExactNames` and `RootInOneCluster`, see FAT32 and SD
  above. TLC evaluates these on the disks of the two runs.
- `NamesResolve`: on a volume just mounted every path leads to its own file, or to
  none. That is the first step of the run `files` from its initial state; what the
  theorems add is that it stays so after any other calls. It excludes, as the run
  does, paths through missing directories.
- `ListsNames` (for listings): without other calls, repeated reads list the
  directory's names and then EOF. The run shows this too, in the behaviours that
  only open and read a directory.

`NamesResolve` and `ListsNames` are hypotheses of the theorems because what the
search computes from the characters of an arbitrary directory is an induction over
data, which the provers do not do.

- `FatInvariant`: `FatInv` is an invariant. `CacheInv` says that the buffer is a
  clean copy of its sector unless the machine has halted. It makes the calls
  independent of each other: `SearchFacts`, `FollowFacts`, `OpenFacts` and
  `ListFacts` show that a walk over directories finds the same from any clean
  buffer. `FileInv` is about the open file, and ties `sector`, `cluster`,
  `rw_offset` and `glob_offset` together: the position is in the k-th cluster of
  the file's own chain, in a sector of it and at a byte of that, which may be one
  past the last, when the next read has to move on first. Only with all three
  does a read that crosses a sector, a cluster or comes after a jump start where
  the last one stopped. `LastInv` is what is said of the last call.
- `OpensTheNamedFile`, `ReadsTheFile`, `LoadsTheBinary`: `OpensNamedFile`,
  `ReadsRight`, `BinaryLoaded`. Each byte delivered is compared with `Content`,
  which finds it by its number in the file and the chain alone.
  `LoadsTheBinary` is an equivalence, for binaries of every size: `BinaryLoaded`
  holds of a call exactly if the file does not end with a page and its last page is
  among those that `PageCount` makes of the first word (`BinaryFits`). The first
  condition is there because `run_binary` reads on until EOF, which comes one byte
  late. The run `binary` shows a call for which it does not hold.
- `ListsTheDirectory`: `DirListed`. `DirInv` says that an open directory stands
  where n reads without other calls would have left it, for some n.

### SD protocol

`SdProtocol_proofs` is for all kinds of cards, partition tables and any number of
insertions, removals and failed commands. `SdInvariant` says what the host has
learnt of a card until it is reset or replaced (`Learnt`), which partition it looks
at (`PartKnown`), that a block is on the way only between a command and its data
(`InFlight`), and that the volume table holds the FAT32 partitions that were
passed (`Mounted`) or, while they are ejected one by one, the ones still to meet
(`Ejecting`), and that the card in the slot is the one mounted last unless it was
put in unseen (`InSlot`). `AddressIsRight`, `BusIsRight` and `VolumesAreRight` follow.

### Only model-checked

- Liveness and `ENABLED`, which TLAPS does not handle: `ReadyRuns`, the wake-ups
  and exits, `UpdateCompletes`, the end of an enumeration, the mounting of a card.
- The `button` run, where the machine may stop.
- That the directories of a disk resolve names and list entries as they should
  when nothing else is going on (`NamesResolve`, `ListsNames`): the comparison of
  characters, long-name chains and check sums, on the disk of the run.
- The four findings, which are counterexamples.

## Findings

Each is a run that TLC ends with a counterexample; `PROJECT.json` quotes the line
of the repository that says otherwise.

1. `expired`: SysTick wakes the first of the threads whose time has come and leaves
   the others asleep, against the comment in `process_expired_delays`; `WakeLatency`
   bounds how long.
2. `noise`: a page frame that arrives damaged is refused by the device and skipped
   by the programmer; the bootloader hashes and starts the incomplete image.
3. `lost_event`: `usb_exception` clears an event that was raised after it read the
   status; the device is never enumerated.
4. `binary`: `run_binary` allocates one page too few when the number of full pages
   is even.

## Limits

What `Supported` and the workload constants leave out, because the code does not
handle it; each shows as a counterexample when the constant is changed:

- an application or background thread exits (`Exits`): it is freed while in its
  run queue, as `rq_list` is kept by the real-time class only (`NoUseAfterFree`);
- a sleep of 0 ms (`SleepMs`), or an interrupt handler longer than a slice
  (`LongISR`): a thread is enqueued twice and `dlist.c` panics (`NoPanic`);
- a button that blocks the running thread (`ButtonTid`): panic, since
  `reschedule()` has no effect inside the handler (`NoPanic`);
- a block freed twice (`Careless`): accepted if it was merged backwards (`Tiling`);
- a size within eight bytes of 2^32 (`Sizes`): it wraps (`GetsItsBytes`).

The limits of the download, the USB stack, FAT32 and the SD driver are named with
their modules above.

## Not modelled

Ring buffer and console, spinlock (nothing takes it), the tic-tac-toe program;
register-level drivers, clocks, caches and MPU, start-up code, fault printing,
Ethernet bring-up and benchmarks, which keep no state of their own that another
part reads. The steps inside a system call or a list operation, between which an
interrupt of higher priority could run, and `mm_alloc` in a thread against
`mm_free` in SysTick: both need the scheduler on the level of single pointers.

## Plan

1. The ring buffer between the USART interrupt and the system call of tic-tac-toe.
2. The scheduler on `LinkedLists` and `MemoryManager`, step by step, for the
   interrupts inside the SVC and the allocator.
