------------------------------ MODULE Download ------------------------------
(***************************************************************************)
(* Firmware update and application download end to end: a programmer       *)
(* (tools/kernel_prog.py or tools/app_prog.py), the serial line, and the   *)
(* device in its bootloader or its kernel, with resets, cut lines, stopped *)
(* programmers and timeouts on both sides.                                 *)
(***************************************************************************)
EXTENDS AppLoader

CONSTANTS
  OldImage, NewImage,   \* kernels, as sequences of page contents
  AppBinary,            \* an application, as a sequence of blocks
  MaxFaults,            \* resets, cut lines and early timeouts in a behaviour
  MaxAppRuns,           \* times the operator runs app_prog
  Noise                 \* corrupted bytes in a behaviour

ASSUME ImageAssumption ==
  /\ OldImage \in Seq(Nat) /\ NewImage \in Seq(Nat) /\ AppBinary \in Seq(Nat)
  /\ 2 * (((Len(OldImage) + BlockPages - 1) \div BlockPages) * BlockPages) <= FlashPages
  /\ MaxFaults \in Nat /\ MaxAppRuns \in Nat /\ Noise \in Nat

VARIABLES host, faults, appRuns, noise

envVars == <<faults, appRuns, noise>>
vars == <<serialVars, bootVars, fpiVars, host, envVars>>

noHost == [tool |-> "none", step |-> 0, sent |-> FALSE]

\* load_kernel and bin_programmer: what each writes, in order.
Script(tool) ==
  IF tool = "kernel"
    THEN <<<<ZERO>>, send_frame(CMD_SET_FLASH_OFFSET, 0),
           send_frame(CMD_ERASE_FLASH, Len(NewImage))>>
         \o [i \in 1 .. Len(NewImage) |->
               send_frame(IF i = Len(NewImage) THEN CMD_WRITE_PAGE_LAST ELSE CMD_WRITE_PAGE,
                          NewImage[i])]
    ELSE <<send_frame(CMD_ALLOCATE_MEM, Len(AppBinary))>>
         \o [i \in 1 .. Len(AppBinary) |->
               send_frame(IF i = Len(AppBinary) THEN CMD_BINARY_LAST ELSE CMD_BINARY,
                          AppBinary[i])]

\* The responses the tools test. The answers to pages are stored in `status`
\* while the test that follows reads the older `response`.
Tested(tool) == IF tool = "kernel" THEN {1, 3} ELSE {1}

Holds(image) == \A i \in 1 .. Len(image) : flash[i - 1] = image[i]

\* Nothing is under way on the line or in the device.
Quiet ==
  \/ mode = "panic"
  \/ line = <<>> /\ mode = "kernel" /\ fpi_pc = "poll" /\ ~frame_received
  \/ /\ line = <<>> /\ mode = "bootloader" /\ pc = "poll"
     /\ ~(frame_received /\ frame.cmd \in CMD_ERASE_FLASH .. CMD_SET_FLASH_OFFSET)

deviceVars == <<bus_state, frame, frame_received, bootVars, fpiVars>>

\* The operator starts a tool on a quiet device, more than the receiver's
\* second after the last byte; opening the port drops what it had received.
Start(tool) ==
  /\ host = noHost
  /\ Quiet /\ mode # "panic" /\ bus_state = "IDLE"
  /\ host' = [tool |-> tool, step |-> 1, sent |-> TRUE]
  /\ line' = Script(tool)[1]
  /\ resp' = <<>>
  /\ UNCHANGED <<deviceVars, faults, noise>>

StartKernelProg ==
  /\ ~(mode = "kernel" /\ Holds(NewImage))
  /\ Start("kernel")
  /\ UNCHANGED appRuns

StartAppProg ==
  /\ appRuns < MaxAppRuns
  /\ Start("app")
  /\ appRuns' = appRuns + 1

GetResponse ==
  /\ host.sent /\ resp # <<>>
  /\ resp' = Tail(resp)
  /\ host' = IF \/ host.step \in Tested(host.tool) /\ Head(resp) # RESP_OK
                \/ host.step = Len(Script(host.tool))
               THEN noHost
               ELSE [host EXCEPT !.step = @ + 1, !.sent = FALSE]
  /\ UNCHANGED <<line, deviceVars, envVars>>

SendNext ==
  /\ host # noHost /\ ~host.sent
  /\ line' = line \o Script(host.tool)[host.step]
  /\ host' = [host EXCEPT !.sent = TRUE]
  /\ UNCHANGED <<resp, deviceVars, envVars>>

\* A second without an answer: for ever when the device is quiet, and too
\* early when it is only slow (an erase takes longer than that).
HostTimeout ==
  /\ host.sent /\ resp = <<>>
  /\ \/ Quiet /\ UNCHANGED faults
     \/ ~Quiet /\ faults < MaxFaults /\ faults' = faults + 1
  /\ host' = noHost
  /\ UNCHANGED <<line, resp, deviceVars, appRuns, noise>>

\* The programmer is stopped, perhaps in the middle of a frame.
Cut ==
  /\ host # noHost /\ faults < MaxFaults
  /\ faults' = faults + 1
  /\ host' = noHost
  /\ \E n \in 0 .. Len(line) : line' = SubSeq(line, 1, n)
  /\ UNCHANGED <<resp, deviceVars, appRuns, noise>>

PowerUp(pins) == Reset(pins) /\ FpiReset

\* The board loses power, and the serial port of its debugger with it: the
\* programmer dies of the vanished port.
PowerLoss ==
  /\ faults < MaxFaults
  /\ faults' = faults + 1
  /\ PowerUp(BOOLEAN)
  /\ line' = <<>> /\ resp' = <<>> /\ host' = noHost
  /\ UNCHANGED <<appRuns, noise>>

\* doc/bootloader.md, "Force bootloader": the boot pin is held low while the
\* board starts. The way out of a bootloader that has panicked.
ForceBootloader ==
  /\ mode = "panic"
  /\ PowerUp({TRUE})
  /\ line' = <<>> /\ resp' = <<>> /\ host' = noHost
  /\ UNCHANGED envVars

DeviceStep ==
  \/ BootloaderStep /\ UNCHANGED <<fpiVars, host, envVars>>
  \/ KernelStep /\ UNCHANGED <<host, envVars>>
  \/ mode = "bootloader" /\ FrameTimeout /\ UNCHANGED <<bootVars, fpiVars, host, envVars>>

Init ==
  /\ SerialInit /\ FpiInit
  /\ mode = "boot" /\ pc = "poll" /\ op = noOp
  /\ flash = [p \in Pages |-> IF p < Len(OldImage) THEN OldImage[p + 1] ELSE Erased]
  /\ LET size == ((Len(OldImage) + BlockPages - 1) \div BlockPages) * BlockPages
     IN hash_sector = [size |-> size, digest |-> hash256_generate(size)]
  /\ signature = FALSE /\ pin = FALSE
  /\ kernel_page = 0 /\ kernel_total_size = 0
  /\ host = noHost /\ faults = 0 /\ appRuns = 0 /\ noise = 0

Next ==
  \/ DeviceStep
  \/ StartKernelProg \/ StartAppProg \/ GetResponse \/ SendNext
  \/ HostTimeout \/ Cut \/ PowerLoss \/ ForceBootloader

Spec == Init /\ [][Next]_vars

\* Interrupts and the polling loops run, the tools run, and the operator
\* tries again until the new kernel runs, with the boot pin if the board is dead.
Fairness ==
  /\ WF_vars(DeviceStep)
  /\ WF_vars(StartKernelProg) /\ WF_vars(GetResponse) /\ WF_vars(SendNext)
  /\ WF_vars(HostTimeout) /\ WF_vars(ForceBootloader)

FairSpec == Spec /\ Fairness

-----------------------------------------------------------------------------
(***************************************************************************)
(* A fault the programmers do not survive, kept out of Next.               *)
(***************************************************************************)

\* One byte arrives damaged.
Corrupt ==
  /\ line # <<>> /\ noise < Noise
  /\ noise' = noise + 1
  /\ \E bad \in {ZERO, Byte(1)} \ {Head(line)} : line' = <<bad>> \o Tail(line)
  /\ UNCHANGED <<resp, deviceVars, host, faults, appRuns>>

NoisySpec == Init /\ [][Next \/ Corrupt]_vars

-----------------------------------------------------------------------------
\* A frame or a command is being handled.
Busy ==
  \/ /\ mode = "bootloader"
     /\ pc # "poll" \/ (frame_received /\ frame.cmd \in CMD_ERASE_FLASH .. CMD_SET_FLASH_OFFSET)
  \/ mode = "kernel" /\ (fpi_pc = "answer" \/ frame_received)

\* doc/bootloader.md: the host cannot send a frame without the device being
\* ready. No byte arrives while the shared frame buffer is in use, whatever
\* answers were late, lost, or sent by a restarting bootloader.
HostWaits == Busy => line = <<>> /\ bus_state = "IDLE"

\* doc/bootloader.md: the bootloader does not load an image that an
\* incomplete firmware upgrade left behind. Whatever resets, cut lines and
\* timeouts happened, the running kernel is one image, complete.
BootsWholeImage ==
  mode = "kernel" => Holds(OldImage) \/ Holds(NewImage)

\* fpi() launches only what the host sent: every block once and in order,
\* inside the buffer that was allocated, and relocated exactly once.
AppIntact ==
  app # NoApp => app = [cap |-> Len(AppBinary), data |-> AppBinary, relocs |-> 1]

\* Once the faults stop, an operator who keeps retrying gets the new kernel
\* to run: no reset, half frame or torn hash sector leaves a device that refuses
\* every update. After a size word that makes the bootloader panic at every
\* start (hash.c, verify_kernel_hash) that takes the boot pin: retrying alone
\* would not do.
UpdateCompletes == <>(mode = "kernel" /\ Holds(NewImage))
=============================================================================
