----------------------------- MODULE AppLoader ------------------------------
(***************************************************************************)
(* The kernel's side of the host link: usart0_exception of                 *)
(* kernel/bootloader.c, which leaves for the bootloader on an idle 0x00,   *)
(* the polling thread fpi() of misc/fpi.c, and the dynamic linker it       *)
(* starts applications with.                                               *)
(***************************************************************************)
EXTENDS Bootloader

VARIABLES
  buffer,    \* binary_buffer: [cap, data, relocs], or NoBuffer (the null pointer)
  fpi_pc,    \* the FPI thread: "poll" or "answer"
  app        \* what the last dynamic_linker_run launched, or NoApp

fpiVars == <<buffer, fpi_pc, app>>

CMD_ALLOCATE_MEM == 1
CMD_BINARY == 2
CMD_BINARY_LAST == 3

NoBuffer == [cap |-> 0, data |-> <<>>, relocs |-> 0]
NoApp == NoBuffer

FpiInit == buffer = NoBuffer /\ fpi_pc = "poll" /\ app = NoApp

\* The FPI thread of a kernel that starts again.
FpiReset == buffer' = NoBuffer /\ fpi_pc' = "poll" /\ app' = NoApp

\* The boot signature and a soft reset: what an idle 0x00 does, and a panic.
EnterBootloader == signature' = TRUE /\ mode' = "boot" /\ FpiReset

\* usart0_exception.
KernelByte ==
  /\ mode = "kernel"
  /\ line # <<>>
  /\ line' = Tail(line)
  /\ IF bus_state = "IDLE" /\ Head(line) = ZERO
       THEN EnterBootloader /\ UNCHANGED <<bus_state, frame, frame_received, resp>>
       ELSE FrameFsm(Head(line)) /\ UNCHANGED <<mode, signature, fpiVars>>
  /\ UNCHANGED <<mainVars, flashVars, pin>>

\* dynamic_linker: every GOT and PLT entry has the load address added to it.
dynamic_linker(binary) == [binary EXCEPT !.relocs = @ + 1]

\* Copy the payload; the last block kills the previous application and
\* starts the new one. Without a buffer the copy goes through the null pointer,
\* which is taken to fault.
WriteBinary ==
  LET filled == [buffer EXCEPT !.data = Append(@, frame.payload[1][1])]
      last == frame.cmd = CMD_BINARY_LAST
  IN IF buffer = NoBuffer
       THEN EnterBootloader
       ELSE /\ buffer' = IF last THEN dynamic_linker(filled) ELSE filled
            /\ app' = IF last THEN buffer' ELSE app
            /\ fpi_pc' = "answer"
            /\ UNCHANGED <<mode, signature>>

\* Mutant: a new allocation goes on where the last one stopped.
MutFpiCommand ==
  /\ mode = "kernel" /\ fpi_pc = "poll" /\ frame_received
  /\ \/ /\ frame.cmd = CMD_ALLOCATE_MEM
        /\ buffer' = [cap |-> frame.payload[1][1], data |-> buffer.data, relocs |-> 0]
        /\ fpi_pc' = "answer" /\ UNCHANGED <<app, mode, signature>>
     \/ /\ frame.cmd \in {CMD_BINARY, CMD_BINARY_LAST}
        /\ WriteBinary
  /\ UNCHANGED <<serialVars, mainVars, flashVars, pin>>

\* One frame, in the FPI thread.
FpiCommand ==
  /\ mode = "kernel" /\ fpi_pc = "poll" /\ frame_received
  /\ \/ /\ frame.cmd = CMD_ALLOCATE_MEM
        /\ buffer' = [cap |-> frame.payload[1][1], data |-> <<>>, relocs |-> 0]
        /\ fpi_pc' = "answer" /\ UNCHANGED <<app, mode, signature>>
     \/ /\ frame.cmd \in {CMD_BINARY, CMD_BINARY_LAST}
        /\ WriteBinary
     \/ /\ frame.cmd \notin CMD_ALLOCATE_MEM .. CMD_BINARY_LAST
        /\ fpi_pc' = "answer" /\ UNCHANGED <<buffer, app, mode, signature>>
  /\ UNCHANGED <<serialVars, mainVars, flashVars, pin>>

\* fpi() answers RESP_OK to every frame, known or not.
FpiAnswer ==
  /\ mode = "kernel" /\ fpi_pc = "answer"
  /\ send_response(RESP_OK)
  /\ fpi_pc' = "poll"
  /\ UNCHANGED <<line, bus_state, frame, bootVars, buffer, app>>

\* A second without a byte inside a frame. The kernel's handler is called
\* timer0_ch0_handler and the vector timer0_ch0_exception, so the interrupt
\* ends in default_exception, and that is a panic.
KernelTimeout ==
  /\ mode = "kernel" /\ bus_state # "IDLE" /\ line = <<>>
  /\ EnterBootloader
  /\ UNCHANGED <<serialVars, mainVars, flashVars, pin>>

KernelStep == KernelTimeout \/ KernelByte \/ FpiCommand \/ FpiAnswer
=============================================================================
