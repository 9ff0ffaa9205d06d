------------------------------- MODULE Serial -------------------------------
(***************************************************************************)
(* The host link: the frame receiver that bootloader/src/frame.c and       *)
(* kernel/src/kernel/bootloader.c share (the two copies have the same      *)
(* state machine and differ only in what an idle 0x00 does), and the two   *)
(* directions of the serial line.                                          *)
(*                                                                         *)
(* A byte is a one-element tuple; the frame check sequence is the tuple of *)
(* everything it covers (command, size, payload), because only its         *)
(* equality is ever tested and an 8-bit CRC catches every error within one *)
(* byte. One payload byte stands for a page, a size or an offset.          *)
(***************************************************************************)
EXTENDS Naturals, Sequences

VARIABLES
  line,            \* bytes sent by the host and not yet received
  resp,            \* responses sent by the device and not yet read
  bus_state,
  frame,           \* [cmd, size, index, payload, fcs]
  frame_received

serialVars == <<line, resp, bus_state, frame, frame_received>>

Byte(n) == <<n>>
START_BYTE == Byte(170)
END_BYTE == Byte(85)
ZERO == Byte(0)

RESP_OK == 0
RESP_ERROR == 1

crc_calculate(cmd, size, payload) == <<cmd, size>> \o payload

\* The bytes the programmers write for one frame (send_frame of both tools).
send_frame(cmd, data) ==
  <<START_BYTE, Byte(cmd), Byte(1), Byte(0), Byte(data),
    crc_calculate(cmd, 1, <<Byte(data)>>), END_BYTE>>

noFrame == [cmd |-> 0, size |-> 0, index |-> 0, payload |-> <<ZERO>>, fcs |-> ZERO]

send_response(code) ==
  /\ frame_received' = FALSE
  /\ resp' = Append(resp, code)

\* The payload buffer is never cleared: it keeps older bytes past the index.
Store(s, i, b) == IF i <= Len(s) THEN [s EXCEPT ![i] = b] ELSE Append(s, b)

\* The END state: the frame is accepted, or refused with an error response.
EndOfFrame(data) ==
  LET covered == crc_calculate(frame.cmd, frame.size,
                               SubSeq(frame.payload, 1, frame.size))
  IN IF data = END_BYTE /\ frame.fcs = covered
       THEN /\ frame_received' = TRUE
            /\ UNCHANGED resp
       ELSE send_response(RESP_ERROR)

(***************************************************************************)
(* One received byte outside the idle 0x00 case: the switch on bus_state.  *)
(* Nothing in it looks at frame_received, so a frame that arrives while    *)
(* the previous one is being handled overwrites it.                        *)
(***************************************************************************)
FrameFsm(data) ==
  \/ /\ bus_state = "IDLE"
     /\ bus_state' = IF data = START_BYTE THEN "CMD" ELSE "IDLE"
     /\ UNCHANGED <<frame, frame_received, resp>>
  \/ /\ bus_state = "CMD"
     /\ bus_state' = "SIZE"
     /\ frame' = [frame EXCEPT !.cmd = data[1], !.size = 0, !.index = 0]
     /\ UNCHANGED <<frame_received, resp>>
  \/ /\ bus_state = "SIZE"
     /\ LET index == frame.index + 1
        IN /\ bus_state' = IF index >= 2 THEN "PAYLOAD" ELSE "SIZE"
           /\ frame' = [frame EXCEPT !.size = @ + data[1] * (IF index = 1 THEN 1 ELSE 256),
                                     !.index = IF index >= 2 THEN 0 ELSE index]
     /\ UNCHANGED <<frame_received, resp>>
  \/ /\ bus_state = "PAYLOAD"
     /\ frame' = [frame EXCEPT !.payload = Store(@, frame.index + 1, data), !.index = @ + 1]
     /\ bus_state' = IF frame'.index >= frame.size THEN "FCS" ELSE "PAYLOAD"
     /\ UNCHANGED <<frame_received, resp>>
  \/ /\ bus_state = "FCS"
     /\ frame' = [frame EXCEPT !.fcs = data]
     /\ bus_state' = "END"
     /\ UNCHANGED <<frame_received, resp>>
  \/ /\ bus_state = "END"
     /\ EndOfFrame(data)
     /\ bus_state' = "IDLE"
     /\ UNCHANGED frame

\* timer0_ch0_handler of the bootloader: a second without a byte inside a frame. No response.
FrameTimeout ==
  /\ bus_state # "IDLE"
  /\ line = <<>>
  /\ bus_state' = "IDLE"
  /\ UNCHANGED <<line, resp, frame, frame_received>>

\* frame_init and bootloader_init, with the RAM of a fresh start.
FrameInit ==
  /\ bus_state' = "IDLE"
  /\ frame' = noFrame
  /\ frame_received' = FALSE

SerialInit ==
  /\ line = <<>> /\ resp = <<>> /\ bus_state = "IDLE"
  /\ frame = noFrame /\ frame_received = FALSE
=============================================================================
