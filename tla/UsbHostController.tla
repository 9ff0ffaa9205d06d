------------------------- MODULE UsbHostController --------------------------
(***************************************************************************)
(* drivers/usbhc.c: the default control pipe, its URB queue and the        *)
(* interrupt handler, together with the hardware under it (the registers   *)
(* of usbhw.h, the bus and the attached device, which are external).       *)
(*                                                                         *)
(* Pipes 1..9 stay FREE: no driver of the repository requests one. The     *)
(* pipe is a record and the driver's functions map records to records,     *)
(* because one interrupt runs a whole chain of them, callbacks included.   *)
(***************************************************************************)
EXTENDS Integers, Sequences, FiniteSets, FiniteSetsExt

CONSTANTS
  Devices,    \* devices that may be attached: records, see MC_Usb
  MaxNaks,    \* bound: IN tokens answered with NAK
  MaxPlugs    \* bound: times a device is plugged in

\* A device has a string descriptor for each name, two bytes of header and two
\* for each character, and answers with its own descriptors.
ASSUME DeviceAssumption ==
  \A d \in Devices :
    /\ d.ep0 \in Nat /\ d.total \in Nat /\ d.descs \in Seq([type : STRING, bLength : Nat, class : Nat])
    /\ {d.iProduct, d.iManufacturer} \subseteq DOMAIN d.strings /\ DOMAIN d.strings \subseteq Nat
    /\ \A i \in DOMAIN d.strings : \E n \in 0 .. 126 : d.strings[i] = 2 + 2 * n

VARIABLES
  flags,      \* HSTISR: root hub events
  enabled,    \* HSTIMR
  resetting,  \* the bus is being reset
  isr,        \* {} or the status that usb_exception has read
  pipe,       \* pipe 0
  device,     \* the attached device (external)
  naks, plugs

hubVars == <<flags, enabled, resetting>>
busVars == <<device, naks, plugs>>
NoDevice == [kind |-> "none"]

\* usbhc_pipe_init
usbhc_pipe_init ==
  [state |-> "FREE", queue |-> <<>>, ep_size |-> 0, addr |-> 0, token |-> "none",
   ints |-> {}, status |-> {}, fifo |-> 0, source |-> NoDevice]

\* usbhc_init enables only the connection event.
HubInit ==
  /\ flags = {} /\ enabled = {"CONN"} /\ resetting = FALSE /\ isr = {}
  /\ pipe = usbhc_pipe_init
  /\ device = NoDevice /\ naks = 0 /\ plugs = 0

\* usbhc_size_to_pipe_size: the PSIZE code of a size, which is rounded up to a
\* power of two, or -1 when it is refused.
PipeSizes == <<8, 16, 32, 64, 128, 256, 512, 1024>>
usbhc_size_to_pipe_size(size) ==
  IF size \in 5 .. 1024 THEN Min({i \in 1 .. 8 : size <= PipeSizes[i]}) - 1 ELSE -1

\* Mutant: the pipe stays at the default address.
MutSetAddress(p, addr) == p
usbhc_set_address(p, addr) == [p EXCEPT !.addr = addr]
usbhc_set_ep_size(p, size) == [p EXCEPT !.ep_size = size]

\* Resets and allocates the pipe; the URB queue is left as it is.
usbhc_alloc_pipe(p) ==
  [p EXCEPT !.state = "IDLE", !.token = "none", !.status = {}, !.fifo = 0,
            !.ints = {"PERROR", "STALL", "NAKED"}]

\* The pipes above are not active, so there is nothing to reallocate.
usbhc_pipe_configure(p, size, addr) ==
  IF p.state # "CLAIMED" \/ usbhc_size_to_pipe_size(size) = -1
    THEN p
    ELSE usbhc_set_ep_size(usbhc_set_address(usbhc_alloc_pipe(p), addr), size)

usbhc_setup_out(p) ==
  IF p.fifo # 0 THEN p
  ELSE [p EXCEPT !.token = "SETUP", !.status = @ \ {"TXSETUP"}, !.ints = @ \cup {"TXSETUP"}]

usbhc_send_in(p) ==
  [p EXCEPT !.token = "IN", !.status = @ \ {"RXIN"}, !.ints = @ \cup {"RXIN"}]

usbhc_control_status_out(p) ==
  [p EXCEPT !.token = "OUT", !.status = @ \ {"TXOUT"}, !.ints = @ \cup {"TXOUT"}]

usbhc_start_urb(p) ==
  usbhc_setup_out([p EXCEPT !.state = "CTRL_OUT", !.queue[1].actual = 0])

\* usbhc_fill_control_urb and usbhc_submit_urb: the transfer starts only if
\* the queue was empty.
usbhc_fill_control_urb(setup) == [setup |-> setup, length |-> setup.wLength, actual |-> 0]
usbhc_submit_urb(p, setup) ==
  LET q == [p EXCEPT !.queue = Append(@, usbhc_fill_control_urb(setup))]
  IN IF p.queue = <<>> THEN usbhc_start_urb(q) ELSE q

\* The first half of usbhc_end_urb: the URB leaves the queue, then the
\* callback runs.
usbhc_end_urb(p) == [p EXCEPT !.state = "IDLE", !.queue = Tail(@)]

\* The second half: start the next URB unless the callback did.
StartNextUrb(p) ==
  IF p.queue # <<>> /\ p.state = "IDLE" THEN usbhc_start_urb(p) ELSE p

\* usbhc_pipe_setup_sent: the data stage, or the status stage of a request
\* without one.
usbhc_pipe_setup_sent(p) ==
  LET q == [p EXCEPT !.status = @ \ {"TXSETUP"}]
      urb == Head(p.queue)
  IN IF urb.length # 0
       THEN usbhc_send_in([q EXCEPT !.state = "IN"])
       ELSE usbhc_send_in([q EXCEPT !.state = "ZLP_IN"])

\* Mutant: the FIFO is read but not freed.
MutIn(p) == [p EXCEPT !.queue[1].actual = Min({@ + p.fifo, p.queue[1].length})]

\* usbhc_in: the FIFO is read into the URB until it is full, and freed.
usbhc_in(p) ==
  [p EXCEPT !.queue[1].actual = Min({@ + p.fifo, p.queue[1].length}), !.fifo = 0]

\* A data packet: a short one leads to the status stage, a full one that
\* completes the length ends the URB (callback = TRUE), any other asks for more.
usbhc_pipe_receive_in(p) ==
  LET q == [p EXCEPT !.status = @ \ {"RXIN"}]
      read == usbhc_in(q)
      short == p.fifo # p.ep_size
  IN IF p.state = "ZLP_IN" THEN [pipe |-> q, callback |-> TRUE]
     ELSE IF short
       THEN [pipe |-> usbhc_control_status_out(
                        [read EXCEPT !.state = "ZLP_OUT", !.ints = @ \ {"RXIN"}]),
             callback |-> FALSE]
     ELSE IF read.queue[1].actual >= read.queue[1].length
       THEN [pipe |-> read, callback |-> TRUE]
     ELSE [pipe |-> usbhc_send_in(read), callback |-> FALSE]

\* Mutant: the end of the status stage does not end the URB.
MutTransmitOut(p) ==
  [pipe |-> [p EXCEPT !.status = @ \ {"TXOUT"}], callback |-> FALSE]
usbhc_transmit_out(p) ==
  [pipe |-> [p EXCEPT !.status = @ \ {"TXOUT"}], callback |-> p.state = "ZLP_OUT"]

\* usbhc_pipe_exception on pipe 0 without an error: a NAK is only acknowledged;
\* the pipe has one token out at a time, so one completion flag is set at most.
usbhc_naked(p) == [p EXCEPT !.status = @ \ {"NAKED"}]
usbhc_pipe_exception ==
  LET p == usbhc_naked(pipe)
  IN IF "TXSETUP" \in p.status THEN [pipe |-> usbhc_pipe_setup_sent(p), callback |-> FALSE]
     ELSE IF "RXIN" \in p.status \cap p.ints THEN usbhc_pipe_receive_in(p)
     ELSE IF "TXOUT" \in p.status \cap p.ints THEN usbhc_transmit_out(p)
     ELSE [pipe |-> p, callback |-> FALSE]

PipeInterrupt == pipe.status \cap pipe.ints # {}

\* The root hub handlers on the enable mask.
usbhc_root_hub_connect(mask) == (mask \ {"CONN"}) \cup {"RST", "DCONN", "SOF"}
usbhc_root_hub_disconnect(mask) == mask \ {"DCONN"}
usbhc_root_hub_reset(mask) == mask \ {"RST"}

usbhc_root_hub_exception(seen) ==
  LET c == IF "CONN" \in seen THEN usbhc_root_hub_connect(enabled) ELSE enabled
      d == IF "DCONN" \in seen THEN usbhc_root_hub_disconnect(c) ELSE c
  IN IF "RST" \in seen THEN usbhc_root_hub_reset(d) ELSE d

\* usb_exception reads HSTISR ...
ReadStatus ==
  /\ isr = {}
  /\ flags \cap enabled # {} \/ PipeInterrupt
  /\ isr' = flags \cup (IF PipeInterrupt THEN {"PIPE"} ELSE {})
  /\ UNCHANGED <<hubVars, pipe, busVars>>

\* ... and ends by clearing every event flag, those it has not seen included.
HubException ==
  /\ enabled' = usbhc_root_hub_exception(isr)
  /\ resetting' = (resetting \/ "CONN" \in isr)
  /\ flags' = {}
  /\ isr' = {}

-----------------------------------------------------------------------------
(***************************************************************************)
(* The bus and the device (external).                                      *)
(***************************************************************************)
\* Plugging in takes longer than the retries of a transaction, the latency of
\* the interrupt and a reset of the bus: none for an earlier device is under way.
Attach ==
  /\ device = NoDevice /\ plugs < MaxPlugs
  /\ ~resetting /\ "RST" \notin flags \cup isr
  /\ pipe.token = "none" /\ ~PipeInterrupt /\ "PIPE" \notin isr
  /\ \E d \in Devices : device' = [kind |-> d, addr |-> 0, setup |-> [req |-> "none"], left |-> 0]
  /\ plugs' = plugs + 1
  /\ flags' = flags \cup {"CONN"}
  /\ UNCHANGED <<enabled, resetting, isr, pipe, naks>>

Detach ==
  /\ device # NoDevice
  /\ device' = NoDevice
  /\ flags' = flags \cup {"DCONN"}
  /\ UNCHANGED <<enabled, resetting, isr, pipe, naks, plugs>>

ResetDone ==
  /\ resetting
  /\ resetting' = FALSE
  /\ flags' = flags \cup {"RST"}
  /\ UNCHANGED <<enabled, isr, pipe, busVars>>

StartOfFrame ==
  /\ "SOF" \in enabled /\ "SOF" \notin flags
  /\ flags' = flags \cup {"SOF"}
  /\ UNCHANGED <<enabled, resetting, isr, pipe, busVars>>

Answers == device # NoDevice /\ device.addr = pipe.addr

\* What the device has to send for a request.
ReplyLength(setup) ==
  Min({setup.wLength,
       CASE setup.req = "DEVICE" -> 18
         [] setup.req = "CONFIG" -> device.kind.total
         [] setup.req = "STRING" -> device.kind.strings[setup.index]
         [] setup.req = "SET_ADDRESS" -> 0})

SetupTransaction ==
  /\ pipe.token = "SETUP" /\ Answers
  /\ LET setup == Head(pipe.queue).setup
     IN device' = [device EXCEPT !.setup = setup, !.left = ReplyLength(setup)]
  /\ pipe' = [pipe EXCEPT !.token = "none", !.status = @ \cup {"TXSETUP"},
                           !.source = device.kind]
  /\ UNCHANGED <<hubVars, isr, naks, plugs>>

InTransaction ==
  /\ pipe.token = "IN" /\ Answers
  /\ LET n == Min({device.kind.ep0, device.left})
     IN /\ pipe' = [pipe EXCEPT !.token = "none", !.fifo = n, !.status = @ \cup {"RXIN"}]
        /\ device' = [device EXCEPT !.left = @ - n,
                        !.addr = IF device.setup.req = "SET_ADDRESS"
                                   THEN device.setup.wValue ELSE @]
  /\ UNCHANGED <<hubVars, isr, naks, plugs>>

OutTransaction ==
  /\ pipe.token = "OUT" /\ Answers
  /\ pipe' = [pipe EXCEPT !.token = "none", !.status = @ \cup {"TXOUT"}]
  /\ UNCHANGED <<hubVars, isr, busVars>>

Nak ==
  /\ pipe.token = "IN" /\ Answers /\ naks < MaxNaks
  /\ naks' = naks + 1
  /\ pipe' = [pipe EXCEPT !.status = @ \cup {"NAKED"}]
  /\ UNCHANGED <<hubVars, isr, device, plugs>>

NoAnswer ==
  /\ pipe.token # "none" /\ ~Answers
  /\ pipe' = [pipe EXCEPT !.token = "none", !.status = @ \cup {"PERROR"}]
  /\ UNCHANGED <<hubVars, isr, busVars>>

Transaction == SetupTransaction \/ InTransaction \/ OutTransaction \/ NoAnswer
Bus == Attach \/ Detach \/ ResetDone \/ StartOfFrame \/ Transaction \/ Nak
=============================================================================
