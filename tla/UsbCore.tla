------------------------------- MODULE UsbCore --------------------------------
(***************************************************************************)
(* usb/usb.c over the host controller: enumeration of the device on the    *)
(* root port, the descriptor tree and the matching of drivers              *)
(* (usb/drivers/usb_hid.c). Everything here runs in the USB interrupt.     *)
(***************************************************************************)
EXTENDS UsbHostController, SequencesExt

CONSTANTS
  MAX_PIPES,      \* addresses are 1 .. MAX_PIPES - 1
  URB_MAX_COUNT,  \* URBs the allocator holds
  Garbage         \* contents of memory that bmalloc hands out

USB_ENUM_BUFFER_SIZE == 1024
USB_DEV_NAME_MAX_SIZE == 64

\* The code does not check that the descriptors of a device fit enum_buffer nor
\* that each has a length: one of length zero is read for ever. And num_configs
\* does not wrap.
ASSUME UsbAssumption ==
  /\ MAX_PIPES \in Nat \ {0} /\ URB_MAX_COUNT \in Nat /\ Garbage \subseteq Nat
  /\ \A d \in Devices : /\ d.total <= USB_ENUM_BUFFER_SIZE
                        /\ \A i \in DOMAIN d.descs : d.descs[i].bLength > 0

VARIABLE core     \* struct usb_core, and whether panic has stopped the system

vars == <<hubVars, isr, pipe, busVars, core>>

None == -1        \* the name "None"; other names are known by their length

usbc_init == [enum_state |-> "IDLE", dev_addr_bm |-> {0}, dev_list |-> <<>>, halted |-> FALSE]

Init == HubInit /\ core = usbc_init

panic(c) == [c EXCEPT !.halted = TRUE]

-----------------------------------------------------------------------------
(***************************************************************************)
(* Descriptors. A device returns a sequence of [type, bLength, class]; a   *)
(* descriptor is known by its position in it.                              *)
(***************************************************************************)
sizeof == [CONFIG |-> 24, IFACE |-> 40, EP |-> 12]
bLength == [CONFIG |-> 9, IFACE |-> 9, EP |-> 7]
Known(d) == d.type \in DOMAIN bLength
Count(ds, type) == Cardinality({i \in DOMAIN ds : ds[i].type = type})

usbc_verify_descriptors(ds, size) ==
  /\ \A i \in DOMAIN ds : Known(ds[i]) => ds[i].bLength = bLength[ds[i].type]
  /\ FoldLeft(LAMBDA n, d : n + d.bLength, 0, ds) = size

\* Mutant: the endpoints do not make room for the interfaces.
MutOffset(configs, ifaces, type, index) ==
  CASE type = "CONFIG" -> index * sizeof.CONFIG
    [] type = "IFACE" -> configs * sizeof.CONFIG + index * sizeof.IFACE
    [] type = "EP" -> configs * sizeof.CONFIG + index * sizeof.EP
\* Where the structure of a descriptor lies in the buffer at dev->configs.
usbc_get_desc_offset(configs, ifaces, type, index) ==
  CASE type = "CONFIG" -> index * sizeof.CONFIG
    [] type = "IFACE" -> configs * sizeof.CONFIG + index * sizeof.IFACE
    [] type = "EP" -> configs * sizeof.CONFIG + ifaces * sizeof.IFACE + index * sizeof.EP

\* One step of the loop of usbc_parse_descriptors: descriptor i is copied to
\* its place and counted in the one above it.
ParseOne(ds, configs, ifaces, acc, i) ==
  LET type == ds[i].type
      up == IF type = "IFACE" THEN acc.last_cfg ELSE acc.last_iface
      at == usbc_get_desc_offset(configs, ifaces, type, acc.index[type])
      node == [desc |-> i, first |-> -1, num |-> 0, driver |-> "NULL"]
      put == [x \in DOMAIN acc.mem \cup {at} |-> IF x = at THEN node ELSE acc.mem[x]]
      linked == [put EXCEPT ![up].first = IF put[up].num = 0 THEN at ELSE @, ![up].num = @ + 1]
  IN IF ~acc.ok \/ ~Known(ds[i]) THEN acc
     ELSE IF type # "CONFIG" /\ up = -1 THEN [acc EXCEPT !.ok = FALSE]
     ELSE [acc EXCEPT !.mem = IF type = "CONFIG" THEN put ELSE linked,
                      !.index[type] = @ + 1,
                      !.last_cfg = IF type = "CONFIG" THEN at ELSE @,
                      !.last_iface = IF type = "IFACE" THEN at ELSE @]

\* usbc_init_descriptors: iface_list gets the interfaces in reverse.
usbc_init_descriptors(configs, ifaces) ==
  [i \in 1 .. ifaces |-> usbc_get_desc_offset(configs, ifaces, "IFACE", ifaces - i)]

\* The size of the buffer; bmalloc panics rather than return NULL.
usbc_alloc_descriptors(configs, ifaces, eps) ==
  configs * sizeof.CONFIG + ifaces * sizeof.IFACE + eps * sizeof.EP

usbc_parse_descriptors(ds, size) ==
  LET configs == Count(ds, "CONFIG")
      ifaces == Count(ds, "IFACE")
      start == [ok |-> TRUE, mem |-> <<>>, index |-> [CONFIG |-> 0, IFACE |-> 0, EP |-> 0],
                last_cfg |-> -1, last_iface |-> -1]
      parse[i \in 0 .. Len(ds)] ==
        IF i = 0 THEN start ELSE ParseOne(ds, configs, ifaces, parse[i - 1], i)
      end == parse[Len(ds)]
  IN [ok |-> usbc_verify_descriptors(ds, size) /\ end.ok, mem |-> end.mem, configs |-> configs,
      size |-> usbc_alloc_descriptors(configs, ifaces, Count(ds, "EP")),
      iface_list |-> usbc_init_descriptors(configs, ifaces)]

\* The tree of each device, when all its bytes have arrived.
Parsed == [d \in Devices |-> usbc_parse_descriptors(d.descs, d.total)]

-----------------------------------------------------------------------------
(***************************************************************************)
(* Drivers: an identifier matches when every field its flags name agrees.  *)
(***************************************************************************)
usb_hid == [name |-> "HID", dev_ids |-> <<[flags |-> {"iface_class"}, iface_class |-> 3]>>]
driver_list == <<usb_hid>>

DevFields == {"vendor_id", "product_id", "dev_class", "dev_sub_class", "dev_protocol"}
IfaceFields == {"iface_class", "iface_sub_class", "iface_protocol"}
usbc_check_dev_match(id, fields) == \A f \in id.flags \cap DevFields : id[f] = fields[f]
usbc_check_iface_match(id, fields) == \A f \in id.flags \cap IfaceFields : id[f] = fields[f]

usbc_check_driver_match(driver, fields) ==
  \E k \in DOMAIN driver.dev_ids : /\ usbc_check_dev_match(driver.dev_ids[k], fields)
                                  /\ usbc_check_iface_match(driver.dev_ids[k], fields)

\* usbc_find_driver: the first driver that matches, to be connected. Connecting
\* does not set iface->assigned.
usbc_find_driver(fields) ==
  LET ok == {i \in DOMAIN driver_list : usbc_check_driver_match(driver_list[i], fields)}
  IN IF ok = {} THEN "NULL" ELSE driver_list[Min(ok)].name

usb_hid_connect(iface, driver) == [iface EXCEPT !.driver = driver]

usbc_assign_driver(dev) ==
  LET fields(at) == [iface_class |-> dev.source.descs[dev.mem[at].desc].class]
      listed == Range(dev.iface_list)
  IN [dev EXCEPT !.mem = [at \in DOMAIN @ |->
        IF at \in listed THEN usb_hid_connect(@[at], usbc_find_driver(fields(at))) ELSE @[at]]]

-----------------------------------------------------------------------------
(***************************************************************************)
(* Enumeration                                                             *)
(***************************************************************************)
GetDesc(req, index, wLength) == [req |-> req, index |-> index, wValue |-> 0, wLength |-> wLength]

usbc_get_dev_desc(full) == GetDesc("DEVICE", 0, IF full THEN 18 ELSE 8)
usb_get_string_desc(index) == GetDesc("STRING", index, USB_ENUM_BUFFER_SIZE)
usbc_get_cfg_desc == GetDesc("CONFIG", 0, 9)
usbc_get_all_desc(dev) == GetDesc("CONFIG", 0, dev.desc_total_size)
usbc_set_dev_addr(addr) == [req |-> "SET_ADDRESS", index |-> 0, wValue |-> addr, wLength |-> 0]

\* The lowest free address, or 0 when all are taken: none is ever given back.
usbc_new_address(c) ==
  LET free == (1 .. MAX_PIPES - 1) \ c.dev_addr_bm IN IF free = {} THEN 0 ELSE Min(free)

\* bmalloc does not clear the structure: num_configs starts with what was there,
\* which leftover remembers.
usbc_add_device(c, garbage) ==
  LET dev == [address |-> 0, ep0_size |-> 0, source |-> NoDevice, desc_total_size |-> 0,
              num_configs |-> garbage, leftover |-> garbage, mem |-> <<>>, iface_list |-> <<>>,
              product |-> None, manufacturer |-> None]
  IN [c EXCEPT !.dev_list = <<dev>> \o @]

\* Every enumeration takes a URB and none is freed; the allocator panics when
\* it is empty.
usbhc_alloc_urb(c) == Len(c.dev_list) < URB_MAX_COUNT

\* usbc_start_enum claims pipe 0 whatever it was doing.
usbc_start_enum(c, p, garbage) ==
  LET q == usbhc_pipe_configure([p EXCEPT !.state = "CLAIMED"], 64, 0)
  IN IF ~usbhc_alloc_urb(c) THEN [core |-> panic(c), pipe |-> q]
     ELSE [core |-> [usbc_add_device(c, garbage) EXCEPT !.enum_state = "EP0_SIZE"],
           pipe |-> usbhc_submit_urb(q, usbc_get_dev_desc(FALSE))]

\* Every second byte, with room for the terminator.
usbc_uni_to_string(uni_size) == Min({(uni_size + 1) \div 2, USB_DEV_NAME_MAX_SIZE - 1})

\* usbc_get_product_name_done and usbc_get_manufacturer_name_done: a string
\* with index 0 is not a name.
NameOf(urb, name) ==
  IF urb.setup.index = 0 THEN name ELSE usbc_uni_to_string(urb.actual - 2)

\* The done handlers: what the answer to each request changes in the device
\* and in the pipe. ok = FALSE where the code calls panic. The loop that prints
\* the tree visits num_configs configurations: past those of the device it takes
\* what else lies there for pointers and counts, and may fault (stray).
Done(c, p, urb, stray) ==
  LET dev == Head(c.dev_list)
      kind == p.source
      parsed == Parsed[kind]
  IN CASE c.enum_state = "EP0_SIZE" ->
            [ok |-> kind.ep0 \in 8 .. 1024, dev |-> [dev EXCEPT !.ep0_size = kind.ep0],
             pipe |-> usbhc_set_ep_size(p, kind.ep0)]
       [] c.enum_state = "DEV_DESC" ->
            [ok |-> TRUE, dev |-> [dev EXCEPT !.source = kind], pipe |-> p]
       [] c.enum_state = "SET_ADDRESS" ->
            [ok |-> TRUE, dev |-> [dev EXCEPT !.address = urb.setup.wValue],
             pipe |-> usbhc_set_address(p, urb.setup.wValue)]
       [] c.enum_state = "DESC_LENGTH" ->
            [ok |-> urb.actual = 9, dev |-> [dev EXCEPT !.desc_total_size = kind.total], pipe |-> p]
       [] c.enum_state = "DESCRIPTORS" ->
            [ok |-> /\ urb.actual = kind.total /\ parsed.ok
                    /\ stray => dev.num_configs = 0,
             pipe |-> p,
             dev |-> [dev EXCEPT !.mem = parsed.mem, !.iface_list = parsed.iface_list,
                                 !.desc_total_size = parsed.size,
                                 !.num_configs = @ + parsed.configs]]
       [] c.enum_state = "PRODUCT" ->
            [ok |-> TRUE, dev |-> [dev EXCEPT !.product = NameOf(urb, @)], pipe |-> p]
       [] c.enum_state = "MANUFACTURER" ->
            [ok |-> TRUE, pipe |-> p,
             dev |-> usbc_assign_driver([dev EXCEPT !.manufacturer = NameOf(urb, @)])]

NextState ==
  [EP0_SIZE |-> "DEV_DESC", DEV_DESC |-> "SET_ADDRESS", SET_ADDRESS |-> "DESC_LENGTH",
   DESC_LENGTH |-> "DESCRIPTORS", DESCRIPTORS |-> "PRODUCT", PRODUCT |-> "MANUFACTURER",
   MANUFACTURER |-> "MANUFACTURER"]

\* The request that the handler submits as it enters a state.
RequestOf(state, c) ==
  LET dev == Head(c.dev_list)
  IN CASE state = "DEV_DESC" -> usbc_get_dev_desc(TRUE)
       [] state = "SET_ADDRESS" -> usbc_set_dev_addr(usbc_new_address(c))
       [] state = "DESC_LENGTH" -> usbc_get_cfg_desc
       [] state = "DESCRIPTORS" -> usbc_get_all_desc(dev)
       [] state = "PRODUCT" -> usb_get_string_desc(dev.source.iProduct)
       [] state = "MANUFACTURER" -> usb_get_string_desc(dev.source.iManufacturer)

\* usbc_enumerate_handler, the callback of the one URB. In the last state no
\* request follows: the pipe is disabled and drivers are assigned.
usbc_enumerate_handler(c, p, urb, stray) ==
  LET done == Done(c, p, urb, stray)
      next == NextState[c.enum_state]
      n == [c EXCEPT !.dev_list[1] = done.dev, !.enum_state = next]
      addressed == IF next = "SET_ADDRESS"
                     THEN [n EXCEPT !.dev_addr_bm = @ \cup {usbc_new_address(c)}] ELSE n
  IN IF c.enum_state = "IDLE" THEN [core |-> c, pipe |-> p]
     ELSE IF ~done.ok THEN [core |-> panic(c), pipe |-> p]
     ELSE IF c.enum_state = "MANUFACTURER" THEN [core |-> n, pipe |-> [p EXCEPT !.token = "none"]]
     ELSE [core |-> addressed, pipe |-> usbhc_submit_urb(done.pipe, RequestOf(next, n))]

\* The pipe part of the interrupt: an error is a panic, the end of a transfer
\* runs the callback and then starts whatever is queued.
PipeHandler(c, stray) ==
  LET r == usbhc_pipe_exception
      h == usbc_enumerate_handler(c, usbhc_end_urb(r.pipe), Head(r.pipe.queue), stray)
  IN IF "PERROR" \in pipe.status THEN [core |-> panic(c), pipe |-> pipe]
     ELSE IF ~r.callback THEN [core |-> c, pipe |-> r.pipe]
     ELSE [core |-> h.core, pipe |-> StartNextUrb(h.pipe)]

\* The enumeration starts when the reset has been sent; the connection event
\* sends it (HubException).
root_hub_event(s, garbage) ==
  IF "RST" \in isr /\ ~s.core.halted THEN usbc_start_enum(s.core, s.pipe, garbage) ELSE s

\* usb_exception after it has read the status.
RunHandlers ==
  /\ isr # {} /\ ~core.halted
  /\ \E garbage \in Garbage, stray \in BOOLEAN :
       \E a \in {IF "PIPE" \in isr THEN PipeHandler(core, stray) ELSE [core |-> core, pipe |-> pipe]} :
       \E b \in {root_hub_event(a, garbage)} :
         core' = b.core /\ pipe' = b.pipe
  /\ HubException
  /\ UNCHANGED busVars

usb_exception == ~core.halted /\ ReadStatus /\ UNCHANGED core

Next == usb_exception \/ RunHandlers \/ (Bus /\ UNCHANGED core)

\* The interrupt is served, the bus carries out tokens, and the hub its reset
\* and its frames; a NAK is bounded, and nobody has to plug or unplug anything.
Fairness ==
  /\ WF_vars(usb_exception) /\ WF_vars(RunHandlers)
  /\ WF_vars(ResetDone /\ UNCHANGED core) /\ WF_vars(Transaction /\ UNCHANGED core)
  /\ WF_vars(StartOfFrame /\ UNCHANGED core)

Spec == Init /\ [][Next]_vars
FairSpec == Spec /\ Fairness

-----------------------------------------------------------------------------
(***************************************************************************)
(* Properties                                                              *)
(***************************************************************************)
enum_dev == Head(core.dev_list)
Enumerating == core.dev_list # <<>> /\ ~(core.enum_state = "MANUFACTURER" /\ pipe.queue = <<>>)
Finished == core.dev_list # <<>> /\ ~Enumerating /\ ~core.halted

\* A token is addressed to the device that is attached: usbc_address_done
\* moves pipe 0 after the status stage in which the device moves, and
\* usbc_start_enum goes back to address 0 after a reset.
AddressesAgree ==
  pipe.token # "none" /\ device # NoDevice => device.addr = pipe.addr

\* A URB in the queue of pipe 0 never gets stuck: a token is out, an
\* interrupt is pending, or the system has panicked. Both the callback and
\* usbhc_end_urb can start a transfer, and a full last packet skips a stage.
QueueMoves ==
  pipe.queue # <<>> => pipe.token # "none" \/ PipeInterrupt \/ core.halted

\* The interfaces of the configuration at i and the endpoints of the interface
\* at i: the descriptors between it and the next one of its type.
ChildrenOf(ds, up, i, type) ==
  {k \in i + 1 .. Len(ds) : ds[k].type = type /\ \A j \in i + 1 .. k : ds[j].type # up}

InOrder(s, S) == Range(s) = S /\ \A a, b \in DOMAIN s : a < b => s[a] < s[b]

\* What a walk from the structure at `at` over its array finds.
Walk(dev, at, type) ==
  [k \in 1 .. dev.mem[at].num |-> dev.mem[dev.mem[at].first + (k - 1) * sizeof[type]].desc]

\* The characters of the string, of which the structure has room for 63.
NameRight(dev, index, name) ==
  name = IF index = 0 THEN None
         ELSE Min({(dev.source.strings[index] - 2) \div 2, USB_DEV_NAME_MAX_SIZE - 1})

\* The configurations among the first n structures at dev->configs.
ConfigWalk(dev, n) == [k \in 1 .. n |-> dev.mem[(k - 1) * sizeof.CONFIG].desc]

\* num_configs has counted the device's configurations, and they lie behind each
\* other at dev->configs; but it counts from what the memory of the device held.
ConfigsRight(dev) ==
  InOrder(ConfigWalk(dev, dev.num_configs - dev.leftover),
          {i \in DOMAIN dev.source.descs : dev.source.descs[i].type = "CONFIG"})

\* When the enumeration ends, following the pointers and counts that
\* usbc_parse_descriptors stored finds the device's own tree: as many
\* configurations as num_configs exceeds the memory's former contents by (it is
\* right itself only if they were zero), their interfaces and the endpoints of
\* these. HID interfaces have the HID driver, and each name is as long as the
\* device's string.
EnumeratedRight ==
  Finished =>
    LET dev == enum_dev
        ds == dev.source.descs
    IN /\ NameRight(dev, dev.source.iProduct, dev.product)
       /\ NameRight(dev, dev.source.iManufacturer, dev.manufacturer)
       /\ ConfigsRight(dev)
       /\ \A at \in DOMAIN dev.mem :
            LET i == dev.mem[at].desc
            IN /\ ds[i].type = "CONFIG" =>
                    InOrder(Walk(dev, at, "IFACE"), ChildrenOf(ds, "CONFIG", i, "IFACE"))
               /\ ds[i].type = "IFACE" =>
                    /\ InOrder(Walk(dev, at, "EP"), ChildrenOf(ds, "IFACE", i, "EP"))
                    /\ (dev.mem[at].driver = "HID") <=> (ds[i].class = 3)

\* An enumeration that has begun finishes if the device stays, unless it is
\* refused (panic).
EnumerationFinishes ==
  Enumerating ~> (~Enumerating \/ core.halted \/ device = NoDevice)

\* A device that stays plugged in is enumerated. usb_exception clears every
\* event flag, also one that was raised after it read the status.
PluggedIsEnumerated ==
  device # NoDevice ~> (device = NoDevice \/ core.halted \/ Finished)
=============================================================================
