------------------------------ MODULE Usb_proofs -------------------------------
(***************************************************************************)
(* The invariant of the control pipe and of the enumeration, and what      *)
(* follows from it: tokens go to the address the device has, no request    *)
(* gets stuck, and what an enumeration stores is the device's own tree.    *)
(***************************************************************************)
EXTENDS UsbCore, ListLemmas, FiniteSetTheorems

-----------------------------------------------------------------------------
(***************************************************************************)
(* Types                                                                   *)
(***************************************************************************)
Tokens == {"none", "SETUP", "IN", "OUT"}
PipeStates == {"FREE", "CLAIMED", "IDLE", "CTRL_OUT", "IN", "ZLP_IN", "ZLP_OUT"}
PipeFlags == {"TXSETUP", "RXIN", "TXOUT", "NAKED", "PERROR", "STALL"}
HubFlags == {"CONN", "DCONN", "RST", "SOF"}
EnumStates == {"IDLE"} \cup DOMAIN NextState

Request == [req : {"DEVICE", "CONFIG", "STRING", "SET_ADDRESS"}, index : Nat,
            wValue : Nat, wLength : Nat]
Urb == [setup : Request, length : Nat, actual : Nat]
Sources == Devices \cup {NoDevice}
Pipe == [state : PipeStates, queue : Seq(Urb), ep_size : Nat, addr : Nat, token : Tokens,
         ints : SUBSET PipeFlags, status : SUBSET PipeFlags, fifo : Nat, source : Sources]
Attached == [kind : Devices, addr : Nat, setup : Request \cup {[req |-> "none"]}, left : Nat]

Node == [desc : Nat, first : Int, num : Nat, driver : {"NULL", "HID"}]
Memories == UNION {[D -> Node] : D \in SUBSET Nat}
Dev == [address : Nat, ep0_size : Nat, source : Sources, desc_total_size : Nat,
        num_configs : Nat, leftover : Nat, mem : Memories, iface_list : Seq(Nat), product : Int,
        manufacturer : Int]
Core == [enum_state : EnumStates, dev_addr_bm : SUBSET Nat, dev_list : Seq(Dev),
         halted : BOOLEAN]

Types ==
  /\ flags \subseteq HubFlags /\ isr \subseteq HubFlags \cup {"PIPE"} /\ resetting \in BOOLEAN
  /\ pipe \in Pipe /\ device \in Attached \cup {NoDevice} /\ core \in Core

-----------------------------------------------------------------------------
(***************************************************************************)
(* The root hub: between plugging in and the end of the reset the pipe is  *)
(* quiet and the device, if it is still there, is at address 0.            *)
(***************************************************************************)
Plugged == "CONN" \in flags \cup isr
ResetOver == "RST" \in flags \cup isr
Quiet == /\ pipe.token = "none" /\ ~PipeInterrupt /\ "PIPE" \notin isr
         /\ core.halted \/ pipe.queue = <<>>

HubInv ==
  /\ resetting \/ ResetOver => ~Plugged
  /\ ~(resetting /\ ResetOver)
  /\ Plugged \/ resetting \/ ResetOver =>
       Quiet /\ (device # NoDevice => device.addr = 0)

-----------------------------------------------------------------------------
(***************************************************************************)
(* The stages of a transfer. p is the pipe, which always waits for the bus *)
(* (a token) or for the interrupt (a flag of its status).                  *)
(***************************************************************************)
urb == pipe.queue[1]
kind == pipe.source

\* What the data stage of a request to a device of kind k has.
ReplyOf(k, setup) ==
  Min({setup.wLength,
       CASE setup.req = "DEVICE" -> 18
         [] setup.req = "CONFIG" -> k.total
         [] setup.req = "STRING" -> k.strings[setup.index]
         [] setup.req = "SET_ADDRESS" -> 0})

SetupOut == pipe.state = "CTRL_OUT" /\ pipe.token = "SETUP" /\ pipe.status = {}
SetupSent == pipe.state = "CTRL_OUT" /\ pipe.token = "none" /\ pipe.status = {"TXSETUP"}
Asking(state) == pipe.state = state /\ pipe.token = "IN" /\ pipe.status \subseteq {"NAKED"}
Received(state) ==
  /\ pipe.state = state /\ pipe.token = "none"
  /\ pipe.status \in {{"RXIN"}, {"RXIN", "NAKED"}}
StatusOut == pipe.state = "ZLP_OUT" /\ pipe.token = "OUT" /\ pipe.status = {}
StatusSent == pipe.state = "ZLP_OUT" /\ pipe.token = "none" /\ pipe.status = {"TXOUT"}
Failed == pipe.token = "none" /\ "PERROR" \in pipe.status

\* The flags that the stage waits for are enabled, the FIFO is empty but for a
\* packet that has arrived, and the bytes in the URB, in the FIFO and in the
\* device are those of the reply; the device may have been unplugged.
Stages ==
  \/ SetupOut /\ "TXSETUP" \in pipe.ints /\ pipe.fifo = 0 /\ urb.actual = 0
  \/ /\ SetupSent /\ "TXSETUP" \in pipe.ints /\ pipe.fifo = 0 /\ urb.actual = 0
     /\ device # NoDevice => /\ device.setup = urb.setup
                             /\ device.left = ReplyOf(kind, urb.setup)
  \/ /\ Asking("IN") /\ urb.length # 0 /\ "RXIN" \in pipe.ints /\ pipe.fifo = 0
     /\ urb.actual <= ReplyOf(kind, urb.setup)
     /\ device # NoDevice => /\ device.setup = urb.setup
                             /\ urb.actual + device.left = ReplyOf(kind, urb.setup)
  \/ /\ Received("IN") /\ urb.length # 0 /\ "RXIN" \in pipe.ints
     /\ urb.actual + pipe.fifo <= ReplyOf(kind, urb.setup) /\ pipe.fifo <= kind.ep0
     /\ pipe.fifo < kind.ep0 => urb.actual + pipe.fifo = ReplyOf(kind, urb.setup)
     /\ device # NoDevice =>
          /\ device.setup = urb.setup
          /\ urb.actual + pipe.fifo + device.left = ReplyOf(kind, urb.setup)
  \/ /\ Asking("ZLP_IN") /\ urb.length = 0 /\ "RXIN" \in pipe.ints /\ pipe.fifo = 0
     /\ urb.actual = 0 /\ (device # NoDevice => device.setup = urb.setup /\ device.left = 0)
  \/ /\ Received("ZLP_IN") /\ urb.length = 0 /\ "RXIN" \in pipe.ints /\ pipe.fifo = 0
     /\ urb.actual = 0
  \/ /\ StatusOut \/ StatusSent
     /\ urb.length # 0 /\ "TXOUT" \in pipe.ints /\ pipe.fifo = 0
     /\ core.enum_state # "EP0_SIZE" => urb.actual = ReplyOf(kind, urb.setup)

\* The device that is attached during an enumeration is the one it began with,
\* at the address of the pipe except while SET_ADDRESS takes effect.
AddressMoves == core.enum_state = "SET_ADDRESS" /\ Received("ZLP_IN")
SameDevice ==
  /\ core.enum_state # "EP0_SIZE" \/ ~SetupOut =>
       kind \in Devices /\ (device # NoDevice => device.kind = kind)
  /\ device # NoDevice =>
       device.addr = IF AddressMoves THEN urb.setup.wValue ELSE pipe.addr

-----------------------------------------------------------------------------
(***************************************************************************)
(* The enumeration: the one request that is under way and what the         *)
(* requests before it have stored.                                         *)
(***************************************************************************)
Order == [EP0_SIZE |-> 1, DEV_DESC |-> 2, SET_ADDRESS |-> 3, DESC_LENGTH |-> 4,
          DESCRIPTORS |-> 5, PRODUCT |-> 6, MANUFACTURER |-> 7]
Past(state) == Order[core.enum_state] > Order[state]

Asked ==
  CASE core.enum_state = "EP0_SIZE" -> urb.setup = usbc_get_dev_desc(FALSE)
    [] core.enum_state = "DEV_DESC" -> urb.setup = usbc_get_dev_desc(TRUE)
    [] core.enum_state = "SET_ADDRESS" -> urb.setup = usbc_set_dev_addr(urb.setup.wValue)
    [] core.enum_state = "DESC_LENGTH" -> urb.setup = usbc_get_cfg_desc
    [] core.enum_state = "DESCRIPTORS" -> urb.setup = usbc_get_all_desc(enum_dev)
    [] core.enum_state = "PRODUCT" -> urb.setup = usb_get_string_desc(enum_dev.source.iProduct)
    [] core.enum_state = "MANUFACTURER" ->
         urb.setup = usb_get_string_desc(enum_dev.source.iManufacturer)

Stored(dev) ==
  /\ Past("EP0_SIZE") => pipe.ep_size = kind.ep0 /\ kind.ep0 \in 8 .. 1024
  /\ Past("DEV_DESC") => dev.source = kind
  /\ core.enum_state = "DESCRIPTORS" => dev.desc_total_size = kind.total
  /\ Past("DESCRIPTORS") => /\ Parsed[kind].ok /\ dev.mem = Parsed[kind].mem
                            /\ dev.iface_list = Parsed[kind].iface_list
  /\ dev.num_configs = dev.leftover + (IF Past("DESCRIPTORS") THEN Parsed[kind].configs ELSE 0)
  /\ IF Past("PRODUCT") THEN NameRight(dev, kind.iProduct, dev.product) ELSE dev.product = None
  /\ dev.manufacturer = None

Transferring ==
  /\ Len(pipe.queue) = 1 /\ urb.length = urb.setup.wLength
  /\ core.enum_state # "IDLE" /\ core.dev_list # <<>>
  /\ {"PERROR", "STALL", "NAKED"} \subseteq pipe.ints
  /\ Failed \/ (Stages /\ SameDevice /\ Asked /\ Stored(enum_dev))

\* The tree of a device that is enumerated.
TreeRight(dev) ==
  /\ ConfigsRight(dev)
  /\ \A at \in DOMAIN dev.mem :
       LET i == dev.mem[at].desc
           ds == dev.source.descs
       IN /\ ds[i].type = "CONFIG" =>
               InOrder(Walk(dev, at, "IFACE"), ChildrenOf(ds, "CONFIG", i, "IFACE"))
          /\ ds[i].type = "IFACE" =>
               /\ InOrder(Walk(dev, at, "EP"), ChildrenOf(ds, "IFACE", i, "EP"))
               /\ (dev.mem[at].driver = "HID") <=> (ds[i].class = 3)

Resting ==
  /\ pipe.token = "none" /\ pipe.status = {}
  /\ \/ core.dev_list = <<>>
     \/ /\ core.dev_list # <<>> /\ core.enum_state = "MANUFACTURER"
        /\ TreeRight(enum_dev)
        /\ NameRight(enum_dev, enum_dev.source.iProduct, enum_dev.product)
        /\ NameRight(enum_dev, enum_dev.source.iManufacturer, enum_dev.manufacturer)

\* When nothing has panicked, the queue is empty or has the one request.
Requests == IF core.halted THEN pipe.token = "none"
            ELSE IF pipe.queue = <<>> THEN Resting ELSE Transferring

UsbInv == Types /\ HubInv /\ Requests

(***************************************************************************)
(* The loop of usbc_parse_descriptors.                                     *)
(***************************************************************************)
Descs == Seq([type : STRING, bLength : Nat, class : Nat])
ParseStart ==
  [ok |-> TRUE, mem |-> <<>>, index |-> [CONFIG |-> 0, IFACE |-> 0, EP |-> 0],
   last_cfg |-> -1, last_iface |-> -1]

\* p is what the loop has after each of the first n descriptors.
IsParse(p, ds, configs, ifaces, n) ==
  p = [i \in 0 .. n |-> IF i = 0 THEN ParseStart
                        ELSE ParseOne(ds, configs, ifaces, p[i - 1], i)]

\* The loop has a value for every number of descriptors.
LEMMA ParseExists ==
  ASSUME NEW ds, NEW c, NEW f, NEW n \in Nat
  PROVE  \E p : IsParse(p, ds, c, f, n)
<1> DEFINE Bad == {m \in Nat : ~ \E p : IsParse(p, ds, c, f, m)}
<1>1. SUFFICES ASSUME Bad # {} PROVE FALSE
  OBVIOUS
<1>2. PICK m \in Bad : \A k \in Bad : m <= k
  BY <1>1, LeastNatural
<1>3. m \in Nat /\ ~ \E p : IsParse(p, ds, c, f, m)
  OBVIOUS
<1>4. CASE m = 0
  <2> DEFINE p == [i \in 0 .. 0 |-> ParseStart]
  <2>1. IsParse(p, ds, c, f, 0)
    BY DEF IsParse
  <2>2. QED
    BY <1>3, <1>4, <2>1
<1>5. CASE m # 0
  <2>1. m - 1 \in Nat /\ m - 1 \notin Bad
    BY <1>2, <1>3, <1>5
  <2>2. PICK g : IsParse(g, ds, c, f, m - 1)
    BY <2>1
  <2> DEFINE Step(acc, i) == ParseOne(ds, c, f, acc, i)
             z == Step(g[m - 1], m)
             p == [i \in 0 .. m |-> IF i = m THEN z ELSE g[i]]
  <2>3. \A i \in 0 .. m - 1 : g[i] = IF i = 0 THEN ParseStart ELSE Step(g[i - 1], i)
    BY <2>2 DEF IsParse
  <2> HIDE DEF Step, z
  <2>4. \A i \in 0 .. m : p[i] = IF i = 0 THEN ParseStart ELSE Step(p[i - 1], i)
    <3>1. ASSUME NEW i \in 0 .. m, i = m
          PROVE  p[i] = IF i = 0 THEN ParseStart ELSE Step(p[i - 1], i)
      <4>1. p[i] = z /\ p[i - 1] = g[m - 1] /\ i # 0
        BY <1>3, <1>5, <2>1, <3>1
      <4>2. QED
        BY <3>1, <4>1 DEF z
    <3>2. ASSUME NEW i \in 0 .. m, i # m
          PROVE  p[i] = IF i = 0 THEN ParseStart ELSE Step(p[i - 1], i)
      <4>1. i \in 0 .. m - 1 /\ p[i] = g[i] /\ (i # 0 => p[i - 1] = g[i - 1])
        BY <1>3, <1>5, <3>2
      <4>2. QED
        BY <2>3, <4>1
    <3>3. QED
      BY <3>1, <3>2
  <2>5. IsParse(p, ds, c, f, m)
    BY <2>4 DEF IsParse, Step
  <2>6. QED
    BY <1>3, <2>5
<1>6. QED
  BY <1>4, <1>5

\* What usbc_parse_descriptors returns is the end of the loop.
LEMMA ParseResult ==
  ASSUME NEW ds, Len(ds) \in Nat, NEW size
  PROVE  \E p : /\ IsParse(p, ds, Count(ds, "CONFIG"), Count(ds, "IFACE"), Len(ds))
                /\ usbc_parse_descriptors(ds, size).ok => p[Len(ds)].ok
                /\ usbc_parse_descriptors(ds, size).mem = p[Len(ds)].mem
                /\ usbc_parse_descriptors(ds, size).iface_list =
                     usbc_init_descriptors(Count(ds, "CONFIG"), Count(ds, "IFACE"))
                /\ usbc_parse_descriptors(ds, size).configs = Count(ds, "CONFIG")
<1> DEFINE c == Count(ds, "CONFIG")
           f == Count(ds, "IFACE")
           parse == CHOOSE p : IsParse(p, ds, c, f, Len(ds))
<1>1. IsParse(parse, ds, c, f, Len(ds))
  BY ParseExists
<1>2. usbc_parse_descriptors(ds, size) =
        [ok |-> usbc_verify_descriptors(ds, size) /\ parse[Len(ds)].ok,
         mem |-> parse[Len(ds)].mem, configs |-> c,
         size |-> usbc_alloc_descriptors(c, f, Count(ds, "EP")), iface_list |-> usbc_init_descriptors(c, f)]
  BY DEF usbc_parse_descriptors, IsParse, ParseStart
<1> HIDE DEF parse
<1> DEFINE b == usbc_verify_descriptors(ds, size) /\ parse[Len(ds)].ok
<1>3. usbc_parse_descriptors(ds, size) =
        [ok |-> b, mem |-> parse[Len(ds)].mem, configs |-> c,
         size |-> usbc_alloc_descriptors(c, f, Count(ds, "EP")), iface_list |-> usbc_init_descriptors(c, f)]
  BY <1>2
<1>4. b => parse[Len(ds)].ok
  OBVIOUS
<1> HIDE DEF b
<1>5. /\ usbc_parse_descriptors(ds, size).ok => b
      /\ usbc_parse_descriptors(ds, size).mem = parse[Len(ds)].mem
      /\ usbc_parse_descriptors(ds, size).iface_list = usbc_init_descriptors(c, f)
      /\ usbc_parse_descriptors(ds, size).configs = c
  BY <1>3
<1>6. QED
  BY <1>1, <1>4, <1>5

-----------------------------------------------------------------------------
DTypes == {"CONFIG", "IFACE", "EP"}
Acc == [ok : BOOLEAN, mem : Memories, index : [DTypes -> Nat], last_cfg : Int, last_iface : Int]
\* The loop variables keep their types and the last nodes are in memory.
AccTyped(acc) ==
  /\ acc \in Acc
  /\ acc.last_cfg # -1 => acc.last_cfg \in DOMAIN acc.mem
  /\ acc.last_iface # -1 => acc.last_iface \in DOMAIN acc.mem

LEMMA OffsetNat ==
  ASSUME NEW c \in Nat, NEW f \in Nat, NEW t \in DTypes, NEW r \in Nat
  PROVE  usbc_get_desc_offset(c, f, t, r) \in Nat
<1>1. sizeof.CONFIG = 24 /\ sizeof.IFACE = 40 /\ sizeof.EP = 12
  BY DEF sizeof
<1>2. /\ r * 24 \in Nat /\ c * 24 + r * 40 \in Nat /\ c * 24 + f * 40 + r * 12 \in Nat
  OBVIOUS
<1>3. /\ usbc_get_desc_offset(c, f, "CONFIG", r) = r * 24
      /\ usbc_get_desc_offset(c, f, "IFACE", r) = c * 24 + r * 40
      /\ usbc_get_desc_offset(c, f, "EP", r) = c * 24 + f * 40 + r * 12
  BY <1>1 DEF usbc_get_desc_offset
<1>4. QED
  BY <1>2, <1>3 DEF DTypes

LEMMA MemoryFacts ==
  ASSUME NEW mem
  PROVE  mem \in Memories <=> /\ DOMAIN mem \subseteq Nat /\ mem = [x \in DOMAIN mem |-> mem[x]]
                              /\ \A x \in DOMAIN mem : mem[x] \in Node
<1>1. mem \in Memories => \E D \in SUBSET Nat : mem \in [D -> Node]
  BY DEF Memories
<1>2. ASSUME DOMAIN mem \subseteq Nat, mem = [x \in DOMAIN mem |-> mem[x]],
             \A x \in DOMAIN mem : mem[x] \in Node
      PROVE  mem \in Memories
  <2>1. mem \in [DOMAIN mem -> Node]
    BY <1>2
  <2>2. QED
    BY <1>2, <2>1 DEF Memories
<1>3. QED
  BY <1>1, <1>2

\* Descriptor i, of type t and with its node at `at` and up the node above it,
\* has turned acc into q.
ParsedOne(acc, q, i, t, up, at) ==
  /\ t \notin DTypes => q = acc
  /\ t \in DTypes /\ t # "CONFIG" /\ up = -1 => ~q.ok
  /\ t \in DTypes /\ (t # "CONFIG" => up # -1) /\ at \notin DOMAIN acc.mem =>
       /\ AccTyped(q) /\ q.ok /\ at \in Nat
       /\ q.index = [acc.index EXCEPT ![t] = @ + 1]
       /\ q.last_cfg = IF t = "CONFIG" THEN at ELSE acc.last_cfg
       /\ q.last_iface = IF t = "IFACE" THEN at ELSE acc.last_iface
       /\ DOMAIN q.mem = DOMAIN acc.mem \cup {at}
       /\ q.mem[at].desc = i /\ q.mem[at].num = 0 /\ q.mem[at].driver = "NULL"
       /\ t # "CONFIG" => up \in DOMAIN acc.mem
       /\ \A x \in DOMAIN acc.mem :
            /\ q.mem[x].desc = acc.mem[x].desc /\ q.mem[x].driver = acc.mem[x].driver
            /\ ~(t # "CONFIG" /\ x = up) => q.mem[x] = acc.mem[x]
            /\ t # "CONFIG" /\ x = up =>
                 /\ q.mem[x].num = acc.mem[x].num + 1
                 /\ q.mem[x].first = IF acc.mem[x].num = 0 THEN at ELSE acc.mem[x].first

\* One descriptor: what it does to each loop variable.
LEMMA ParseOneFacts ==
  ASSUME NEW ds, NEW c \in Nat, NEW f \in Nat, NEW acc, AccTyped(acc), acc.ok, NEW i \in Nat,
         NEW q, q = ParseOne(ds, c, f, acc, i)
  PROVE  ParsedOne(acc, q, i, ds[i].type,
                   IF ds[i].type = "IFACE" THEN acc.last_cfg ELSE acc.last_iface,
                   usbc_get_desc_offset(c, f, ds[i].type, acc.index[ds[i].type]))
<1> DEFINE t == ds[i].type
           up == IF t = "IFACE" THEN acc.last_cfg ELSE acc.last_iface
           at == usbc_get_desc_offset(c, f, t, acc.index[t])
           node == [desc |-> i, first |-> -1, num |-> 0, driver |-> "NULL"]
           put == [x \in DOMAIN acc.mem \cup {at} |-> IF x = at THEN node ELSE acc.mem[x]]
           linked == [put EXCEPT ![up].first = IF put[up].num = 0 THEN at ELSE @, ![up].num = @ + 1]
           mem2 == IF t = "CONFIG" THEN put ELSE linked
<1>0. Known(ds[i]) <=> t \in DTypes
  BY DEF Known, bLength, DTypes
<1>1. q = IF ~acc.ok \/ ~Known(ds[i]) THEN acc
          ELSE IF t # "CONFIG" /\ up = -1 THEN [acc EXCEPT !.ok = FALSE]
          ELSE [acc EXCEPT !.mem = mem2, !.index[t] = @ + 1,
                           !.last_cfg = IF t = "CONFIG" THEN at ELSE @,
                           !.last_iface = IF t = "IFACE" THEN at ELSE @]
  BY DEF ParseOne
<1> HIDE DEF t, up, at
<1>2. acc \in Acc
  BY DEF AccTyped
<1>3. t \notin DTypes => q = acc
  BY <1>0, <1>1
<1>4. t \in DTypes /\ t # "CONFIG" /\ up = -1 => ~q.ok
  <2> HIDE DEF mem2
  <2>1. QED
    BY <1>0, <1>1, <1>2 DEF Acc
<1>5. ASSUME t \in DTypes, t # "CONFIG" => up # -1, at \notin DOMAIN acc.mem
      PROVE  /\ AccTyped(q) /\ q.ok /\ at \in Nat
             /\ q.index = [acc.index EXCEPT ![t] = @ + 1]
             /\ q.last_cfg = IF t = "CONFIG" THEN at ELSE acc.last_cfg
             /\ q.last_iface = IF t = "IFACE" THEN at ELSE acc.last_iface
             /\ DOMAIN q.mem = DOMAIN acc.mem \cup {at}
             /\ q.mem[at].desc = i /\ q.mem[at].num = 0 /\ q.mem[at].driver = "NULL"
             /\ t # "CONFIG" => up \in DOMAIN acc.mem
             /\ \A x \in DOMAIN acc.mem :
                  /\ q.mem[x].desc = acc.mem[x].desc /\ q.mem[x].driver = acc.mem[x].driver
                  /\ ~(t # "CONFIG" /\ x = up) => q.mem[x] = acc.mem[x]
                  /\ t # "CONFIG" /\ x = up =>
                       /\ q.mem[x].num = acc.mem[x].num + 1
                       /\ q.mem[x].first = IF acc.mem[x].num = 0 THEN at ELSE acc.mem[x].first
  <2>1. /\ acc.index \in [DTypes -> Nat] /\ acc.mem \in Memories /\ acc.last_cfg \in Int
        /\ acc.last_iface \in Int /\ acc.ok \in BOOLEAN
    BY <1>2 DEF Acc
  <2>2. at \in Nat
    BY <1>5, <2>1, OffsetNat DEF at
  <2>3. q = [acc EXCEPT !.mem = mem2, !.index[t] = @ + 1,
                        !.last_cfg = IF t = "CONFIG" THEN at ELSE @,
                        !.last_iface = IF t = "IFACE" THEN at ELSE @]
    BY <1>0, <1>1, <1>5
  <2>4. /\ q.mem = mem2 /\ q.index = [acc.index EXCEPT ![t] = @ + 1] /\ q.ok
        /\ q.last_cfg = IF t = "CONFIG" THEN at ELSE acc.last_cfg
        /\ q.last_iface = IF t = "IFACE" THEN at ELSE acc.last_iface
    <3> HIDE DEF mem2
    <3>1. QED
      BY <1>2, <2>3 DEF Acc
  <2>5. t # "CONFIG" => up \in DOMAIN acc.mem
    BY <1>5 DEF AccTyped, up
  <2>6. /\ DOMAIN acc.mem \subseteq Nat /\ \A x \in DOMAIN acc.mem : acc.mem[x] \in Node
    BY <2>1, MemoryFacts
  <2>7. node \in Node
    BY DEF Node
  <2>8. /\ put = [x \in DOMAIN acc.mem \cup {at} |-> IF x = at THEN node ELSE acc.mem[x]]
    OBVIOUS
  <2> HIDE DEF put, node
  <2>9. /\ DOMAIN put = DOMAIN acc.mem \cup {at} /\ put[at] = node
        /\ \A x \in DOMAIN acc.mem : put[x] = acc.mem[x]
        /\ \A x \in DOMAIN put : put[x] \in Node
    BY <1>5, <2>6, <2>7, <2>8
  <2>10. ASSUME t # "CONFIG"
         PROVE  /\ linked = [x \in DOMAIN put |->
                      IF x = up THEN [put[x] EXCEPT !.first = IF put[x].num = 0 THEN at ELSE @, !.num = @ + 1]
                      ELSE put[x]]
    BY <2>5, <2>9, <2>10
  <2>11. ASSUME NEW y \in Node
         PROVE  LET z == [y EXCEPT !.first = IF y.num = 0 THEN at ELSE @, !.num = @ + 1]
                IN /\ z \in Node /\ z.desc = y.desc /\ z.driver = y.driver /\ z.num = y.num + 1
                   /\ z.first = IF y.num = 0 THEN at ELSE y.first
    <3> DEFINE g == IF y.num = 0 THEN at ELSE y.first
               z == [[y EXCEPT !.first = g] EXCEPT !.num = @ + 1]
    <3>1. g \in Int
      BY <2>2 DEF Node
    <3>2. z.first = g /\ z.num = y.num + 1 /\ z.desc = y.desc /\ z.driver = y.driver
      <4> HIDE DEF g
      <4>1. QED
        BY <3>1 DEF Node
    <3>3. z \in Node
      <4>1. z = [desc |-> y.desc, first |-> g, num |-> y.num + 1, driver |-> y.driver]
        <5>1. y = [desc |-> y.desc, first |-> y.first, num |-> y.num, driver |-> y.driver]
          BY DEF Node
        <5> HIDE DEF g
        <5>2. PICK d, fi, nu, dr : y = [desc |-> d, first |-> fi, num |-> nu, driver |-> dr]
          BY <5>1
        <5>3. z = [desc |-> d, first |-> g, num |-> nu + 1, driver |-> dr]
          <6> DEFINE a == [y EXCEPT !.first = g]
          <6>1. a = [desc |-> d, first |-> g, num |-> nu, driver |-> dr]
            BY <5>2
          <6>2. z = [a EXCEPT !.num = @ + 1]
            OBVIOUS
          <6> HIDE DEF a
          <6>3. [a EXCEPT !.num = @ + 1] = [desc |-> d, first |-> g, num |-> nu + 1, driver |-> dr]
            BY <6>1
          <6>4. QED
            BY <6>2, <6>3
        <5>4. QED
          BY <5>2, <5>3
      <4> HIDE DEF g, z
      <4>2. QED
        BY <3>1, <4>1 DEF Node
    <3>4. QED
      BY <3>2, <3>3
  <2>12. /\ DOMAIN mem2 = DOMAIN acc.mem \cup {at} /\ mem2 = [x \in DOMAIN mem2 |-> mem2[x]]
         /\ mem2[at] = node /\ \A x \in DOMAIN mem2 : mem2[x] \in Node
         /\ \A x \in DOMAIN acc.mem :
              /\ mem2[x].desc = acc.mem[x].desc /\ mem2[x].driver = acc.mem[x].driver
              /\ ~(t # "CONFIG" /\ x = up) => mem2[x] = acc.mem[x]
              /\ t # "CONFIG" /\ x = up =>
                   /\ mem2[x].num = acc.mem[x].num + 1
                   /\ mem2[x].first = IF acc.mem[x].num = 0 THEN at ELSE acc.mem[x].first
    <3>1. CASE t = "CONFIG"
      <4>1. mem2 = put
        BY <3>1
      <4>2. put = [x \in DOMAIN put |-> put[x]]
        BY <2>8
      <4> HIDE DEF mem2, linked
      <4>3. QED
        BY <3>1, <4>1, <4>2, <2>9
    <3>2. CASE t # "CONFIG"
      <4> DEFINE z(y) == [y EXCEPT !.first = IF y.num = 0 THEN at ELSE @, !.num = @ + 1]
      <4>1. mem2 = [x \in DOMAIN put |-> IF x = up THEN z(put[x]) ELSE put[x]]
        BY <2>10, <3>2
      <4>2. \A y \in Node : /\ z(y) \in Node /\ z(y).desc = y.desc /\ z(y).driver = y.driver
                            /\ z(y).num = y.num + 1
                            /\ z(y).first = IF y.num = 0 THEN at ELSE y.first
        BY <2>11
      <4>3. up # at /\ at \in DOMAIN put
        BY <1>5, <2>5, <2>9, <3>2
      <4> HIDE DEF mem2, linked, z
      <4>4. /\ DOMAIN mem2 = DOMAIN acc.mem \cup {at} /\ mem2[at] = node
            /\ \A x \in DOMAIN put : mem2[x] = IF x = up THEN z(put[x]) ELSE put[x]
        BY <4>1, <4>3, <2>9
      <4>5. mem2 = [x \in DOMAIN mem2 |-> mem2[x]]
        BY <4>1
      <4>6. \A x \in DOMAIN mem2 : mem2[x] \in Node
        BY <4>2, <4>4, <2>9
      <4>7. ASSUME NEW x \in DOMAIN acc.mem
            PROVE /\ mem2[x].desc = acc.mem[x].desc /\ mem2[x].driver = acc.mem[x].driver
                  /\ ~(t # "CONFIG" /\ x = up) => mem2[x] = acc.mem[x]
                  /\ t # "CONFIG" /\ x = up =>
                       /\ mem2[x].num = acc.mem[x].num + 1
                       /\ mem2[x].first = IF acc.mem[x].num = 0 THEN at ELSE acc.mem[x].first
        <5>1. put[x] = acc.mem[x] /\ acc.mem[x] \in Node /\ x \in DOMAIN put
          BY <2>6, <2>9
        <5>2. CASE x = up
          <6>1. mem2[x] = z(acc.mem[x])
            BY <4>4, <5>1, <5>2
          <6>2. QED
            BY <3>2, <4>2, <5>1, <5>2, <6>1
        <5>3. CASE x # up
          BY <4>4, <5>1, <5>3
        <5>4. QED
          BY <5>2, <5>3
      <4>8. QED
        BY <4>4, <4>5, <4>6, <4>7
    <3>3. QED
      BY <3>1, <3>2
  <2> HIDE DEF mem2, linked
  <2>13. DOMAIN mem2 \subseteq Nat
    BY <2>2, <2>6, <2>12
  <2>14. mem2 \in Memories
    BY <2>12, <2>13, MemoryFacts
  <2>15. [acc.index EXCEPT ![t] = @ + 1] \in [DTypes -> Nat]
    BY <1>5, <2>1
  <2>16. q \in Acc
    <3>1. q.mem \in Memories /\ q.index \in [DTypes -> Nat] /\ q.ok \in BOOLEAN
          /\ q.last_cfg \in Int /\ q.last_iface \in Int
      BY <2>1, <2>2, <2>4, <2>14, <2>15
    <3>2. q = [ok |-> q.ok, mem |-> q.mem, index |-> q.index, last_cfg |-> q.last_cfg,
               last_iface |-> q.last_iface]
      BY <1>2, <2>3, <2>4 DEF Acc
    <3>3. QED
      BY <3>1, <3>2 DEF Acc
  <2>17. AccTyped(q)
    <3>1. /\ q.last_cfg # -1 => q.last_cfg \in DOMAIN q.mem
          /\ q.last_iface # -1 => q.last_iface \in DOMAIN q.mem
      BY <2>4, <2>12 DEF AccTyped
    <3>2. QED
      BY <2>16, <3>1 DEF AccTyped
  <2>18. mem2[at].desc = i /\ mem2[at].num = 0 /\ mem2[at].driver = "NULL"
    BY <2>12 DEF node
  <2>19. QED
    BY <2>2, <2>4, <2>5, <2>12, <2>17, <2>18
<1>6. QED
  BY <1>3, <1>4, <1>5 DEF t, up, at, ParsedOne

-----------------------------------------------------------------------------
(***************************************************************************)
(* Ranks and places                                                        *)
(***************************************************************************)
\* How many of the first i descriptors are of type t.
Before(ds, t, i) == Cardinality({j \in 1 .. i : ds[j].type = t})

LEMMA BeforeFacts ==
  ASSUME NEW ds \in Descs, NEW t
  PROVE  /\ \A i \in Nat : Before(ds, t, i) \in Nat
         /\ Before(ds, t, 0) = 0 /\ Before(ds, t, Len(ds)) = Count(ds, t)
         /\ \A i \in Nat \ {0} : Before(ds, t, i) = IF ds[i].type = t THEN Before(ds, t, i - 1) + 1
                                                     ELSE Before(ds, t, i - 1)
         /\ \A i, j \in Nat : i <= j => Before(ds, t, i) <= Before(ds, t, j)
<1> DEFINE S(i) == {j \in 1 .. i : ds[j].type = t}
<1>1. ASSUME NEW i \in Nat PROVE IsFiniteSet(S(i)) /\ Before(ds, t, i) \in Nat
  <2>1. IsFiniteSet(1 .. i) /\ S(i) \subseteq 1 .. i
    BY FS_Interval
  <2>2. IsFiniteSet(S(i))
    BY <2>1, FS_Subset
  <2>3. QED
    BY <2>2, FS_CardinalityType DEF Before
<1>2. Before(ds, t, 0) = 0
  <2>1. S(0) = {}
    OBVIOUS
  <2>2. QED
    BY <2>1, FS_EmptySet DEF Before
<1>3. Before(ds, t, Len(ds)) = Count(ds, t)
  <2>1. DOMAIN ds = 1 .. Len(ds)
    BY DEF Descs
  <2>2. QED
    BY <2>1 DEF Before, Count
<1>4. ASSUME NEW i \in Nat \ {0}
      PROVE  Before(ds, t, i) = IF ds[i].type = t THEN Before(ds, t, i - 1) + 1
                                ELSE Before(ds, t, i - 1)
  <2>1. i - 1 \in Nat /\ IsFiniteSet(S(i - 1))
    BY <1>1
  <2>2. CASE ds[i].type = t
    <3>1. S(i) = S(i - 1) \cup {i} /\ i \notin S(i - 1)
      BY <2>2
    <3>2. Cardinality(S(i)) = Cardinality(S(i - 1)) + 1
      BY <2>1, <3>1, FS_AddElement
    <3>3. QED
      BY <2>2, <3>2 DEF Before
  <2>3. CASE ds[i].type # t
    <3>1. S(i) = S(i - 1)
      BY <2>3
    <3>2. QED
      BY <2>3, <3>1 DEF Before
  <2>4. QED
    BY <2>2, <2>3
<1>5. ASSUME NEW i \in Nat, NEW j \in Nat, i <= j
      PROVE  Before(ds, t, i) <= Before(ds, t, j)
  <2>1. S(i) \subseteq S(j) /\ IsFiniteSet(S(j))
    BY <1>1, <1>5
  <2>2. QED
    BY <2>1, FS_Subset DEF Before
<1>6. QED
  BY <1>1, <1>2, <1>3, <1>4, <1>5

LEMMA BeforeStep ==
  ASSUME NEW ds \in Descs, NEW t, NEW i \in Nat, i # 0
  PROVE  /\ Before(ds, t, i) \in Nat /\ Before(ds, t, i - 1) \in Nat
         /\ ds[i].type = t => Before(ds, t, i) = Before(ds, t, i - 1) + 1
         /\ ds[i].type # t => Before(ds, t, i) = Before(ds, t, i - 1)
<1>1. i \in Nat \ {0} /\ i - 1 \in Nat
  OBVIOUS
<1>2. Before(ds, t, i) \in Nat /\ Before(ds, t, i - 1) \in Nat
  BY <1>1, BeforeFacts
<1>3. \A k \in Nat \ {0} : Before(ds, t, k) = IF ds[k].type = t THEN Before(ds, t, k - 1) + 1
                                                ELSE Before(ds, t, k - 1)
  BY BeforeFacts
<1>4. Before(ds, t, i) = IF ds[i].type = t THEN Before(ds, t, i - 1) + 1
                         ELSE Before(ds, t, i - 1)
  BY <1>1, <1>3, Zenon
<1>5. QED
  BY <1>2, <1>4

\* Every rank below the count belongs to a descriptor.
LEMMA RankFound ==
  ASSUME NEW ds \in Descs, NEW t, NEW i \in Nat, NEW r \in Nat, r < Before(ds, t, i)
  PROVE  \E j \in 1 .. i : ds[j].type = t /\ Before(ds, t, j - 1) = r
<1> DEFINE S == {m \in Nat : r < Before(ds, t, m)}
<1>1. i \in S
  OBVIOUS
<1>2. PICK m \in S : \A n \in S : m <= n
  BY <1>1, LeastNatural
<1>3. m \in Nat /\ r < Before(ds, t, m) /\ m <= i /\ m # 0
  <2>1. m \in Nat /\ r < Before(ds, t, m) /\ m <= i
    BY <1>1, <1>2
  <2>2. Before(ds, t, 0) = 0
    BY BeforeFacts
  <2>3. QED
    BY <2>1, <2>2
<1>4. m - 1 \in Nat /\ m - 1 \notin S
  BY <1>2, <1>3
<1>5. Before(ds, t, m - 1) \in Nat /\ ~(r < Before(ds, t, m - 1))
  BY <1>4, BeforeFacts
<1>6. ds[m].type = t /\ Before(ds, t, m) = Before(ds, t, m - 1) + 1
  <2> HIDE DEF S
  <2>1. m \in Nat \ {0}
    BY <1>3
  <2>2. Before(ds, t, m) = IF ds[m].type = t THEN Before(ds, t, m - 1) + 1
                           ELSE Before(ds, t, m - 1)
    BY <2>1, BeforeStep
  <2>3. QED
    BY <1>3, <1>5, <2>2
<1>7. m \in 1 .. i /\ Before(ds, t, m - 1) = r
  BY <1>3, <1>5, <1>6
<1>8. QED
  BY <1>6, <1>7

\* Where the structure of a descriptor of type t and rank r lies, and of descriptor j.
Place(ds, t, r) == usbc_get_desc_offset(Count(ds, "CONFIG"), Count(ds, "IFACE"), t, r)
PlaceOf(ds, j) == Place(ds, ds[j].type, Before(ds, ds[j].type, j - 1))

LEMMA CountNat == ASSUME NEW ds \in Descs, NEW t PROVE Count(ds, t) \in Nat
<1>1. Len(ds) \in Nat
  BY DEF Descs
<1>2. QED
  BY <1>1, BeforeFacts

\* No two structures share a place.
LEMMA PlacesDistinct ==
  ASSUME NEW ds \in Descs, NEW t \in DTypes, NEW r \in Nat, r < Count(ds, t),
         NEW u \in DTypes, NEW s \in Nat, s < Count(ds, u), Place(ds, t, r) = Place(ds, u, s)
  PROVE  t = u /\ r = s
<1> DEFINE c == Count(ds, "CONFIG")
           f == Count(ds, "IFACE")
<1>1. c \in Nat /\ f \in Nat
  BY CountNat
<1>2. sizeof.CONFIG = 24 /\ sizeof.IFACE = 40 /\ sizeof.EP = 12
  BY DEF sizeof
<1>3. \A x \in Nat : /\ Place(ds, "CONFIG", x) = x * 24
                     /\ Place(ds, "IFACE", x) = c * 24 + x * 40
                     /\ Place(ds, "EP", x) = c * 24 + f * 40 + x * 12
  BY <1>2 DEF Place, usbc_get_desc_offset
<1>4. /\ t = "CONFIG" => r < c
      /\ t = "IFACE" => r < f
      /\ u = "CONFIG" => s < c
      /\ u = "IFACE" => s < f
  OBVIOUS
<1> HIDE DEF c, f
<1>5. t = "CONFIG" \/ t = "IFACE" \/ t = "EP"
  BY DEF DTypes
<1>6. u = "CONFIG" \/ u = "IFACE" \/ u = "EP"
  BY DEF DTypes
<1>7. CASE t = "CONFIG"
  <2>1. Place(ds, t, r) = r * 24
    BY <1>3, <1>7
  <2>2. CASE u = "CONFIG"
    <3>1. Place(ds, u, s) = s * 24
      BY <1>3, <2>2
    <3>2. r * 24 = s * 24
      BY <2>1, <3>1
    <3>3. QED
      BY <1>1, <1>4, <1>7, <2>2, <3>2
  <2>3. CASE u = "IFACE"
    <3>1. Place(ds, u, s) = c * 24 + s * 40
      BY <1>3, <2>3
    <3>2. r * 24 = c * 24 + s * 40
      BY <2>1, <3>1
    <3>3. QED
      BY <1>1, <1>4, <1>7, <2>3, <3>2
  <2>4. CASE u = "EP"
    <3>1. Place(ds, u, s) = c * 24 + f * 40 + s * 12
      BY <1>3, <2>4
    <3>2. r * 24 = c * 24 + f * 40 + s * 12
      BY <2>1, <3>1
    <3>3. QED
      BY <1>1, <1>4, <1>7, <2>4, <3>2
  <2>5. QED
    BY <1>6, <2>2, <2>3, <2>4
<1>8. CASE t = "IFACE"
  <2>1. Place(ds, t, r) = c * 24 + r * 40
    BY <1>3, <1>8
  <2>2. CASE u = "CONFIG"
    <3>1. Place(ds, u, s) = s * 24
      BY <1>3, <2>2
    <3>2. c * 24 + r * 40 = s * 24
      BY <2>1, <3>1
    <3>3. QED
      BY <1>1, <1>4, <1>8, <2>2, <3>2
  <2>3. CASE u = "IFACE"
    <3>1. Place(ds, u, s) = c * 24 + s * 40
      BY <1>3, <2>3
    <3>2. c * 24 + r * 40 = c * 24 + s * 40
      BY <2>1, <3>1
    <3>3. QED
      BY <1>1, <1>4, <1>8, <2>3, <3>2
  <2>4. CASE u = "EP"
    <3>1. Place(ds, u, s) = c * 24 + f * 40 + s * 12
      BY <1>3, <2>4
    <3>2. c * 24 + r * 40 = c * 24 + f * 40 + s * 12
      BY <2>1, <3>1
    <3>3. QED
      BY <1>1, <1>4, <1>8, <2>4, <3>2
  <2>5. QED
    BY <1>6, <2>2, <2>3, <2>4
<1>9. CASE t = "EP"
  <2>1. Place(ds, t, r) = c * 24 + f * 40 + r * 12
    BY <1>3, <1>9
  <2>2. CASE u = "CONFIG"
    <3>1. Place(ds, u, s) = s * 24
      BY <1>3, <2>2
    <3>2. c * 24 + f * 40 + r * 12 = s * 24
      BY <2>1, <3>1
    <3>3. QED
      BY <1>1, <1>4, <1>9, <2>2, <3>2
  <2>3. CASE u = "IFACE"
    <3>1. Place(ds, u, s) = c * 24 + s * 40
      BY <1>3, <2>3
    <3>2. c * 24 + f * 40 + r * 12 = c * 24 + s * 40
      BY <2>1, <3>1
    <3>3. QED
      BY <1>1, <1>4, <1>9, <2>3, <3>2
  <2>4. CASE u = "EP"
    <3>1. Place(ds, u, s) = c * 24 + f * 40 + s * 12
      BY <1>3, <2>4
    <3>2. c * 24 + f * 40 + r * 12 = c * 24 + f * 40 + s * 12
      BY <2>1, <3>1
    <3>3. QED
      BY <1>1, <1>4, <1>9, <2>4, <3>2
  <2>5. QED
    BY <1>6, <2>2, <2>3, <2>4
<1>10. QED
  BY <1>5, <1>7, <1>8, <1>9

LEMMA PlaceOfFacts ==
  ASSUME NEW ds \in Descs, NEW j \in 1 .. Len(ds), ds[j].type \in DTypes
  PROVE  /\ PlaceOf(ds, j) \in Nat
         /\ Before(ds, ds[j].type, j - 1) \in Nat
         /\ Before(ds, ds[j].type, j) = Before(ds, ds[j].type, j - 1) + 1
         /\ Before(ds, ds[j].type, j - 1) < Count(ds, ds[j].type)
         /\ \A k \in 1 .. Len(ds) :
              ds[k].type \in DTypes /\ PlaceOf(ds, j) = PlaceOf(ds, k) => j = k
<1>1. ASSUME NEW k \in 1 .. Len(ds), ds[k].type \in DTypes
      PROVE  /\ Before(ds, ds[k].type, k - 1) \in Nat
             /\ Before(ds, ds[k].type, k) = Before(ds, ds[k].type, k - 1) + 1
             /\ Before(ds, ds[k].type, k - 1) < Count(ds, ds[k].type)
  <2>1. Len(ds) \in Nat /\ k - 1 \in Nat /\ k \in Nat \ {0} /\ k <= Len(ds)
    BY DEF Descs
  <2>2. /\ Before(ds, ds[k].type, k - 1) \in Nat
        /\ Before(ds, ds[k].type, k) = Before(ds, ds[k].type, k - 1) + 1
        /\ Before(ds, ds[k].type, k) <= Before(ds, ds[k].type, Len(ds))
        /\ Before(ds, ds[k].type, Len(ds)) = Count(ds, ds[k].type)
    BY <2>1, BeforeFacts
  <2>3. Count(ds, ds[k].type) \in Nat
    BY CountNat
  <2>4. QED
    BY <2>2, <2>3
<1>2. PlaceOf(ds, j) \in Nat
  BY <1>1, CountNat, OffsetNat DEF PlaceOf, Place
<1>3. ASSUME NEW k \in 1 .. Len(ds), ds[k].type \in DTypes, PlaceOf(ds, j) = PlaceOf(ds, k)
      PROVE  j = k
  <2>1. ds[j].type = ds[k].type /\ Before(ds, ds[j].type, j - 1) = Before(ds, ds[j].type, k - 1)
    BY <1>1, <1>3, PlacesDistinct DEF PlaceOf
  <2>2. j - 1 \in Nat /\ k - 1 \in Nat /\ j \in Nat /\ k \in Nat
    OBVIOUS
  <2>3. /\ Before(ds, ds[j].type, j) = Before(ds, ds[j].type, j - 1) + 1
        /\ Before(ds, ds[j].type, k) = Before(ds, ds[j].type, k - 1) + 1
        /\ Before(ds, ds[j].type, j - 1) \in Nat
    BY <1>1, <1>3, <2>1
  <2>4. /\ j <= k - 1 => Before(ds, ds[j].type, j) <= Before(ds, ds[j].type, k - 1)
        /\ k <= j - 1 => Before(ds, ds[j].type, k) <= Before(ds, ds[j].type, j - 1)
    BY <2>2, BeforeFacts
  <2>5. QED
    BY <2>1, <2>2, <2>3, <2>4
<1>4. QED
  BY <1>1, <1>2, <1>3

-----------------------------------------------------------------------------
(***************************************************************************)
(* The tree that the loop has built from the first i descriptors           *)
(***************************************************************************)
\* at is the place of the last descriptor of type up, if there was one.
LastIs(ds, i, up, at) ==
  IF at = -1 THEN \A j \in 1 .. i : ds[j].type # up
  ELSE \E j \in 1 .. i : /\ ds[j].type = up /\ at = PlaceOf(ds, j)
                        /\ \A m \in j + 1 .. i : ds[m].type # up

\* The descriptors from j to e belong to descriptor j of type up, and its node
\* knows how many of type t are among them and where the first one is.
SpanOf(ds, mem, i, up, t, j, e) ==
  /\ \A m \in j + 1 .. e : ds[m].type # up
  /\ e = i \/ ds[e + 1].type = up
  /\ mem[PlaceOf(ds, j)].num = Before(ds, t, e) - Before(ds, t, j)
  /\ mem[PlaceOf(ds, j)].num # 0 => mem[PlaceOf(ds, j)].first = Place(ds, t, Before(ds, t, j))
Spans(ds, mem, i, up, t) ==
  \A j \in 1 .. i : ds[j].type = up => \E e \in j .. i : SpanOf(ds, mem, i, up, t, j, e)

Found(ds, mem, i) ==
  /\ DOMAIN mem = {PlaceOf(ds, j) : j \in {k \in 1 .. i : ds[k].type \in DTypes}}
  /\ \A j \in 1 .. i : ds[j].type \in DTypes =>
       mem[PlaceOf(ds, j)].desc = j /\ mem[PlaceOf(ds, j)].driver = "NULL"

TreeSoFar(ds, acc, i) ==
  /\ AccTyped(acc) /\ acc.ok
  /\ \A t \in DTypes : acc.index[t] = Before(ds, t, i)
  /\ Found(ds, acc.mem, i)
  /\ LastIs(ds, i, "CONFIG", acc.last_cfg) /\ LastIs(ds, i, "IFACE", acc.last_iface)
  /\ Spans(ds, acc.mem, i, "CONFIG", "IFACE") /\ Spans(ds, acc.mem, i, "IFACE", "EP")

\* The last node moves only when a descriptor of its type comes.
LEMMA LastStep ==
  ASSUME NEW ds \in Descs, NEW i \in 1 .. Len(ds), NEW up \in DTypes, NEW at \in Int,
         LastIs(ds, i - 1, up, at), NEW to \in Int,
         to = IF ds[i].type = up THEN PlaceOf(ds, i) ELSE at
  PROVE  LastIs(ds, i, up, to)
<1>1. i \in Nat /\ i <= Len(ds) /\ i # 0
  BY DEF Descs
<1>2. CASE ds[i].type = up
  <2>1. to = PlaceOf(ds, i) /\ PlaceOf(ds, i) \in Nat /\ to # -1
    BY <1>2, PlaceOfFacts
  <2>2. \A m \in i + 1 .. i : ds[m].type # up
    BY <1>1
  <2>3. QED
    BY <1>1, <1>2, <2>1, <2>2 DEF LastIs
<1>3. CASE ds[i].type # up
  <2>1. to = at
    BY <1>3
  <2>2. \A j \in 1 .. i : j = i \/ j \in 1 .. i - 1
    BY <1>1
  <2>3. CASE at = -1
    BY <1>3, <2>1, <2>2, <2>3 DEF LastIs
  <2>4. CASE at # -1
    <3>1. PICK j \in 1 .. i - 1 : /\ ds[j].type = up /\ at = PlaceOf(ds, j)
                                 /\ \A m \in j + 1 .. i - 1 : ds[m].type # up
      BY <2>4 DEF LastIs
    <3>2. j \in 1 .. i /\ \A m \in j + 1 .. i : ds[m].type # up
      BY <1>1, <1>3, <3>1
    <3>3. QED
      BY <2>1, <2>4, <3>1, <3>2 DEF LastIs
  <2>5. QED
    BY <2>3, <2>4
<1>4. QED
  BY <1>2, <1>3

\* The node at x has descriptor i as its next child, if it is the last node above it.
ChildAt(ds, i, mem, mem2, t, last, x) ==
  IF ds[i].type = t /\ x = last
    THEN /\ mem2[x].num = mem[x].num + 1
         /\ mem2[x].first = IF mem[x].num = 0 THEN PlaceOf(ds, i) ELSE mem[x].first
    ELSE mem2[x].num = mem[x].num /\ mem2[x].first = mem[x].first

\* The spans when descriptor i is copied: its node is new, and if it is of type t
\* the last node of type up gets a child.
LEMMA SpanStep ==
  ASSUME NEW ds \in Descs, NEW i \in 1 .. Len(ds), NEW up \in DTypes, NEW t \in DTypes, up # t,
         NEW mem \in Memories, NEW mem2, NEW last \in Int, Found(ds, mem, i - 1),
         Spans(ds, mem, i - 1, up, t), LastIs(ds, i - 1, up, last),
         ds[i].type = up => mem2[PlaceOf(ds, i)].num = 0,
         ds[i].type = t => last # -1,
         \A j \in 1 .. i - 1 : ds[j].type = up => ChildAt(ds, i, mem, mem2, t, last, PlaceOf(ds, j))
  PROVE  Spans(ds, mem2, i, up, t)
<1>1. i \in Nat /\ i <= Len(ds) /\ i # 0 /\ Len(ds) \in Nat
  BY DEF Descs
<1>2. SUFFICES ASSUME NEW j \in 1 .. i, ds[j].type = up
               PROVE  \E e \in j .. i : SpanOf(ds, mem2, i, up, t, j, e)
  BY DEF Spans
<1>3. /\ \A k \in Nat : Before(ds, t, k) \in Nat
      /\ Before(ds, t, i) = IF ds[i].type = t THEN Before(ds, t, i - 1) + 1 ELSE Before(ds, t, i - 1)
  <2>1. \A k \in Nat : Before(ds, t, k) \in Nat
    BY BeforeFacts
  <2>2. QED
    BY <1>1, <2>1, BeforeStep
<1>4. CASE j = i
  <2>1. mem2[PlaceOf(ds, i)].num = Before(ds, t, i) - Before(ds, t, i)
    <3>1. mem2[PlaceOf(ds, i)].num = 0
      BY <1>2, <1>4
    <3>2. Before(ds, t, i) \in Nat
      BY <1>1, <1>3
    <3>3. QED
      BY <3>1, <3>2
  <2>2. \A m \in i + 1 .. i : ds[m].type # up
    BY <1>1
  <2>3. mem2[PlaceOf(ds, i)].num = 0
    BY <1>2, <1>4
  <2>4. SpanOf(ds, mem2, i, up, t, i, i)
    BY <2>1, <2>2, <2>3 DEF SpanOf
  <2>5. QED
    BY <1>1, <1>4, <2>4
<1>5. CASE j # i
  <2>1. j \in 1 .. i - 1 /\ j \in Nat /\ j \in 1 .. Len(ds)
    BY <1>1, <1>5
  <2> DEFINE x == PlaceOf(ds, j)
  <2>2. PICK e \in j .. i - 1 : SpanOf(ds, mem, i - 1, up, t, j, e)
    BY <1>2, <2>1 DEF Spans
  <2>3. /\ \A m \in j + 1 .. e : ds[m].type # up
        /\ e = i - 1 \/ ds[e + 1].type = up
        /\ mem[x].num = Before(ds, t, e) - Before(ds, t, j)
        /\ mem[x].num # 0 => mem[x].first = Place(ds, t, Before(ds, t, j))
    BY <2>2 DEF SpanOf
  <2>4. e \in Nat /\ j <= e /\ e <= i - 1 /\ e \in j .. i
    BY <1>1, <2>1
  <2>5. x \in DOMAIN mem /\ mem[x] \in Node
    <3>1. x \in DOMAIN mem
      <4>1. j \in {k \in 1 .. i - 1 : ds[k].type \in DTypes}
        BY <1>2, <2>1
      <4>2. DOMAIN mem = {PlaceOf(ds, k) : k \in {k \in 1 .. i - 1 : ds[k].type \in DTypes}}
        BY DEF Found
      <4>3. QED
        BY <4>1, <4>2
    <3>2. QED
      BY <3>1, MemoryFacts
  <2>6. IF ds[i].type = t /\ x = last
          THEN /\ mem2[x].num = mem[x].num + 1
               /\ mem2[x].first = IF mem[x].num = 0 THEN PlaceOf(ds, i) ELSE mem[x].first
          ELSE mem2[x].num = mem[x].num /\ mem2[x].first = mem[x].first
    BY <1>2, <2>1 DEF ChildAt
  <2>7. CASE ds[e + 1].type = up
    <3>1. ds[i].type = t => x # last
      <4>1. SUFFICES ASSUME ds[i].type = t, x = last PROVE FALSE
        OBVIOUS
      <4>2. PICK k \in 1 .. i - 1 : /\ ds[k].type = up /\ last = PlaceOf(ds, k)
                                   /\ \A m \in k + 1 .. i - 1 : ds[m].type # up
        BY <4>1 DEF LastIs
      <4>3. k \in 1 .. Len(ds)
        BY <1>1
      <4>4. k = j
        BY <1>2, <2>1, <4>1, <4>2, <4>3, PlaceOfFacts
      <4>5. e + 1 # i
        BY <2>7, <4>1
      <4>6. e + 1 \in j + 1 .. i - 1
        BY <1>1, <2>1, <2>4, <4>5
      <4>7. QED
        BY <2>7, <4>2, <4>4, <4>6
    <3>2. mem2[x].num = mem[x].num /\ mem2[x].first = mem[x].first
      BY <2>6, <3>1
    <3>3. SpanOf(ds, mem2, i, up, t, j, e)
      BY <2>3, <2>7, <3>2 DEF SpanOf
    <3>4. QED
      BY <2>4, <3>3
  <2>8. CASE ds[e + 1].type # up
    <3>1. e = i - 1 /\ ds[i].type # up
      BY <1>1, <2>3, <2>8
    <3>2. \A m \in j + 1 .. i : ds[m].type # up
      BY <1>1, <2>1, <2>3, <3>1
    <3>3. ds[i].type = t => x = last
      <4>1. SUFFICES ASSUME ds[i].type = t PROVE x = last
        OBVIOUS
      <4>2. PICK k \in 1 .. i - 1 : /\ ds[k].type = up /\ last = PlaceOf(ds, k)
                                   /\ \A m \in k + 1 .. i - 1 : ds[m].type # up
        BY <4>1 DEF LastIs
      <4>3. k = j
        <5>1. ~(k < j) /\ ~(j < k)
          BY <1>1, <1>2, <2>1, <3>2, <4>2
        <5>2. QED
          BY <2>1, <5>1
      <4>4. QED
        BY <4>2, <4>3
    <3>4. Before(ds, t, i - 1) \in Nat /\ Before(ds, t, j) \in Nat
      BY <1>1, <1>3, <2>1
    <3>5. mem[x].num \in Nat
      BY <2>5 DEF Node
    <3>6. CASE ds[i].type = t
      <4>1. /\ mem2[x].num = mem[x].num + 1
            /\ mem2[x].first = IF mem[x].num = 0 THEN PlaceOf(ds, i) ELSE mem[x].first
        BY <2>6, <3>3, <3>6
      <4>2. mem2[x].num = Before(ds, t, i) - Before(ds, t, j)
        <5>1. Before(ds, t, i) = Before(ds, t, i - 1) + 1
          BY <1>3, <3>6
        <5>2. mem[x].num = Before(ds, t, i - 1) - Before(ds, t, j)
          BY <2>3, <3>1
        <5>3. mem2[x].num = mem[x].num + 1
          BY <4>1
        <5> HIDE DEF x
        <5>4. QED
          BY <3>4, <5>1, <5>2, <5>3
      <4>3. mem2[x].first = Place(ds, t, Before(ds, t, j))
        <5>1. CASE mem[x].num = 0
          <6>1. Before(ds, t, i - 1) = Before(ds, t, j)
            BY <2>3, <3>1, <3>4, <5>1
          <6>2. PlaceOf(ds, i) = Place(ds, t, Before(ds, t, j))
            BY <3>6, <6>1 DEF PlaceOf
          <6>3. QED
            BY <4>1, <5>1, <6>2
        <5>2. CASE mem[x].num # 0
          BY <2>3, <4>1, <5>2
        <5>3. QED
          BY <5>1, <5>2
      <4>4. SpanOf(ds, mem2, i, up, t, j, i)
        BY <3>2, <4>2, <4>3 DEF SpanOf
      <4>5. QED
        BY <1>1, <2>1, <4>4
    <3>7. CASE ds[i].type # t
      <4>1. mem2[x].num = mem[x].num /\ mem2[x].first = mem[x].first
        BY <2>6, <3>7
      <4>2. mem2[x].num = Before(ds, t, i) - Before(ds, t, j)
        BY <1>3, <2>3, <3>1, <3>7, <4>1
      <4>3. SpanOf(ds, mem2, i, up, t, j, i)
        BY <2>3, <3>2, <4>1, <4>2 DEF SpanOf
      <4>4. QED
        BY <1>1, <2>1, <4>3
    <3>8. QED
      BY <3>6, <3>7
  <2>9. QED
    BY <2>7, <2>8
<1>6. QED
  BY <1>4, <1>5

\* Copying descriptor i keeps the tree right.
LEMMA TreeStep ==
  ASSUME NEW ds \in Descs, NEW i \in 1 .. Len(ds), NEW acc, TreeSoFar(ds, acc, i - 1),
         NEW q, q = ParseOne(ds, Count(ds, "CONFIG"), Count(ds, "IFACE"), acc, i), q.ok
  PROVE  TreeSoFar(ds, q, i)
<1> DEFINE c == Count(ds, "CONFIG")
           f == Count(ds, "IFACE")
           tt == ds[i].type
           up == IF tt = "IFACE" THEN acc.last_cfg ELSE acc.last_iface
           at == usbc_get_desc_offset(c, f, tt, acc.index[tt])
<1>1. i \in Nat /\ i # 0 /\ i - 1 \in Nat /\ i <= Len(ds) /\ c \in Nat /\ f \in Nat
  BY CountNat DEF Descs
<1>2. /\ AccTyped(acc) /\ acc.ok
      /\ \A t \in DTypes : acc.index[t] = Before(ds, t, i - 1)
      /\ Found(ds, acc.mem, i - 1)
      /\ LastIs(ds, i - 1, "CONFIG", acc.last_cfg) /\ LastIs(ds, i - 1, "IFACE", acc.last_iface)
      /\ Spans(ds, acc.mem, i - 1, "CONFIG", "IFACE") /\ Spans(ds, acc.mem, i - 1, "IFACE", "EP")
  BY DEF TreeSoFar
<1>3. /\ acc.mem \in Memories /\ acc.last_cfg \in Int /\ acc.last_iface \in Int
      /\ acc.index \in [DTypes -> Nat]
  BY <1>2 DEF AccTyped, Acc
<1>4. \A t \in DTypes : /\ Before(ds, t, i) \in Nat /\ Before(ds, t, i - 1) \in Nat
                        /\ tt = t => Before(ds, t, i) = Before(ds, t, i - 1) + 1
                        /\ tt # t => Before(ds, t, i) = Before(ds, t, i - 1)
  BY <1>1, BeforeStep
<1>5. DOMAIN acc.mem = {PlaceOf(ds, j) : j \in {k \in 1 .. i - 1 : ds[k].type \in DTypes}}
  BY <1>2 DEF Found
<1>6. /\ tt \notin DTypes => q = acc
      /\ tt \in DTypes /\ tt # "CONFIG" /\ up = -1 => ~q.ok
      /\ tt \in DTypes /\ (tt # "CONFIG" => up # -1) /\ at \notin DOMAIN acc.mem =>
           /\ AccTyped(q) /\ q.ok /\ at \in Nat
           /\ q.index = [acc.index EXCEPT ![tt] = @ + 1]
           /\ q.last_cfg = IF tt = "CONFIG" THEN at ELSE acc.last_cfg
           /\ q.last_iface = IF tt = "IFACE" THEN at ELSE acc.last_iface
           /\ DOMAIN q.mem = DOMAIN acc.mem \cup {at}
           /\ q.mem[at].desc = i /\ q.mem[at].num = 0 /\ q.mem[at].driver = "NULL"
           /\ tt # "CONFIG" => up \in DOMAIN acc.mem
           /\ \A x \in DOMAIN acc.mem :
                /\ q.mem[x].desc = acc.mem[x].desc /\ q.mem[x].driver = acc.mem[x].driver
                /\ ~(tt # "CONFIG" /\ x = up) => q.mem[x] = acc.mem[x]
                /\ tt # "CONFIG" /\ x = up =>
                     /\ q.mem[x].num = acc.mem[x].num + 1
                     /\ q.mem[x].first = IF acc.mem[x].num = 0 THEN at ELSE acc.mem[x].first
  <2>1. ParsedOne(acc, q, i, tt, up, at)
    BY <1>1, <1>2, ParseOneFacts
  <2> HIDE DEF tt, up, at
  <2>2. QED
    BY <2>1 DEF ParsedOne
<1>7. CASE tt \notin DTypes
  <2>1. q = acc
    BY <1>6, <1>7
  <2>2. \A t \in DTypes : q.index[t] = Before(ds, t, i)
    BY <1>2, <1>4, <1>7, <2>1
  <2>3. Found(ds, q.mem, i)
    <3>1. {k \in 1 .. i : ds[k].type \in DTypes} = {k \in 1 .. i - 1 : ds[k].type \in DTypes}
      BY <1>1, <1>7
    <3>2. DOMAIN q.mem = {PlaceOf(ds, j) : j \in {k \in 1 .. i : ds[k].type \in DTypes}}
      BY <1>5, <2>1, <3>1
    <3>3. \A j \in 1 .. i : ds[j].type \in DTypes => j \in 1 .. i - 1
      BY <1>1, <1>7
    <3>4. QED
      BY <1>2, <2>1, <3>2, <3>3 DEF Found
  <2>4. LastIs(ds, i, "CONFIG", q.last_cfg) /\ LastIs(ds, i, "IFACE", q.last_iface)
    <3>1. "CONFIG" \in DTypes /\ "IFACE" \in DTypes
      BY DEF DTypes
    <3>2. tt # "CONFIG" /\ tt # "IFACE"
      BY <1>7, <3>1
    <3> HIDE DEF up, at
    <3>3. QED
      BY <1>2, <1>3, <2>1, <3>1, <3>2, LastStep
  <2>5. ASSUME NEW u \in DTypes, NEW t \in DTypes, u # t, NEW last \in Int,
               Spans(ds, acc.mem, i - 1, u, t), LastIs(ds, i - 1, u, last)
        PROVE  Spans(ds, q.mem, i, u, t)
    <3>1. tt # u /\ tt # t
      BY <1>7
    <3>2. \A j \in 1 .. i - 1 : ChildAt(ds, i, acc.mem, q.mem, t, last, PlaceOf(ds, j))
      BY <2>1, <3>1 DEF ChildAt
    <3>3. QED
      BY <1>2, <1>3, <2>5, <3>1, <3>2, SpanStep
  <2>6. Spans(ds, q.mem, i, "CONFIG", "IFACE") /\ Spans(ds, q.mem, i, "IFACE", "EP")
    <3>1. "CONFIG" \in DTypes /\ "IFACE" \in DTypes /\ "EP" \in DTypes
      BY DEF DTypes
    <3>2. QED
      BY <1>2, <1>3, <2>5, <3>1
  <2>7. QED
    BY <1>2, <2>1, <2>2, <2>3, <2>4, <2>6 DEF TreeSoFar
<1>8. CASE tt \in DTypes
  <2>1. at = PlaceOf(ds, i)
    BY <1>2, <1>8 DEF PlaceOf, Place
  <2>2. at \notin DOMAIN acc.mem
    <3>1. ASSUME NEW j \in 1 .. i - 1, ds[j].type \in DTypes, at = PlaceOf(ds, j)
          PROVE  FALSE
      <4>1. j \in 1 .. Len(ds) /\ j # i
        BY <1>1
      <4>2. PlaceOf(ds, i) = PlaceOf(ds, j) => i = j
        BY <1>8, <3>1, <4>1, PlaceOfFacts
      <4>3. QED
        BY <2>1, <3>1, <4>1, <4>2
    <3>2. QED
      BY <1>5, <3>1
  <2>3. tt # "CONFIG" => up # -1
    BY <1>6, <1>8
  <2> HIDE DEF up, at
  <2>4. /\ AccTyped(q) /\ q.ok /\ at \in Nat
        /\ q.index = [acc.index EXCEPT ![tt] = @ + 1]
        /\ q.last_cfg = IF tt = "CONFIG" THEN at ELSE acc.last_cfg
        /\ q.last_iface = IF tt = "IFACE" THEN at ELSE acc.last_iface
        /\ DOMAIN q.mem = DOMAIN acc.mem \cup {at}
        /\ q.mem[at].desc = i /\ q.mem[at].num = 0 /\ q.mem[at].driver = "NULL"
        /\ \A x \in DOMAIN acc.mem :
             /\ q.mem[x].desc = acc.mem[x].desc /\ q.mem[x].driver = acc.mem[x].driver
             /\ ~(tt # "CONFIG" /\ x = up) => q.mem[x] = acc.mem[x]
             /\ tt # "CONFIG" /\ x = up =>
                  /\ q.mem[x].num = acc.mem[x].num + 1
                  /\ q.mem[x].first = IF acc.mem[x].num = 0 THEN at ELSE acc.mem[x].first
    BY <1>6, <1>8, <2>2, <2>3
  <2>5. \A t \in DTypes : q.index[t] = Before(ds, t, i)
    BY <1>2, <1>3, <1>4, <1>8, <2>4
  <2>6. Found(ds, q.mem, i)
    <3>1. {k \in 1 .. i : ds[k].type \in DTypes} = {k \in 1 .. i - 1 : ds[k].type \in DTypes} \cup {i}
      BY <1>1, <1>8
    <3>2. {PlaceOf(ds, j) : j \in {k \in 1 .. i : ds[k].type \in DTypes}} = DOMAIN acc.mem \cup {at}
      BY <1>5, <2>1, <3>1
    <3>3. ASSUME NEW j \in 1 .. i, ds[j].type \in DTypes
          PROVE  q.mem[PlaceOf(ds, j)].desc = j /\ q.mem[PlaceOf(ds, j)].driver = "NULL"
      <4>1. CASE j = i
        BY <2>1, <2>4, <4>1
      <4>2. CASE j # i
        <5>1. j \in 1 .. i - 1
          BY <1>1, <4>2
        <5>2. /\ acc.mem[PlaceOf(ds, j)].desc = j /\ acc.mem[PlaceOf(ds, j)].driver = "NULL"
              /\ PlaceOf(ds, j) \in DOMAIN acc.mem
          BY <1>2, <1>5, <3>3, <5>1 DEF Found
        <5>3. QED
          BY <2>4, <5>2
      <4>3. QED
        BY <4>1, <4>2
    <3>4. DOMAIN q.mem = {PlaceOf(ds, j) : j \in {k \in 1 .. i : ds[k].type \in DTypes}}
      BY <2>4, <3>2
    <3>5. QED
      BY <3>3, <3>4 DEF Found
  <2>7. LastIs(ds, i, "CONFIG", q.last_cfg)
    <3>1. "CONFIG" \in DTypes
      BY DEF DTypes
    <3>2. q.last_cfg \in Int /\ q.last_cfg = IF tt = "CONFIG" THEN PlaceOf(ds, i) ELSE acc.last_cfg
      BY <1>3, <2>1, <2>4
    <3>3. QED
      BY <1>2, <1>3, <3>1, <3>2, LastStep
  <2>8. LastIs(ds, i, "IFACE", q.last_iface)
    <3>1. "IFACE" \in DTypes
      BY DEF DTypes
    <3>2. q.last_iface \in Int /\ q.last_iface = IF tt = "IFACE" THEN PlaceOf(ds, i) ELSE acc.last_iface
      BY <1>3, <2>1, <2>4
    <3>3. QED
      BY <1>2, <1>3, <3>1, <3>2, LastStep
  <2>10. ASSUME NEW j \in 1 .. i - 1, ds[j].type \in DTypes, tt # "CONFIG", up = PlaceOf(ds, j)
         PROVE  ds[j].type = IF tt = "IFACE" THEN "CONFIG" ELSE "IFACE"
    <3> DEFINE u == IF tt = "IFACE" THEN "CONFIG" ELSE "IFACE"
    <3>1. LastIs(ds, i - 1, u, up) /\ up # -1 /\ u \in DTypes
      BY <1>2, <2>3, <2>10 DEF up, DTypes
    <3>2. PICK k \in 1 .. i - 1 : ds[k].type = u /\ up = PlaceOf(ds, k)
      BY <3>1 DEF LastIs
    <3>3. j \in 1 .. Len(ds) /\ k \in 1 .. Len(ds)
      BY <1>1
    <3>4. j = k
      BY <2>10, <3>1, <3>2, <3>3, PlaceOfFacts
    <3>5. QED
      BY <3>2, <3>4
  <2>11. Spans(ds, q.mem, i, "CONFIG", "IFACE")
    <3>1. "CONFIG" \in DTypes /\ "IFACE" \in DTypes
      BY DEF DTypes
    <3>2. tt = "CONFIG" => q.mem[PlaceOf(ds, i)].num = 0
      BY <2>1, <2>4
    <3>3. tt = "IFACE" => up = acc.last_cfg /\ acc.last_cfg # -1
      BY <2>3 DEF up
    <3>4. ASSUME NEW j \in 1 .. i - 1, ds[j].type = "CONFIG"
          PROVE  ChildAt(ds, i, acc.mem, q.mem, "IFACE", acc.last_cfg, PlaceOf(ds, j))
      <4> DEFINE x == PlaceOf(ds, j)
      <4>1. x \in DOMAIN acc.mem
        BY <1>5, <3>1, <3>4
      <4>2. tt # "CONFIG" /\ x = up => tt = "IFACE"
        BY <2>10, <3>1, <3>4
      <4>3. IF tt = "IFACE" /\ x = acc.last_cfg
              THEN /\ q.mem[x].num = acc.mem[x].num + 1
                   /\ q.mem[x].first = IF acc.mem[x].num = 0 THEN PlaceOf(ds, i) ELSE acc.mem[x].first
              ELSE q.mem[x].num = acc.mem[x].num /\ q.mem[x].first = acc.mem[x].first
        <5> HIDE DEF x
        <5>1. QED
          BY <2>1, <2>4, <3>3, <4>1, <4>2
      <4>4. QED
        BY <4>3 DEF ChildAt
    <3>5. QED
      BY <1>2, <1>3, <3>1, <3>2, <3>3, <3>4, SpanStep
  <2>12. Spans(ds, q.mem, i, "IFACE", "EP")
    <3>1. "EP" \in DTypes /\ "IFACE" \in DTypes
      BY DEF DTypes
    <3>2. tt = "IFACE" => q.mem[PlaceOf(ds, i)].num = 0
      BY <2>1, <2>4
    <3>3. tt = "EP" => up = acc.last_iface /\ acc.last_iface # -1
      BY <2>3 DEF up
    <3>4. ASSUME NEW j \in 1 .. i - 1, ds[j].type = "IFACE"
          PROVE  ChildAt(ds, i, acc.mem, q.mem, "EP", acc.last_iface, PlaceOf(ds, j))
      <4> DEFINE x == PlaceOf(ds, j)
      <4>1. x \in DOMAIN acc.mem
        BY <1>5, <3>1, <3>4
      <4>2. tt # "CONFIG" /\ x = up => tt = "EP"
        BY <1>8, <2>10, <3>1, <3>4 DEF DTypes
      <4>3. IF tt = "EP" /\ x = acc.last_iface
              THEN /\ q.mem[x].num = acc.mem[x].num + 1
                   /\ q.mem[x].first = IF acc.mem[x].num = 0 THEN PlaceOf(ds, i) ELSE acc.mem[x].first
              ELSE q.mem[x].num = acc.mem[x].num /\ q.mem[x].first = acc.mem[x].first
        <5> HIDE DEF x
        <5>1. QED
          BY <2>1, <2>4, <3>3, <4>1, <4>2
      <4>4. QED
        BY <4>3 DEF ChildAt
    <3>5. QED
      BY <1>2, <1>3, <3>1, <3>2, <3>3, <3>4, SpanStep
  <2>13. QED
    BY <2>4, <2>5, <2>6, <2>7, <2>8, <2>11, <2>12 DEF TreeSoFar
<1>9. QED
  BY <1>7, <1>8

\* When the loop ends without an error, its tree is that of all descriptors.
LEMMA TreeWhole ==
  ASSUME NEW ds \in Descs, NEW p,
         IsParse(p, ds, Count(ds, "CONFIG"), Count(ds, "IFACE"), Len(ds)), p[Len(ds)].ok
  PROVE  TreeSoFar(ds, p[Len(ds)], Len(ds))
<1> DEFINE n == Len(ds)
           Step(acc, i) == ParseOne(ds, Count(ds, "CONFIG"), Count(ds, "IFACE"), acc, i)
<1>1. n \in Nat
  BY DEF Descs
<1>2. p = [i \in 0 .. n |-> IF i = 0 THEN ParseStart ELSE Step(p[i - 1], i)]
  BY DEF IsParse
<1> HIDE DEF Step
<1>3. p[0] = ParseStart /\ \A i \in 1 .. n : p[i] = Step(p[i - 1], i)
  <2>1. 0 \in 0 .. n /\ \A i \in 1 .. n : i \in 0 .. n /\ i # 0
    BY <1>1
  <2>2. QED
    BY <1>2, <2>1
<1>4. \A i \in 1 .. n : p[i].ok => p[i - 1].ok
  <2>1. SUFFICES ASSUME NEW i \in 1 .. n, ~p[i - 1].ok PROVE ~p[i].ok
    OBVIOUS
  <2>2. Step(p[i - 1], i) = p[i - 1]
    BY <2>1 DEF Step, ParseOne
  <2>3. QED
    BY <1>3, <2>1, <2>2
<1>5. \A i \in 0 .. n : p[i].ok
  <2> DEFINE Bad == {k \in 0 .. n : ~p[n - k].ok}
  <2>1. SUFFICES Bad = {}
    <3>1. ASSUME NEW i \in 0 .. n PROVE p[i].ok
      <4>1. n - i \in 0 .. n /\ n - (n - i) = i
        BY <1>1
      <4>2. QED
        BY <2>1, <4>1
    <3>2. QED
      BY <3>1
  <2>2. SUFFICES ASSUME Bad # {} PROVE FALSE
    OBVIOUS
  <2>3. Bad \in SUBSET Nat
    BY <1>1
  <2>4. PICK k \in Bad : \A m \in Bad : k <= m
    BY <2>2, <2>3, LeastNatural
  <2>5. k \in 0 .. n /\ ~p[n - k].ok
    OBVIOUS
  <2>6. k # 0
    BY <1>1, <2>5
  <2>7. k - 1 \in 0 .. n /\ k - 1 \notin Bad
    BY <1>1, <2>4, <2>5, <2>6
  <2>8. p[n - (k - 1)].ok
    BY <2>7
  <2>9. n - (k - 1) \in 1 .. n /\ (n - (k - 1)) - 1 = n - k
    BY <1>1, <2>5, <2>6
  <2>10. QED
    BY <1>4, <2>5, <2>8, <2>9
<1>6. TreeSoFar(ds, p[0], 0)
  <2>1. /\ ParseStart.ok /\ ParseStart.mem = <<>> /\ ParseStart.last_cfg = -1 /\ ParseStart.last_iface = -1
        /\ ParseStart.index = [CONFIG |-> 0, IFACE |-> 0, EP |-> 0]
    BY DEF ParseStart
  <2>2. DOMAIN <<>> = {} /\ <<>> = [x \in DOMAIN <<>> |-> <<>>[x]]
    OBVIOUS
  <2>3. <<>> \in Memories
    BY <2>2, MemoryFacts
  <2>4. [CONFIG |-> 0, IFACE |-> 0, EP |-> 0] \in [DTypes -> Nat]
    BY DEF DTypes
  <2>5. AccTyped(ParseStart)
    BY <2>1, <2>3, <2>4 DEF AccTyped, Acc, ParseStart
  <2>6. \A t \in DTypes : ParseStart.index[t] = Before(ds, t, 0)
    <3>1. \A t \in DTypes : Before(ds, t, 0) = 0
      BY BeforeFacts
    <3>2. QED
      BY <2>1, <3>1 DEF DTypes
  <2>7. 1 .. 0 = {}
    OBVIOUS
  <2>8. Found(ds, <<>>, 0)
    BY <2>2, <2>7 DEF Found
  <2>9. LastIs(ds, 0, "CONFIG", -1) /\ LastIs(ds, 0, "IFACE", -1)
    BY <2>7 DEF LastIs
  <2>10. Spans(ds, <<>>, 0, "CONFIG", "IFACE") /\ Spans(ds, <<>>, 0, "IFACE", "EP")
    BY <2>7 DEF Spans
  <2>11. QED
    BY <1>3, <2>1, <2>5, <2>6, <2>8, <2>9, <2>10 DEF TreeSoFar
<1>7. \A i \in 0 .. n : TreeSoFar(ds, p[i], i)
  <2> DEFINE Bad == {k \in 0 .. n : ~TreeSoFar(ds, p[k], k)}
  <2>1. SUFFICES ASSUME Bad # {} PROVE FALSE
    OBVIOUS
  <2>2. Bad \in SUBSET Nat
    BY <1>1
  <2>3. PICK k \in Bad : \A m \in Bad : k <= m
    BY <2>1, <2>2, LeastNatural
  <2>4. k \in 0 .. n /\ ~TreeSoFar(ds, p[k], k)
    OBVIOUS
  <2>5. k # 0
    BY <1>6, <2>4
  <2>6. k \in 1 .. n /\ k - 1 \in 0 .. n /\ k - 1 \notin Bad
    BY <1>1, <2>3, <2>4, <2>5
  <2>7. TreeSoFar(ds, p[k - 1], k - 1)
    BY <2>6
  <2>8. p[k].ok /\ p[k] = Step(p[k - 1], k)
    BY <1>3, <1>5, <2>4, <2>6
  <2>9. TreeSoFar(ds, p[k], k)
    BY <2>6, <2>7, <2>8, TreeStep DEF Step
  <2>10. QED
    BY <2>4, <2>9
<1>8. QED
  BY <1>1, <1>7

\* The structures of one type lie behind each other.
LEMMA PlaceNext ==
  ASSUME NEW ds \in Descs, NEW t \in DTypes, NEW r \in Nat, NEW n \in Nat
  PROVE  Place(ds, t, r) + n * sizeof[t] = Place(ds, t, r + n)
<1> DEFINE c == Count(ds, "CONFIG")
           f == Count(ds, "IFACE")
<1>1. c \in Nat /\ f \in Nat
  BY CountNat
<1>2. sizeof["CONFIG"] = 24 /\ sizeof["IFACE"] = 40 /\ sizeof["EP"] = 12
  BY DEF sizeof
<1>3. \A x \in Nat : /\ Place(ds, "CONFIG", x) = x * 24
                     /\ Place(ds, "IFACE", x) = c * 24 + x * 40
                     /\ Place(ds, "EP", x) = c * 24 + f * 40 + x * 12
  BY <1>2 DEF Place, usbc_get_desc_offset
<1> HIDE DEF c, f
<1>4. r + n \in Nat
  OBVIOUS
<1>5. CASE t = "CONFIG"
  <2>1. r * 24 + n * 24 = (r + n) * 24
    OBVIOUS
  <2>2. QED
    BY <1>2, <1>3, <1>4, <1>5, <2>1
<1>6. CASE t = "IFACE"
  <2>1. c * 24 + r * 40 + n * 40 = c * 24 + (r + n) * 40
    BY <1>1
  <2>2. QED
    BY <1>2, <1>3, <1>4, <1>6, <2>1
<1>7. CASE t = "EP"
  <2>1. c * 24 + f * 40 + r * 12 + n * 12 = c * 24 + f * 40 + (r + n) * 12
    BY <1>1
  <2>2. QED
    BY <1>2, <1>3, <1>4, <1>7, <2>1
<1>8. QED
  BY <1>5, <1>6, <1>7 DEF DTypes

\* The tree in dev is the one that the loop has built, apart from the drivers.
SameTree(dev, mem) ==
  /\ DOMAIN dev.mem = DOMAIN mem
  /\ \A x \in DOMAIN mem : /\ dev.mem[x].desc = mem[x].desc /\ dev.mem[x].num = mem[x].num
                           /\ dev.mem[x].first = mem[x].first

\* A walk from a node finds the descriptors that belong to it.
LEMMA WalkInOrder ==
  ASSUME NEW ds \in Descs, NEW mem \in Memories, NEW dev, SameTree(dev, mem),
         NEW up \in DTypes, NEW t \in DTypes, Found(ds, mem, Len(ds)), Spans(ds, mem, Len(ds), up, t),
         NEW j \in 1 .. Len(ds), ds[j].type = up, up # t
  PROVE  InOrder(Walk(dev, PlaceOf(ds, j), t), ChildrenOf(ds, up, j, t))
<1> DEFINE n == Len(ds)
           x == PlaceOf(ds, j)
           b == Before(ds, t, j)
           w == Walk(dev, x, t)
           C == ChildrenOf(ds, up, j, t)
<1>1. n \in Nat /\ j \in Nat /\ j <= n /\ 1 <= j /\ \A i \in Nat : Before(ds, t, i) \in Nat
  <2>1. n \in Nat
    BY DEF Descs
  <2>2. \A i \in Nat : Before(ds, t, i) \in Nat
    BY BeforeFacts
  <2>3. QED
    BY <2>1, <2>2
<1>2. PICK e \in j .. n : SpanOf(ds, mem, n, up, t, j, e)
  BY DEF Spans
<1>3. /\ \A m \in j + 1 .. e : ds[m].type # up
      /\ e = n \/ ds[e + 1].type = up
      /\ mem[x].num = Before(ds, t, e) - b
      /\ mem[x].num # 0 => mem[x].first = Place(ds, t, b)
  BY <1>2 DEF SpanOf
<1>4. e \in Nat /\ j <= e /\ e <= n
  BY <1>1
<1>5. x \in DOMAIN mem
  <2>1. j \in {k \in 1 .. n : ds[k].type \in DTypes}
    OBVIOUS
  <2>2. QED
    BY <2>1 DEF Found
<1>6. dev.mem[x].num = mem[x].num /\ dev.mem[x].first = mem[x].first /\ mem[x].num \in Nat
  <2>1. mem[x] \in Node
    BY <1>5, MemoryFacts
  <2>2. QED
    BY <1>5, <2>1 DEF SameTree, Node
<1> DEFINE N == mem[x].num
<1>7. w = [k \in 1 .. N |-> dev.mem[dev.mem[x].first + (k - 1) * sizeof[t]].desc]
  BY <1>6 DEF Walk
<1>8. b \in Nat /\ Before(ds, t, e) \in Nat
  BY <1>1, <1>4
<1> HIDE DEF w, C
\* An element of the walk is the descriptor of its rank.
<1>9. ASSUME NEW k \in 1 .. N
      PROVE  w[k] \in 1 .. e /\ ds[w[k]].type = t /\ Before(ds, t, w[k] - 1) = b + k - 1
  <2>1. b + k - 1 \in Nat /\ b + k - 1 < Before(ds, t, e) /\ N # 0 /\ k - 1 \in Nat
    BY <1>3, <1>6, <1>8
  <2>2. PICK m \in 1 .. e : ds[m].type = t /\ Before(ds, t, m - 1) = b + k - 1
    <3> DEFINE r == b + k - 1
    <3>1. r \in Nat /\ r < Before(ds, t, e)
      BY <2>1
    <3> HIDE DEF r
    <3>2. \E m \in 1 .. e : ds[m].type = t /\ Before(ds, t, m - 1) = r
      BY <1>4, <3>1, RankFound
    <3>3. QED
      BY <3>2 DEF r
  <2>3. m \in 1 .. n
    BY <1>4
  <2>4. dev.mem[x].first + (k - 1) * sizeof[t] = PlaceOf(ds, m)
    <3>1. dev.mem[x].first = Place(ds, t, b)
      BY <1>3, <1>6, <2>1
    <3>2. Place(ds, t, b) + (k - 1) * sizeof[t] = Place(ds, t, b + (k - 1))
      BY <1>8, <2>1, PlaceNext
    <3>3. b + (k - 1) = b + k - 1
      BY <1>8
    <3>4. PlaceOf(ds, m) = Place(ds, t, b + k - 1)
      BY <2>2 DEF PlaceOf
    <3>5. QED
      BY <3>1, <3>2, <3>3, <3>4
  <2>5. PlaceOf(ds, m) \in DOMAIN mem
    <3>1. m \in {i \in 1 .. n : ds[i].type \in DTypes}
      BY <2>2, <2>3
    <3>2. QED
      BY <3>1 DEF Found
  <2>6. dev.mem[PlaceOf(ds, m)].desc = m
    BY <2>2, <2>3, <2>5 DEF Found, SameTree
  <2>7. w[k] = m
    BY <1>7, <2>4, <2>6
  <2>8. QED
    BY <2>2, <2>7
<1>10. ASSUME NEW k \in 1 .. N PROVE w[k] \in C
  <2>1. w[k] \in Nat /\ w[k] <= e /\ 1 <= w[k] /\ ds[w[k]].type = t
        /\ Before(ds, t, w[k] - 1) = b + k - 1
    BY <1>4, <1>9
  <2>2. ~(w[k] <= j)
    <3>1. SUFFICES ASSUME w[k] <= j PROVE FALSE
      OBVIOUS
    <3>2. Before(ds, t, w[k]) = Before(ds, t, w[k] - 1) + 1
      BY <2>1, BeforeStep
    <3>3. Before(ds, t, w[k]) <= b
      BY <1>1, <2>1, <3>1, BeforeFacts
    <3>4. QED
      BY <1>6, <1>8, <2>1, <3>2, <3>3
  <2>3. w[k] \in j + 1 .. n
    <3>1. n \in Nat /\ j \in Nat
      BY <1>1
    <3>2. QED
      BY <1>4, <2>1, <2>2, <3>1
  <2>4. \A m \in j + 1 .. w[k] : ds[m].type # up
    <3>1. n \in Nat /\ j \in Nat
      BY <1>1
    <3>2. \A m \in j + 1 .. w[k] : m \in j + 1 .. e
      BY <1>4, <2>1, <3>1
    <3>3. QED
      BY <1>3, <3>2
  <2>5. QED
    BY <2>1, <2>3, <2>4 DEF ChildrenOf, C
<1>11. ASSUME NEW a \in 1 .. N, NEW d \in 1 .. N, a < d PROVE w[a] < w[d]
  <2>1. /\ w[a] - 1 \in Nat /\ w[d] - 1 \in Nat /\ w[a] \in Nat /\ w[d] \in Nat
        /\ Before(ds, t, w[a] - 1) = b + a - 1 /\ Before(ds, t, w[d] - 1) = b + d - 1
    BY <1>4, <1>9
  <2>2. w[d] - 1 <= w[a] - 1 => Before(ds, t, w[d] - 1) <= Before(ds, t, w[a] - 1)
    BY <2>1, BeforeFacts
  <2>3. a \in Nat /\ d \in Nat
    BY <1>6
  <2>4. ~(Before(ds, t, w[d] - 1) <= Before(ds, t, w[a] - 1))
    BY <1>8, <1>11, <2>1, <2>3
  <2>5. QED
    BY <2>1, <2>2, <2>4
<1>12. ASSUME NEW i \in C PROVE \E k \in 1 .. N : w[k] = i
  <2>1. i \in j + 1 .. n /\ ds[i].type = t /\ \A m \in j + 1 .. i : ds[m].type # up
    BY DEF C, ChildrenOf
  <2>2. i \in Nat /\ i # 0 /\ j + 1 <= i /\ i <= n /\ i - 1 \in Nat
    BY <1>1, <2>1
  <2>3. i <= e
    BY <1>3, <1>4, <2>1, <2>2
  <2> DEFINE r == Before(ds, t, i - 1)
             k == r - b + 1
  <2>4. /\ r \in Nat /\ Before(ds, t, i) = r + 1 /\ b <= r /\ Before(ds, t, i) <= Before(ds, t, e)
    <3>1. r \in Nat /\ Before(ds, t, i) = r + 1
      BY <2>1, <2>2, BeforeStep
    <3>2. j <= i - 1
      BY <1>1, <2>2
    <3>3. b <= r
      BY <1>1, <2>2, <3>2, BeforeFacts
    <3>4. Before(ds, t, i) <= Before(ds, t, e)
      BY <1>4, <2>2, <2>3, BeforeFacts
    <3>5. QED
      BY <3>1, <3>3, <3>4
  <2>5. k \in 1 .. N /\ b + k - 1 = r
    <3> HIDE DEF r
    <3>1. QED
      BY <1>3, <1>8, <2>4
  <2>6. w[k] \in 1 .. e /\ ds[w[k]].type = t /\ Before(ds, t, w[k] - 1) = r
    BY <1>9, <2>5
  <2>7. w[k] \in 1 .. n /\ i \in 1 .. n
    BY <1>4, <2>2, <2>6
  <2>8. PlaceOf(ds, i) = PlaceOf(ds, w[k])
    BY <2>1, <2>6 DEF PlaceOf
  <2>9. i = w[k]
    BY <2>1, <2>6, <2>7, <2>8, PlaceOfFacts
  <2>10. QED
    BY <2>5, <2>9
<1>13. DOMAIN w = 1 .. N /\ Range(w) = {w[k] : k \in 1 .. N}
  BY <1>7 DEF Range
<1>14. Range(w) = C
  BY <1>10, <1>12, <1>13
<1>15. QED
  BY <1>11, <1>13, <1>14 DEF InOrder, w, C

\* The configurations lie behind each other from the start of the buffer.
LEMMA ConfigsInOrder ==
  ASSUME NEW ds \in Descs, NEW mem \in Memories, NEW dev, SameTree(dev, mem),
         Found(ds, mem, Len(ds))
  PROVE  InOrder(ConfigWalk(dev, Count(ds, "CONFIG")), {i \in DOMAIN ds : ds[i].type = "CONFIG"})
<1> DEFINE n == Len(ds)
           N == Count(ds, "CONFIG")
           w == ConfigWalk(dev, N)
           C == {i \in DOMAIN ds : ds[i].type = "CONFIG"}
           B(i) == Before(ds, "CONFIG", i)
<1>1. /\ n \in Nat /\ N \in Nat /\ N = B(n) /\ DOMAIN ds = 1 .. n
      /\ (\A i \in Nat : B(i) \in Nat) /\ "CONFIG" \in DTypes
  <2>1. n \in Nat /\ DOMAIN ds = 1 .. n /\ "CONFIG" \in DTypes
    BY DEF Descs, DTypes
  <2>2. N \in Nat
    BY CountNat
  <2>3. N = B(n) /\ \A i \in Nat : B(i) \in Nat
    BY BeforeFacts
  <2>4. QED
    BY <2>1, <2>2, <2>3
<1>2. w = [k \in 1 .. N |-> dev.mem[(k - 1) * 24].desc]
  BY DEF ConfigWalk, sizeof
<1> HIDE DEF w, N
\* An element of the walk is the configuration of its rank.
<1>3. ASSUME NEW k \in 1 .. N
      PROVE  w[k] \in C /\ w[k] \in Nat /\ w[k] - 1 \in Nat /\ B(w[k] - 1) = k - 1
  <2>1. k - 1 \in Nat /\ k - 1 < B(n)
    BY <1>1
  <2> DEFINE r == k - 1
  <2> HIDE DEF r
  <2>2. PICK m \in 1 .. n : ds[m].type = "CONFIG" /\ B(m - 1) = r
    BY <1>1, <2>1, RankFound DEF r
  <2>3. PlaceOf(ds, m) = (k - 1) * 24
    BY <2>2 DEF PlaceOf, Place, usbc_get_desc_offset, sizeof, r
  <2>4. PlaceOf(ds, m) \in DOMAIN mem
    <3>1. m \in {i \in 1 .. n : ds[i].type \in DTypes}
      BY <1>1, <2>2
    <3>2. QED
      BY <3>1 DEF Found
  <2>5. dev.mem[PlaceOf(ds, m)].desc = m
    BY <1>1, <2>2, <2>4 DEF Found, SameTree
  <2>6. w[k] = m
    BY <1>2, <2>3, <2>5
  <2>7. QED
    BY <1>1, <2>2, <2>6 DEF r
<1>4. ASSUME NEW a \in 1 .. N, NEW b \in 1 .. N, a < b PROVE w[a] < w[b]
  <2>1. /\ w[a] - 1 \in Nat /\ w[b] - 1 \in Nat /\ w[a] \in Nat /\ w[b] \in Nat
        /\ B(w[a] - 1) = a - 1 /\ B(w[b] - 1) = b - 1
    BY <1>3
  <2>2. w[b] - 1 <= w[a] - 1 => B(w[b] - 1) <= B(w[a] - 1)
    BY <2>1, BeforeFacts
  <2>3. a \in Nat /\ b \in Nat
    BY <1>1
  <2>4. QED
    BY <1>4, <2>1, <2>2, <2>3
<1>5. ASSUME NEW i \in C PROVE \E k \in 1 .. N : w[k] = i
  <2>1. i \in Nat /\ i # 0 /\ i <= n /\ i - 1 \in Nat /\ ds[i].type = "CONFIG" /\ i \in 1 .. n
    <3>1. i \in 1 .. n /\ ds[i].type = "CONFIG"
      BY <1>1
    <3>2. i \in Nat /\ i # 0 /\ i <= n /\ i - 1 \in Nat
      <4> HIDE DEF n, C
      <4>1. QED
        BY <1>1, <3>1
    <3>3. QED
      BY <3>1, <3>2
  <2> DEFINE b == B(i - 1)
  <2>2. b \in Nat /\ b + 1 <= N
    <3>1. B(i - 1) \in Nat /\ B(i) = B(i - 1) + 1
      BY <2>1, BeforeStep
    <3>2. B(i) <= B(n)
      BY <1>1, <2>1, BeforeFacts
    <3>3. QED
      BY <1>1, <3>1, <3>2
  <2> HIDE DEF b
  <2> DEFINE k == b + 1
  <2>3. k \in 1 .. N /\ k - 1 = b
    BY <1>1, <2>2
  <2>4. w[k] \in C /\ B(w[k] - 1) = B(i - 1)
    BY <1>3, <2>3 DEF b
  <2>5. w[k] \in 1 .. n /\ ds[w[k]].type = "CONFIG"
    BY <1>1, <2>4
  <2>6. PlaceOf(ds, i) = PlaceOf(ds, w[k])
    BY <2>1, <2>4, <2>5 DEF PlaceOf
  <2>7. i = w[k]
    BY <1>1, <2>1, <2>5, <2>6, PlaceOfFacts
  <2>8. QED
    BY <2>3, <2>7
<1>6. DOMAIN w = 1 .. N /\ Range(w) = {w[k] : k \in 1 .. N}
  BY <1>2 DEF Range
<1>7. Range(w) = C
  BY <1>3, <1>5, <1>6
<1>8. QED
  BY <1>4, <1>6, <1>7 DEF InOrder, w, N

-----------------------------------------------------------------------------
\* The driver of an interface.
LEMMA DriverFound ==
  ASSUME NEW class \in Nat
  PROVE  usbc_find_driver([iface_class |-> class]) = IF class = 3 THEN "HID" ELSE "NULL"
<1> DEFINE fields == [iface_class |-> class]
           id == [flags |-> {"iface_class"}, iface_class |-> 3]
<1>1. usb_hid.dev_ids = <<id>> /\ usb_hid.name = "HID"
  BY DEF usb_hid
<1>2. usbc_check_dev_match(id, fields)
  BY DEF usbc_check_dev_match, DevFields
<1>3. usbc_check_iface_match(id, fields) <=> class = 3
  <2>1. id.flags \cap IfaceFields = {"iface_class"}
    BY DEF IfaceFields
  <2>2. id["iface_class"] = 3 /\ fields["iface_class"] = class
    OBVIOUS
  <2> HIDE DEF id, fields
  <2>3. QED
    BY <2>1, <2>2 DEF usbc_check_iface_match
<1> HIDE DEF fields, id
<1>4. usbc_check_driver_match(usb_hid, fields) <=> class = 3
  <2>1. DOMAIN usb_hid.dev_ids = {1} /\ usb_hid.dev_ids[1] = id
    BY <1>1
  <2>2. QED
    BY <1>2, <1>3, <2>1 DEF usbc_check_driver_match
<1>5. DOMAIN driver_list = {1} /\ driver_list[1] = usb_hid
  BY DEF driver_list
<1> DEFINE ok == {i \in DOMAIN driver_list : usbc_check_driver_match(driver_list[i], fields)}
<1>6. ok = IF class = 3 THEN {1} ELSE {}
  BY <1>4, <1>5
<1>7. usbc_find_driver(fields) = IF ok = {} THEN "NULL" ELSE driver_list[Min(ok)].name
  BY DEF usbc_find_driver
<1> HIDE DEF ok
<1>8. class = 3 => Min(ok) = 1
  <2>1. class = 3 => ok \in SUBSET Nat /\ ok # {} /\ ok = {1}
    BY <1>6
  <2>2. QED
    BY <2>1, MinFacts
<1>9. QED
  BY <1>1, <1>5, <1>6, <1>7, <1>8 DEF fields

\* What is stored of a device whose descriptors are accepted.
LEMMA ParsedRight ==
  ASSUME NEW k \in Devices, Parsed[k].ok
  PROVE  /\ k.descs \in Descs /\ Parsed[k].mem \in Memories /\ Parsed[k].iface_list \in Seq(Nat)
         /\ Parsed[k].configs \in Nat /\ Parsed[k].configs = Count(k.descs, "CONFIG")
         /\ Parsed[k].size \in Nat
         /\ Parsed[k].iface_list = usbc_init_descriptors(Count(k.descs, "CONFIG"), Count(k.descs, "IFACE"))
         /\ \E acc : TreeSoFar(k.descs, acc, Len(k.descs)) /\ acc.mem = Parsed[k].mem
<1> DEFINE ds == k.descs
           r == usbc_parse_descriptors(ds, k.total)
           c == Count(ds, "CONFIG")
           f == Count(ds, "IFACE")
<1>1. ds \in Descs /\ Len(ds) \in Nat
  BY DeviceAssumption DEF Descs
<1>2. Parsed[k] = r
  BY DEF Parsed
<1> HIDE DEF r
<1>3. PICK p : /\ IsParse(p, ds, c, f, Len(ds))
               /\ r.ok => p[Len(ds)].ok
               /\ r.mem = p[Len(ds)].mem
               /\ r.iface_list = usbc_init_descriptors(c, f) /\ r.configs = c
  BY <1>1, ParseResult DEF r
<1>4. TreeSoFar(ds, p[Len(ds)], Len(ds))
  BY <1>1, <1>2, <1>3, TreeWhole
<1>5. p[Len(ds)].mem \in Memories
  BY <1>4 DEF TreeSoFar, AccTyped, Acc
<1>6. usbc_init_descriptors(c, f) \in Seq(Nat)
  <2>1. c \in Nat /\ f \in Nat
    BY <1>1, CountNat
  <2>2. \A i \in 1 .. f : usbc_get_desc_offset(c, f, "IFACE", f - i) \in Nat
    <3>1. "IFACE" \in DTypes /\ \A i \in 1 .. f : f - i \in Nat
      BY <2>1 DEF DTypes
    <3>2. QED
      BY <2>1, <3>1, OffsetNat
  <2>3. usbc_init_descriptors(c, f) \in [1 .. f -> Nat]
    BY <2>2 DEF usbc_init_descriptors
  <2> HIDE DEF f
  <2>4. QED
    BY <2>1, <2>3
<1>7. r.configs \in Nat /\ r.size \in Nat
  <2>1. c \in Nat /\ f \in Nat /\ Count(ds, "EP") \in Nat
    BY <1>1, CountNat
  <2>2. r.size = usbc_alloc_descriptors(c, f, Count(ds, "EP"))
    BY DEF r, usbc_parse_descriptors
  <2>3. QED
    BY <1>3, <2>1, <2>2 DEF usbc_alloc_descriptors, sizeof
<1>8. QED
  BY <1>1, <1>2, <1>3, <1>4, <1>5, <1>6, <1>7

\* When drivers have been assigned, the tree is the one of the device.
LEMMA AssignedRight ==
  ASSUME NEW k \in Devices, Parsed[k].ok, NEW dev \in Dev, dev.source = k,
         dev.mem = Parsed[k].mem, dev.iface_list = Parsed[k].iface_list,
         dev.num_configs = dev.leftover + Parsed[k].configs, NEW d, d = usbc_assign_driver(dev)
  PROVE  /\ d \in Dev /\ d.source = k /\ d.product = dev.product
         /\ d.manufacturer = dev.manufacturer /\ TreeRight(d)
<1> DEFINE ds == k.descs
           mem == Parsed[k].mem
           list == Parsed[k].iface_list
           driver(x) == usbc_find_driver([iface_class |-> ds[mem[x].desc].class])
           mem2 == [x \in DOMAIN mem |-> IF x \in Range(list) THEN [mem[x] EXCEPT !.driver = driver(x)]
                                         ELSE mem[x]]
<1>1. /\ ds \in Descs /\ mem \in Memories /\ Len(ds) \in Nat
      /\ list = usbc_init_descriptors(Count(ds, "CONFIG"), Count(ds, "IFACE"))
  BY ParsedRight DEF Descs
<1>2. PICK acc : TreeSoFar(ds, acc, Len(ds)) /\ acc.mem = mem
  BY ParsedRight
<1>3. /\ Found(ds, mem, Len(ds))
      /\ Spans(ds, mem, Len(ds), "CONFIG", "IFACE") /\ Spans(ds, mem, Len(ds), "IFACE", "EP")
  BY <1>2 DEF TreeSoFar
<1>4. d = [dev EXCEPT !.mem = mem2]
  BY DEF usbc_assign_driver, usb_hid_connect
<1> HIDE DEF mem2, list, mem
<1>5. /\ d.mem = mem2 /\ d.source = k /\ d.product = dev.product /\ d.manufacturer = dev.manufacturer
      /\ d.num_configs - d.leftover = Count(ds, "CONFIG")
  <2>1. /\ d.mem = mem2 /\ d.source = k /\ d.product = dev.product /\ d.manufacturer = dev.manufacturer
        /\ d.num_configs = dev.num_configs /\ d.leftover = dev.leftover /\ dev.leftover \in Nat
    BY <1>4 DEF Dev
  <2>2. Parsed[k].configs = Count(ds, "CONFIG") /\ Parsed[k].configs \in Nat
    BY ParsedRight
  <2>3. QED
    BY <2>1, <2>2
<1>6. /\ DOMAIN mem \subseteq Nat
      /\ \A x \in DOMAIN mem : mem[x] \in Node
  BY <1>1, MemoryFacts
<1>7. ASSUME NEW x \in DOMAIN mem
      PROVE  \E j \in 1 .. Len(ds) : /\ ds[j].type \in DTypes /\ x = PlaceOf(ds, j)
                                     /\ mem[x].desc = j /\ ds[j].class \in Nat
  <2>1. PICK j \in {i \in 1 .. Len(ds) : ds[i].type \in DTypes} : x = PlaceOf(ds, j)
    BY <1>3 DEF Found
  <2>2. mem[x].desc = j
    BY <1>3, <2>1 DEF Found
  <2>3. ds[j].class \in Nat
    <3>1. ds[j] \in [type : STRING, bLength : Nat, class : Nat]
      BY <1>1, <2>1, ElementOfSeq DEF Descs
    <3> HIDE DEF ds
    <3>2. QED
      BY <3>1
  <2>4. QED
    BY <2>1, <2>2, <2>3
<1>8. ASSUME NEW x \in DOMAIN mem
      PROVE  driver(x) = IF ds[mem[x].desc].class = 3 THEN "HID" ELSE "NULL"
  BY <1>7, DriverFound
<1> HIDE DEF driver
<1>9. ASSUME NEW x \in DOMAIN mem
      PROVE  /\ mem2[x] \in Node /\ mem2[x].desc = mem[x].desc /\ mem2[x].num = mem[x].num
             /\ mem2[x].first = mem[x].first
             /\ x \in Range(list) => mem2[x].driver = driver(x)
  <2>1. mem[x] \in Node /\ driver(x) \in {"NULL", "HID"}
    BY <1>6, <1>8
  <2>2. mem2[x] = IF x \in Range(list) THEN [mem[x] EXCEPT !.driver = driver(x)] ELSE mem[x]
    BY DEF mem2
  <2>3. QED
    BY <2>1, <2>2 DEF Node
<1>10. DOMAIN mem2 = DOMAIN mem /\ mem2 = [x \in DOMAIN mem2 |-> mem2[x]]
  BY DEF mem2
<1>11. mem2 \in Memories
  BY <1>6, <1>9, <1>10, MemoryFacts
<1>12. d \in Dev
  BY <1>4, <1>11 DEF Dev
<1>13. SameTree(d, mem)
  BY <1>5, <1>9, <1>10 DEF SameTree
<1>14. ASSUME NEW x \in DOMAIN mem, ds[mem[x].desc].type = "IFACE"
       PROVE  x \in Range(list)
  <2> DEFINE c == Count(ds, "CONFIG")
             f == Count(ds, "IFACE")
  <2>1. PICK j \in 1 .. Len(ds) : ds[j].type = "IFACE" /\ x = PlaceOf(ds, j) /\ ds[j].type \in DTypes
    BY <1>7, <1>14
  <2> DEFINE r == Before(ds, "IFACE", j - 1)
  <2>2. r \in Nat /\ r < f /\ f \in Nat
    BY <1>1, <2>1, PlaceOfFacts, CountNat
  <2>3. x = usbc_get_desc_offset(c, f, "IFACE", r)
    BY <2>1 DEF PlaceOf, Place
  <2>4. list = [i \in 1 .. f |-> usbc_get_desc_offset(c, f, "IFACE", f - i)]
    BY <1>1 DEF usbc_init_descriptors
  <2> HIDE DEF r, f
  <2>5. f - r \in 1 .. f /\ f - (f - r) = r
    BY <2>2
  <2>6. list[f - r] = x /\ f - r \in DOMAIN list
    BY <2>3, <2>4, <2>5
  <2>7. QED
    BY <2>6 DEF Range
<1>15. ASSUME NEW x \in DOMAIN d.mem
       PROVE  LET i == d.mem[x].desc
              IN /\ ds[i].type = "CONFIG" =>
                      InOrder(Walk(d, x, "IFACE"), ChildrenOf(ds, "CONFIG", i, "IFACE"))
                 /\ ds[i].type = "IFACE" =>
                      /\ InOrder(Walk(d, x, "EP"), ChildrenOf(ds, "IFACE", i, "EP"))
                      /\ (d.mem[x].driver = "HID") <=> (ds[i].class = 3)
  <2>1. x \in DOMAIN mem /\ d.mem[x].desc = mem[x].desc
    BY <1>5, <1>9, <1>10
  <2>2. PICK j \in 1 .. Len(ds) : x = PlaceOf(ds, j) /\ mem[x].desc = j
    BY <1>7, <2>1
  <2>3. "CONFIG" \in DTypes /\ "IFACE" \in DTypes /\ "EP" \in DTypes
    BY DEF DTypes
  <2>4. ds[j].type = "CONFIG" => InOrder(Walk(d, x, "IFACE"), ChildrenOf(ds, "CONFIG", j, "IFACE"))
    BY <1>1, <1>3, <1>13, <2>2, <2>3, WalkInOrder
  <2>5. ds[j].type = "IFACE" => InOrder(Walk(d, x, "EP"), ChildrenOf(ds, "IFACE", j, "EP"))
    BY <1>1, <1>3, <1>13, <2>2, <2>3, WalkInOrder
  <2>6. ds[j].type = "IFACE" => ((d.mem[x].driver = "HID") <=> (ds[j].class = 3))
    BY <1>5, <1>8, <1>9, <1>14, <2>1, <2>2
  <2>7. QED
    BY <2>1, <2>2, <2>4, <2>5, <2>6
<1>16. ConfigsRight(d)
  BY <1>1, <1>3, <1>5, <1>13, ConfigsInOrder DEF ConfigsRight
<1>17. TreeRight(d)
  BY <1>5, <1>15, <1>16 DEF TreeRight
<1>18. QED
  BY <1>5, <1>12, <1>17

-----------------------------------------------------------------------------
(***************************************************************************)
(* What the functions of the pipe do                                       *)
(***************************************************************************)
LEMMA MinTwo == ASSUME NEW a \in Nat, NEW b \in Nat
                PROVE  Min({a, b}) = IF a <= b THEN a ELSE b
<1>1. {a, b} \in SUBSET Nat /\ {a, b} # {}
  OBVIOUS
<1>2. Min({a, b}) \in {a, b} /\ \A n \in {a, b} : Min({a, b}) <= n
  BY <1>1, MinFacts
<1>3. QED
  BY <1>2

\* Submitting a request to an empty queue starts it.
LEMMA SubmitFacts ==
  ASSUME NEW q \in Pipe, q.queue = <<>>, q.fifo = 0, NEW req \in Request,
         NEW r, r = usbhc_submit_urb(q, req)
  PROVE  /\ StartNextUrb(r) = r
         /\ r \in Pipe /\ r.state = "CTRL_OUT" /\ r.queue = <<usbhc_fill_control_urb(req)>>
         /\ r.ep_size = q.ep_size /\ r.addr = q.addr /\ r.token = "SETUP"
         /\ r.ints = q.ints \cup {"TXSETUP"} /\ r.status = q.status \ {"TXSETUP"}
         /\ r.fifo = 0 /\ r.source = q.source
<1> DEFINE u == usbhc_fill_control_urb(req)
           a == [q EXCEPT !.queue = <<u>>]
           b == [a EXCEPT !.state = "CTRL_OUT", !.queue[1].actual = 0]
           d == [b EXCEPT !.token = "SETUP", !.status = @ \ {"TXSETUP"}, !.ints = @ \cup {"TXSETUP"}]
<1>1. u \in Urb /\ u = [setup |-> req, length |-> req.wLength, actual |-> 0]
  BY DEF usbhc_fill_control_urb, Urb, Request
<1> HIDE DEF u
<1>2. Append(q.queue, u) = <<u>> /\ <<u>> \in Seq(Urb)
  BY <1>1
<1>3. a \in Pipe /\ a.queue = <<u>> /\ a.fifo = 0
  BY <1>2 DEF Pipe
<1>4. [<<u>> EXCEPT ![1].actual = 0] = <<u>>
  <2>1. [u EXCEPT !.actual = 0] = u
    BY <1>1
  <2>2. <<u>>[1] = u /\ DOMAIN <<u>> = {1}
    OBVIOUS
  <2>3. QED
    BY <2>1, <2>2
<1>5. b = [a EXCEPT !.state = "CTRL_OUT", !.queue = <<u>>]
  BY <1>3, <1>4
<1>6. /\ b \in Pipe /\ b.state = "CTRL_OUT" /\ b.queue = <<u>> /\ b.ep_size = q.ep_size
      /\ b.addr = q.addr /\ b.ints = q.ints /\ b.status = q.status /\ b.fifo = 0 /\ b.source = q.source
  <2> HIDE DEF b
  <2>1. QED
    BY <1>2, <1>5 DEF Pipe, PipeStates
<1>7. usbhc_submit_urb(q, req) = d
  <2>1. usbhc_submit_urb(q, req) = usbhc_start_urb(a)
    BY <1>2 DEF usbhc_submit_urb, u
  <2>2. usbhc_start_urb(a) = d
    BY <1>6 DEF usbhc_start_urb, usbhc_setup_out
  <2>3. QED
    BY <2>1, <2>2
<1> HIDE DEF b
<1>8. /\ d \in Pipe /\ d.state = "CTRL_OUT" /\ d.queue = <<u>> /\ d.ep_size = q.ep_size
      /\ d.addr = q.addr /\ d.token = "SETUP" /\ d.ints = q.ints \cup {"TXSETUP"}
      /\ d.status = q.status \ {"TXSETUP"} /\ d.fifo = 0 /\ d.source = q.source
  BY <1>6 DEF Pipe, Tokens, PipeFlags
<1>9. r = d /\ StartNextUrb(d) = d
  BY <1>7, <1>8 DEF StartNextUrb
<1>10. QED
  BY <1>8, <1>9 DEF u

\* The pipe after usbc_start_enum has claimed and configured it.
LEMMA ConfigureFacts ==
  ASSUME NEW p \in Pipe, NEW q, q = usbhc_pipe_configure([p EXCEPT !.state = "CLAIMED"], 64, 0)
  PROVE  /\ q \in Pipe /\ q.queue = p.queue /\ q.ep_size = 64 /\ q.addr = 0 /\ q.token = "none"
         /\ q.ints = {"PERROR", "STALL", "NAKED"} /\ q.status = {} /\ q.fifo = 0
         /\ q.source = p.source
<1>1. usbhc_size_to_pipe_size(64) # -1
  <2> DEFINE S == {i \in 1 .. 8 : 64 <= PipeSizes[i]}
  <2>1. PipeSizes[8] = 1024
    BY DEF PipeSizes
  <2>2. 8 \in S /\ S \in SUBSET Nat
    BY <2>1
  <2>3. Min(S) \in 1 .. 8
    BY <2>2, MinFacts
  <2>4. usbhc_size_to_pipe_size(64) = Min(S) - 1
    BY DEF usbhc_size_to_pipe_size
  <2> HIDE DEF S
  <2>5. QED
    BY <2>3, <2>4
<1> DEFINE a == [p EXCEPT !.state = "CLAIMED"]
           b == [a EXCEPT !.state = "IDLE", !.token = "none", !.status = {}, !.fifo = 0,
                          !.ints = {"PERROR", "STALL", "NAKED"}]
           d == [b EXCEPT !.addr = 0]
           e == [d EXCEPT !.ep_size = 64]
<1>2. a \in Pipe /\ a.state = "CLAIMED" /\ a.queue = p.queue /\ a.source = p.source
  BY DEF Pipe, PipeStates
<1>3. q = e
  BY <1>1, <1>2 DEF usbhc_pipe_configure, usbhc_set_ep_size, usbhc_set_address, usbhc_alloc_pipe
<1> HIDE DEF a
<1>4. /\ b \in Pipe /\ b.queue = p.queue /\ b.token = "none" /\ b.status = {} /\ b.fifo = 0
      /\ b.ints = {"PERROR", "STALL", "NAKED"} /\ b.source = p.source
  BY <1>2 DEF Pipe, PipeStates, Tokens, PipeFlags
<1> HIDE DEF b
<1>5. /\ d \in Pipe /\ d.queue = p.queue /\ d.token = "none" /\ d.status = {} /\ d.fifo = 0
      /\ d.ints = {"PERROR", "STALL", "NAKED"} /\ d.source = p.source /\ d.addr = 0
  BY <1>4 DEF Pipe
<1> HIDE DEF d
<1>6. /\ e \in Pipe /\ e.queue = p.queue /\ e.token = "none" /\ e.status = {} /\ e.fifo = 0
      /\ e.ints = {"PERROR", "STALL", "NAKED"} /\ e.source = p.source /\ e.addr = 0 /\ e.ep_size = 64
  BY <1>5 DEF Pipe
<1> HIDE DEF e
<1>7. QED
  BY <1>3, <1>6

-----------------------------------------------------------------------------
(***************************************************************************)
(* A request that is under way                                             *)
(***************************************************************************)
LEMMA UrbFacts ==
  ASSUME Types, Transferring
  PROVE  /\ pipe.queue # <<>> /\ pipe.queue = <<urb>> /\ Head(pipe.queue) = urb /\ urb \in Urb
         /\ core.dev_list # <<>> /\ enum_dev = core.dev_list[1] /\ enum_dev \in Dev
         /\ Len(core.dev_list) \in Nat /\ 1 \in DOMAIN core.dev_list
<1>1. pipe.queue \in Seq(Urb) /\ core.dev_list \in Seq(Dev)
  BY DEF Types, Pipe, Core
<1>2. Len(pipe.queue) = 1 /\ core.dev_list # <<>>
  BY DEF Transferring
<1>3. 1 \in DOMAIN pipe.queue /\ pipe.queue[1] \in Urb /\ pipe.queue = <<pipe.queue[1]>>
  BY <1>1, <1>2
<1>4. Head(pipe.queue) = pipe.queue[1] /\ pipe.queue # <<>>
  <2>1. \A x : Head(<<x>>) = x /\ <<x>> # <<>>
    OBVIOUS
  <2>2. QED
    BY <1>3, <2>1
<1>5. /\ Len(core.dev_list) \in Nat /\ 1 \in DOMAIN core.dev_list
      /\ Head(core.dev_list) = core.dev_list[1] /\ core.dev_list[1] \in Dev
  BY <1>1, <1>2
<1>6. QED
  BY <1>2, <1>3, <1>4, <1>5 DEF urb, enum_dev

\* A token is out or an interrupt is pending.
LEMMA Moves ==
  ASSUME Transferring PROVE pipe.token # "none" \/ PipeInterrupt
<1>1. {"PERROR", "STALL", "NAKED"} \subseteq pipe.ints /\ (Failed \/ Stages)
  BY DEF Transferring
<1>2. CASE Failed
  BY <1>1, <1>2 DEF Failed, PipeInterrupt
<1>3. CASE Stages
  BY <1>3 DEF Stages, SetupOut, SetupSent, Asking, Received, StatusOut, StatusSent, PipeInterrupt
<1>4. QED
  BY <1>1, <1>2, <1>3

\* The device has an answer to the request: a length that it can have. k is the
\* device that the enumeration began with.
LEMMA ReplyFacts ==
  ASSUME Types, Transferring, Asked, Stored(enum_dev), NEW k \in Devices,
         core.enum_state # "EP0_SIZE" => k = kind
  PROVE  /\ ReplyOf(k, urb.setup) \in Nat /\ ReplyOf(k, urb.setup) <= urb.length
         /\ core.enum_state = "EP0_SIZE" =>
              urb.length = 8 /\ ReplyOf(k, urb.setup) = 8 /\ urb.setup.req = "DEVICE"
         /\ core.enum_state = "SET_ADDRESS" <=> urb.setup.req = "SET_ADDRESS"
         /\ urb.length = 0 => ReplyOf(k, urb.setup) = 0
<1>1. /\ urb \in Urb /\ urb.length = urb.setup.wLength /\ urb.setup \in Request /\ urb.length \in Nat
      /\ enum_dev \in Dev
  BY UrbFacts DEF Transferring, Urb
<1>2. core.enum_state \in DOMAIN NextState
  BY DEF Types, Core, EnumStates, Transferring
<1>3. /\ k.total \in Nat /\ {k.iProduct, k.iManufacturer} \subseteq DOMAIN k.strings
      /\ \A i \in DOMAIN k.strings : k.strings[i] \in Nat
  <2>1. \A n \in 0 .. 126 : 2 + 2 * n \in Nat
    OBVIOUS
  <2>2. QED
    BY <2>1, DeviceAssumption
<1> DEFINE S == urb.setup
           n == CASE S.req = "DEVICE" -> 18
                  [] S.req = "CONFIG" -> k.total
                  [] S.req = "STRING" -> k.strings[S.index]
                  [] S.req = "SET_ADDRESS" -> 0
<1>4. /\ core.enum_state \in {"EP0_SIZE", "DEV_DESC"} <=> S.req = "DEVICE"
      /\ core.enum_state = "EP0_SIZE" => S.wLength = 8
      /\ core.enum_state = "SET_ADDRESS" <=> S.req = "SET_ADDRESS"
      /\ core.enum_state \in {"DESC_LENGTH", "DESCRIPTORS"} <=> S.req = "CONFIG"
      /\ core.enum_state \in {"PRODUCT", "MANUFACTURER"} <=> S.req = "STRING"
      /\ core.enum_state = "PRODUCT" => S.index = enum_dev.source.iProduct
      /\ core.enum_state = "MANUFACTURER" => S.index = enum_dev.source.iManufacturer
  <2>1. /\ core.enum_state = "EP0_SIZE" => S = GetDesc("DEVICE", 0, 8)
        /\ core.enum_state = "DEV_DESC" => S = GetDesc("DEVICE", 0, 18)
        /\ core.enum_state = "SET_ADDRESS" => S = usbc_set_dev_addr(S.wValue)
        /\ core.enum_state = "DESC_LENGTH" => S = GetDesc("CONFIG", 0, 9)
        /\ core.enum_state = "DESCRIPTORS" => S = GetDesc("CONFIG", 0, enum_dev.desc_total_size)
        /\ core.enum_state = "PRODUCT" => S = GetDesc("STRING", enum_dev.source.iProduct, 1024)
        /\ core.enum_state = "MANUFACTURER" => S = GetDesc("STRING", enum_dev.source.iManufacturer, 1024)
    <3>1. /\ usbc_get_dev_desc(FALSE) = GetDesc("DEVICE", 0, 8)
          /\ usbc_get_dev_desc(TRUE) = GetDesc("DEVICE", 0, 18)
          /\ usbc_get_cfg_desc = GetDesc("CONFIG", 0, 9)
          /\ usbc_get_all_desc(enum_dev) = GetDesc("CONFIG", 0, enum_dev.desc_total_size)
          /\ \A i : usb_get_string_desc(i) = GetDesc("STRING", i, 1024)
      BY DEF usbc_get_dev_desc, usbc_get_cfg_desc, usbc_get_all_desc, usb_get_string_desc,
         USB_ENUM_BUFFER_SIZE
    <3>2. QED
      BY <3>1 DEF Asked
  <2>2. /\ usbc_set_dev_addr(S.wValue).req = "SET_ADDRESS"
        /\ \A r, i, w : /\ GetDesc(r, i, w).req = r /\ GetDesc(r, i, w).index = i
                        /\ GetDesc(r, i, w).wLength = w
    BY DEF usbc_set_dev_addr, GetDesc
  <2>3. core.enum_state \in {"EP0_SIZE", "DEV_DESC", "SET_ADDRESS", "DESC_LENGTH", "DESCRIPTORS",
                             "PRODUCT", "MANUFACTURER"}
    BY <1>2 DEF NextState
  <2> HIDE DEF S
  <2>4. QED
    BY <2>1, <2>2, <2>3
<1>5. core.enum_state \in {"PRODUCT", "MANUFACTURER"} => enum_dev.source = k
  BY DEF Stored, Past, Order
<1>6. n \in Nat
  <2>1. CASE core.enum_state \in {"EP0_SIZE", "DEV_DESC"}
    BY <1>4, <2>1
  <2>2. CASE core.enum_state = "SET_ADDRESS"
    BY <1>4, <2>2
  <2>3. CASE core.enum_state \in {"DESC_LENGTH", "DESCRIPTORS"}
    BY <1>3, <1>4, <2>3
  <2>4. CASE core.enum_state \in {"PRODUCT", "MANUFACTURER"}
    <3>1. S.index \in DOMAIN k.strings /\ S.req = "STRING"
      BY <1>3, <1>4, <1>5, <2>4
    <3>2. n = k.strings[S.index]
      BY <3>1
    <3>3. QED
      BY <1>3, <3>1, <3>2
  <2>5. QED
    BY <1>2, <2>1, <2>2, <2>3, <2>4 DEF NextState
<1>7. ReplyOf(k, S) = Min({S.wLength, n})
  BY DEF ReplyOf
<1>8. core.enum_state = "EP0_SIZE" => n = 18
  BY <1>4
<1> HIDE DEF n
<1>9. Min({S.wLength, n}) = IF S.wLength <= n THEN S.wLength ELSE n
  BY <1>1, <1>6, MinTwo
<1>10. QED
  BY <1>1, <1>4, <1>6, <1>7, <1>8, <1>9

\* A token is out only while a request is under way.
LEMMA TokenOut ==
  ASSUME UsbInv, pipe.token # "none"
  PROVE  /\ ~core.halted /\ pipe.queue # <<>> /\ Transferring /\ ~Failed /\ Stages /\ SameDevice
         /\ Asked /\ Stored(enum_dev)
BY DEF UsbInv, Requests, Resting, Transferring, Failed

\* A transaction happens in no phase of plugging in.
LEMMA HubQuiet ==
  ASSUME HubInv, pipe.token # "none" \/ PipeInterrupt, UNCHANGED <<flags, resetting, isr>>
  PROVE  HubInv' /\ ~Plugged /\ ~resetting /\ ~ResetOver
BY DEF HubInv, Quiet, Plugged, ResetOver

\* What the request is and what is stored does not change with the stage.
LEMMA SameRequest ==
  ASSUME UNCHANGED core, urb'.setup = urb.setup, UNCHANGED pipe.ep_size,
         core.enum_state # "EP0_SIZE" => kind' = kind, Asked, Stored(enum_dev),
         core.enum_state \in DOMAIN NextState
  PROVE  Asked' /\ Stored(enum_dev)'
<1>1. enum_dev' = enum_dev
  BY DEF enum_dev
<1>2. Asked'
  BY <1>1 DEF Asked
<1>3. UNCHANGED core /\ UNCHANGED pipe.ep_size
  OBVIOUS
<1>4. CASE core.enum_state = "EP0_SIZE"
  <2>1. /\ ~Past("EP0_SIZE") /\ ~Past("DEV_DESC") /\ ~Past("DESC_LENGTH")
        /\ ~Past("DESCRIPTORS") /\ ~Past("PRODUCT")
    BY <1>4 DEF Past, Order
  <2>2. /\ ~Past("EP0_SIZE")' /\ ~Past("DEV_DESC")' /\ ~Past("DESC_LENGTH")'
        /\ ~Past("DESCRIPTORS")' /\ ~Past("PRODUCT")'
    BY <1>3, <2>1 DEF Past
  <2>3. /\ enum_dev.product = None /\ enum_dev.manufacturer = None
        /\ enum_dev.num_configs = enum_dev.leftover + 0
    BY <2>1 DEF Stored
  <2>4. core'.enum_state # "DESCRIPTORS"
    BY <1>4
  <2>5. QED
    BY <1>1, <1>2, <2>2, <2>3, <2>4 DEF Stored
<1>5. CASE core.enum_state # "EP0_SIZE"
  <2>1. kind' = kind
    BY <1>5
  <2>2. Stored(enum_dev)'
    BY <1>1, <1>3, <2>1 DEF Stored, Past
  <2>3. QED
    BY <1>2, <2>2
<1>6. QED
  BY <1>4, <1>5

\* How a transaction shows in the state: only pipe and device change.
LEMMA SetupStep == ASSUME UsbInv, SetupTransaction, UNCHANGED core PROVE UsbInv'
<1> DEFINE k == device.kind
           S == urb.setup
<1>1. /\ pipe.token = "SETUP" /\ device # NoDevice /\ device.addr = pipe.addr
      /\ device' = [device EXCEPT !.setup = Head(pipe.queue).setup,
                                  !.left = ReplyLength(Head(pipe.queue).setup)]
      /\ pipe' = [pipe EXCEPT !.token = "none", !.status = @ \cup {"TXSETUP"}, !.source = k]
      /\ UNCHANGED <<flags, enabled, resetting, isr, core>>
  BY DEF SetupTransaction, Answers, hubVars
<1>2. Types /\ HubInv /\ Requests
  BY DEF UsbInv
<1>3. /\ ~core.halted /\ pipe.queue # <<>> /\ Transferring /\ Stages /\ SameDevice /\ Asked
      /\ Stored(enum_dev)
  BY <1>1, TokenOut
<1>4. SetupOut /\ "TXSETUP" \in pipe.ints /\ pipe.fifo = 0 /\ urb.actual = 0
  BY <1>1, <1>3 DEF Stages, SetupOut, SetupSent, Asking, Received, StatusOut, StatusSent
<1>5. pipe \in Pipe /\ device \in Attached /\ k \in Devices
  BY <1>1, <1>2 DEF Types, Attached
<1>6. core.enum_state # "EP0_SIZE" => kind = k
  BY <1>1, <1>3 DEF SameDevice
<1>7. Head(pipe.queue) = urb /\ urb \in Urb /\ S \in Request
  BY <1>2, <1>3, UrbFacts DEF Urb
<1>8. ReplyOf(k, S) \in Nat
  BY <1>2, <1>3, <1>5, <1>6, ReplyFacts
<1>9. ReplyLength(S) = ReplyOf(k, S)
  BY DEF ReplyLength, ReplyOf
<1>10. /\ device' \in Attached /\ device'.setup = S /\ device'.left = ReplyOf(k, S)
       /\ device'.kind = k /\ device'.addr = device.addr
  BY <1>1, <1>5, <1>7, <1>8, <1>9 DEF Attached
<1>11. /\ pipe' \in Pipe /\ pipe'.state = "CTRL_OUT" /\ pipe'.token = "none"
       /\ pipe'.status = {"TXSETUP"} /\ pipe'.source = k /\ pipe'.queue = pipe.queue
       /\ pipe'.ep_size = pipe.ep_size /\ pipe'.addr = pipe.addr /\ pipe'.ints = pipe.ints
       /\ pipe'.fifo = 0
  BY <1>1, <1>4, <1>5 DEF Pipe, Tokens, PipeFlags, Sources, SetupOut
<1>12. Types'
  BY <1>1, <1>2, <1>10, <1>11 DEF Types
<1>13. HubInv'
  BY <1>1, <1>2, HubQuiet
<1>14. urb' = urb /\ kind' = k
  BY <1>11 DEF urb, kind
<1>15. Asked' /\ Stored(enum_dev)'
  <2>1. core.enum_state \in DOMAIN NextState
    BY <1>2, <1>3 DEF Types, Core, EnumStates, Transferring
  <2>2. QED
    BY <1>1, <1>3, <1>6, <1>11, <1>14, <2>1, SameRequest
<1>16. Stages'
  BY <1>4, <1>10, <1>11, <1>14 DEF Stages, SetupSent
<1>17. SameDevice'
  BY <1>1, <1>5, <1>10, <1>11, <1>14 DEF SameDevice, AddressMoves, Received
<1>18. Transferring'
  BY <1>1, <1>3, <1>11, <1>14, <1>15, <1>16, <1>17 DEF Transferring
<1>19. QED
  BY <1>1, <1>3, <1>11, <1>12, <1>13, <1>18 DEF UsbInv, Requests

\* A data packet: the bytes move from the device to the FIFO; in the status
\* stage of SET_ADDRESS the device moves to its new address.
LEMMA InStep == ASSUME UsbInv, InTransaction, UNCHANGED core PROVE UsbInv'
<1> DEFINE k == device.kind
           S == urb.setup
           n == Min({device.kind.ep0, device.left})
           a == IF device.setup.req = "SET_ADDRESS" THEN device.setup.wValue ELSE device.addr
<1>1. /\ pipe.token = "IN" /\ device # NoDevice /\ device.addr = pipe.addr
      /\ device' = [device EXCEPT !.left = @ - n, !.addr = a]
      /\ pipe' = [pipe EXCEPT !.token = "none", !.fifo = n, !.status = @ \cup {"RXIN"}]
      /\ UNCHANGED <<flags, enabled, resetting, isr, core>>
  BY DEF InTransaction, Answers, hubVars
<1>2. Types /\ HubInv /\ Requests
  BY DEF UsbInv
<1>3. /\ ~core.halted /\ pipe.queue # <<>> /\ Transferring /\ Stages /\ SameDevice /\ Asked
      /\ Stored(enum_dev)
  BY <1>1, TokenOut
<1>4. /\ "RXIN" \in pipe.ints /\ pipe.fifo = 0 /\ device.setup = S /\ pipe.status \subseteq {"NAKED"}
      /\ \/ pipe.state = "IN" /\ urb.length # 0 /\ urb.actual + device.left = ReplyOf(kind, S)
         \/ pipe.state = "ZLP_IN" /\ urb.length = 0 /\ urb.actual = 0 /\ device.left = 0
  BY <1>1, <1>3 DEF Stages, SetupOut, SetupSent, Asking, Received, StatusOut, StatusSent
<1>5. /\ pipe \in Pipe /\ device \in Attached /\ k \in Devices /\ device.left \in Nat
  BY <1>1, <1>2 DEF Types, Attached
<1>6. kind = k /\ kind \in Devices
  BY <1>1, <1>3 DEF SameDevice, SetupOut
<1>7. urb \in Urb /\ S \in Request /\ urb.actual \in Nat /\ S.wValue \in Nat /\ k.ep0 \in Nat
  BY <1>2, <1>3, <1>5, UrbFacts, DeviceAssumption DEF Urb, Request
<1>8. /\ ReplyOf(kind, S) \in Nat
      /\ core.enum_state = "SET_ADDRESS" <=> S.req = "SET_ADDRESS"
  BY <1>2, <1>3, <1>6, ReplyFacts
<1>9. n \in Nat /\ n <= device.left /\ n <= k.ep0 /\ (n < k.ep0 => n = device.left)
      /\ device.left - n \in Nat
  <2>1. n = IF k.ep0 <= device.left THEN k.ep0 ELSE device.left
    BY <1>5, <1>7, MinTwo
  <2> HIDE DEF n
  <2>2. QED
    BY <1>5, <1>7, <2>1
<1>10. a \in Nat /\ a = IF core.enum_state = "SET_ADDRESS" THEN S.wValue ELSE pipe.addr
  BY <1>1, <1>4, <1>5, <1>7, <1>8 DEF Attached
<1> HIDE DEF n, a
<1>11. /\ device' \in Attached /\ device'.setup = S /\ device'.left = device.left - n
       /\ device'.kind = k /\ device'.addr = a
  BY <1>1, <1>4, <1>5, <1>9, <1>10 DEF Attached
<1>12. /\ pipe' \in Pipe /\ pipe'.state = pipe.state /\ pipe'.token = "none"
       /\ pipe'.status = pipe.status \cup {"RXIN"} /\ pipe'.source = pipe.source
       /\ pipe'.queue = pipe.queue /\ pipe'.ep_size = pipe.ep_size /\ pipe'.addr = pipe.addr
       /\ pipe'.ints = pipe.ints /\ pipe'.fifo = n
  BY <1>1, <1>5, <1>9 DEF Pipe, Tokens, PipeFlags
<1>13. Types'
  BY <1>1, <1>2, <1>11, <1>12 DEF Types
<1>14. HubInv'
  BY <1>1, <1>2, HubQuiet
<1>15. urb' = urb /\ kind' = kind
  BY <1>12 DEF urb, kind
<1>16. Asked' /\ Stored(enum_dev)'
  <2>1. core.enum_state \in DOMAIN NextState
    BY <1>2, <1>3 DEF Types, Core, EnumStates, Transferring
  <2>2. QED
    BY <1>1, <1>3, <1>12, <1>15, <2>1, SameRequest
<1>17. pipe'.status \in {{"RXIN"}, {"RXIN", "NAKED"}}
  BY <1>4, <1>12
<1>18. Stages'
  <2>1. CASE pipe.state = "IN" /\ urb.length # 0 /\ urb.actual + device.left = ReplyOf(kind, S)
    <3>1. Received("IN")'
      BY <1>12, <1>17, <2>1 DEF Received
    <3>2. /\ urb.actual + n <= ReplyOf(kind, S)
          /\ n < k.ep0 => urb.actual + n = ReplyOf(kind, S)
          /\ urb.actual + n + (device.left - n) = ReplyOf(kind, S)
      BY <1>5, <1>7, <1>8, <1>9, <2>1
    <3>3. QED
      BY <1>4, <1>6, <1>9, <1>11, <1>12, <1>15, <2>1, <3>1, <3>2 DEF Stages
  <2>2. CASE pipe.state = "ZLP_IN" /\ urb.length = 0 /\ urb.actual = 0 /\ device.left = 0
    <3>1. Received("ZLP_IN")'
      BY <1>12, <1>17, <2>2 DEF Received
    <3>2. n = 0
      BY <1>9, <2>2
    <3>3. QED
      BY <1>4, <1>12, <1>15, <2>2, <3>1, <3>2 DEF Stages
  <2>3. QED
    BY <1>4, <2>1, <2>2
<1>19. SameDevice'
  <2>1. AddressMoves' <=> core.enum_state = "SET_ADDRESS"
    <3>1. core.enum_state = "SET_ADDRESS" => pipe.state = "ZLP_IN"
      <4>1. core.enum_state = "SET_ADDRESS" => S.wLength = 0
        BY <1>3 DEF Asked, usbc_set_dev_addr
      <4>2. QED
        BY <1>3, <1>4, <4>1 DEF Transferring
    <3>2. QED
      BY <1>1, <1>12, <1>17, <3>1 DEF AddressMoves, Received
  <2>2. QED
    BY <1>6, <1>10, <1>11, <1>12, <1>15, <2>1 DEF SameDevice
<1>20. Transferring'
  BY <1>1, <1>3, <1>12, <1>15, <1>16, <1>18, <1>19 DEF Transferring
<1>21. QED
  BY <1>1, <1>3, <1>12, <1>13, <1>14, <1>20 DEF UsbInv, Requests

\* What the transactions that leave the device alone need.
LEMMA SameStage ==
  ASSUME UsbInv, pipe.token # "none", UNCHANGED <<flags, resetting, isr, device, core>>,
         pipe' \in Pipe, pipe'.state = pipe.state, pipe'.queue = pipe.queue,
         pipe'.ep_size = pipe.ep_size, pipe'.addr = pipe.addr, pipe'.ints = pipe.ints,
         pipe'.fifo = pipe.fifo, pipe'.source = pipe.source,
         Failed' \/ (Stages' /\ pipe.token # "SETUP" /\ (AddressMoves' <=> AddressMoves))
  PROVE  UsbInv'
<1>1. Types /\ HubInv /\ Requests
  BY DEF UsbInv
<1>2. /\ ~core.halted /\ pipe.queue # <<>> /\ Transferring /\ Stages /\ SameDevice /\ Asked
      /\ Stored(enum_dev)
  BY TokenOut
<1>3. Types' /\ HubInv'
  BY <1>1, HubQuiet DEF Types
<1>4. urb' = urb /\ kind' = kind
  BY DEF urb, kind
<1>5. Asked' /\ Stored(enum_dev)'
  <2>1. core.enum_state \in DOMAIN NextState
    BY <1>1, <1>2 DEF Types, Core, EnumStates, Transferring
  <2>2. QED
    BY <1>2, <1>4, <2>1, SameRequest
<1>6. ~Failed' => SameDevice'
  <2>1. SUFFICES ASSUME ~Failed' PROVE SameDevice'
    OBVIOUS
  <2>2. ~SetupOut
    BY <2>1 DEF SetupOut
  <2>3. QED
    BY <1>2, <1>4, <2>1, <2>2 DEF SameDevice
<1>7. Transferring'
  BY <1>2, <1>4, <1>5, <1>6 DEF Transferring
<1>8. QED
  BY <1>2, <1>3, <1>7 DEF UsbInv, Requests

LEMMA OutStep == ASSUME UsbInv, OutTransaction, UNCHANGED core PROVE UsbInv'
<1>1. /\ pipe.token = "OUT"
      /\ pipe' = [pipe EXCEPT !.token = "none", !.status = @ \cup {"TXOUT"}]
      /\ UNCHANGED <<flags, resetting, isr, device, core>>
  BY DEF OutTransaction, hubVars, busVars
<1>2. pipe \in Pipe /\ Stages
  BY <1>1, TokenOut DEF UsbInv, Types
<1>3. /\ StatusOut /\ urb.length # 0 /\ "TXOUT" \in pipe.ints /\ pipe.fifo = 0
      /\ core.enum_state # "EP0_SIZE" => urb.actual = ReplyOf(kind, urb.setup)
  BY <1>1, <1>2 DEF Stages, SetupOut, SetupSent, Asking, Received, StatusOut, StatusSent
<1>4. /\ pipe' \in Pipe /\ pipe'.state = pipe.state /\ pipe'.token = "none"
      /\ pipe'.status = {"TXOUT"} /\ pipe'.source = pipe.source
      /\ pipe'.queue = pipe.queue /\ pipe'.ep_size = pipe.ep_size /\ pipe'.addr = pipe.addr
      /\ pipe'.ints = pipe.ints /\ pipe'.fifo = pipe.fifo
  BY <1>1, <1>2, <1>3 DEF Pipe, Tokens, PipeFlags, StatusOut
<1>5. urb' = urb /\ kind' = kind
  BY <1>4 DEF urb, kind
<1>6. Stages'
  BY <1>1, <1>3, <1>4, <1>5 DEF Stages, StatusOut, StatusSent
<1>7. AddressMoves' <=> AddressMoves
  BY <1>3, <1>4 DEF AddressMoves, Received, StatusOut
<1>8. QED
  BY <1>1, <1>4, <1>6, <1>7, SameStage

LEMMA NakStep == ASSUME UsbInv, Nak, UNCHANGED core PROVE UsbInv'
<1>1. /\ pipe.token = "IN"
      /\ pipe' = [pipe EXCEPT !.status = @ \cup {"NAKED"}]
      /\ UNCHANGED <<flags, resetting, isr, device, core>>
  BY DEF Nak, hubVars
<1>2. pipe \in Pipe /\ Stages
  BY <1>1, TokenOut DEF UsbInv, Types
<1>3. /\ pipe' \in Pipe /\ pipe'.state = pipe.state /\ pipe'.token = pipe.token
      /\ pipe'.status = pipe.status \cup {"NAKED"} /\ pipe'.source = pipe.source
      /\ pipe'.queue = pipe.queue /\ pipe'.ep_size = pipe.ep_size /\ pipe'.addr = pipe.addr
      /\ pipe'.ints = pipe.ints /\ pipe'.fifo = pipe.fifo
  BY <1>1, <1>2 DEF Pipe, PipeFlags
<1>4. urb' = urb /\ kind' = kind
  BY <1>3 DEF urb, kind
<1>5. pipe.status \subseteq {"NAKED"} /\ pipe.state \in {"IN", "ZLP_IN"}
  BY <1>1, <1>2 DEF Stages, SetupOut, SetupSent, Asking, Received, StatusOut, StatusSent
<1>6. (Asking("IN")' <=> Asking("IN")) /\ (Asking("ZLP_IN")' <=> Asking("ZLP_IN"))
  BY <1>1, <1>3, <1>5 DEF Asking
<1>7. Stages'
  <2>1. \/ /\ Asking("IN") /\ urb.length # 0 /\ "RXIN" \in pipe.ints /\ pipe.fifo = 0
           /\ urb.actual <= ReplyOf(kind, urb.setup)
           /\ device # NoDevice => /\ device.setup = urb.setup
                                   /\ urb.actual + device.left = ReplyOf(kind, urb.setup)
        \/ /\ Asking("ZLP_IN") /\ urb.length = 0 /\ "RXIN" \in pipe.ints /\ pipe.fifo = 0
           /\ urb.actual = 0 /\ (device # NoDevice => device.setup = urb.setup /\ device.left = 0)
    BY <1>1, <1>2 DEF Stages, SetupOut, SetupSent, Received, StatusOut, StatusSent
  <2>2. QED
    BY <1>1, <1>3, <1>4, <1>6, <2>1 DEF Stages
<1>8. AddressMoves' <=> AddressMoves
  BY <1>1, <1>3 DEF AddressMoves, Received
<1>9. QED
  BY <1>1, <1>3, <1>7, <1>8, SameStage

LEMMA NoAnswerStep == ASSUME UsbInv, NoAnswer, UNCHANGED core PROVE UsbInv'
<1>1. /\ pipe.token # "none"
      /\ pipe' = [pipe EXCEPT !.token = "none", !.status = @ \cup {"PERROR"}]
      /\ UNCHANGED <<flags, resetting, isr, device, core>>
  BY DEF NoAnswer, hubVars, busVars
<1>2. pipe \in Pipe
  BY DEF UsbInv, Types
<1>3. /\ pipe' \in Pipe /\ pipe'.state = pipe.state /\ pipe'.token = "none"
      /\ pipe'.status = pipe.status \cup {"PERROR"} /\ pipe'.source = pipe.source
      /\ pipe'.queue = pipe.queue /\ pipe'.ep_size = pipe.ep_size /\ pipe'.addr = pipe.addr
      /\ pipe'.ints = pipe.ints /\ pipe'.fifo = pipe.fifo
  BY <1>1, <1>2 DEF Pipe, Tokens, PipeFlags
<1>4. Failed'
  BY <1>3 DEF Failed
<1>5. QED
  BY <1>1, <1>3, <1>4, SameStage

-----------------------------------------------------------------------------
\* While pipe and core stay the same and the device at most goes away.
LEMMA SamePipe ==
  ASSUME Types, Requests, UNCHANGED <<pipe, core>>, UNCHANGED device \/ device' = NoDevice
  PROVE  Requests'
<1>1. CASE core.halted \/ pipe.queue = <<>>
  BY <1>1 DEF Requests, Resting, TreeRight, NameRight, Walk, ConfigsRight, ConfigWalk, enum_dev
<1>2. CASE ~core.halted /\ pipe.queue # <<>>
  <2>1. Transferring
    BY <1>2 DEF Requests
  <2>2. urb' = urb /\ kind' = kind /\ enum_dev' = enum_dev
    BY DEF urb, kind, enum_dev
  <2>3. Failed' <=> Failed
    BY DEF Failed
  <2>4. ASSUME Stages PROVE Stages'
    BY <2>2, <2>4 DEF Stages, SetupOut, SetupSent, Asking, Received, StatusOut, StatusSent
  <2>5. ASSUME SameDevice PROVE SameDevice'
    BY <2>2, <2>5 DEF SameDevice, SetupOut, AddressMoves, Received
  <2>6. ASSUME Asked, Stored(enum_dev) PROVE Asked' /\ Stored(enum_dev)'
    <3>1. core.enum_state \in DOMAIN NextState
      BY <2>1 DEF Types, Core, EnumStates, Transferring
    <3>2. QED
      BY <2>2, <2>6, <3>1, SameRequest
  <2>7. Transferring'
    BY <2>1, <2>2, <2>3, <2>4, <2>5, <2>6 DEF Transferring
  <2>8. QED
    BY <1>2, <2>7 DEF Requests
<1>3. QED
  BY <1>1, <1>2

LEMMA AttachStep == ASSUME UsbInv, Attach, UNCHANGED core PROVE UsbInv'
<1>1. /\ device = NoDevice /\ ~resetting /\ "RST" \notin flags \cup isr
      /\ pipe.token = "none" /\ ~PipeInterrupt /\ "PIPE" \notin isr
      /\ flags' = flags \cup {"CONN"} /\ UNCHANGED <<resetting, isr, pipe, core>>
  BY DEF Attach
<1>2. PICK d \in Devices : device' = [kind |-> d, addr |-> 0, setup |-> [req |-> "none"], left |-> 0]
  BY DEF Attach
<1>3. device' \in Attached /\ device'.addr = 0
  BY <1>2 DEF Attached
<1>4. Types /\ HubInv /\ Requests
  BY DEF UsbInv
<1>5. Types'
  BY <1>1, <1>3, <1>4 DEF Types, HubFlags
<1>6. core.halted \/ pipe.queue = <<>>
  BY <1>1, <1>4, Moves DEF Requests
<1>7. PipeInterrupt' <=> PipeInterrupt
  BY <1>1 DEF PipeInterrupt
<1>8. HubInv'
  BY <1>1, <1>3, <1>6, <1>7 DEF HubInv, Quiet, ResetOver, Plugged
<1>9. Requests'
  BY <1>1, <1>4, <1>6 DEF Requests, Resting, TreeRight, NameRight, Walk, ConfigsRight, ConfigWalk, enum_dev
<1>10. QED
  BY <1>5, <1>8, <1>9 DEF UsbInv

LEMMA DetachStep == ASSUME UsbInv, Detach, UNCHANGED core PROVE UsbInv'
<1>1. device' = NoDevice /\ flags' = flags \cup {"DCONN"} /\ UNCHANGED <<resetting, isr, pipe, core>>
  BY DEF Detach
<1>2. Types /\ HubInv /\ Requests
  BY DEF UsbInv
<1>3. Types'
  BY <1>1, <1>2 DEF Types, HubFlags
<1>4. HubInv'
  BY <1>1, <1>2 DEF HubInv, Quiet, ResetOver, Plugged, PipeInterrupt
<1>5. Requests'
  BY <1>1, <1>2, SamePipe
<1>6. QED
  BY <1>3, <1>4, <1>5 DEF UsbInv

LEMMA ResetStep == ASSUME UsbInv, ResetDone, UNCHANGED core PROVE UsbInv'
<1>1. /\ resetting /\ resetting' = FALSE /\ flags' = flags \cup {"RST"}
      /\ UNCHANGED <<isr, pipe, device, core>>
  BY DEF ResetDone, busVars
<1>2. Types /\ HubInv /\ Requests
  BY DEF UsbInv
<1>3. Types'
  BY <1>1, <1>2 DEF Types, HubFlags
<1>4. HubInv'
  BY <1>1, <1>2 DEF HubInv, Quiet, ResetOver, Plugged, PipeInterrupt
<1>5. Requests'
  BY <1>1, <1>2, SamePipe
<1>6. QED
  BY <1>3, <1>4, <1>5 DEF UsbInv

LEMMA FrameStep == ASSUME UsbInv, StartOfFrame, UNCHANGED core PROVE UsbInv'
<1>1. flags' = flags \cup {"SOF"} /\ UNCHANGED <<resetting, isr, pipe, device, core>>
  BY DEF StartOfFrame, busVars
<1>2. Types /\ HubInv /\ Requests
  BY DEF UsbInv
<1>3. Types'
  BY <1>1, <1>2 DEF Types, HubFlags
<1>4. HubInv'
  BY <1>1, <1>2 DEF HubInv, Quiet, ResetOver, Plugged, PipeInterrupt
<1>5. Requests'
  BY <1>1, <1>2, SamePipe
<1>6. QED
  BY <1>3, <1>4, <1>5 DEF UsbInv

LEMMA ReadStep == ASSUME UsbInv, usb_exception PROVE UsbInv'
<1>1. /\ isr = {} /\ isr' = flags \cup (IF PipeInterrupt THEN {"PIPE"} ELSE {})
      /\ UNCHANGED <<flags, resetting, pipe, device, core>>
  BY DEF usb_exception, ReadStatus, hubVars, busVars
<1>2. Types /\ HubInv /\ Requests
  BY DEF UsbInv
<1>3. Types'
  BY <1>1, <1>2 DEF Types
<1>4. "PIPE" \notin flags
  BY <1>2 DEF Types, HubFlags
<1>5. HubInv'
  BY <1>1, <1>2, <1>4 DEF HubInv, Quiet, ResetOver, Plugged, PipeInterrupt
<1>6. Requests'
  BY <1>1, <1>2, SamePipe
<1>7. QED
  BY <1>3, <1>5, <1>6 DEF UsbInv

-----------------------------------------------------------------------------
(***************************************************************************)
(* The done handlers                                                       *)
(***************************************************************************)
\* What the n - 1 requests before request n have stored.
StoredIn(n, ep, k, dev) ==
  /\ n > 1 => ep = k.ep0 /\ k.ep0 \in 8 .. 1024
  /\ n > 2 => dev.source = k
  /\ n = 5 => dev.desc_total_size = k.total
  /\ n > 5 => /\ Parsed[k].ok /\ dev.mem = Parsed[k].mem /\ dev.iface_list = Parsed[k].iface_list
  /\ dev.num_configs = dev.leftover + (IF n > 5 THEN Parsed[k].configs ELSE 0)
  /\ IF n > 6 THEN NameRight(dev, k.iProduct, dev.product) ELSE dev.product = None
  /\ dev.manufacturer = None

LEMMA StoredFacts ==
  ASSUME core.enum_state \in DOMAIN NextState, NEW dev
  PROVE  Stored(dev) <=> StoredIn(Order[core.enum_state], pipe.ep_size, kind, dev)
<1>1. /\ Past("EP0_SIZE") <=> Order[core.enum_state] > 1
      /\ Past("DEV_DESC") <=> Order[core.enum_state] > 2
      /\ core.enum_state = "DESCRIPTORS" <=> Order[core.enum_state] = 5
      /\ Past("DESCRIPTORS") <=> Order[core.enum_state] > 5
      /\ Past("PRODUCT") <=> Order[core.enum_state] > 6
  BY DEF Past, Order, NextState
<1>2. QED
  BY <1>1 DEF Stored, StoredIn

\* The fields that an assignment to a device leaves alone.
LEMMA DevSize ==
  ASSUME NEW dev \in Dev, NEW n \in Nat, NEW d, d = [dev EXCEPT !.ep0_size = n]
  PROVE  /\ d \in Dev /\ d.source = dev.source /\ d.product = dev.product
         /\ d.manufacturer = dev.manufacturer
         /\ d.num_configs = dev.num_configs /\ d.leftover = dev.leftover
BY DEF Dev

LEMMA DevSource ==
  ASSUME NEW dev \in Dev, NEW k \in Sources, NEW d, d = [dev EXCEPT !.source = k]
  PROVE  /\ d \in Dev /\ d.source = k /\ d.product = dev.product
         /\ d.manufacturer = dev.manufacturer
         /\ d.num_configs = dev.num_configs /\ d.leftover = dev.leftover
BY DEF Dev

LEMMA DevAddress ==
  ASSUME NEW dev \in Dev, NEW n \in Nat, NEW d, d = [dev EXCEPT !.address = n]
  PROVE  /\ d \in Dev /\ d.source = dev.source /\ d.product = dev.product
         /\ d.manufacturer = dev.manufacturer
         /\ d.num_configs = dev.num_configs /\ d.leftover = dev.leftover
BY DEF Dev

LEMMA DevTotal ==
  ASSUME NEW dev \in Dev, NEW n \in Nat, NEW d, d = [dev EXCEPT !.desc_total_size = n]
  PROVE  /\ d \in Dev /\ d.source = dev.source /\ d.product = dev.product
         /\ d.manufacturer = dev.manufacturer /\ d.desc_total_size = n
         /\ d.num_configs = dev.num_configs /\ d.leftover = dev.leftover
BY DEF Dev

LEMMA DevMemory ==
  ASSUME NEW dev \in Dev, NEW x \in Memories, NEW d, d = [dev EXCEPT !.mem = x]
  PROVE  /\ d \in Dev /\ d.source = dev.source /\ d.product = dev.product
         /\ d.manufacturer = dev.manufacturer /\ d.desc_total_size = dev.desc_total_size
         /\ d.mem = x /\ d.num_configs = dev.num_configs /\ d.leftover = dev.leftover
BY DEF Dev

LEMMA DevInterfaces ==
  ASSUME NEW dev \in Dev, NEW x \in Seq(Nat), NEW d, d = [dev EXCEPT !.iface_list = x]
  PROVE  /\ d \in Dev /\ d.source = dev.source /\ d.product = dev.product
         /\ d.manufacturer = dev.manufacturer /\ d.desc_total_size = dev.desc_total_size
         /\ d.mem = dev.mem /\ d.iface_list = x /\ d.num_configs = dev.num_configs /\ d.leftover = dev.leftover
BY DEF Dev

LEMMA DevConfigs ==
  ASSUME NEW dev \in Dev, NEW x \in Nat, NEW d, d = [dev EXCEPT !.num_configs = x]
  PROVE  /\ d \in Dev /\ d.source = dev.source /\ d.product = dev.product
         /\ d.manufacturer = dev.manufacturer /\ d.desc_total_size = dev.desc_total_size
         /\ d.mem = dev.mem /\ d.iface_list = dev.iface_list
         /\ d.num_configs = x /\ d.leftover = dev.leftover
BY DEF Dev

LEMMA DevProduct ==
  ASSUME NEW dev \in Dev, NEW n \in Int, NEW d, d = [dev EXCEPT !.product = n]
  PROVE  /\ d \in Dev /\ d.source = dev.source /\ d.mem = dev.mem
         /\ d.iface_list = dev.iface_list /\ d.product = n
         /\ d.desc_total_size = dev.desc_total_size /\ d.manufacturer = dev.manufacturer
         /\ d.num_configs = dev.num_configs /\ d.leftover = dev.leftover
BY DEF Dev

LEMMA DevManufacturer ==
  ASSUME NEW dev \in Dev, NEW n \in Int, NEW d, d = [dev EXCEPT !.manufacturer = n]
  PROVE  /\ d \in Dev /\ d.source = dev.source /\ d.mem = dev.mem
         /\ d.iface_list = dev.iface_list /\ d.product = dev.product /\ d.manufacturer = n
         /\ d.num_configs = dev.num_configs /\ d.leftover = dev.leftover
BY DEF Dev

\* The string of a device is stored as a name of the right length.
LEMMA NameFacts ==
  ASSUME NEW k \in Devices, NEW index \in DOMAIN k.strings,
         NEW u, u.setup.index = index, u.actual = k.strings[index]
  PROVE  /\ NameOf(u, None) \in Int
         /\ NameOf(u, None) = IF index = 0 THEN None
                              ELSE Min({(k.strings[index] - 2) \div 2, USB_DEV_NAME_MAX_SIZE - 1})
<1> DEFINE name == NameOf(u, None)
<1>1. PICK n \in 0 .. 126 : k.strings[index] = 2 + 2 * n
  BY DeviceAssumption
<1>3. CASE index = 0
  BY <1>3 DEF NameOf, None
<1>4. CASE index # 0
  <2>1. name = Min({(u.actual - 2 + 1) \div 2, USB_DEV_NAME_MAX_SIZE - 1})
    BY <1>4 DEF NameOf, usbc_uni_to_string
  <2>2. (u.actual - 2 + 1) \div 2 = n /\ (k.strings[index] - 2) \div 2 = n
    BY <1>1
  <2>3. USB_DEV_NAME_MAX_SIZE - 1 = 63
    BY DEF USB_DEV_NAME_MAX_SIZE
  <2>4. Min({n, 63}) \in Int
    <3>1. n \in Nat /\ 63 \in Nat
      OBVIOUS
    <3>2. Min({n, 63}) = IF n <= 63 THEN n ELSE 63
      BY <3>1, MinTwo
    <3>3. QED
      BY <3>1, <3>2
  <2> HIDE DEF name
  <2>5. name = Min({n, 63})
    BY <2>1, <2>2, <2>3
  <2>6. name = Min({(k.strings[index] - 2) \div 2, USB_DEV_NAME_MAX_SIZE - 1})
    BY <2>2, <2>3, <2>5
  <2>7. QED
    BY <1>4, <2>4, <2>5, <2>6 DEF name
<1>5. QED
  BY <1>3, <1>4

\* The pipe as the callback finds it.
Idle(p) ==
  /\ p \in Pipe /\ p.queue = <<>> /\ p.token = "none" /\ p.status = {} /\ p.fifo = 0
  /\ {"PERROR", "STALL", "NAKED"} \subseteq p.ints

\* The fields of the result of a done handler that has not refused.
LEMMA Accepted ==
  ASSUME NEW a \in BOOLEAN, NEW b, NEW c, NEW x, x = [ok |-> a, dev |-> b, pipe |-> c], x.ok
  PROVE  a /\ x.dev = b /\ x.pipe = c
<1>1. x.ok = a /\ x.dev = b /\ x.pipe = c
  BY Zenon
<1>2. QED
  BY <1>1

\* A request that is accepted has stored its answer, and has set the size of
\* the packets or the address of the pipe.
LEMMA DoneFacts ==
  ASSUME Types, Transferring, Asked, Stored(enum_dev), kind \in Devices,
         NEW p, Idle(p), p.source = kind, p.ep_size = pipe.ep_size,
         NEW u, u.setup = urb.setup,
         core.enum_state # "EP0_SIZE" => u.actual = ReplyOf(kind, urb.setup),
         NEW stray, NEW done, done = Done(core, p, u, stray), done.ok
  PROVE  /\ done.dev \in Dev
         /\ Idle(done.pipe) /\ done.pipe.source = kind
         /\ done.pipe.addr = IF core.enum_state = "SET_ADDRESS" THEN urb.setup.wValue ELSE p.addr
         /\ core.enum_state # "MANUFACTURER" =>
              StoredIn(Order[core.enum_state] + 1, done.pipe.ep_size, kind, done.dev)
         /\ core.enum_state = "MANUFACTURER" =>
              /\ done.dev.source = kind /\ TreeRight(done.dev)
              /\ NameRight(done.dev, kind.iProduct, done.dev.product)
              /\ NameRight(done.dev, kind.iManufacturer, done.dev.manufacturer)
<1> DEFINE dev == enum_dev
           k == kind
           s == core.enum_state
           S == urb.setup
<1>1. /\ dev \in Dev /\ Head(core.dev_list) = dev /\ S \in Request /\ S.wValue \in Nat
  BY UrbFacts DEF enum_dev, Urb, Request
<1>2. s \in DOMAIN NextState
  BY DEF Types, Core, EnumStates, Transferring
<1>3. StoredIn(Order[s], pipe.ep_size, k, dev)
  BY <1>2, StoredFacts
<1>4. k.total \in Nat /\ k.ep0 \in Nat /\ k \in Sources
  BY DeviceAssumption DEF Sources
<1>15. k \in Devices /\ k.iProduct \in DOMAIN k.strings /\ k.iManufacturer \in DOMAIN k.strings
  BY DeviceAssumption
<1>5. /\ p \in Pipe /\ p.queue = <<>> /\ p.token = "none" /\ p.status = {} /\ p.fifo = 0
      /\ {"PERROR", "STALL", "NAKED"} \subseteq p.ints
  BY DEF Idle
<1> HIDE DEF dev, k, s, S
<1>6. CASE s = "EP0_SIZE"
  <2> DEFINE d == [dev EXCEPT !.ep0_size = k.ep0]
             q == [p EXCEPT !.ep_size = k.ep0]
             b == k.ep0 \in 8 .. 1024
  <2>1. done = [ok |-> b, dev |-> d, pipe |-> q]
    <3>1. done = CASE s = "EP0_SIZE" -> [ok |-> b, dev |-> d, pipe |-> q]
                   [] s = "DEV_DESC" ->
                        [ok |-> TRUE, dev |-> [dev EXCEPT !.source = k], pipe |-> p]
                   [] OTHER -> done
      BY <1>1, <1>6, Zenon DEF Done, usbhc_set_ep_size, s, k, dev
    <3>2. QED
      BY <1>6, <3>1
  <2>2. b \in BOOLEAN
    OBVIOUS
  <2>3. /\ d \in Dev /\ d.product = dev.product /\ d.manufacturer = dev.manufacturer
        /\ d.num_configs = dev.num_configs /\ d.leftover = dev.leftover
    BY <1>1, <1>4, DevSize
  <2>4. Idle(q) /\ q.source = p.source /\ q.addr = p.addr /\ q.ep_size = k.ep0
    BY <1>4, <1>5 DEF Idle, Pipe
  <2> HIDE DEF b, d, q
  <2>5. done.dev = d /\ done.pipe = q
    BY <2>1, <2>2, Accepted
  <2>6. b
    BY <2>1, <2>2, Accepted
  <2>7. Order[s] = 1
    BY <1>6 DEF Order
  <2>8. StoredIn(2, q.ep_size, k, d)
    BY <1>3, <2>3, <2>4, <2>6, <2>7 DEF StoredIn, b
  <2>9. QED
    BY <1>6, <2>3, <2>4, <2>5, <2>7, <2>8 DEF s, k
<1>7. CASE s = "DEV_DESC"
  <2>1. done.dev = [dev EXCEPT !.source = k] /\ done.pipe = p
    BY <1>1, <1>7 DEF Done, s, k, dev
  <2>2. Order[s] = 2
    BY <1>7 DEF Order
  <2>3. /\ done.dev \in Dev /\ done.dev.product = dev.product /\ done.dev.manufacturer = dev.manufacturer
        /\ done.dev.source = k
        /\ done.dev.num_configs = dev.num_configs /\ done.dev.leftover = dev.leftover
    BY <1>1, <1>4, <2>1, DevSource
  <2>4. StoredIn(3, done.pipe.ep_size, k, done.dev)
    BY <1>3, <2>1, <2>2, <2>3 DEF StoredIn
  <2>5. QED
    BY <1>7, <2>1, <2>2, <2>3, <2>4 DEF s, k
<1>8. CASE s = "SET_ADDRESS"
  <2>1. done.dev = [dev EXCEPT !.address = S.wValue] /\ done.pipe = [p EXCEPT !.addr = S.wValue]
    BY <1>1, <1>8 DEF Done, usbhc_set_address, s, S, dev
  <2>2. Order[s] = 3
    BY <1>8 DEF Order
  <2>3. /\ done.dev \in Dev /\ done.dev.product = dev.product /\ done.dev.manufacturer = dev.manufacturer
        /\ done.dev.source = dev.source
        /\ done.dev.num_configs = dev.num_configs /\ done.dev.leftover = dev.leftover
    BY <1>1, <2>1, DevAddress
  <2>4. Idle(done.pipe) /\ done.pipe.source = p.source /\ done.pipe.addr = S.wValue /\ done.pipe.ep_size = p.ep_size
    BY <1>1, <1>5, <2>1 DEF Idle, Pipe
  <2>5. StoredIn(4, done.pipe.ep_size, k, done.dev)
    BY <1>3, <2>2, <2>3, <2>4 DEF StoredIn
  <2>6. QED
    BY <1>8, <2>2, <2>3, <2>4, <2>5 DEF s, k, S
<1>9. CASE s = "DESC_LENGTH"
  <2>1. done.dev = [dev EXCEPT !.desc_total_size = k.total] /\ done.pipe = p
    BY <1>1, <1>9 DEF Done, s, k, dev
  <2>2. Order[s] = 4
    BY <1>9 DEF Order
  <2>3. /\ done.dev \in Dev /\ done.dev.product = dev.product /\ done.dev.manufacturer = dev.manufacturer
        /\ done.dev.source = dev.source /\ done.dev.desc_total_size = k.total
        /\ done.dev.num_configs = dev.num_configs /\ done.dev.leftover = dev.leftover
    BY <1>1, <1>4, <2>1, DevTotal
  <2>4. StoredIn(5, done.pipe.ep_size, k, done.dev)
    BY <1>3, <2>1, <2>2, <2>3 DEF StoredIn
  <2>5. QED
    BY <1>9, <2>1, <2>2, <2>3, <2>4 DEF s, k
<1>10. CASE s = "DESCRIPTORS"
  <2> DEFINE m == Parsed[k].mem
             l == Parsed[k].iface_list
             n == Parsed[k].configs
             z == Parsed[k].size
  <2>1. /\ done.pipe = p
        /\ done.dev = [dev EXCEPT !.mem = m, !.iface_list = l, !.desc_total_size = z,
                                  !.num_configs = @ + n]
    BY <1>1, <1>10 DEF Done, s, k, dev
  <2>2. Parsed[k].ok
    <3>1. done.ok = (u.actual = k.total /\ Parsed[k].ok /\ (stray => dev.num_configs = 0))
      BY <1>1, <1>10 DEF Done, s, k, dev
    <3>2. QED
      BY <3>1, Zenon
  <2>3. Order[s] = 5
    BY <1>10 DEF Order
  <2>4. m \in Memories /\ l \in Seq(Nat) /\ n \in Nat /\ z \in Nat
    BY <2>2, ParsedRight DEF k
  <2> HIDE DEF m, l, n, z
  <2>5. /\ done.dev \in Dev /\ done.dev.product = dev.product /\ done.dev.manufacturer = dev.manufacturer
        /\ done.dev.source = dev.source /\ done.dev.mem = m /\ done.dev.iface_list = l
        /\ done.dev.num_configs = dev.num_configs + n /\ done.dev.leftover = dev.leftover
    <3> DEFINE a == [dev EXCEPT !.mem = m]
               b == [a EXCEPT !.iface_list = l]
               c == dev.num_configs + n
               e == [b EXCEPT !.num_configs = c]
    <3>1. done.dev = [e EXCEPT !.desc_total_size = z]
      BY <1>1, <2>1 DEF Dev
    <3>2. dev \in Dev /\ c \in Nat
      BY <1>1, <2>4 DEF Dev
    <3>3. /\ a \in Dev /\ a.source = dev.source /\ a.product = dev.product
          /\ a.manufacturer = dev.manufacturer /\ a.mem = m
          /\ a.num_configs = dev.num_configs /\ a.leftover = dev.leftover
      BY <2>4, <3>2, DevMemory
    <3> HIDE DEF a
    <3>4. /\ b \in Dev /\ b.source = dev.source /\ b.product = dev.product
          /\ b.manufacturer = dev.manufacturer /\ b.mem = m /\ b.iface_list = l
          /\ b.leftover = dev.leftover
      BY <2>4, <3>3, DevInterfaces
    <3> HIDE DEF b, c
    <3>5. /\ e \in Dev /\ e.source = dev.source /\ e.product = dev.product
          /\ e.manufacturer = dev.manufacturer /\ e.mem = m /\ e.iface_list = l
          /\ e.num_configs = c /\ e.leftover = dev.leftover
      BY <3>2, <3>4, DevConfigs
    <3> HIDE DEF e
    <3>6. /\ done.dev \in Dev /\ done.dev.source = e.source /\ done.dev.product = e.product
          /\ done.dev.manufacturer = e.manufacturer /\ done.dev.mem = e.mem
          /\ done.dev.iface_list = e.iface_list /\ done.dev.num_configs = e.num_configs
          /\ done.dev.leftover = e.leftover
      BY <2>4, <3>1, <3>5 DEF Dev
    <3>7. QED
      BY <3>5, <3>6 DEF c
  <2>6. /\ p.ep_size = k.ep0 /\ k.ep0 \in 8 .. 1024 /\ dev.source = k
        /\ dev.num_configs = dev.leftover + 0 /\ dev.leftover \in Nat
        /\ dev.product = None /\ dev.manufacturer = None
    <3>1. dev.leftover \in Nat
      BY <1>1 DEF Dev
    <3>2. QED
      BY <1>3, <2>3, <3>1 DEF StoredIn
  <2>7. done.dev.num_configs = done.dev.leftover + n
    BY <2>5, <2>6
  <2>8. StoredIn(6, done.pipe.ep_size, k, done.dev)
    BY <2>1, <2>2, <2>5, <2>6, <2>7 DEF StoredIn, m, l, n
  <2>9. QED
    BY <1>10, <2>1, <2>3, <2>5, <2>8 DEF s, k
<1>11. ASSUME s \in {"PRODUCT", "MANUFACTURER"}
       PROVE  /\ dev.source = k /\ S.index = (IF s = "PRODUCT" THEN k.iProduct ELSE k.iManufacturer)
              /\ u.actual = k.strings[S.index]
  <2>1. Order[s] > 2
    BY <1>11 DEF Order
  <2>2. dev.source = k
    BY <1>3, <2>1 DEF StoredIn
  <2>3. S = usb_get_string_desc(IF s = "PRODUCT" THEN k.iProduct ELSE k.iManufacturer)
    BY <1>11, <2>2 DEF Asked, s, S, dev
  <2>4. S.req = "STRING" /\ S.wLength = 1024 /\ S.index = (IF s = "PRODUCT" THEN k.iProduct ELSE k.iManufacturer)
    BY <2>3 DEF usb_get_string_desc, GetDesc, USB_ENUM_BUFFER_SIZE
  <2>5. u.actual = ReplyOf(k, S)
    BY <1>11 DEF s, k, S
  <2>6. ReplyOf(k, S) = Min({1024, k.strings[S.index]})
    BY <2>4 DEF ReplyOf
  <2>7. Min({1024, k.strings[S.index]}) = k.strings[S.index]
    <3>1. PICK n \in 0 .. 126 : k.strings[S.index] = 2 + 2 * n
      BY <1>15, <2>4, DeviceAssumption
    <3>2. 1024 \in Nat /\ 2 + 2 * n \in Nat /\ ~(1024 <= 2 + 2 * n)
      BY <3>1
    <3>3. Min({1024, 2 + 2 * n}) = 2 + 2 * n
      BY <3>2, MinTwo
    <3>4. QED
      BY <3>1, <3>3
  <2>8. QED
    BY <2>2, <2>4, <2>5, <2>6, <2>7
<1>12. CASE s = "PRODUCT"
  <2> DEFINE name == NameOf(u, None)
  <2>1. Order[s] = 6
    BY <1>12 DEF Order
  <2>2. dev.product = None
    BY <1>3, <2>1 DEF StoredIn
  <2>3. done.dev = [dev EXCEPT !.product = name] /\ done.pipe = p
    BY <1>1, <1>12, <2>2 DEF Done, s, k, dev
  <2>4. /\ name \in Int
        /\ name = IF k.iProduct = 0 THEN None
                  ELSE Min({(k.strings[k.iProduct] - 2) \div 2, USB_DEV_NAME_MAX_SIZE - 1})
    <3> DEFINE index == k.iProduct
    <3>1. S.index = k.iProduct /\ u.setup.index = k.iProduct /\ u.actual = k.strings[k.iProduct]
      BY <1>11, <1>12 DEF S
    <3>2. k \in Devices /\ index \in DOMAIN k.strings /\ u.setup.index = index
      BY <1>15, <3>1
    <3>3. u.actual = k.strings[index]
      BY <3>1
    <3> HIDE DEF index
    <3>4. /\ NameOf(u, None) \in Int
          /\ NameOf(u, None) = IF index = 0 THEN None
                               ELSE Min({(k.strings[index] - 2) \div 2, USB_DEV_NAME_MAX_SIZE - 1})
      BY <3>2, <3>3, NameFacts
    <3>5. QED
      BY <3>4 DEF index
  <2> HIDE DEF name
  <2>5. /\ done.dev \in Dev /\ done.dev.product = name /\ done.dev.manufacturer = dev.manufacturer
        /\ done.dev.source = dev.source
        /\ done.dev.mem = dev.mem /\ done.dev.iface_list = dev.iface_list
        /\ done.dev.num_configs = dev.num_configs /\ done.dev.leftover = dev.leftover
    BY <1>1, <2>3, <2>4, DevProduct
  <2>6. NameRight(done.dev, k.iProduct, done.dev.product)
    BY <1>11, <1>12, <2>4, <2>5 DEF NameRight
  <2>7. StoredIn(7, done.pipe.ep_size, k, done.dev)
    BY <1>3, <1>11, <1>12, <2>1, <2>3, <2>5, <2>6 DEF StoredIn
  <2>8. QED
    BY <1>12, <2>1, <2>3, <2>5, <2>7 DEF s, k
<1>13. CASE s = "MANUFACTURER"
  <2> DEFINE name == NameOf(u, None)
             d == [dev EXCEPT !.manufacturer = name]
  <2>1. Order[s] = 7
    BY <1>13 DEF Order
  <2>2. /\ dev.manufacturer = None /\ dev.source = k /\ Parsed[k].ok /\ dev.mem = Parsed[k].mem
        /\ dev.iface_list = Parsed[k].iface_list /\ NameRight(dev, k.iProduct, dev.product)
        /\ dev.num_configs = dev.leftover + Parsed[k].configs
    BY <1>3, <2>1 DEF StoredIn
  <2>3. done.dev = usbc_assign_driver(d) /\ done.pipe = p
    BY <1>1, <1>13, <2>2 DEF Done, s, k, dev
  <2>4. /\ name \in Int
        /\ name = IF k.iManufacturer = 0 THEN None
                  ELSE Min({(k.strings[k.iManufacturer] - 2) \div 2, USB_DEV_NAME_MAX_SIZE - 1})
    <3> DEFINE index == k.iManufacturer
    <3>1. S.index = k.iManufacturer /\ u.setup.index = k.iManufacturer /\ u.actual = k.strings[k.iManufacturer]
      BY <1>11, <1>13 DEF S
    <3>2. k \in Devices /\ index \in DOMAIN k.strings /\ u.setup.index = index
      BY <1>15, <3>1
    <3>3. u.actual = k.strings[index]
      BY <3>1
    <3> HIDE DEF index
    <3>4. /\ NameOf(u, None) \in Int
          /\ NameOf(u, None) = IF index = 0 THEN None
                               ELSE Min({(k.strings[index] - 2) \div 2, USB_DEV_NAME_MAX_SIZE - 1})
      BY <3>2, <3>3, NameFacts
    <3>5. QED
      BY <3>4 DEF index
  <2> HIDE DEF name
  <2>5. /\ d \in Dev /\ d.source = k /\ d.mem = Parsed[k].mem /\ d.iface_list = Parsed[k].iface_list
        /\ d.manufacturer = name /\ d.product = dev.product
        /\ d.num_configs = d.leftover + Parsed[k].configs
    BY <1>1, <2>2, <2>4, DevManufacturer
  <2> HIDE DEF d
  <2>6. /\ done.dev \in Dev /\ done.dev.source = k /\ done.dev.product = dev.product
        /\ done.dev.manufacturer = name /\ TreeRight(done.dev)
    BY <2>2, <2>3, <2>5, AssignedRight DEF k
  <2>7. NameRight(done.dev, k.iProduct, done.dev.product)
    BY <2>2, <2>6 DEF NameRight
  <2>8. NameRight(done.dev, k.iManufacturer, done.dev.manufacturer)
    BY <2>4, <2>6 DEF NameRight
  <2>9. QED
    BY <1>13, <2>3, <2>6, <2>7, <2>8 DEF s, k
<1>14. QED
  BY <1>2, <1>6, <1>7, <1>8, <1>9, <1>10, <1>12, <1>13 DEF NextState, s

-----------------------------------------------------------------------------
(***************************************************************************)
(* The callback                                                            *)
(***************************************************************************)
\* An address that is free, or 0.
LEMMA NewAddress == ASSUME NEW c PROVE usbc_new_address(c) \in Nat
<1> DEFINE free == (1 .. MAX_PIPES - 1) \ c.dev_addr_bm
<1>1. free \in SUBSET Nat
  BY UsbAssumption
<1>2. usbc_new_address(c) = IF free = {} THEN 0 ELSE Min(free)
  BY DEF usbc_new_address
<1> HIDE DEF free
<1>3. free # {} => Min(free) \in Nat
  BY <1>1, MinFacts
<1>4. QED
  BY <1>2, <1>3

\* The request r is the one that is made of a device d in state s.
Fits(s, d, r) ==
  /\ s = "DEV_DESC" => r = usbc_get_dev_desc(TRUE)
  /\ s = "SET_ADDRESS" => r = usbc_set_dev_addr(r.wValue)
  /\ s = "DESC_LENGTH" => r = usbc_get_cfg_desc
  /\ s = "DESCRIPTORS" => r = usbc_get_all_desc(d)
  /\ s = "PRODUCT" => r = usb_get_string_desc(d.source.iProduct)
  /\ s = "MANUFACTURER" => r = usb_get_string_desc(d.source.iManufacturer)

LEMMA NextRequest ==
  ASSUME NEW k \in Devices, NEW c, NEW d \in Dev, Head(c.dev_list) = d,
         NEW s \in DOMAIN NextState, s # "EP0_SIZE",
         Order[s] > 5 => d.source = k
  PROVE  RequestOf(s, c) \in Request /\ Fits(s, d, RequestOf(s, c))
<1> DEFINE R == RequestOf(s, c)
<1>1. s \in {"DEV_DESC", "SET_ADDRESS", "DESC_LENGTH", "DESCRIPTORS", "PRODUCT", "MANUFACTURER"}
  BY DEF NextState
<1>2. ASSUME NEW req \in {"DEVICE", "CONFIG", "STRING"}, NEW i \in Nat, NEW w \in Nat
      PROVE  GetDesc(req, i, w) \in Request
  BY <1>2 DEF GetDesc, Request
<1>3. k.iProduct \in Nat /\ k.iManufacturer \in Nat
  <2>1. k.iProduct \in DOMAIN k.strings /\ k.iManufacturer \in DOMAIN k.strings
    BY DeviceAssumption
  <2>2. DOMAIN k.strings \subseteq Nat
    BY DeviceAssumption
  <2>3. QED
    BY <2>1, <2>2
<1>4. CASE s = "DEV_DESC"
  <2>1. R = usbc_get_dev_desc(TRUE) /\ R = GetDesc("DEVICE", 0, 18)
    BY <1>4 DEF RequestOf, usbc_get_dev_desc
  <2>2. QED
    BY <1>2, <1>4, <2>1 DEF Fits
<1>5. CASE s = "SET_ADDRESS"
  <2> DEFINE a == usbc_new_address(c)
  <2>1. a \in Nat
    BY NewAddress
  <2>2. R = usbc_set_dev_addr(a)
    BY <1>5 DEF RequestOf
  <2> HIDE DEF a
  <2>3. R.wValue = a
    BY <2>2 DEF usbc_set_dev_addr
  <2>4. R \in Request
    BY <2>1, <2>2 DEF usbc_set_dev_addr, Request
  <2>5. QED
    BY <1>5, <2>2, <2>3, <2>4 DEF Fits
<1>6. CASE s = "DESC_LENGTH"
  <2>1. R = usbc_get_cfg_desc /\ R = GetDesc("CONFIG", 0, 9)
    BY <1>6 DEF RequestOf, usbc_get_cfg_desc
  <2>2. QED
    BY <1>2, <1>6, <2>1 DEF Fits
<1>7. CASE s = "DESCRIPTORS"
  <2>1. R = usbc_get_all_desc(d) /\ R = GetDesc("CONFIG", 0, d.desc_total_size)
    BY <1>7 DEF RequestOf, usbc_get_all_desc
  <2>2. d.desc_total_size \in Nat
    BY DEF Dev
  <2>3. QED
    BY <1>2, <1>7, <2>1, <2>2 DEF Fits
<1>8. s \in {"PRODUCT", "MANUFACTURER"} => d.source = k
  BY DEF Order
<1>9. CASE s = "PRODUCT"
  <2>1. R = usb_get_string_desc(d.source.iProduct) /\ R = GetDesc("STRING", k.iProduct, 1024)
    BY <1>8, <1>9 DEF RequestOf, usb_get_string_desc, USB_ENUM_BUFFER_SIZE
  <2>2. QED
    BY <1>2, <1>3, <1>9, <2>1 DEF Fits
<1>10. CASE s = "MANUFACTURER"
  <2>1. R = usb_get_string_desc(d.source.iManufacturer) /\ R = GetDesc("STRING", k.iManufacturer, 1024)
    BY <1>8, <1>10 DEF RequestOf, usb_get_string_desc, USB_ENUM_BUFFER_SIZE
  <2>2. QED
    BY <1>2, <1>3, <1>10, <2>1 DEF Fits
<1>11. QED
  BY <1>1, <1>4, <1>5, <1>6, <1>7, <1>9, <1>10

\* What is stored as the next request begins.
LEMMA StoredNext ==
  ASSUME core'.enum_state \in DOMAIN NextState,
         StoredIn(Order[core'.enum_state], pipe'.ep_size, kind', enum_dev')
  PROVE  Stored(enum_dev)'
<1>1. /\ Past("EP0_SIZE")' <=> Order[core'.enum_state] > 1
      /\ Past("DEV_DESC")' <=> Order[core'.enum_state] > 2
      /\ core'.enum_state = "DESCRIPTORS" <=> Order[core'.enum_state] = 5
      /\ Past("DESCRIPTORS")' <=> Order[core'.enum_state] > 5
      /\ Past("PRODUCT")' <=> Order[core'.enum_state] > 6
  BY DEF Past, Order, NextState
<1>2. QED
  BY <1>1 DEF Stored, StoredIn

LEMMA CallbackStep ==
  ASSUME Types, Transferring, Asked, Stored(enum_dev), kind \in Devices, ~core.halted,
         NEW p, Idle(p), p.source = kind, p.ep_size = pipe.ep_size, p.addr = pipe.addr,
         NEW u, u.setup = urb.setup,
         core.enum_state # "EP0_SIZE" => u.actual = ReplyOf(kind, urb.setup),
         device # NoDevice =>
           /\ device.kind = kind
           /\ device.addr = IF core.enum_state = "SET_ADDRESS" THEN urb.setup.wValue ELSE pipe.addr,
         NEW stray, NEW h, h = usbc_enumerate_handler(core, p, u, stray),
         core' = h.core, pipe' = StartNextUrb(h.pipe), UNCHANGED device
  PROVE  core' \in Core /\ pipe' \in Pipe /\ Requests'
<1> DEFINE done == Done(core, p, u, stray)
           s == core.enum_state
           next == NextState[s]
           n == [core EXCEPT !.dev_list[1] = done.dev, !.enum_state = next]
<1>1. core \in Core /\ core.dev_list # <<>> /\ s # "IDLE" /\ s \in DOMAIN NextState
  BY UrbFacts DEF Types, Core, EnumStates, Transferring
<1>2. p \in Pipe /\ p.queue = <<>> /\ p.token = "none" /\ p.status = {}
  BY DEF Idle
<1>3. CASE ~done.ok
  <2>1. h = [core |-> panic(core), pipe |-> p]
    BY <1>1, <1>3 DEF usbc_enumerate_handler
  <2>2. core' = [core EXCEPT !.halted = TRUE] /\ pipe' = StartNextUrb(p)
    BY <2>1 DEF panic
  <2>3. pipe' = p
    BY <1>2, <2>2 DEF StartNextUrb
  <2>4. core' \in Core /\ core'.halted
    BY <1>1, <2>2 DEF Core
  <2>5. QED
    BY <1>2, <2>3, <2>4 DEF Requests
<1>4. ASSUME done.ok
      PROVE  /\ done.dev \in Dev
             /\ Idle(done.pipe) /\ done.pipe.source = kind
             /\ done.pipe.addr = IF s = "SET_ADDRESS" THEN urb.setup.wValue ELSE p.addr
             /\ s # "MANUFACTURER" =>
                  StoredIn(Order[s] + 1, done.pipe.ep_size, kind, done.dev)
             /\ s = "MANUFACTURER" =>
                  /\ done.dev.source = kind /\ TreeRight(done.dev)
                  /\ NameRight(done.dev, kind.iProduct, done.dev.product)
                  /\ NameRight(done.dev, kind.iManufacturer, done.dev.manufacturer)
  BY <1>4, DoneFacts
<1>5. next \in DOMAIN NextState /\ next \in EnumStates /\ next # "EP0_SIZE"
      /\ (s # "MANUFACTURER" => Order[next] = Order[s] + 1)
  BY <1>1 DEF NextState, EnumStates, Order
<1> HIDE DEF next
<1>6. ASSUME done.ok
      PROVE  /\ n \in Core /\ n.enum_state = next /\ n.halted = core.halted
             /\ n.dev_addr_bm = core.dev_addr_bm /\ n.dev_list # <<>> /\ Head(n.dev_list) = done.dev
  <2>1. done.dev \in Dev
    BY <1>4, <1>6
  <2> DEFINE d == done.dev
             l == core.dev_list
             m == [l EXCEPT ![1] = d]
             a == [core EXCEPT !.dev_list = m]
  <2>2. n = [a EXCEPT !.enum_state = next]
    BY <1>1 DEF Core
  <2>3. l \in Seq(Dev) /\ Len(l) \in Nat /\ Len(l) >= 1 /\ d \in Dev
    BY <1>1, <2>1 DEF Core
  <2> HIDE DEF d, l, n
  <2>4. m \in Seq(Dev) /\ Len(m) = Len(l) /\ m[1] = d
    BY <2>3
  <2> HIDE DEF m
  <2>5. m # <<>> /\ Head(m) = d
    BY <2>3, <2>4
  <2>6. a \in Core /\ a.dev_list = m /\ a.halted = core.halted /\ a.dev_addr_bm = core.dev_addr_bm
    BY <1>1, <2>4 DEF Core
  <2> HIDE DEF a
  <2>7. /\ n \in Core /\ n.enum_state = next /\ n.halted = core.halted
        /\ n.dev_addr_bm = core.dev_addr_bm /\ n.dev_list # <<>> /\ Head(n.dev_list) = d
    BY <1>5, <2>2, <2>5, <2>6 DEF Core
  <2>8. QED
    BY <2>7 DEF d
<1>7. CASE done.ok /\ s = "MANUFACTURER"
  <2>1. h = [core |-> n, pipe |-> [p EXCEPT !.token = "none"]]
    BY <1>1, <1>7 DEF usbc_enumerate_handler, next
  <2>2. next = "MANUFACTURER"
    BY <1>7 DEF next, NextState
  <2> HIDE DEF n, done
  <2>3. core' = n /\ pipe' = StartNextUrb([p EXCEPT !.token = "none"])
    BY <2>1
  <2>4. pipe' = p
    <3>1. [p EXCEPT !.token = "none"] = p
      BY <1>2 DEF Pipe
    <3>2. QED
      BY <1>2, <2>3, <3>1 DEF StartNextUrb
  <2>5. /\ core' \in Core /\ ~core'.halted /\ core'.dev_list # <<>> /\ core'.enum_state = "MANUFACTURER"
        /\ enum_dev' = done.dev
    BY <1>6, <1>7, <2>2, <2>3 DEF enum_dev
  <2>6. /\ done.dev.source = kind /\ TreeRight(done.dev)
        /\ NameRight(done.dev, kind.iProduct, done.dev.product)
        /\ NameRight(done.dev, kind.iManufacturer, done.dev.manufacturer)
    BY <1>4, <1>7
  <2>7. Resting'
    BY <1>2, <2>4, <2>5, <2>6 DEF Resting
  <2>8. QED
    BY <1>2, <2>4, <2>5, <2>7 DEF Requests
<1>8. CASE done.ok /\ s # "MANUFACTURER"
  <2> DEFINE R == RequestOf(next, n)
             q == done.pipe
             a == IF next = "SET_ADDRESS"
                    THEN [n EXCEPT !.dev_addr_bm = @ \cup {usbc_new_address(core)}] ELSE n
  <2>1. h = [core |-> a, pipe |-> usbhc_submit_urb(q, R)]
    BY <1>1, <1>8 DEF usbc_enumerate_handler, next
  <2> HIDE DEF done, n
  <2>2. /\ a \in Core /\ a.enum_state = next /\ ~a.halted /\ a.dev_list # <<>>
        /\ Head(a.dev_list) = done.dev
    <3>1. usbc_new_address(core) \in Nat
      BY NewAddress
    <3>2. QED
      BY <1>6, <1>8, <3>1 DEF Core
  <2>3. /\ done.dev \in Dev /\ Idle(q) /\ q.source = kind
        /\ q.addr = IF s = "SET_ADDRESS" THEN urb.setup.wValue ELSE pipe.addr
        /\ StoredIn(Order[next], q.ep_size, kind, done.dev)
    BY <1>4, <1>5, <1>8
  <2> HIDE DEF R, q, a
  <2> DEFINE t == usbhc_submit_urb(q, R)
  <2>4. core' = a /\ pipe' = StartNextUrb(t)
    BY <2>1
  <2>5. Order[next] > 5 => done.dev.source = kind
    <3>1. Order[next] \in Int
      BY <1>5 DEF Order, NextState
    <3>2. QED
      BY <2>3, <3>1 DEF StoredIn
  <2>6. R \in Request /\ Fits(next, done.dev, R)
    <3>1. Head(n.dev_list) = done.dev
      BY <1>6, <1>8
    <3>2. QED
      BY <1>5, <2>3, <2>5, <3>1, NextRequest DEF R
  <2>7. /\ pipe' \in Pipe /\ pipe'.state = "CTRL_OUT" /\ pipe'.queue = <<usbhc_fill_control_urb(R)>>
        /\ pipe'.ep_size = q.ep_size /\ pipe'.addr = q.addr /\ pipe'.token = "SETUP"
        /\ pipe'.ints = q.ints \cup {"TXSETUP"} /\ pipe'.status = {} /\ pipe'.fifo = 0
        /\ pipe'.source = kind /\ {"PERROR", "STALL", "NAKED"} \subseteq pipe'.ints
    <3>1. /\ q \in Pipe /\ q.queue = <<>> /\ q.fifo = 0 /\ q.status = {}
          /\ {"PERROR", "STALL", "NAKED"} \subseteq q.ints
      BY <2>3 DEF Idle
    <3> HIDE DEF t
    <3>2. pipe' = t
      BY <2>4, <2>6, <3>1, SubmitFacts DEF t
    <3>3. QED
      BY <2>3, <2>6, <3>1, <3>2, SubmitFacts DEF t
  <2>8. /\ urb'.setup = R /\ urb'.length = R.wLength /\ urb'.actual = 0 /\ kind' = kind
        /\ Len(pipe'.queue) = 1 /\ pipe'.queue # <<>> /\ enum_dev' = done.dev
        /\ core'.enum_state = next
    BY <2>2, <2>4, <2>7 DEF urb, kind, usbhc_fill_control_urb, enum_dev
  <2>9. Asked'
    <3>1. next \in {"DEV_DESC", "SET_ADDRESS", "DESC_LENGTH", "DESCRIPTORS", "PRODUCT", "MANUFACTURER"}
      BY <1>5 DEF NextState
    <3>2. QED
      BY <2>6, <2>8, <3>1 DEF Asked, Fits
  <2>10. Stored(enum_dev)'
    BY <1>5, <2>3, <2>7, <2>8, StoredNext
  <2>11. Stages'
    BY <2>7, <2>8 DEF Stages, SetupOut
  <2>12. SameDevice'
    BY <1>5, <2>3, <2>7, <2>8 DEF SameDevice, AddressMoves, Received
  <2>13. Transferring'
    <3>1. core'.enum_state # "IDLE" /\ core'.dev_list # <<>>
      BY <1>5, <2>2, <2>4 DEF NextState
    <3>2. QED
      BY <2>7, <2>8, <2>9, <2>10, <2>11, <2>12, <3>1 DEF Transferring
  <2>14. QED
    BY <2>2, <2>4, <2>7, <2>8, <2>13 DEF Requests
<1>9. QED
  BY <1>3, <1>7, <1>8

-----------------------------------------------------------------------------
(***************************************************************************)
(* The interrupt of the pipe                                               *)
(***************************************************************************)
\* The request goes on in another stage.
LEMMA NextStage ==
  ASSUME Types, ~core.halted, Transferring, SameDevice, Asked, Stored(enum_dev), kind \in Devices,
         UNCHANGED <<device, core>>, Len(pipe'.queue) = 1,
         urb'.setup = urb.setup, urb'.length = urb.length,
         pipe'.ep_size = pipe.ep_size, pipe'.addr = pipe.addr, pipe'.source = pipe.source,
         pipe'.ints = pipe.ints \/ {"PERROR", "STALL", "NAKED"} \subseteq pipe'.ints,
         Stages', ~SetupOut, AddressMoves' <=> AddressMoves
  PROVE  Requests'
<1>1. kind' = kind
  BY DEF kind
<1>2. core.enum_state \in DOMAIN NextState
  BY DEF Types, Core, EnumStates, Transferring
<1>3. Asked' /\ Stored(enum_dev)'
  BY <1>1, <1>2, SameRequest
<1>4. SameDevice'
  BY <1>1 DEF SameDevice
<1>5. Transferring'
  BY <1>3, <1>4 DEF Transferring
<1>6. ~core'.halted /\ pipe'.queue # <<>>
  <2>1. Len(<<>>) = 0
    OBVIOUS
  <2>2. QED
    BY <2>1
<1>7. QED
  BY <1>5, <1>6 DEF Requests

\* The URB that has ended leaves the queue, which is then empty.
LEMMA EndFacts ==
  ASSUME NEW q \in Pipe, NEW u, q.queue = <<u>>, q.token = "none", q.status = {}, q.fifo = 0,
         {"PERROR", "STALL", "NAKED"} \subseteq q.ints
  PROVE  /\ Idle(usbhc_end_urb(q)) /\ Head(q.queue) = u
         /\ usbhc_end_urb(q).source = q.source /\ usbhc_end_urb(q).ep_size = q.ep_size
         /\ usbhc_end_urb(q).addr = q.addr
<1>1. Tail(<<u>>) = <<>> /\ Head(<<u>>) = u /\ <<>> \in Seq(Urb)
  OBVIOUS
<1>2. usbhc_end_urb(q) = [q EXCEPT !.state = "IDLE", !.queue = <<>>]
  BY <1>1 DEF usbhc_end_urb
<1> DEFINE a == [q EXCEPT !.state = "IDLE"]
<1>3. /\ a \in Pipe /\ a.token = q.token /\ a.status = q.status /\ a.fifo = q.fifo /\ a.ints = q.ints
      /\ a.source = q.source /\ a.ep_size = q.ep_size /\ a.addr = q.addr
  BY DEF Pipe, PipeStates
<1>4. usbhc_end_urb(q) = [a EXCEPT !.queue = <<>>]
  BY <1>2 DEF Pipe
<1> DEFINE e == usbhc_end_urb(q)
<1>5. e = [a EXCEPT !.queue = <<>>]
  BY <1>4
<1> HIDE DEF a, e
<1>6. /\ e \in Pipe /\ e.queue = <<>> /\ e.token = a.token /\ e.status = a.status /\ e.fifo = a.fifo
      /\ e.ints = a.ints /\ e.source = a.source /\ e.ep_size = a.ep_size /\ e.addr = a.addr
  BY <1>1, <1>3, <1>5 DEF Pipe
<1>7. Idle(e)
  BY <1>3, <1>6 DEF Idle
<1>8. QED
  BY <1>1, <1>3, <1>6, <1>7 DEF e

\* A completed URB runs the callback.
LEMMA EndStep ==
  ASSUME Types, ~core.halted, Transferring, SameDevice, ~SetupOut, Asked, Stored(enum_dev), kind \in Devices,
         NEW q \in Pipe, NEW u, q.queue = <<u>>, q.token = "none", q.status = {}, q.fifo = 0,
         q.ints = pipe.ints, q.source = kind, q.ep_size = pipe.ep_size, q.addr = pipe.addr,
         u.setup = urb.setup, core.enum_state # "EP0_SIZE" => u.actual = ReplyOf(kind, urb.setup),
         core.enum_state = "SET_ADDRESS" => AddressMoves,
         NEW stray,
         core' = usbc_enumerate_handler(core, usbhc_end_urb(q), Head(q.queue), stray).core,
         pipe' = StartNextUrb(usbc_enumerate_handler(core, usbhc_end_urb(q), Head(q.queue), stray).pipe),
         UNCHANGED device
  PROVE  core' \in Core /\ pipe' \in Pipe /\ Requests'
<1> DEFINE p == usbhc_end_urb(q)
           h == usbc_enumerate_handler(core, p, u, stray)
<1>1. {"PERROR", "STALL", "NAKED"} \subseteq q.ints
  BY DEF Transferring
<1>2. /\ Idle(p) /\ Head(q.queue) = u /\ p.source = kind /\ p.ep_size = pipe.ep_size /\ p.addr = pipe.addr
  BY <1>1, EndFacts
<1>3. core' = h.core /\ pipe' = StartNextUrb(h.pipe)
  BY <1>2
<1>4. device # NoDevice =>
        /\ device.kind = kind
        /\ device.addr = IF core.enum_state = "SET_ADDRESS" THEN urb.setup.wValue ELSE pipe.addr
  BY DEF SameDevice, AddressMoves
<1> HIDE DEF p
<1>5. QED
  BY <1>2, <1>3, <1>4, CallbackStep

\* A request under way that has not failed, when the handler runs.
Serving(stray) ==
  /\ Types /\ ~core.halted /\ Transferring /\ Stages /\ SameDevice /\ Asked /\ Stored(enum_dev)
  /\ core' = PipeHandler(core, stray).core /\ pipe' = PipeHandler(core, stray).pipe /\ UNCHANGED device

\* A NAK is acknowledged and nothing else.
LEMMA NakedFacts ==
  ASSUME pipe \in Pipe, NEW q, q = usbhc_naked(pipe)
  PROVE  /\ q \in Pipe /\ q.state = pipe.state /\ q.queue = pipe.queue /\ q.ep_size = pipe.ep_size
         /\ q.addr = pipe.addr /\ q.token = pipe.token /\ q.ints = pipe.ints
         /\ q.status = pipe.status \ {"NAKED"} /\ q.fifo = pipe.fifo /\ q.source = pipe.source
BY DEF usbhc_naked, Pipe

LEMMA NoError == ASSUME Stages PROVE "PERROR" \notin pipe.status
BY DEF Stages, SetupOut, SetupSent, Asking, Received, StatusOut, StatusSent

\* When no completion flag is set.
LEMMA NakServed ==
  ASSUME NEW stray, Serving(stray), pipe.status \subseteq {"NAKED"}
  PROVE  core' = core /\ pipe' = usbhc_naked(pipe)
<1>1. pipe \in Pipe
  BY DEF Serving, Types
<1> DEFINE q == usbhc_naked(pipe)
<1>2. q.status = {}
  BY <1>1, NakedFacts
<1>3. usbhc_pipe_exception = [pipe |-> q, callback |-> FALSE]
  BY <1>2 DEF usbhc_pipe_exception
<1>4. "PERROR" \notin pipe.status
  OBVIOUS
<1> HIDE DEF q
<1>5. PipeHandler(core, stray) = [core |-> core, pipe |-> q]
  BY <1>3, <1>4 DEF PipeHandler
<1>6. QED
  BY <1>5 DEF Serving, q

LEMMA NakStage ==
  ASSUME NEW stray, Serving(stray), pipe.status \subseteq {"NAKED"}
  PROVE  core' \in Core /\ pipe' \in Pipe /\ Requests'
<1>1. core' = core /\ pipe' = usbhc_naked(pipe) /\ UNCHANGED device
  BY NakServed DEF Serving
<1>2. /\ pipe' \in Pipe /\ pipe'.state = pipe.state /\ pipe'.queue = pipe.queue
      /\ pipe'.ep_size = pipe.ep_size /\ pipe'.addr = pipe.addr /\ pipe'.token = pipe.token
      /\ pipe'.ints = pipe.ints /\ pipe'.status = {} /\ pipe'.fifo = pipe.fifo
      /\ pipe'.source = pipe.source
  <2>1. pipe \in Pipe
    BY DEF Serving, Types
  <2>2. QED
    BY <1>1, <2>1, NakedFacts
<1>3. urb' = urb /\ kind' = kind
  BY <1>2 DEF urb, kind
<1>4. core.enum_state \in DOMAIN NextState
  BY DEF Serving, Types, Core, EnumStates, Transferring
<1>5. Asked' /\ Stored(enum_dev)'
  BY <1>1, <1>2, <1>3, <1>4, SameRequest DEF Serving
<1>6. ~SetupSent /\ ~Received("IN") /\ ~Received("ZLP_IN") /\ ~StatusSent
  BY DEF SetupSent, Received, StatusSent
<1>7. /\ SetupOut => SetupOut'
      /\ Asking("IN") => Asking("IN")'
      /\ Asking("ZLP_IN") => Asking("ZLP_IN")'
      /\ StatusOut => StatusOut'
      /\ ~AddressMoves' /\ ~AddressMoves
  BY <1>2 DEF SetupOut, Asking, StatusOut, AddressMoves, Received
<1>8. Stages'
  <2>1. Stages
    BY DEF Serving
  <2>2. \/ SetupOut /\ "TXSETUP" \in pipe.ints /\ pipe.fifo = 0 /\ urb.actual = 0
        \/ /\ Asking("IN") /\ urb.length # 0 /\ "RXIN" \in pipe.ints /\ pipe.fifo = 0
           /\ urb.actual <= ReplyOf(kind, urb.setup)
           /\ device # NoDevice => /\ device.setup = urb.setup
                                   /\ urb.actual + device.left = ReplyOf(kind, urb.setup)
        \/ /\ Asking("ZLP_IN") /\ urb.length = 0 /\ "RXIN" \in pipe.ints /\ pipe.fifo = 0
           /\ urb.actual = 0 /\ (device # NoDevice => device.setup = urb.setup /\ device.left = 0)
        \/ /\ StatusOut /\ urb.length # 0 /\ "TXOUT" \in pipe.ints /\ pipe.fifo = 0
           /\ core.enum_state # "EP0_SIZE" => urb.actual = ReplyOf(kind, urb.setup)
    BY <1>6, <2>1 DEF Stages
  <2>3. QED
    BY <1>1, <1>2, <1>3, <1>7, <2>2 DEF Stages
<1>9. SameDevice'
  BY <1>1, <1>2, <1>3, <1>7 DEF SameDevice, Serving
<1>10. Transferring'
  BY <1>1, <1>2, <1>3, <1>5, <1>8, <1>9 DEF Transferring, Serving
<1>11. pipe.queue # <<>>
  BY UrbFacts DEF Serving
<1>12. QED
  BY <1>1, <1>2, <1>10, <1>11 DEF Requests, Serving, Types

\* After the SETUP packet the data stage or, without data, the status stage.
LEMMA SentStage ==
  ASSUME NEW stray, Serving(stray), SetupSent
  PROVE  core' \in Core /\ pipe' \in Pipe /\ Requests'
<1>1. pipe \in Pipe /\ pipe.status = {"TXSETUP"} /\ pipe.state = "CTRL_OUT" /\ pipe.token = "none"
  BY DEF Serving, Types, SetupSent
<1>2. urb \in Urb /\ pipe.queue = <<urb>> /\ Head(pipe.queue) = urb
  BY UrbFacts DEF Serving
<1>3. /\ pipe.fifo = 0 /\ urb.actual = 0
      /\ device # NoDevice => /\ device.setup = urb.setup
                              /\ device.left = ReplyOf(kind, urb.setup)
  BY DEF Serving, Stages, SetupOut, SetupSent, Asking, Received, StatusOut, StatusSent
<1>4. ~SetupOut /\ kind \in Devices
  BY DEF Serving, SameDevice, SetupOut, SetupSent
<1> DEFINE q == usbhc_naked(pipe)
           a == [q EXCEPT !.status = @ \ {"TXSETUP"}]
           st == IF urb.length # 0 THEN "IN" ELSE "ZLP_IN"
           b == [a EXCEPT !.state = st]
           e == usbhc_send_in(b)
<1>5. /\ q \in Pipe /\ q.state = pipe.state /\ q.queue = pipe.queue /\ q.ep_size = pipe.ep_size
      /\ q.addr = pipe.addr /\ q.token = pipe.token /\ q.ints = pipe.ints
      /\ q.status = {"TXSETUP"} /\ q.fifo = pipe.fifo /\ q.source = pipe.source
  BY <1>1, NakedFacts
<1>6. usbhc_pipe_exception = [pipe |-> usbhc_pipe_setup_sent(q), callback |-> FALSE]
  BY <1>5 DEF usbhc_pipe_exception
<1> HIDE DEF q
<1>7. usbhc_pipe_setup_sent(q) = e
  BY <1>2, <1>5 DEF usbhc_pipe_setup_sent
<1> HIDE DEF e, st
<1>8. PipeHandler(core, stray) = [core |-> core, pipe |-> e]
  BY <1>1, <1>6, <1>7 DEF PipeHandler
<1>9. core' = core /\ pipe' = e /\ UNCHANGED device
  BY <1>8 DEF Serving
<1>10. /\ a \in Pipe /\ a.queue = q.queue /\ a.ep_size = q.ep_size
       /\ a.addr = q.addr /\ a.token = q.token /\ a.ints = q.ints
       /\ a.status = {} /\ a.fifo = q.fifo /\ a.source = q.source
  BY <1>5 DEF Pipe
<1>11. st \in {"IN", "ZLP_IN"} /\ (st = "IN" <=> urb.length # 0)
  BY DEF st
<1> HIDE DEF a
<1>12. /\ b \in Pipe /\ b.queue = q.queue /\ b.ep_size = q.ep_size /\ b.state = st
       /\ b.addr = q.addr /\ b.token = q.token /\ b.ints = q.ints
       /\ b.status = {} /\ b.fifo = q.fifo /\ b.source = q.source
  BY <1>10, <1>11 DEF Pipe, PipeStates
<1> HIDE DEF b
<1>13. /\ e \in Pipe /\ e.queue = q.queue /\ e.ep_size = q.ep_size /\ e.state = st
       /\ e.addr = q.addr /\ e.token = "IN" /\ e.ints = q.ints \cup {"RXIN"}
       /\ e.status = {} /\ e.fifo = q.fifo /\ e.source = q.source
  BY <1>12 DEF usbhc_send_in, Pipe, Tokens, PipeFlags, e
<1>14. urb' = urb /\ kind' = kind
  BY <1>5, <1>9, <1>13 DEF urb, kind
<1>15. ReplyOf(kind, urb.setup) \in Nat /\ (urb.length = 0 => ReplyOf(kind, urb.setup) = 0)
  BY <1>4, ReplyFacts DEF Serving
<1>16. Stages'
  <2>1. /\ pipe'.state = st /\ pipe'.token = "IN" /\ pipe'.status \subseteq {"NAKED"}
        /\ "RXIN" \in pipe'.ints /\ pipe'.fifo = 0
    BY <1>3, <1>5, <1>9, <1>13
  <2>2. CASE urb.length # 0
    <3>1. Asking("IN")'
      BY <1>11, <2>1, <2>2 DEF Asking
    <3>2. /\ urb.actual <= ReplyOf(kind, urb.setup)
          /\ device # NoDevice => urb.actual + device.left = ReplyOf(kind, urb.setup)
      BY <1>3, <1>15
    <3>3. QED
      BY <1>3, <1>9, <1>14, <2>1, <2>2, <3>1, <3>2 DEF Stages
  <2>3. CASE urb.length = 0
    <3>1. Asking("ZLP_IN")'
      BY <1>11, <2>1, <2>3 DEF Asking
    <3>2. QED
      BY <1>3, <1>9, <1>14, <1>15, <2>1, <2>3, <3>1 DEF Stages
  <2>4. QED
    BY <2>2, <2>3
<1>17. AddressMoves' <=> AddressMoves
  BY <1>1, <1>9, <1>13 DEF AddressMoves, Received
<1>18. Len(pipe'.queue) = 1 /\ {"PERROR", "STALL", "NAKED"} \subseteq pipe'.ints
  BY <1>2, <1>5, <1>9, <1>13 DEF Serving, Transferring
<1>19. Requests'
  BY <1>4, <1>5, <1>9, <1>13, <1>14, <1>16, <1>17, <1>18, NextStage DEF Serving
<1>20. QED
  BY <1>9, <1>13, <1>19 DEF Serving, Types

\* The status stage of a request without data.
LEMMA StatusInStage ==
  ASSUME NEW stray, Serving(stray), Received("ZLP_IN")
  PROVE  core' \in Core /\ pipe' \in Pipe /\ Requests'
<1>1. pipe \in Pipe /\ pipe.state = "ZLP_IN" /\ pipe.token = "none" /\ "RXIN" \in pipe.status
      /\ pipe.status \ {"NAKED"} = {"RXIN"}
  BY DEF Serving, Types, Received
<1>2. urb \in Urb /\ pipe.queue = <<urb>> /\ Head(pipe.queue) = urb
  BY UrbFacts DEF Serving
<1>3. urb.length = 0 /\ "RXIN" \in pipe.ints /\ pipe.fifo = 0 /\ urb.actual = 0
  BY DEF Serving, Stages, SetupOut, SetupSent, Asking, Received, StatusOut, StatusSent
<1>4. ~SetupOut /\ kind \in Devices /\ "PERROR" \notin pipe.status
  BY NoError DEF Serving, SameDevice, SetupOut, Received
<1> DEFINE q == usbhc_naked(pipe)
           a == [q EXCEPT !.status = @ \ {"RXIN"}]
           h == usbc_enumerate_handler(core, usbhc_end_urb(a), Head(a.queue), stray)
<1>5. /\ q \in Pipe /\ q.state = pipe.state /\ q.queue = pipe.queue /\ q.ep_size = pipe.ep_size
      /\ q.addr = pipe.addr /\ q.token = pipe.token /\ q.ints = pipe.ints
      /\ q.status = {"RXIN"} /\ q.fifo = pipe.fifo /\ q.source = pipe.source
  BY <1>1, NakedFacts
<1>6. usbhc_pipe_exception = usbhc_pipe_receive_in(q)
  BY <1>3, <1>5 DEF usbhc_pipe_exception
<1> HIDE DEF q
<1>7. usbhc_pipe_receive_in(q) = [pipe |-> a, callback |-> TRUE]
  BY <1>1, <1>5 DEF usbhc_pipe_receive_in
<1>8. /\ a \in Pipe /\ a.queue = q.queue /\ a.ep_size = q.ep_size
      /\ a.addr = q.addr /\ a.token = q.token /\ a.ints = q.ints
      /\ a.status = {} /\ a.fifo = q.fifo /\ a.source = q.source
  BY <1>5 DEF Pipe
<1> HIDE DEF a
<1>9. PipeHandler(core, stray) = [core |-> h.core, pipe |-> StartNextUrb(h.pipe)]
  BY <1>4, <1>6, <1>7 DEF PipeHandler
<1> HIDE DEF h
<1>10. core' = h.core /\ pipe' = StartNextUrb(h.pipe) /\ UNCHANGED device
  BY <1>9 DEF Serving
<1>11. ReplyOf(kind, urb.setup) = 0
  BY <1>3, <1>4, ReplyFacts DEF Serving
<1>12. core.enum_state = "SET_ADDRESS" => AddressMoves
  BY DEF AddressMoves
<1>13. QED
  BY <1>1, <1>2, <1>3, <1>4, <1>5, <1>8, <1>10, <1>11, <1>12, EndStep DEF Serving, h, kind

\* The status stage of a request with data.
LEMMA StatusOutStage ==
  ASSUME NEW stray, Serving(stray), StatusSent
  PROVE  core' \in Core /\ pipe' \in Pipe /\ Requests'
<1>1. pipe \in Pipe /\ pipe.state = "ZLP_OUT" /\ pipe.token = "none" /\ pipe.status = {"TXOUT"}
  BY DEF Serving, Types, StatusSent
<1>2. urb \in Urb /\ pipe.queue = <<urb>> /\ Head(pipe.queue) = urb
  BY UrbFacts DEF Serving
<1>3. /\ urb.length # 0 /\ "TXOUT" \in pipe.ints /\ pipe.fifo = 0
      /\ core.enum_state # "EP0_SIZE" => urb.actual = ReplyOf(kind, urb.setup)
  BY DEF Serving, Stages, SetupOut, SetupSent, Asking, Received, StatusOut, StatusSent
<1>4. ~SetupOut /\ kind \in Devices /\ "PERROR" \notin pipe.status
  BY NoError DEF Serving, SameDevice, SetupOut, StatusSent
<1> DEFINE q == usbhc_naked(pipe)
           a == [q EXCEPT !.status = @ \ {"TXOUT"}]
           h == usbc_enumerate_handler(core, usbhc_end_urb(a), Head(a.queue), stray)
<1>5. /\ q \in Pipe /\ q.state = pipe.state /\ q.queue = pipe.queue /\ q.ep_size = pipe.ep_size
      /\ q.addr = pipe.addr /\ q.token = pipe.token /\ q.ints = pipe.ints
      /\ q.status = {"TXOUT"} /\ q.fifo = pipe.fifo /\ q.source = pipe.source
  BY <1>1, NakedFacts
<1>6. usbhc_pipe_exception = usbhc_transmit_out(q)
  BY <1>3, <1>5 DEF usbhc_pipe_exception
<1> HIDE DEF q
<1>7. usbhc_transmit_out(q) = [pipe |-> a, callback |-> TRUE]
  <2>1. (q.state = "ZLP_OUT") = TRUE
    BY <1>1, <1>5
  <2>2. QED
    BY <2>1 DEF usbhc_transmit_out
<1>8. /\ a \in Pipe /\ a.queue = q.queue /\ a.ep_size = q.ep_size
      /\ a.addr = q.addr /\ a.token = q.token /\ a.ints = q.ints
      /\ a.status = {} /\ a.fifo = q.fifo /\ a.source = q.source
  BY <1>5 DEF Pipe
<1> HIDE DEF a
<1>9. PipeHandler(core, stray) = [core |-> h.core, pipe |-> StartNextUrb(h.pipe)]
  BY <1>4, <1>6, <1>7 DEF PipeHandler
<1> HIDE DEF h
<1>10. core' = h.core /\ pipe' = StartNextUrb(h.pipe) /\ UNCHANGED device
  BY <1>9 DEF Serving
<1>11. core.enum_state # "SET_ADDRESS"
  <2>1. core.enum_state = "SET_ADDRESS" => urb.setup.wLength = 0
    BY DEF Serving, Asked, usbc_set_dev_addr
  <2>2. QED
    BY <1>3, <2>1 DEF Serving, Transferring
<1>12. QED
  BY <1>1, <1>2, <1>3, <1>4, <1>5, <1>8, <1>10, <1>11, EndStep DEF Serving, h, kind

\* A packet of the data stage.
LEMMA DataStage ==
  ASSUME NEW stray, Serving(stray), Received("IN")
  PROVE  core' \in Core /\ pipe' \in Pipe /\ Requests'
<1> DEFINE R == ReplyOf(kind, urb.setup)
<1>1. pipe \in Pipe /\ pipe.state = "IN" /\ pipe.token = "none" /\ "RXIN" \in pipe.status
      /\ pipe.status \ {"NAKED"} = {"RXIN"} /\ pipe.fifo \in Nat /\ pipe.ep_size \in Nat
  BY DEF Serving, Types, Received, Pipe
<1>2. urb \in Urb /\ pipe.queue = <<urb>> /\ Head(pipe.queue) = urb /\ urb.actual \in Nat /\ urb.length \in Nat
  BY UrbFacts DEF Serving, Urb
<1>3. /\ urb.length # 0 /\ "RXIN" \in pipe.ints
      /\ urb.actual + pipe.fifo <= R /\ pipe.fifo <= kind.ep0
      /\ pipe.fifo < kind.ep0 => urb.actual + pipe.fifo = R
      /\ device # NoDevice => device.setup = urb.setup /\ urb.actual + pipe.fifo + device.left = R
  BY DEF Serving, Stages, SetupOut, SetupSent, Asking, Received, StatusOut, StatusSent
<1>4. ~SetupOut /\ kind \in Devices /\ "PERROR" \notin pipe.status /\ ~AddressMoves
  BY NoError DEF Serving, SameDevice, SetupOut, Received, AddressMoves
<1>5. R \in Nat /\ R <= urb.length /\ kind.ep0 \in Nat
  BY <1>4, ReplyFacts, DeviceAssumption DEF Serving
<1>6. core.enum_state # "SET_ADDRESS"
  <2>1. core.enum_state = "SET_ADDRESS" => urb.setup.wLength = 0
    BY DEF Serving, Asked, usbc_set_dev_addr
  <2>2. QED
    BY <1>3, <2>1 DEF Serving, Transferring
<1>7. core.enum_state # "EP0_SIZE" => pipe.ep_size = kind.ep0
  <2>1. core.enum_state \in DOMAIN NextState
    BY DEF Serving, Types, Core, EnumStates, Transferring
  <2>2. core.enum_state # "EP0_SIZE" => Past("EP0_SIZE")
    BY <2>1 DEF Past, Order, NextState
  <2>3. QED
    BY <2>2 DEF Serving, Stored
<1> HIDE DEF R
<1> DEFINE n == urb.actual + pipe.fifo
           u == [urb EXCEPT !.actual = n]
<1>8. n \in Nat /\ n <= R /\ Min({n, urb.length}) = n
  BY <1>1, <1>2, <1>3, <1>5, MinTwo
<1>9. u \in Urb /\ u.setup = urb.setup /\ u.length = urb.length /\ u.actual = n
  BY <1>2, <1>8 DEF Urb
<1> DEFINE q == usbhc_naked(pipe)
           a == [q EXCEPT !.status = @ \ {"RXIN"}]
           b == [a EXCEPT !.queue = <<u>>]
           read == usbhc_in(a)
<1>10. /\ q \in Pipe /\ q.state = pipe.state /\ q.queue = pipe.queue /\ q.ep_size = pipe.ep_size
       /\ q.addr = pipe.addr /\ q.token = pipe.token /\ q.ints = pipe.ints
       /\ q.status = {"RXIN"} /\ q.fifo = pipe.fifo /\ q.source = pipe.source
  BY <1>1, NakedFacts
<1>11. usbhc_pipe_exception = usbhc_pipe_receive_in(q)
  BY <1>3, <1>10 DEF usbhc_pipe_exception
<1> HIDE DEF q
<1>12. /\ a \in Pipe /\ a.queue = <<urb>> /\ a.ep_size = pipe.ep_size /\ a.state = "IN"
       /\ a.addr = pipe.addr /\ a.token = "none" /\ a.ints = pipe.ints
       /\ a.status = {} /\ a.fifo = pipe.fifo /\ a.source = pipe.source
  BY <1>1, <1>2, <1>10 DEF Pipe
<1>13. usbhc_pipe_receive_in(q) =
         IF pipe.fifo # pipe.ep_size
           THEN [pipe |-> usbhc_control_status_out(
                            [read EXCEPT !.state = "ZLP_OUT", !.ints = @ \ {"RXIN"}]),
                 callback |-> FALSE]
         ELSE IF read.queue[1].actual >= read.queue[1].length
           THEN [pipe |-> read, callback |-> TRUE]
         ELSE [pipe |-> usbhc_send_in(read), callback |-> FALSE]
  <2>1. q.state # "ZLP_IN" /\ q.fifo = pipe.fifo /\ q.ep_size = pipe.ep_size
    BY <1>1, <1>10
  <2> HIDE DEF read, a
  <2>2. QED
    BY <2>1 DEF usbhc_pipe_receive_in, read, a
<1> HIDE DEF a
<1>14. /\ b \in Pipe /\ b.queue = <<u>> /\ b.ep_size = pipe.ep_size /\ b.state = "IN"
       /\ b.addr = pipe.addr /\ b.token = "none" /\ b.ints = pipe.ints
       /\ b.status = {} /\ b.fifo = pipe.fifo /\ b.source = pipe.source
  <2>1. <<u>> \in Seq(Urb)
    BY <1>9
  <2> HIDE DEF u
  <2>2. QED
    BY <1>12, <2>1 DEF Pipe
<1>15. read = [b EXCEPT !.fifo = 0]
  <2>1. a.queue[1] = urb /\ Min({urb.actual + a.fifo, urb.length}) = n
    BY <1>8, <1>12
  <2>2. [a.queue EXCEPT ![1].actual = n] = <<u>>
    <3>1. a.queue = <<urb>>
      BY <1>12
    <3>2. [<<urb>> EXCEPT ![1].actual = n] = <<[urb EXCEPT !.actual = n]>>
      <4> HIDE DEF n
      <4>1. QED
        OBVIOUS
    <3>3. QED
      BY <3>1, <3>2
  <2>3. read = [a EXCEPT !.queue = <<u>>, !.fifo = 0]
    <3> HIDE DEF n, u
    <3>1. read = [a EXCEPT !.queue[1].actual = n, !.fifo = 0]
      BY <2>1 DEF usbhc_in
    <3>2. [a EXCEPT !.queue[1].actual = n, !.fifo = 0]
            = [a EXCEPT !.queue = [a.queue EXCEPT ![1].actual = n], !.fifo = 0]
      BY <1>12 DEF Pipe
    <3>3. QED
      BY <2>2, <3>1, <3>2
  <2> HIDE DEF read, u
  <2>4. QED
    BY <1>12, <2>3 DEF Pipe
<1> HIDE DEF b
<1>16. /\ read \in Pipe /\ read.queue = <<u>> /\ read.ep_size = pipe.ep_size /\ read.state = "IN"
       /\ read.addr = pipe.addr /\ read.token = "none" /\ read.ints = pipe.ints
       /\ read.status = {} /\ read.fifo = 0 /\ read.source = pipe.source
  <2> HIDE DEF read, u
  <2>1. QED
    BY <1>14, <1>15 DEF Pipe
<1> HIDE DEF read
<1>17. read.queue[1] = u /\ Head(read.queue) = u
  <2> HIDE DEF u
  <2>1. QED
    BY <1>16
<1> HIDE DEF u
<1>18. core' = PipeHandler(core, stray).core /\ pipe' = PipeHandler(core, stray).pipe /\ UNCHANGED device
  BY DEF Serving
<1>19. CASE pipe.fifo # pipe.ep_size
  <2> DEFINE c == [read EXCEPT !.state = "ZLP_OUT", !.ints = @ \ {"RXIN"}]
             e == [c EXCEPT !.token = "OUT", !.status = @ \ {"TXOUT"}, !.ints = @ \cup {"TXOUT"}]
  <2>1. usbhc_pipe_exception = [pipe |-> e, callback |-> FALSE]
    BY <1>11, <1>13, <1>19 DEF usbhc_control_status_out
  <2>2. /\ c \in Pipe /\ c.queue = <<u>> /\ c.ep_size = pipe.ep_size /\ c.state = "ZLP_OUT"
        /\ c.addr = pipe.addr /\ c.ints = pipe.ints \ {"RXIN"}
        /\ c.status = {} /\ c.fifo = 0 /\ c.source = pipe.source
    BY <1>16 DEF Pipe, PipeStates
  <2> HIDE DEF c
  <2>3. /\ e \in Pipe /\ e.queue = <<u>> /\ e.ep_size = pipe.ep_size /\ e.state = "ZLP_OUT"
        /\ e.addr = pipe.addr /\ e.ints = (pipe.ints \ {"RXIN"}) \cup {"TXOUT"} /\ e.token = "OUT"
        /\ e.status = {} /\ e.fifo = 0 /\ e.source = pipe.source
    BY <2>2 DEF Pipe, Tokens, PipeFlags
  <2> HIDE DEF e
  <2>4. core' = core /\ pipe' = e
    BY <1>4, <1>18, <2>1 DEF PipeHandler
  <2>5. urb' = u /\ kind' = kind /\ Len(pipe'.queue) = 1
    BY <2>3, <2>4 DEF urb, kind
  <2>6. core.enum_state # "EP0_SIZE" => n = R
    BY <1>1, <1>3, <1>5, <1>7, <1>19
  <2>7. Stages'
    <3>1. StatusOut'
      BY <2>3, <2>4 DEF StatusOut
    <3>2. core'.enum_state # "EP0_SIZE" => urb'.actual = ReplyOf(kind, urb.setup)'
      BY <1>9, <2>4, <2>5, <2>6 DEF R, ReplyOf
    <3>3. QED
      BY <1>3, <1>9, <2>3, <2>4, <2>5, <3>1, <3>2 DEF Stages
  <2>8. ~AddressMoves'
    BY <2>3, <2>4 DEF AddressMoves, Received
  <2>9. {"PERROR", "STALL", "NAKED"} \subseteq pipe'.ints
    BY <2>3, <2>4 DEF Serving, Transferring
  <2>10. Requests'
    BY <1>4, <1>9, <1>18, <2>3, <2>4, <2>5, <2>7, <2>8, <2>9, NextStage DEF Serving
  <2>11. QED
    BY <2>3, <2>4, <2>10 DEF Serving, Types
<1>20. CASE pipe.fifo = pipe.ep_size /\ n >= urb.length
  <2> DEFINE h == usbc_enumerate_handler(core, usbhc_end_urb(read), Head(read.queue), stray)
  <2>1. usbhc_pipe_exception = [pipe |-> read, callback |-> TRUE]
    BY <1>9, <1>11, <1>13, <1>17, <1>20
  <2>2. PipeHandler(core, stray) = [core |-> h.core, pipe |-> StartNextUrb(h.pipe)]
    BY <1>4, <2>1 DEF PipeHandler
  <2> HIDE DEF h
  <2>3. core' = h.core /\ pipe' = StartNextUrb(h.pipe) /\ UNCHANGED device
    BY <1>18, <2>2
  <2>4. u.actual = ReplyOf(kind, urb.setup)
    BY <1>2, <1>5, <1>8, <1>9, <1>20 DEF R
  <2>5. QED
    BY <1>4, <1>6, <1>9, <1>16, <2>3, <2>4, EndStep DEF Serving, h, kind
<1>21. CASE pipe.fifo = pipe.ep_size /\ ~(n >= urb.length)
  <2> DEFINE e == [read EXCEPT !.token = "IN", !.status = @ \ {"RXIN"}, !.ints = @ \cup {"RXIN"}]
  <2>1. usbhc_pipe_exception = [pipe |-> e, callback |-> FALSE]
    BY <1>9, <1>11, <1>13, <1>17, <1>21 DEF usbhc_send_in
  <2>2. /\ e \in Pipe /\ e.queue = <<u>> /\ e.ep_size = pipe.ep_size /\ e.state = "IN"
        /\ e.addr = pipe.addr /\ e.ints = pipe.ints \cup {"RXIN"} /\ e.token = "IN"
        /\ e.status = {} /\ e.fifo = 0 /\ e.source = pipe.source
    BY <1>16 DEF Pipe, Tokens, PipeFlags
  <2> HIDE DEF e
  <2>3. core' = core /\ pipe' = e
    BY <1>4, <1>18, <2>1 DEF PipeHandler
  <2>4. urb' = u /\ kind' = kind /\ Len(pipe'.queue) = 1
    BY <2>2, <2>3 DEF urb, kind
  <2>5. Stages'
    <3>1. Asking("IN")'
      BY <2>2, <2>3 DEF Asking
    <3>2. ReplyOf(kind, urb.setup)' = R
      BY <1>9, <2>4 DEF R, ReplyOf
    <3>3. QED
      BY <1>3, <1>8, <1>9, <1>18, <2>2, <2>3, <2>4, <3>1, <3>2 DEF Stages
  <2>6. ~AddressMoves'
    BY <2>2, <2>3 DEF AddressMoves, Received
  <2>7. {"PERROR", "STALL", "NAKED"} \subseteq pipe'.ints
    BY <2>2, <2>3 DEF Serving, Transferring
  <2>8. Requests'
    BY <1>4, <1>9, <1>18, <2>2, <2>3, <2>4, <2>5, <2>6, <2>7, NextStage DEF Serving
  <2>9. QED
    BY <2>2, <2>3, <2>8 DEF Serving, Types
<1>22. QED
  BY <1>19, <1>20, <1>21

\* The pipe part of the interrupt, in every stage.
LEMMA PipeStep ==
  ASSUME UsbInv, ~core.halted, NEW stray,
         core' = PipeHandler(core, stray).core, pipe' = PipeHandler(core, stray).pipe, UNCHANGED device
  PROVE  core' \in Core /\ pipe' \in Pipe /\ Requests'
<1>1. Types /\ Requests
  BY DEF UsbInv
<1>2. CASE pipe.queue = <<>>
  <2> DEFINE q == usbhc_naked(pipe)
  <2>1. Resting /\ pipe.status = {} /\ pipe \in Pipe
    BY <1>1, <1>2 DEF Requests, Resting, Types
  <2>2. q = pipe
    <3>1. [pipe EXCEPT !.status = pipe.status \ {"NAKED"}] = pipe
      BY <2>1 DEF Pipe
    <3>2. QED
      BY <3>1 DEF usbhc_naked
  <2>3. usbhc_pipe_exception = [pipe |-> pipe, callback |-> FALSE]
    BY <2>1, <2>2 DEF usbhc_pipe_exception
  <2>4. PipeHandler(core, stray) = [core |-> core, pipe |-> pipe]
    BY <2>1, <2>3 DEF PipeHandler
  <2>5. core' = core /\ pipe' = pipe
    BY <2>4
  <2>6. QED
    BY <1>1, <2>1, <2>5, SamePipe DEF Types
<1>3. CASE pipe.queue # <<>> /\ "PERROR" \in pipe.status
  <2>1. PipeHandler(core, stray) = [core |-> panic(core), pipe |-> pipe]
    BY <1>3 DEF PipeHandler
  <2>2. core' = [core EXCEPT !.halted = TRUE] /\ pipe' = pipe
    BY <2>1 DEF panic
  <2>3. core' \in Core /\ core'.halted
    BY <1>1, <2>2 DEF Types, Core
  <2>4. pipe.token = "none"
    BY <1>1, <1>3, NoError DEF Requests, Transferring, Failed
  <2>5. QED
    BY <1>1, <2>2, <2>3, <2>4 DEF Requests, Types
<1>4. CASE pipe.queue # <<>> /\ "PERROR" \notin pipe.status
  <2>1. Transferring /\ ~Failed
    BY <1>1, <1>4 DEF Requests, Failed
  <2>2. Serving(stray)
    BY <1>1, <2>1 DEF Serving, Transferring
  <2>3. \/ pipe.status \subseteq {"NAKED"} \/ SetupSent \/ Received("IN")
        \/ Received("ZLP_IN") \/ StatusSent
    BY <2>2 DEF Serving, Stages, SetupOut, Asking, StatusOut
  <2>4. QED
    BY <2>2, <2>3, NakStage, SentStage, DataStage, StatusInStage, StatusOutStage
<1>5. QED
  BY <1>2, <1>3, <1>4

\* The root hub's event after a reset: pipe 0 goes back to address 0 and the
\* enumeration begins.
LEMMA StartStep ==
  ASSUME UsbInv, ~core.halted, Quiet, device # NoDevice => device.addr = 0, NEW garbage \in Garbage,
         core' = usbc_start_enum(core, pipe, garbage).core,
         pipe' = usbc_start_enum(core, pipe, garbage).pipe, UNCHANGED device
  PROVE  core' \in Core /\ pipe' \in Pipe /\ Requests'
<1> DEFINE q == usbhc_pipe_configure([pipe EXCEPT !.state = "CLAIMED"], 64, 0)
           req == usbc_get_dev_desc(FALSE)
           r == usbhc_submit_urb(q, req)
<1>1. pipe \in Pipe /\ core \in Core /\ pipe.queue = <<>>
  BY DEF UsbInv, Types, Quiet
<1>2. /\ q \in Pipe /\ q.queue = <<>> /\ q.addr = 0 /\ q.token = "none"
      /\ q.ints = {"PERROR", "STALL", "NAKED"} /\ q.status = {} /\ q.fifo = 0
  BY <1>1, ConfigureFacts
<1>3. CASE ~usbhc_alloc_urb(core)
  <2>1. usbc_start_enum(core, pipe, garbage) = [core |-> panic(core), pipe |-> q]
    BY <1>3 DEF usbc_start_enum
  <2> HIDE DEF q
  <2>2. core' = [core EXCEPT !.halted = TRUE] /\ pipe' = q
    BY <2>1 DEF panic
  <2>3. core' \in Core /\ core'.halted
    BY <1>1, <2>2 DEF Core
  <2>4. QED
    BY <1>2, <2>2, <2>3 DEF Requests
<1>4. CASE usbhc_alloc_urb(core)
  <2> DEFINE dev == [address |-> 0, ep0_size |-> 0, source |-> NoDevice, desc_total_size |-> 0,
                     num_configs |-> garbage, leftover |-> garbage, mem |-> <<>>, iface_list |-> <<>>,
                     product |-> None, manufacturer |-> None]
             l == <<dev>> \o core.dev_list
             c == [core EXCEPT !.dev_list = l]
             n == [c EXCEPT !.enum_state = "EP0_SIZE"]
  <2>1. usbc_start_enum(core, pipe, garbage) = [core |-> n, pipe |-> r]
    BY <1>4 DEF usbc_start_enum, usbc_add_device
  <2>2. /\ dev \in Dev /\ dev.product = None /\ dev.manufacturer = None
        /\ dev.num_configs = dev.leftover + 0
    <3>1. <<>> \in Memories
      <4>1. <<>> = [x \in {} |-> 0] /\ [x \in {} |-> 0] \in [{} -> Node]
        OBVIOUS
      <4>2. {} \in SUBSET Nat
        OBVIOUS
      <4>3. QED
        BY <4>1, <4>2 DEF Memories
    <3>2. garbage \in Nat /\ None \in Int /\ <<>> \in Seq(Nat) /\ NoDevice \in Sources
      BY UsbAssumption DEF None, Sources
    <3>3. QED
      BY <3>1, <3>2 DEF Dev
  <2> HIDE DEF dev
  <2>3. l \in Seq(Dev) /\ Len(l) >= 1 /\ l[1] = dev
    BY <1>1, <2>2 DEF Core
  <2> HIDE DEF l
  <2>4. l # <<>> /\ Head(l) = dev
    BY <2>3
  <2>5. c \in Core /\ c.dev_list = l /\ c.halted = core.halted
    BY <1>1, <2>3 DEF Core
  <2> HIDE DEF c
  <2>6. n \in Core /\ n.dev_list = l /\ ~n.halted /\ n.enum_state = "EP0_SIZE"
    BY <2>5 DEF Core, EnumStates, NextState
  <2>7. req \in Request /\ req.wLength \in Nat
    BY DEF usbc_get_dev_desc, GetDesc, Request
  <2> HIDE DEF n, q, r, req
  <2>8. core' = n /\ pipe' = r
    BY <2>1
  <2>9. /\ pipe' \in Pipe /\ pipe'.state = "CTRL_OUT" /\ pipe'.queue = <<usbhc_fill_control_urb(req)>>
        /\ pipe'.addr = 0 /\ pipe'.token = "SETUP"
        /\ pipe'.ints = q.ints \cup {"TXSETUP"} /\ pipe'.status = {} /\ pipe'.fifo = 0
    BY <1>2, <2>7, <2>8, SubmitFacts DEF r
  <2>10. /\ urb'.setup = req /\ urb'.length = req.wLength /\ urb'.actual = 0
         /\ Len(pipe'.queue) = 1 /\ pipe'.queue # <<>> /\ enum_dev' = dev
         /\ core'.enum_state = "EP0_SIZE" /\ core'.dev_list # <<>>
    BY <2>4, <2>6, <2>8, <2>9 DEF urb, enum_dev, usbhc_fill_control_urb
  <2>11. Asked'
    BY <2>10 DEF Asked, req
  <2>12. Stored(enum_dev)'
    <3>1. /\ ~Past("EP0_SIZE")' /\ ~Past("DEV_DESC")' /\ ~Past("DESC_LENGTH")'
          /\ ~Past("DESCRIPTORS")' /\ ~Past("PRODUCT")'
      BY <2>10 DEF Past, Order
    <3>2. QED
      BY <2>2, <2>10, <3>1 DEF Stored
  <2>13. SetupOut' /\ Stages'
    BY <2>9, <2>10 DEF Stages, SetupOut
  <2>14. SameDevice'
    BY <2>9, <2>10, <2>13 DEF SameDevice, AddressMoves
  <2>15. {"PERROR", "STALL", "NAKED"} \subseteq pipe'.ints
    BY <1>2, <2>9
  <2>16. Transferring'
    BY <2>10, <2>11, <2>12, <2>13, <2>14, <2>15 DEF Transferring
  <2>17. QED
    BY <2>6, <2>8, <2>9, <2>10, <2>16 DEF Requests
<1>5. QED
  BY <1>3, <1>4

\* usb_exception after it has read the status: in the phase of the hub in which
\* the reset is over, the pipe has no interrupt.
LEMMA RunStep == ASSUME UsbInv, RunHandlers PROVE UsbInv'
<1> DEFINE A(stray) == IF "PIPE" \in isr THEN PipeHandler(core, stray) ELSE [core |-> core, pipe |-> pipe]
<1>1. /\ ~core.halted /\ flags' = {} /\ isr' = {} /\ UNCHANGED device
      /\ resetting' = (resetting \/ "CONN" \in isr)
  BY DEF RunHandlers, HubException, busVars
<1>2. PICK garbage \in Garbage, stray \in BOOLEAN :
        core' = root_hub_event(A(stray), garbage).core /\ pipe' = root_hub_event(A(stray), garbage).pipe
  <2>1. PICK garbage \in Garbage, stray \in BOOLEAN :
          \E x \in {A(stray)} : \E b \in {root_hub_event(x, garbage)} : core' = b.core /\ pipe' = b.pipe
    BY Zenon DEF RunHandlers
  <2>2. QED
    BY <2>1
<1> DEFINE a == A(stray)
<1>3. Types /\ HubInv /\ Requests
  BY DEF UsbInv
<1>4. resetting' \in BOOLEAN /\ flags' \subseteq HubFlags /\ isr' \subseteq HubFlags \cup {"PIPE"}
      /\ device' \in Attached \cup {NoDevice}
  BY <1>1, <1>3 DEF Types
<1>5. CASE "PIPE" \in isr
  <2>1. ~Plugged /\ ~resetting /\ ~ResetOver
    BY <1>3, <1>5 DEF HubInv, Quiet
  <2>2. "RST" \notin isr /\ "CONN" \notin isr
    BY <2>1 DEF Plugged, ResetOver
  <2>3. core' = PipeHandler(core, stray).core /\ pipe' = PipeHandler(core, stray).pipe
    BY <1>2, <1>5, <2>2 DEF root_hub_event
  <2>4. core' \in Core /\ pipe' \in Pipe /\ Requests'
    BY <1>1, <2>3, PipeStep
  <2>5. HubInv'
    BY <1>1, <2>1, <2>2 DEF HubInv, Plugged, ResetOver
  <2>6. QED
    BY <1>4, <2>4, <2>5 DEF UsbInv, Types
<1>6. CASE "PIPE" \notin isr /\ "RST" \in isr
  <2>1. ResetOver
    BY <1>6 DEF ResetOver
  <2>2. ~Plugged /\ ~resetting /\ Quiet /\ (device # NoDevice => device.addr = 0)
    BY <1>3, <2>1 DEF HubInv
  <2>3. "CONN" \notin isr
    BY <2>2 DEF Plugged
  <2>4. root_hub_event(a, garbage) = usbc_start_enum(core, pipe, garbage)
    BY <1>1, <1>6 DEF root_hub_event
  <2>5. core' \in Core /\ pipe' \in Pipe /\ Requests'
    BY <1>1, <1>2, <2>2, <2>4, StartStep
  <2>6. HubInv'
    BY <1>1, <2>2, <2>3 DEF HubInv, Plugged, ResetOver
  <2>7. QED
    BY <1>4, <2>5, <2>6 DEF UsbInv, Types
<1>7. CASE "PIPE" \notin isr /\ "RST" \notin isr
  <2>1. root_hub_event(a, garbage) = [core |-> core, pipe |-> pipe]
    BY <1>7 DEF root_hub_event
  <2>2. core' = core /\ pipe' = pipe
    BY <1>2, <2>1
  <2>3. Requests'
    BY <1>1, <1>3, <2>2, SamePipe
  <2>4. HubInv'
    <3>1. ~Plugged' /\ ~ResetOver'
      BY <1>1 DEF Plugged, ResetOver
    <3>2. ASSUME resetting' PROVE Quiet' /\ (device' # NoDevice => device'.addr = 0)
      <4>1. resetting \/ Plugged
        BY <1>1, <3>2 DEF Plugged
      <4>2. Quiet /\ (device # NoDevice => device.addr = 0)
        BY <1>3, <4>1 DEF HubInv
      <4>3. QED
        BY <1>1, <2>2, <4>2 DEF Quiet, PipeInterrupt
    <3>3. QED
      BY <3>1, <3>2 DEF HubInv
  <2>5. QED
    BY <1>3, <1>4, <2>2, <2>3, <2>4 DEF UsbInv, Types
<1>8. QED
  BY <1>5, <1>6, <1>7

-----------------------------------------------------------------------------
(***************************************************************************)
(* The theorems                                                            *)
(***************************************************************************)
LEMMA UsbInit == ASSUME Init PROVE UsbInv
<1>1. /\ flags = {} /\ resetting = FALSE /\ isr = {} /\ pipe = usbhc_pipe_init
      /\ device = NoDevice /\ core = usbc_init
  BY DEF Init, HubInit
<1>2. /\ pipe \in Pipe /\ pipe.queue = <<>> /\ pipe.token = "none" /\ pipe.status = {}
  BY <1>1 DEF usbhc_pipe_init, Pipe, PipeStates, Tokens, Sources
<1>3. core \in Core /\ ~core.halted /\ core.dev_list = <<>>
  BY <1>1 DEF usbc_init, Core, EnumStates
<1>4. Types
  BY <1>1, <1>2, <1>3 DEF Types
<1>5. HubInv
  BY <1>1 DEF HubInv, Plugged, ResetOver
<1>6. Requests
  BY <1>2, <1>3 DEF Requests, Resting
<1>7. QED
  BY <1>4, <1>5, <1>6 DEF UsbInv

LEMMA UsbStutter == ASSUME UsbInv, UNCHANGED vars PROVE UsbInv'
<1>1. UNCHANGED <<flags, resetting, isr, pipe, device, core>>
  BY DEF vars, hubVars, busVars
<1>2. Types' /\ HubInv'
  BY <1>1 DEF UsbInv, Types, HubInv, Plugged, ResetOver, Quiet, PipeInterrupt
<1>3. Requests'
  BY <1>1, SamePipe DEF UsbInv
<1>4. QED
  BY <1>2, <1>3 DEF UsbInv

\* Types, the phases of the root hub and the stages of the one request under
\* way hold together whatever the bus and the interrupt do.
THEOREM UsbInvariant == Spec => []UsbInv
<1>1. Init => UsbInv
  BY UsbInit
<1>2. UsbInv /\ [Next]_vars => UsbInv'
  <2> SUFFICES ASSUME UsbInv, [Next]_vars PROVE UsbInv'
    OBVIOUS
  <2>1. CASE usb_exception
    BY <2>1, ReadStep
  <2>2. CASE RunHandlers
    BY <2>2, RunStep
  <2>3. CASE Attach /\ UNCHANGED core
    BY <2>3, AttachStep
  <2>4. CASE Detach /\ UNCHANGED core
    BY <2>4, DetachStep
  <2>5. CASE ResetDone /\ UNCHANGED core
    BY <2>5, ResetStep
  <2>6. CASE StartOfFrame /\ UNCHANGED core
    BY <2>6, FrameStep
  <2>7. CASE SetupTransaction /\ UNCHANGED core
    BY <2>7, SetupStep
  <2>8. CASE InTransaction /\ UNCHANGED core
    BY <2>8, InStep
  <2>9. CASE OutTransaction /\ UNCHANGED core
    BY <2>9, OutStep
  <2>10. CASE NoAnswer /\ UNCHANGED core
    BY <2>10, NoAnswerStep
  <2>11. CASE Nak /\ UNCHANGED core
    BY <2>11, NakStep
  <2>12. CASE UNCHANGED vars
    BY <2>12, UsbStutter
  <2>13. QED
    BY <2>1, <2>2, <2>3, <2>4, <2>5, <2>6, <2>7, <2>8, <2>9, <2>10, <2>11, <2>12
       DEF Next, Bus, Transaction
<1>3. QED
  BY <1>1, <1>2, PTL DEF Spec

\* usbc_address_done moves pipe 0 when the device has moved, and
\* usbc_start_enum brings it back to address 0 for the next device.
THEOREM TokensReachTheDevice == Spec => []AddressesAgree
<1>1. UsbInv => AddressesAgree
  <2>1. SUFFICES ASSUME UsbInv, pipe.token # "none", device # NoDevice
                 PROVE  device.addr = pipe.addr
    BY DEF AddressesAgree
  <2>2. SameDevice
    BY <2>1, TokenOut
  <2>3. ~AddressMoves
    BY <2>1 DEF AddressMoves, Received
  <2>4. QED
    BY <2>1, <2>2, <2>3 DEF SameDevice
<1>2. QED
  BY <1>1, UsbInvariant, PTL

\* The URB at the head of the queue waits for a token that is out or for an
\* interrupt that is pending: usbhc_end_urb, the callback and every stage
\* leave one of the two, or the code has panicked.
THEOREM QueueKeepsMoving == Spec => []QueueMoves
<1>1. UsbInv => QueueMoves
  BY Moves DEF UsbInv, Requests, QueueMoves
<1>2. QED
  BY <1>1, UsbInvariant, PTL

\* When the enumeration has ended, the tree that usbc_parse_descriptors built
\* is the device's, num_configs has counted its configurations on top of what
\* the memory held, its drivers match and its names have their length. This is
\* of devices whose descriptors have lengths and fit enum_buffer (UsbAssumption).
THEOREM EnumerationRight == Spec => []EnumeratedRight
<1>1. UsbInv => EnumeratedRight
  <2>1. SUFFICES ASSUME UsbInv, Finished PROVE EnumeratedRight
    BY DEF EnumeratedRight
  <2>2. pipe.queue = <<>> /\ core.dev_list # <<>> /\ ~core.halted
    BY <2>1 DEF Finished, Enumerating
  <2>3. Resting
    BY <2>1, <2>2 DEF UsbInv, Requests
  <2>4. /\ TreeRight(enum_dev)
        /\ NameRight(enum_dev, enum_dev.source.iProduct, enum_dev.product)
        /\ NameRight(enum_dev, enum_dev.source.iManufacturer, enum_dev.manufacturer)
    BY <2>2, <2>3 DEF Resting
  <2>5. QED
    BY <2>4, Zenon DEF EnumeratedRight, TreeRight
<1>2. QED
  BY <1>1, UsbInvariant, PTL
=============================================================================
