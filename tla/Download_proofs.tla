-------------------------- MODULE Download_proofs ---------------------------
(***************************************************************************)
(* The safety of a download for images and applications of every length,   *)
(* and any number of resets, cut lines, stopped programmers and timeouts.  *)
(* At any time at most one frame is under way: the invariant follows it    *)
(* from the programmer through the receiver and the device to the answer.  *)
(***************************************************************************)
EXTENDS Download, ListLemmas

\* Every page of the new image has a number that the flash command can hold.
SmallImage == ImageBase + Len(NewImage) <= FcrPages

-----------------------------------------------------------------------------
(* The frames of the programmers                                            *)

Steps(t) == IF t = "kernel" THEN 3 + Len(NewImage) ELSE 1 + Len(AppBinary)

\* The command and the data of the s-th frame.
Cmd(t, s) ==
  IF t = "kernel"
    THEN IF s = 2 THEN CMD_SET_FLASH_OFFSET ELSE IF s = 3 THEN CMD_ERASE_FLASH
         ELSE IF s = 3 + Len(NewImage) THEN CMD_WRITE_PAGE_LAST ELSE CMD_WRITE_PAGE
    ELSE IF s = 1 THEN CMD_ALLOCATE_MEM
         ELSE IF s = 1 + Len(AppBinary) THEN CMD_BINARY_LAST ELSE CMD_BINARY

Data(t, s) ==
  IF t = "kernel"
    THEN IF s = 2 THEN 0 ELSE IF s = 3 THEN Len(NewImage) ELSE NewImage[s - 3]
    ELSE IF s = 1 THEN Len(AppBinary) ELSE AppBinary[s - 1]

\* The s-th thing that t writes is a frame.
IsFrame(t, s) ==
  /\ t \in {"kernel", "app"} /\ s \in 1 .. Steps(t) /\ (t = "kernel" => s >= 2)

-----------------------------------------------------------------------------
(* The phases of a frame                                                    *)

\* The first n pages are those of the new image.
Written(n) == \A i \in 1 .. n : flash[i - 1] = NewImage[i]

\* The memory and the counters are as frame s of t finds them.
Ready(t, s) ==
  /\ t = "kernel" /\ s = 3 => kernel_page = 0
  /\ t = "kernel" /\ s > 3 => /\ kernel_page = s - 4 /\ Written(s - 4)
                              /\ kernel_total_size >= Len(NewImage)
  /\ t = "app" /\ s > 1 =>
       buffer = [cap |-> Len(AppBinary), data |-> [i \in 1 .. s - 2 |-> AppBinary[i]],
                 relocs |-> 0]

\* The program that frame s of t is for is running.
Placed(t, s) ==
  IF t = "kernel" THEN mode = "bootloader"
  ELSE mode = "kernel" \/ (s = 1 /\ mode = "bootloader")

\* A frame that nobody will look at is an application's, in the bootloader.
Ignored == mode = "bootloader" /\ frame.cmd = CMD_ALLOCATE_MEM

Sent(t, s) == host = [tool |-> t, step |-> s, sent |-> TRUE]

\* The programmer waits for the answer to s, unless it has given up.
Waits(t, s) == host = noHost \/ (Sent(t, s) /\ resp = <<>>)

\* The receiver's state after k bytes of a frame.
At(k) == <<"IDLE", "CMD", "SIZE", "SIZE", "PAYLOAD", "FCS", "END">>[k + 1]

Received(k, cmd, data) ==
  /\ bus_state = At(k)
  /\ k >= 2 => frame.cmd = cmd
  /\ k = 2 => frame.size = 0 /\ frame.index = 0
  /\ k = 3 => frame.size = 1 /\ frame.index = 1
  /\ k = 4 => frame.size = 1 /\ frame.index = 0
  /\ k >= 5 => frame.size = 1 /\ frame.payload[1] = Byte(data)
  /\ k = 6 => frame.fcs = crc_calculate(cmd, 1, <<Byte(data)>>)

Calm == pc = "poll" /\ fpi_pc = "poll"

\* The answer to frame s, or to the last one, has not been read.
Answered(t, s) ==
  /\ s \in 1 .. Steps(t) /\ Sent(t, s) /\ resp # <<>>
  /\ s < Steps(t) => \E x \in {RESP_OK, RESP_ERROR} :
                        /\ resp = <<x>>
                        /\ \/ s \in Tested(t) /\ x # RESP_OK
                           \/ Placed(t, s + 1) /\ Ready(t, s + 1)

\* Nothing is under way, or an answer is.
Still ==
  /\ line = <<>> /\ bus_state = "IDLE" /\ Calm
  /\ mode \in {"bootloader", "kernel", "panic"} /\ (frame_received => Ignored \/ mode = "panic")
  /\ \/ host = noHost
     \/ \E t \in {"kernel", "app"} : \E s \in 1 .. Steps(t) :
          Sent(t, s) /\ resp = <<>> /\ (mode = "panic" \/ Ignored)
     \/ \E t \in {"kernel", "app"} : \E s \in 2 .. Steps(t) :
          /\ host = [tool |-> t, step |-> s, sent |-> FALSE] /\ resp = <<>>
          /\ ~frame_received /\ Placed(t, s) /\ Ready(t, s)
     \/ \E t \in {"kernel", "app"} : \E s \in 1 .. Steps(t) : ~frame_received /\ Answered(t, s)

\* The 0x00 that kernel_prog begins with is on the line.
Waking ==
  /\ line = <<ZERO>> /\ bus_state = "IDLE" /\ Calm
  /\ mode \in {"bootloader", "kernel"} /\ (frame_received => Ignored)
  /\ Waits("kernel", 1)

\* k bytes of frame s of t have arrived, and the line holds the rest of it up to
\* byte m: all of it, unless the programmer was stopped.
Moving(t, s, k, m) ==
  /\ line = SubSeq(send_frame(Cmd(t, s), Data(t, s)), k + 1, m)
  /\ host # noHost => m = 7
  /\ Received(k, Cmd(t, s), Data(t, s)) /\ Calm
  /\ frame_received => t = "app" /\ Ignored
  /\ Placed(t, s) /\ Ready(t, s) /\ Waits(t, s)

\* Frame s of t has arrived and is being handled.
Arrived(t, s) ==
  /\ line = <<>> /\ bus_state = "IDLE" /\ frame_received /\ Waits(t, s)
  /\ frame.cmd = Cmd(t, s) /\ frame.payload[1] = Byte(Data(t, s))

BootHandles(s) ==
  /\ Arrived("kernel", s) /\ mode = "bootloader" /\ fpi_pc = "poll"
  /\ \/ pc = "poll" /\ Ready("kernel", s)
     \/ pc = "offset" /\ s = 2
     \/ pc = "erase_size" /\ s = 3 /\ Ready("kernel", s)
     \/ /\ pc = "erase" /\ s = 3 /\ Ready("kernel", s)
        /\ op.blocks = (Len(NewImage) + BlockPages - 1) \div BlockPages
     \/ /\ pc = IF s = Steps("kernel") THEN "write_last" ELSE "write"
        /\ s > 3 /\ Ready("kernel", s)
     \/ /\ pc = IF s = Steps("kernel") THEN "program_last" ELSE "program"
        /\ s > 3 /\ op.page = s - 4 /\ op.buffer = NewImage[s - 3] /\ Written(s - 4)
        /\ kernel_total_size >= Len(NewImage)
        /\ s < Steps("kernel") => kernel_page = s - 3

FpiHandles(s) ==
  /\ Arrived("app", s) /\ mode = "kernel" /\ pc = "poll"
  /\ \/ fpi_pc = "poll" /\ Ready("app", s)
     \/ fpi_pc = "answer" /\ (s < Steps("app") => Ready("app", s + 1))

\* The last page is written and answered, the hash is not stored yet.
Storing ==
  /\ line = <<>> /\ bus_state = "IDLE" /\ ~frame_received
  /\ mode = "bootloader" /\ pc = "store" /\ fpi_pc = "poll"
  /\ Holds(NewImage) /\ kernel_total_size >= Len(NewImage)
  /\ host = noHost \/ (Sent("kernel", Steps("kernel")) /\ resp # <<>>)

\* The board starts; the programmer may wait for the bootloader's first answer
\* or still have to read the last one.
Booting ==
  /\ line = <<>> /\ mode = "boot" /\ fpi_pc = "poll"
  /\ \/ host = noHost
     \/ Sent("kernel", 1) /\ resp = <<>> /\ signature
     \/ Sent("kernel", Steps("kernel")) /\ Steps("kernel") > 1 /\ resp # <<>>

Phase ==
  \/ Still \/ Waking \/ Storing \/ Booting
  \/ \E t \in {"kernel", "app"} : \E s \in 1 .. Steps(t), k \in 0 .. 6 : \E m \in k .. 7 :
       IsFrame(t, s) /\ Moving(t, s, k, m)
  \/ \E s \in 2 .. Steps("kernel") : BootHandles(s)
  \/ \E s \in 1 .. Steps("app") : FpiHandles(s)

-----------------------------------------------------------------------------
(* The inductive invariant                                                  *)

CheckSequences == {ZERO} \cup {crc_calculate(c, 1, <<Byte(d)>>) : c \in Nat, d \in Nat}

FrameType ==
  [cmd : Nat, size : Nat, index : Nat, payload : Seq(Seq(Nat)), fcs : CheckSequences]

Types ==
  /\ frame \in FrameType /\ Len(frame.payload) >= 1
  /\ op \in [page : Nat, buffer : Nat, blocks : Nat]
  /\ flash \in [Pages -> Nat] /\ kernel_total_size \in Nat /\ kernel_page \in Nat
  /\ frame_received \in BOOLEAN /\ signature \in BOOLEAN
  /\ resp \in Seq({RESP_OK, RESP_ERROR})

\* A stored digest that can match is that of a whole image: a torn one matches
\* nothing, and the right one does not match another size.
HashOK ==
  /\ hash_sector.size \in Nat
  /\ \/ hash_sector.size \in {0, Blank} \/ hash_sector.digest = <<Torn>>
     \/ DOMAIN hash_sector.digest # Covered(hash_sector.size)
     \/ \E image \in {OldImage, NewImage} :
          /\ Len(image) <= hash_sector.size
          /\ \A i \in 1 .. Len(image) : hash_sector.digest[i - 1] = image[i]

DownloadInv == Types /\ HashOK /\ BootsWholeImage /\ AppIntact /\ Phase

-----------------------------------------------------------------------------
(* Bytes and frames                                                         *)

\* q is what is left of w after k of it, up to the m-th.
Rest(q, w, k, m) ==
  /\ Len(q) = m - k
  /\ q = <<>> <=> m = k
  /\ m # k => Head(q) = w[k + 1] /\ Tail(q) = SubSeq(w, k + 2, m)
  /\ \A n \in 0 .. Len(q) : SubSeq(q, 1, n) = SubSeq(w, k + 1, k + n)

LEMMA RestFacts ==
  ASSUME NEW S, NEW w \in Seq(S), Len(w) = 7, NEW k \in 0 .. 6, NEW m \in k .. 7,
         NEW q, q = SubSeq(w, k + 1, m)
  PROVE  Rest(q, w, k, m)
<1>1. Len(q) = m - k /\ q \in Seq(S)
  <2>1. k \in Int /\ k + 1 \in Int /\ m \in Int /\ k + 1 .. m \subseteq 1 .. 7
    OBVIOUS
  <2>4. \A i \in 1 .. 7 : w[i] \in S
    BY ElementOfSeq
  <2>5. \A i \in k + 1 .. m : w[i] \in S
    BY <2>1, <2>4
  <2>2. q \in Seq(S) /\ Len(q) = IF k + 1 <= m THEN m - (k + 1) + 1 ELSE 0
    BY <2>1, <2>5, SubSeqProperties
  <2>3. QED
    BY <2>2
<1>2. q = <<>> <=> m = k
  <2>1. q = <<>> <=> Len(q) = 0
    BY <1>1, EmptySeq
  <2>2. QED
    BY <1>1, <2>1
<1>3. ASSUME m # k PROVE Head(q) = w[k + 1] /\ Tail(q) = SubSeq(w, k + 2, m)
  BY <1>1, <1>3
<1>4. ASSUME NEW n \in 0 .. Len(q) PROVE SubSeq(q, 1, n) = SubSeq(w, k + 1, k + n)
  BY <1>1
<1>5. QED
  BY <1>1, <1>2, <1>3, <1>4 DEF Rest

\* A sequence of seven.
Seven(w) == \E S : w \in Seq(S) /\ Len(w) = 7

\* The seven bytes of a frame.
Layout(w, c, d) ==
  /\ w[1] = START_BYTE /\ w[2] = Byte(c) /\ w[3] = Byte(1) /\ w[4] = Byte(0)
  /\ w[5] = Byte(d) /\ w[6] = crc_calculate(c, 1, <<Byte(d)>>) /\ w[7] = END_BYTE

LEMMA FrameBytes ==
  ASSUME NEW c, NEW d, NEW w, w = send_frame(c, d)
  PROVE  Seven(w) /\ Layout(w, c, d)
<1>1. PICK x1, x2, x3, x4, x5, x6, x7 :
        /\ x1 = START_BYTE /\ x2 = Byte(c) /\ x3 = Byte(1) /\ x4 = Byte(0)
        /\ x5 = Byte(d) /\ x6 = crc_calculate(c, 1, <<Byte(d)>>) /\ x7 = END_BYTE
  OBVIOUS
<1>2. w = <<x1, x2, x3, x4, x5, x6, x7>>
  BY <1>1 DEF send_frame
<1>3. w \in Seq({x1, x2, x3, x4, x5, x6, x7})
  BY <1>2
<1>4. /\ Len(w) = 7 /\ w[1] = x1 /\ w[2] = x2 /\ w[3] = x3 /\ w[4] = x4 /\ w[5] = x5
      /\ w[6] = x6 /\ w[7] = x7
  BY <1>2
<1>5. QED
  BY <1>1, <1>3, <1>4 DEF Seven, Layout

\* What the programmers write at each step.
LEMMA ScriptFacts ==
  /\ Len(Script("kernel")) = Steps("kernel") /\ Len(Script("app")) = Steps("app")
  /\ Steps("kernel") \in Nat /\ Steps("kernel") >= 3
  /\ Steps("app") \in Nat /\ Steps("app") >= 1
  /\ Script("kernel")[1] = <<ZERO>>
  /\ \A t, s : IsFrame(t, s) =>
       /\ Script(t)[s] = send_frame(Cmd(t, s), Data(t, s))
       /\ Cmd(t, s) \in Nat /\ Data(t, s) \in Nat
<1>1. /\ Len(NewImage) \in Nat /\ Len(AppBinary) \in Nat
      /\ NewImage \in Seq(Nat) /\ AppBinary \in Seq(Nat)
  BY ImageAssumption
<1>3. PICK a, b, p : /\ a = <<ZERO>> /\ b = send_frame(CMD_SET_FLASH_OFFSET, 0)
                     /\ p = send_frame(CMD_ERASE_FLASH, Len(NewImage))
  OBVIOUS
<1>4. PICK q : q = [i \in 1 .. Len(NewImage) |->
               send_frame(IF i = Len(NewImage) THEN CMD_WRITE_PAGE_LAST ELSE CMD_WRITE_PAGE,
                          NewImage[i])]
  OBVIOUS
<1>5. Script("kernel") = <<a, b, p>> \o q
  BY <1>3, <1>4 DEF Script
<1>6. PICK S : S = {a, b, p} \cup {q[i] : i \in 1 .. Len(NewImage)}
  OBVIOUS
<1>7. q \in Seq(S) /\ Len(q) = Len(NewImage) /\ <<a, b, p>> \in Seq(S)
  BY <1>1, <1>4, <1>6
<1>8. /\ Len(Script("kernel")) = 3 + Len(NewImage)
      /\ Script("kernel")[1] = a /\ Script("kernel")[2] = b /\ Script("kernel")[3] = p
      /\ \A i \in 1 .. Len(NewImage) : Script("kernel")[i + 3] = q[i]
  BY <1>1, <1>5, <1>7
<1>9. PICK u : u = send_frame(CMD_ALLOCATE_MEM, Len(AppBinary))
  OBVIOUS
<1>10. PICK v : v = [i \in 1 .. Len(AppBinary) |->
               send_frame(IF i = Len(AppBinary) THEN CMD_BINARY_LAST ELSE CMD_BINARY,
                          AppBinary[i])]
  OBVIOUS
<1>11. Script("app") = <<u>> \o v
  BY <1>9, <1>10 DEF Script
<1>12. PICK T : T = {u} \cup {v[i] : i \in 1 .. Len(AppBinary)}
  OBVIOUS
<1>13. v \in Seq(T) /\ Len(v) = Len(AppBinary) /\ <<u>> \in Seq(T)
  BY <1>1, <1>10, <1>12
<1>14. /\ Len(Script("app")) = 1 + Len(AppBinary) /\ Script("app")[1] = u
       /\ \A i \in 1 .. Len(AppBinary) : Script("app")[i + 1] = v[i]
  BY <1>1, <1>11, <1>13
<1>15. ASSUME NEW s, IsFrame("kernel", s)
       PROVE  /\ Script("kernel")[s] = send_frame(Cmd("kernel", s), Data("kernel", s))
              /\ Cmd("kernel", s) \in Nat /\ Data("kernel", s) \in Nat
  <2>1. s \in 2 .. 3 + Len(NewImage)
    BY <1>1, <1>15 DEF IsFrame, Steps
  <2>2. Cmd("kernel", s) \in Nat
    BY DEF Cmd, CMD_SET_FLASH_OFFSET, CMD_ERASE_FLASH, CMD_WRITE_PAGE_LAST, CMD_WRITE_PAGE
  <2>3. CASE s \in {2, 3}
    BY <1>1, <1>3, <1>8, <2>2, <2>3 DEF Cmd, Data
  <2>4. CASE s \notin {2, 3}
    <3>1. PICK i \in 1 .. Len(NewImage) : i = s - 3 /\ i + 3 = s
      BY <1>1, <2>1, <2>4
    <3>2. Script("kernel")[s] = q[i] /\ NewImage[i] \in Nat
      BY <1>1, <1>8, <3>1, SMTT(20)
    <3>3. (i = Len(NewImage)) <=> (s = 3 + Len(NewImage))
      BY <1>1, <3>1
    <3>4. QED
      BY <1>4, <2>2, <2>4, <3>1, <3>2, <3>3 DEF Cmd, Data
  <2>5. QED
    BY <2>3, <2>4
<1>16. ASSUME NEW s, IsFrame("app", s)
       PROVE  /\ Script("app")[s] = send_frame(Cmd("app", s), Data("app", s))
              /\ Cmd("app", s) \in Nat /\ Data("app", s) \in Nat
  <2>1. s \in 1 .. 1 + Len(AppBinary)
    BY <1>1, <1>16 DEF IsFrame, Steps
  <2>2. Cmd("app", s) \in Nat
    BY DEF Cmd, CMD_ALLOCATE_MEM, CMD_BINARY, CMD_BINARY_LAST
  <2>3. CASE s = 1
    BY <1>1, <1>9, <1>14, <2>2, <2>3 DEF Cmd, Data
  <2>4. CASE s # 1
    <3>1. PICK i \in 1 .. Len(AppBinary) : i = s - 1 /\ i + 1 = s
      BY <1>1, <2>1, <2>4
    <3>2. Script("app")[s] = v[i] /\ AppBinary[i] \in Nat
      BY <1>1, <1>14, <3>1
    <3>3. (i = Len(AppBinary)) <=> (s = 1 + Len(AppBinary))
      BY <1>1, <3>1
    <3>4. QED
      BY <1>10, <2>2, <2>4, <3>1, <3>2, <3>3 DEF Cmd, Data
  <2>5. QED
    BY <2>3, <2>4
<1>17. /\ Len(Script("kernel")) = Steps("kernel") /\ Len(Script("app")) = Steps("app")
       /\ Steps("kernel") \in Nat /\ Steps("kernel") >= 3
       /\ Steps("app") \in Nat /\ Steps("app") >= 1 /\ Script("kernel")[1] = <<ZERO>>
  BY <1>1, <1>3, <1>8, <1>14 DEF Steps
<1>18. QED
  BY <1>15, <1>16, <1>17 DEF IsFrame

-----------------------------------------------------------------------------
(* Which phase it is                                                        *)

\* A record of the programmer is none or says that something was sent.
LEMMA HostFacts ==
  /\ noHost.sent = FALSE
  /\ \A t, s : Sent(t, s) => host # noHost /\ host.sent /\ host.tool = t /\ host.step = s
BY DEF noHost, Sent

\* Only one program runs, and its place tells the phase.
LEMMA Located ==
  ASSUME Phase
  PROVE  /\ mode = "boot" => Booting
         /\ mode = "bootloader" /\ pc = "store" => Storing
         /\ mode = "bootloader" /\ pc \notin {"poll", "store"} =>
              \E s \in 2 .. Steps("kernel") : BootHandles(s)
         /\ mode = "kernel" /\ (fpi_pc = "answer" \/ frame_received) =>
              \E s \in 1 .. Steps("app") : FpiHandles(s)
         /\ mode = "bootloader" /\ pc = "poll" /\ frame_received /\ frame.cmd # CMD_ALLOCATE_MEM =>
              \E s \in 2 .. Steps("kernel") : BootHandles(s)
         /\ mode # "boot" /\ line # <<>> =>
              \/ Waking
              \/ \E t \in {"kernel", "app"} : \E s \in 1 .. Steps(t), k \in 0 .. 6 :
                   \E m \in k .. 7 : IsFrame(t, s) /\ Moving(t, s, k, m)
         /\ host.sent /\ resp # <<>> => Still \/ Storing \/ Booting
         /\ host # noHost /\ ~host.sent => Still
<1>1. CASE Still
  BY <1>1 DEF Still, Calm, Ignored
<1>2. CASE Waking
  BY <1>2, HostFacts DEF Waking, Calm, Ignored, Waits
<1>3. CASE Storing
  BY <1>3, HostFacts DEF Storing
<1>4. CASE Booting
  BY <1>4, HostFacts DEF Booting
<1>5. ASSUME NEW t \in {"kernel", "app"}, NEW s \in 1 .. Steps(t), NEW k \in 0 .. 6,
             NEW m \in k .. 7, IsFrame(t, s), Moving(t, s, k, m)
      PROVE  /\ mode \in {"bootloader", "kernel"} /\ pc = "poll" /\ fpi_pc = "poll"
             /\ frame_received => mode = "bootloader" /\ frame.cmd = CMD_ALLOCATE_MEM
             /\ host = noHost \/ (host.sent /\ resp = <<>>)
  BY <1>5, HostFacts DEF Moving, Calm, Placed, Ignored, Waits
<1>6. ASSUME NEW s \in 2 .. Steps("kernel"), BootHandles(s)
      PROVE  /\ mode = "bootloader" /\ pc # "store" /\ fpi_pc = "poll" /\ line = <<>>
             /\ host = noHost \/ (host.sent /\ resp = <<>>)
  BY <1>6, HostFacts DEF BootHandles, Arrived, Waits
<1>7. ASSUME NEW s \in 1 .. Steps("app"), FpiHandles(s)
      PROVE  /\ mode = "kernel" /\ pc = "poll" /\ line = <<>>
             /\ host = noHost \/ (host.sent /\ resp = <<>>)
  BY <1>7, HostFacts DEF FpiHandles, Arrived, Waits
<1>8. CASE \E t \in {"kernel", "app"} : \E s \in 1 .. Steps(t), k \in 0 .. 6 : \E m \in k .. 7 :
             IsFrame(t, s) /\ Moving(t, s, k, m)
  BY <1>5, <1>8, HostFacts
<1>9. CASE \E s \in 2 .. Steps("kernel") : BootHandles(s)
  BY <1>6, <1>9, HostFacts
<1>10. CASE \E s \in 1 .. Steps("app") : FpiHandles(s)
  BY <1>7, <1>10, HostFacts
<1>11. QED
  BY <1>1, <1>2, <1>3, <1>4, <1>8, <1>9, <1>10 DEF Phase

\* What the hash and the images say stays true while neither changes.
LEMMA DataKept ==
  ASSUME DownloadInv, UNCHANGED <<flash, hash_sector, app>>,
         mode' = "kernel" => mode = "kernel"
  PROVE  HashOK' /\ BootsWholeImage' /\ AppIntact'
BY DEF DownloadInv, HashOK, BootsWholeImage, AppIntact, Holds

LEMMA TypesKept ==
  ASSUME Types, resp' \in Seq({RESP_OK, RESP_ERROR}),
         UNCHANGED <<frame, op, flash, kernel_total_size, kernel_page, frame_received, signature>>
  PROVE  Types'
BY DEF Types

LEMMA ReadyKept ==
  ASSUME UNCHANGED <<flash, kernel_page, kernel_total_size, buffer>>,
         NEW t, NEW s, Ready(t, s)
  PROVE  Ready(t, s)'
BY DEF Ready, Written

-----------------------------------------------------------------------------
(* The programmers                                                          *)

\* A programmer that gives up or is stopped leaves the phase as it is.
LEMMA GivesUp ==
  ASSUME DownloadInv, host' = noHost, UNCHANGED <<line, deviceVars>>
  PROVE  Phase'
<1> USE DEF deviceVars, bootVars, fpiVars
<1>1. CASE Still
  BY <1>1 DEF Still, Calm, Ignored, Phase
<1>2. CASE Waking
  BY <1>2 DEF Waking, Calm, Ignored, Waits, Phase
<1>3. CASE Storing
  BY <1>3 DEF Storing, Holds, Phase
<1>4. CASE Booting
  BY <1>4 DEF Booting, Phase
<1>5. ASSUME NEW t \in {"kernel", "app"}, NEW s \in 1 .. Steps(t), NEW k \in 0 .. 6,
             NEW m \in k .. 7, IsFrame(t, s), Moving(t, s, k, m)
      PROVE  Moving(t, s, k, m)'
  <2>1. Ready(t, s)'
    BY <1>5, ReadyKept DEF Moving
  <2>2. QED
    BY <1>5, <2>1 DEF Moving, Received, Calm, Placed, Ignored, Waits
<1>6. ASSUME NEW s \in 2 .. Steps("kernel"), BootHandles(s)
      PROVE  BootHandles(s)'
  <2>1. Ready("kernel", s) => Ready("kernel", s)'
    BY ReadyKept
  <2>2. QED
    BY <1>6, <2>1 DEF BootHandles, Arrived, Waits, Written
<1>7. ASSUME NEW s \in 1 .. Steps("app"), FpiHandles(s)
      PROVE  FpiHandles(s)'
  <2>1. Ready("app", s) => Ready("app", s)'
    BY ReadyKept
  <2>2. Ready("app", s + 1) => Ready("app", s + 1)'
    BY ReadyKept
  <2>3. QED
    BY <1>7, <2>1, <2>2 DEF FpiHandles, Arrived, Waits
<1>8. QED
  BY <1>1, <1>2, <1>3, <1>4, <1>5, <1>6, <1>7 DEF DownloadInv, Phase

LEMMA TimeoutStep == ASSUME DownloadInv, HostTimeout PROVE DownloadInv'
<1>1. host' = noHost /\ UNCHANGED <<line, resp, deviceVars>>
  BY DEF HostTimeout
<1>2. Phase'
  BY <1>1, GivesUp
<1>3. Types'
  BY <1>1, TypesKept DEF DownloadInv, Types, deviceVars, bootVars
<1>4. HashOK' /\ BootsWholeImage' /\ AppIntact'
  BY <1>1, DataKept DEF deviceVars, bootVars, fpiVars
<1>5. QED
  BY <1>2, <1>3, <1>4 DEF DownloadInv

\* A cut line keeps a beginning of what was on it.
LEMMA CutStep == ASSUME DownloadInv, Cut PROVE DownloadInv'
<1> USE DEF deviceVars, bootVars, fpiVars
<1>1. /\ host' = noHost /\ UNCHANGED <<resp, deviceVars>>
      /\ \E n \in 0 .. Len(line) : line' = SubSeq(line, 1, n)
  BY DEF Cut
<1>2. Types'
  BY <1>1, TypesKept DEF DownloadInv, Types
<1>3. HashOK' /\ BootsWholeImage' /\ AppIntact'
  BY <1>1, DataKept
<1>4. CASE line = <<>>
  <2>1. line' = <<>>
    BY <1>1, <1>4
  <2>2. QED
    BY <1>1, <1>2, <1>3, <1>4, <2>1, GivesUp DEF DownloadInv
<1>5. CASE Waking
  <2>1. line' = line \/ line' = <<>>
    <3>1. PICK n \in 0 .. 1 : line' = SubSeq(<<ZERO>>, 1, n)
      BY <1>1, <1>5 DEF Waking
    <3>2. n = 0 \/ n = 1
      OBVIOUS
    <3>3. SubSeq(<<ZERO>>, 1, 0) = <<>> /\ SubSeq(<<ZERO>>, 1, 1) = <<ZERO>>
      <4>1. PICK z : z = ZERO
        OBVIOUS
      <4>2. <<z>> \in Seq({z}) /\ Len(<<z>>) = 1
        OBVIOUS
      <4>3. SubSeq(<<z>>, 1, Len(<<z>>)) = <<z>>
        BY <4>2, SubSeqFull
      <4>4. SubSeq(<<z>>, 1, 0) = <<>>
        BY 1 \in Int, 0 \in Int, 0 < 1, SubSeqEmpty
      <4>5. QED
        BY <4>1, <4>2, <4>3, <4>4
    <3>4. QED
      BY <1>5, <3>1, <3>2, <3>3 DEF Waking
  <2>2. CASE line' = <<>>
    <3>1. Still'
      BY <1>1, <1>5, <2>2 DEF Waking, Still, Calm, Ignored
    <3>2. QED
      BY <1>2, <1>3, <3>1 DEF DownloadInv, Phase
  <2>3. QED
    BY <1>1, <1>2, <1>3, <2>1, <2>2, GivesUp DEF DownloadInv
<1>6. ASSUME NEW t \in {"kernel", "app"}, NEW s \in 1 .. Steps(t), NEW k \in 0 .. 6,
             NEW m \in k .. 7, IsFrame(t, s), Moving(t, s, k, m)
      PROVE  Phase'
  <2>1. PICK w : w = send_frame(Cmd(t, s), Data(t, s))
    OBVIOUS
  <2>3. PICK S : w \in Seq(S) /\ Len(w) = 7
    <3>1. Seven(w)
      BY <2>1, FrameBytes
    <3>2. QED
      BY <3>1 DEF Seven
  <2>4. line = SubSeq(w, k + 1, m)
    BY <1>6, <2>1 DEF Moving
  <2>5. PICK n \in 0 .. m - k : line' = SubSeq(w, k + 1, k + n)
    <3>1. PICK q : q = SubSeq(w, k + 1, m) /\ q = line
      BY <2>4
    <3>2. Rest(q, w, k, m)
      BY <2>3, <3>1, RestFacts
    <3>3. QED
      BY <1>1, <3>1, <3>2 DEF Rest
  <2>6. PICK l \in k .. 7 : l = k + n
    OBVIOUS
  <2>7. Ready(t, s)'
    BY <1>1, <1>6, ReadyKept DEF Moving
  <2>8. Moving(t, s, k, l)'
    BY <1>1, <1>6, <2>1, <2>5, <2>6, <2>7 DEF Moving, Received, Calm, Placed, Ignored, Waits
  <2>9. QED
    BY <1>6, <2>8 DEF Phase
<1>7. CASE mode = "boot"
  BY <1>4, <1>7, Located DEF DownloadInv, Booting
<1>8. QED
  BY <1>2, <1>3, <1>4, <1>5, <1>6, <1>7, Located DEF DownloadInv

\* The programmer reads an answer and goes on or ends.
LEMMA ResponseStep == ASSUME DownloadInv, GetResponse PROVE DownloadInv'
<1> USE DEF deviceVars, bootVars, fpiVars
<1>1. /\ host.sent /\ resp # <<>> /\ resp' = Tail(resp) /\ UNCHANGED <<line, deviceVars>>
      /\ host' = IF \/ host.step \in Tested(host.tool) /\ Head(resp) # RESP_OK
                    \/ host.step = Len(Script(host.tool))
                   THEN noHost
                   ELSE [host EXCEPT !.step = @ + 1, !.sent = FALSE]
  BY DEF GetResponse
<1>2. Types'
  BY <1>1, TypesKept DEF DownloadInv, Types
<1>3. HashOK' /\ BootsWholeImage' /\ AppIntact'
  BY <1>1, DataKept
<1>4. CASE host' = noHost
  BY <1>1, <1>2, <1>3, <1>4, GivesUp DEF DownloadInv
<1>5. CASE host' # noHost
  <2>1. ~Sent("kernel", Steps("kernel"))
    BY <1>1, <1>5, HostFacts, ScriptFacts
  <2>2. Still
    BY <1>1, <2>1, HostFacts, Located DEF DownloadInv, Storing, Booting
  <2>14. PICK t \in {"kernel", "app"} : \E s \in 1 .. Steps(t) : ~frame_received /\ Answered(t, s)
    BY <1>1, <2>2, HostFacts DEF Still
  <2>3. PICK s \in 1 .. Steps(t) : ~frame_received /\ Answered(t, s)
    BY <2>14
  <2>4. s # Steps(t) /\ s \in Nat /\ Steps(t) \in Nat
    BY <1>1, <1>5, <2>3, HostFacts, ScriptFacts DEF Answered
  <2>5. s < Steps(t)
    BY <2>4
  <2>6. PICK x : /\ resp = <<x>>
                 /\ \/ s \in Tested(t) /\ x # RESP_OK
                    \/ Placed(t, s + 1) /\ Ready(t, s + 1)
    BY <2>3, <2>5 DEF Answered
  <2>7. resp' = <<>> /\ Head(resp) = x
    BY <1>1, <2>6
  <2>8. Placed(t, s + 1) /\ Ready(t, s + 1)
    BY <1>1, <1>5, <2>3, <2>6, <2>7, HostFacts DEF Answered
  <2>9. host' = [tool |-> t, step |-> s + 1, sent |-> FALSE]
    BY <1>1, <1>5, <2>3 DEF Answered, Sent
  <2>10. PICK j \in 2 .. Steps(t) : j = s + 1
    BY <2>4, <2>5
  <2>11. Ready(t, j)' /\ Placed(t, j)'
    BY <1>1, <2>8, <2>10, ReadyKept DEF Placed
  <2>12. Still'
    BY <1>1, <2>2, <2>3, <2>7, <2>9, <2>10, <2>11 DEF Still, Calm, Ignored
  <2>13. QED
    BY <1>2, <1>3, <2>12 DEF DownloadInv, Phase
<1>6. QED
  BY <1>4, <1>5

\* A frame that was just written.
LEMMA WholeFrame ==
  ASSUME NEW c, NEW d, NEW w, w = send_frame(c, d)
  PROVE  <<>> \o w = w /\ w = SubSeq(w, 0 + 1, 7)
<1>1. Seven(w)
  BY FrameBytes
<1>2. PICK S : w \in Seq(S) /\ Len(w) = 7
  BY <1>1 DEF Seven
<1>3. <<>> \o w = w
  BY <1>2, ConcatEmptySeq
<1>4. SubSeq(w, 1, Len(w)) = w
  BY <1>2, SubSeqFull
<1>5. QED
  BY <1>2, <1>3, <1>4

\* A frame that was just written is under way, and none of it has arrived.
LEMMA NewFrame ==
  ASSUME NEW t \in {"kernel", "app"}, NEW s \in 1 .. Steps(t), IsFrame(t, s),
         NEW w, w = send_frame(Cmd(t, s), Data(t, s)), line' = w,
         (bus_state = "IDLE")', Calm', Placed(t, s)', Ready(t, s)', Waits(t, s)',
         (frame_received => t = "app" /\ Ignored)'
  PROVE  Phase'
<1>1. w = SubSeq(w, 0 + 1, 7)
  BY WholeFrame
<1>2. Received(0, Cmd(t, s), Data(t, s))'
  BY DEF Received, At
<1>3. Moving(t, s, 0, 7)'
  BY <1>1, <1>2 DEF Moving
<1>4. 0 \in 0 .. 6 /\ 7 \in 0 .. 7
  OBVIOUS
<1>5. QED
  BY <1>3, <1>4 DEF Phase

LEMMA SendStep == ASSUME DownloadInv, SendNext PROVE DownloadInv'
<1> USE DEF deviceVars, bootVars, fpiVars
<1>1. /\ host # noHost /\ ~host.sent /\ UNCHANGED <<resp, deviceVars>>
      /\ line' = line \o Script(host.tool)[host.step] /\ host' = [host EXCEPT !.sent = TRUE]
  BY DEF SendNext
<1>2. Types'
  BY <1>1, TypesKept DEF DownloadInv, Types
<1>3. HashOK' /\ BootsWholeImage' /\ AppIntact'
  BY <1>1, DataKept
<1>4. Still
  BY <1>1, Located DEF DownloadInv
<1>5. PICK t \in {"kernel", "app"} : \E s \in 2 .. Steps(t) :
          /\ host = [tool |-> t, step |-> s, sent |-> FALSE] /\ resp = <<>>
          /\ ~frame_received /\ Placed(t, s) /\ Ready(t, s)
  BY <1>1, <1>4, HostFacts DEF Still, Answered
<1>6. PICK s \in 2 .. Steps(t) :
          /\ host = [tool |-> t, step |-> s, sent |-> FALSE] /\ resp = <<>>
          /\ ~frame_received /\ Placed(t, s) /\ Ready(t, s)
  BY <1>5
<1>7. Steps(t) \in Nat
  BY ScriptFacts
<1>8. s \in 1 .. Steps(t) /\ IsFrame(t, s)
  BY <1>7 DEF IsFrame
<1>9. PICK w : w = send_frame(Cmd(t, s), Data(t, s))
  OBVIOUS
<1>10. line' = w
  <2>1. line = <<>> /\ Script(host.tool)[host.step] = w
    BY <1>4, <1>6, <1>8, <1>9, ScriptFacts DEF Still
  <2>2. QED
    BY <1>1, <1>9, <2>1, WholeFrame
<1>11. Ready(t, s)' /\ Placed(t, s)'
  BY <1>1, <1>6, ReadyKept DEF Placed
<1>12. Waits(t, s)'
  BY <1>1, <1>6 DEF Waits, Sent
<1>13. (bus_state = "IDLE")' /\ Calm' /\ ~frame_received'
  BY <1>1, <1>4, <1>6 DEF Still, Calm
<1>14. Phase'
  BY <1>8, <1>9, <1>10, <1>11, <1>12, <1>13, NewFrame
<1>15. QED
  BY <1>2, <1>3, <1>14 DEF DownloadInv

\* On a quiet device nothing is under way.
LEMMA QuietRests ==
  ASSUME Phase, host = noHost, Quiet, mode # "panic", bus_state = "IDLE"
  PROVE  Calm /\ mode \in {"bootloader", "kernel"} /\ (frame_received => Ignored) /\ line = <<>>
<1>1. line = <<>> /\ mode \in {"bootloader", "kernel"}
  BY DEF Quiet
<1>2. CASE Still
  BY <1>1, <1>2 DEF Still
<1>3. CASE Waking \/ Storing \/ Booting
  BY <1>1, <1>3 DEF Waking, Storing, Booting, Quiet
<1>4. ASSUME NEW t \in {"kernel", "app"}, NEW s \in 1 .. Steps(t), NEW k \in 0 .. 6,
             NEW m \in k .. 7, IsFrame(t, s), Moving(t, s, k, m)
      PROVE  Calm /\ (frame_received => Ignored)
  BY <1>4 DEF Moving
<1>5. ASSUME NEW s \in 2 .. Steps("kernel"), BootHandles(s) PROVE FALSE
  <2>1. frame.cmd \in CMD_ERASE_FLASH .. CMD_SET_FLASH_OFFSET
    BY <1>5 DEF BootHandles, Arrived, Cmd, CMD_ERASE_FLASH, CMD_SET_FLASH_OFFSET,
                CMD_WRITE_PAGE, CMD_WRITE_PAGE_LAST
  <2>2. QED
    BY <1>5, <2>1 DEF BootHandles, Arrived, Quiet
<1>6. ASSUME NEW s \in 1 .. Steps("app"), FpiHandles(s) PROVE FALSE
  BY <1>6 DEF FpiHandles, Arrived, Quiet
<1>7. QED
  BY <1>1, <1>2, <1>3, <1>4, <1>5, <1>6 DEF Phase

LEMMA StartStep ==
  ASSUME DownloadInv, NEW t \in {"kernel", "app"}, Start(t)
  PROVE  DownloadInv'
<1> USE DEF deviceVars, bootVars, fpiVars
<1>1. /\ host = noHost /\ Quiet /\ mode # "panic" /\ bus_state = "IDLE"
      /\ host' = [tool |-> t, step |-> 1, sent |-> TRUE]
      /\ line' = Script(t)[1] /\ resp' = <<>> /\ UNCHANGED deviceVars
  BY DEF Start
<1>2. Types'
  BY <1>1, TypesKept DEF DownloadInv
<1>3. HashOK' /\ BootsWholeImage' /\ AppIntact'
  BY <1>1, DataKept
<1>4. Calm /\ mode \in {"bootloader", "kernel"} /\ (frame_received => Ignored)
  BY <1>1, QuietRests DEF DownloadInv
<1>5. Waits(t, 1)'
  BY <1>1 DEF Waits, Sent
<1>6. Calm' /\ (mode \in {"bootloader", "kernel"})' /\ (frame_received => Ignored)'
  BY <1>1, <1>4 DEF Calm, Ignored
<1>7. CASE t = "kernel"
  <2>1. Waking'
    BY <1>1, <1>5, <1>6, <1>7, ScriptFacts DEF Waking
  <2>2. QED
    BY <1>2, <1>3, <2>1 DEF DownloadInv, Phase
<1>8. CASE t = "app"
  <2>1. 1 \in 1 .. Steps(t) /\ IsFrame(t, 1)
    BY <1>8, ScriptFacts DEF IsFrame
  <2>2. PICK w : w = send_frame(Cmd(t, 1), Data(t, 1))
    OBVIOUS
  <2>3. line' = w
    BY <1>1, <2>1, <2>2, ScriptFacts
  <2>4. Placed(t, 1)' /\ Ready(t, 1)'
    BY <1>6, <1>8 DEF Placed, Ready
  <2>5. Phase'
    BY <1>1, <1>5, <1>6, <1>8, <2>1, <2>2, <2>3, <2>4, NewFrame
  <2>6. QED
    BY <1>2, <1>3, <2>5 DEF DownloadInv
<1>9. QED
  BY <1>7, <1>8

-----------------------------------------------------------------------------
(* Resets                                                                   *)

\* The frame buffer and the locals of a fresh start.
LEMMA FreshTypes ==
  /\ noFrame \in FrameType /\ Len(noFrame.payload) >= 1
  /\ noOp \in [page : Nat, buffer : Nat, blocks : Nat]
<1>1. ZERO \in Seq(Nat)
  BY DEF ZERO, Byte
<1>2. PICK z \in Seq(Nat) : z = ZERO
  BY <1>1
<1>3. <<z>> \in Seq(Seq(Nat)) /\ Len(<<z>>) = 1
  OBVIOUS
<1>4. ZERO \in CheckSequences
  BY DEF CheckSequences
<1>5. QED
  BY <1>2, <1>3, <1>4 DEF noFrame, noOp, Erased, FrameType

\* Pages 0 to 2 n - 1 are not those of another size.
LEMMA CoveredFacts ==
  ASSUME NEW m \in Nat, NEW n \in Nat
  PROVE  /\ Covered(m) = Covered(n) => m = n
         /\ \A i \in 1 .. n : i - 1 \in Covered(n)
<1>1. ASSUME m < n PROVE 2 * n - 1 \in Covered(n) /\ 2 * n - 1 \notin Covered(m)
  BY <1>1 DEF Covered
<1>2. ASSUME n < m PROVE 2 * m - 1 \in Covered(m) /\ 2 * m - 1 \notin Covered(n)
  BY <1>2 DEF Covered
<1>3. \A i \in 1 .. n : i - 1 \in Covered(n)
  BY DEF Covered
<1>4. m = n \/ m < n \/ n < m
  OBVIOUS
<1>5. QED
  BY <1>1, <1>2, <1>3, <1>4

\* The digest of the whole new image, stored under its own size or another.
LEMMA NewHash ==
  ASSUME Types, Holds(NewImage), kernel_total_size >= Len(NewImage),
         NEW s \in Nat, hash_sector' = [size |-> s, digest |-> hash256_generate(kernel_total_size)]
  PROVE  HashOK'
<1>1. PICK n \in Nat : n = kernel_total_size /\ Len(NewImage) <= n
  BY ImageAssumption DEF Types
<1>2. hash_sector'.size = s /\ hash_sector'.digest = [p \in Covered(n) |-> flash[p]]
  BY <1>1 DEF hash256_generate
<1>3. ASSUME NEW i \in 1 .. Len(NewImage) PROVE hash_sector'.digest[i - 1] = NewImage[i]
  <2>1. i \in 1 .. n
    BY <1>1, ImageAssumption
  <2>2. QED
    BY <1>2, <2>1, CoveredFacts DEF Holds
<1>4. CASE s = n
  BY <1>1, <1>2, <1>3, <1>4 DEF HashOK
<1>5. CASE s # n
  <2>1. DOMAIN hash_sector'.digest = Covered(n) /\ Covered(n) # Covered(s)
    BY <1>2, <1>5, CoveredFacts
  <2>2. QED
    BY <1>2, <2>1 DEF HashOK
<1>6. QED
  BY <1>4, <1>5

\* The board starts again, after a power loss or to force the bootloader, and
\* nothing is on the line.
LEMMA ResetStep ==
  ASSUME DownloadInv, NEW pins, PowerUp(pins), line' = <<>>, resp' = <<>>, host' = noHost
  PROVE  DownloadInv'
<1>1. /\ line' = <<>> /\ resp' = <<>> /\ host' = noHost /\ mode' = "boot"
      /\ flash' \in TornFlash /\ hash_sector' \in TornHash /\ signature' = signature
      /\ frame' = noFrame /\ frame_received' = FALSE /\ op' = noOp
      /\ kernel_page' = 0 /\ kernel_total_size' = 0 /\ fpi_pc' = "poll" /\ app' = NoApp
  BY DEF PowerUp, Reset, FpiReset, FrameInit
<1>2. Types
  BY DEF DownloadInv
<1>3. flash' \in [Pages -> Nat]
  <2>1. Torn \in Nat /\ Erased \in Nat /\ flash \in [Pages -> Nat] /\ op.buffer \in Nat
    BY <1>2 DEF Types, Torn, Erased
  <2>2. \A x \in Nat : Programmed(x, op.buffer) \in Nat
    BY <2>1 DEF Programmed
  <2>3. [p \in Pages |-> IF p \in Block(op.page) THEN Torn ELSE flash[p]] \in [Pages -> Nat]
    BY <2>1
  <2>4. [p \in Pages |-> IF p \in Block(op.page) THEN Erased ELSE flash[p]] \in [Pages -> Nat]
    BY <2>1
  <2>5. [flash EXCEPT ![op.page] = Torn] \in [Pages -> Nat]
    BY <2>1
  <2>6. [flash EXCEPT ![op.page] = Programmed(@, op.buffer)] \in [Pages -> Nat]
    BY <2>1, <2>2
  <2>7. QED
    BY <1>1, <2>1, <2>3, <2>4, <2>5, <2>6 DEF TornFlash
<1>4. Types'
  <2>1. resp' \in Seq({RESP_OK, RESP_ERROR})
    BY <1>1
  <2>2. QED
    BY <1>1, <1>2, <1>3, <2>1, FreshTypes DEF Types
<1>5. HashOK'
  <2>1. HashOK /\ kernel_total_size \in Nat
    BY <1>2 DEF DownloadInv, Types
  <2>2. CASE hash_sector' = hash_sector
    BY <2>1, <2>2 DEF HashOK
  <2>3. CASE hash_sector' # hash_sector
    <3>1. /\ mode = "bootloader" /\ pc = "store"
          /\ hash_sector' \in [size : TornSizes \cup {kernel_total_size, Blank},
                               digest : {<<Torn>>, hash256_generate(kernel_total_size)}]
      BY <1>1, <2>3 DEF TornHash
    <3>2. PICK s \in TornSizes \cup {kernel_total_size, Blank},
               d \in {<<Torn>>, hash256_generate(kernel_total_size)} :
            hash_sector' = [size |-> s, digest |-> d]
      BY <3>1
    <3>3. s \in Nat
      BY <2>1, FlashAssumption DEF Blank
    <3>4. Holds(NewImage) /\ kernel_total_size >= Len(NewImage)
      BY <3>1, Located DEF DownloadInv, Storing
    <3>5. CASE d = <<Torn>>
      BY <3>2, <3>3, <3>5 DEF HashOK
    <3>6. CASE d = hash256_generate(kernel_total_size)
      BY <1>2, <3>2, <3>3, <3>4, <3>6, NewHash
    <3>7. QED
      BY <3>2, <3>5, <3>6
  <2>4. QED
    BY <2>2, <2>3
<1>6. Booting'
  BY <1>1 DEF Booting
<1>7. QED
  BY <1>1, <1>4, <1>5, <1>6 DEF DownloadInv, Phase, BootsWholeImage, AppIntact

\* A hash that matches the flash is that of a whole image.
LEMMA VerifiedImage ==
  ASSUME HashOK, verify_kernel_hash
  PROVE  Holds(OldImage) \/ Holds(NewImage)
<1>1. PICK n \in Nat : n = hash_sector.size /\ n # 0 /\ n # Blank
  BY DEF HashOK, verify_kernel_hash, HasSize
<1>2. hash_sector.digest = [p \in Covered(n) |-> flash[p]]
  BY <1>1 DEF verify_kernel_hash, hash256_generate
<1>3. hash_sector.digest # <<Torn>>
  <2>1. 0 \in DOMAIN hash_sector.digest
    BY <1>1, <1>2 DEF Covered
  <2>2. 0 \notin DOMAIN <<Torn>>
    OBVIOUS
  <2>3. QED
    BY <2>1, <2>2
<1>4. PICK image \in {OldImage, NewImage} :
        Len(image) <= n /\ \A i \in 1 .. Len(image) : hash_sector.digest[i - 1] = image[i]
  BY <1>1, <1>2, <1>3 DEF HashOK
<1>5. Len(image) \in Nat
  BY ImageAssumption
<1>6. ASSUME NEW i \in 1 .. Len(image) PROVE flash[i - 1] = image[i]
  <2>1. i \in 1 .. n
    BY <1>4, <1>5
  <2>2. QED
    BY <1>2, <1>4, <2>1, CoveredFacts
<1>7. QED
  BY <1>6 DEF Holds

\* The board comes up, with whatever the flash holds.
LEMMA BootStep ==
  ASSUME DownloadInv, Boot, UNCHANGED <<fpiVars, host>>
  PROVE  DownloadInv'
<1> DEFINE Starts == ~signature /\ ~pin /\ check_info_match /\ verify_kernel_hash
           Panics == ~signature /\ ~pin /\ BootPanics
<1>1. /\ mode = "boot" /\ signature' = FALSE
      /\ bus_state' = "IDLE" /\ frame' = noFrame /\ frame_received' = FALSE
      /\ pc' = "poll" /\ op' = noOp /\ kernel_page' = 0 /\ kernel_total_size' = 0
      /\ UNCHANGED <<flash, hash_sector, buffer, fpi_pc, app, host>>
      /\ IF Panics THEN mode' = "panic" /\ resp' = resp
         ELSE IF Starts THEN mode' = "kernel" /\ resp' = resp
         ELSE mode' = "bootloader" /\ resp' = Append(resp, RESP_OK)
      /\ \E lost \in 0 .. Len(line) : line' = SubSeq(line, lost + 1, Len(line))
  BY DEF Boot, clear_boot_signature, FrameInit, check_boot_signature, start_kernel,
         flashVars, fpiVars
<1>2. Booting /\ Types
  BY <1>1, Located DEF DownloadInv
<1>3. line' = <<>>
  <2>1. line = <<>>
    BY <1>2 DEF Booting
  <2>2. line' = SubSeq(<<>>, 0 + 1, 0)
    BY <1>1, <2>1
  <2>3. QED
    BY <2>2, 0 + 1 \in Int, 0 \in Int, 0 < 0 + 1, SubSeqEmpty
<1>4. resp \in Seq({RESP_OK, RESP_ERROR}) /\ resp' \in Seq({RESP_OK, RESP_ERROR})
  <2>1. PICK S : S = {RESP_OK, RESP_ERROR}
    OBVIOUS
  <2>2. resp \in Seq(S) /\ (resp' = resp \/ resp' = Append(resp, RESP_OK)) /\ RESP_OK \in S
    BY <1>1, <1>2, <2>1 DEF Types
  <2>3. QED
    BY <2>1, <2>2
<1>5. Types'
  BY <1>1, <1>2, <1>4, FreshTypes DEF Types
<1>6. HashOK' /\ AppIntact'
  BY <1>1 DEF DownloadInv, HashOK, AppIntact
<1>7. BootsWholeImage'
  <2>1. CASE Starts /\ ~Panics
    <3>1. Holds(OldImage) \/ Holds(NewImage)
      BY <2>1, VerifiedImage DEF DownloadInv
    <3>2. QED
      BY <1>1, <3>1 DEF BootsWholeImage, Holds
  <2>2. CASE ~(Starts /\ ~Panics)
    BY <1>1, <2>2 DEF BootsWholeImage
  <2>3. QED
    BY <2>1, <2>2
<1>8. /\ line' = <<>> /\ bus_state' = "IDLE" /\ Calm' /\ ~frame_received'
      /\ mode' \in {"bootloader", "kernel", "panic"}
  BY <1>1, <1>2, <1>3 DEF Booting, Calm
<1>9. CASE host = noHost
  BY <1>1, <1>5, <1>6, <1>7, <1>8, <1>9 DEF DownloadInv, Phase, Still
<1>10. CASE Sent("kernel", 1) /\ resp = <<>> /\ signature
  <2>1. mode' = "bootloader" /\ resp' = <<RESP_OK>>
    BY <1>1, <1>10
  <2>2. Placed("kernel", 2)' /\ Ready("kernel", 2)'
    BY <2>1 DEF Placed, Ready
  <2>3. 1 \in 1 .. Steps("kernel") /\ 1 + 1 = 2 /\ 1 < Steps("kernel")
    BY ScriptFacts
  <2>4. Sent("kernel", 1)'
    BY <1>1, <1>10 DEF Sent
  <2>5. Answered("kernel", 1)'
    BY <2>1, <2>2, <2>3, <2>4 DEF Answered
  <2>6. Still'
    BY <1>8, <2>3, <2>5 DEF Still
  <2>7. QED
    BY <1>5, <1>6, <1>7, <2>6 DEF DownloadInv, Phase
<1>11. CASE Sent("kernel", Steps("kernel")) /\ resp # <<>>
  <2>1. resp' # <<>>
    BY <1>1, <1>4, <1>11
  <2>2. PICK n \in 1 .. Steps("kernel") : n = Steps("kernel") /\ ~(n < Steps("kernel"))
    BY ScriptFacts
  <2>3. Answered("kernel", n)'
    BY <1>1, <1>11, <2>1, <2>2 DEF Answered, Sent
  <2>4. Still'
    BY <1>8, <2>2, <2>3 DEF Still
  <2>5. QED
    BY <1>5, <1>6, <1>7, <2>4 DEF DownloadInv, Phase
<1>12. QED
  BY <1>2, <1>9, <1>10, <1>11 DEF Booting

\* The receiver waits for the rest of a frame for ever only if the programmer
\* was stopped.
LEMMA StuckFrame ==
  ASSUME line = <<>>, NEW t \in {"kernel", "app"}, NEW s \in 1 .. Steps(t), NEW k \in 0 .. 6,
         NEW m \in k .. 7, IsFrame(t, s), Moving(t, s, k, m)
  PROVE  host = noHost
<1>1. PICK w : w = send_frame(Cmd(t, s), Data(t, s))
  OBVIOUS
<1>2. Seven(w)
  BY <1>1, FrameBytes
<1>3. PICK S : w \in Seq(S) /\ Len(w) = 7
  BY <1>2 DEF Seven
<1>4. line = SubSeq(w, k + 1, m) /\ (host # noHost => m = 7)
  BY <1>1 DEF Moving
<1>5. m = k
  <2>1. PICK q : q = SubSeq(w, k + 1, m)
    OBVIOUS
  <2>2. Rest(q, w, k, m)
    BY <1>3, <2>1, RestFacts
  <2>3. q = <<>>
    BY <1>4, <2>1
  <2>4. QED
    BY <2>2, <2>3 DEF Rest
<1>6. QED
  BY <1>4, <1>5

\* A second without a byte inside a frame, in the bootloader.
LEMMA FrameTimeoutStep ==
  ASSUME DownloadInv, mode = "bootloader", FrameTimeout,
         UNCHANGED <<bootVars, fpiVars, host>>
  PROVE  DownloadInv'
<1> USE DEF bootVars, fpiVars
<1>1. /\ bus_state # "IDLE" /\ line = <<>> /\ bus_state' = "IDLE"
      /\ UNCHANGED <<line, resp, frame, frame_received, bootVars, fpiVars, host>>
  BY DEF FrameTimeout
<1>2. Types'
  BY <1>1, TypesKept DEF DownloadInv, Types
<1>3. HashOK' /\ BootsWholeImage' /\ AppIntact'
  BY <1>1, DataKept
<1>4. ASSUME NEW t \in {"kernel", "app"}, NEW s \in 1 .. Steps(t), NEW k \in 0 .. 6,
             NEW m \in k .. 7, IsFrame(t, s), Moving(t, s, k, m)
      PROVE  host = noHost /\ Calm /\ (frame_received => Ignored)
  BY <1>1, <1>4, StuckFrame DEF Moving
<1>5. host = noHost /\ Calm /\ (frame_received => Ignored)
  <2>1. ~(Still \/ Waking \/ Storing \/ Booting)
    BY <1>1 DEF Still, Waking, Storing, Booting
  <2>2. ~\E s \in 2 .. Steps("kernel") : BootHandles(s)
    BY <1>1 DEF BootHandles, Arrived
  <2>3. ~\E s \in 1 .. Steps("app") : FpiHandles(s)
    BY <1>1 DEF FpiHandles, Arrived
  <2>4. QED
    BY <1>4, <2>1, <2>2, <2>3 DEF DownloadInv, Phase
<1>6. Still'
  BY <1>1, <1>5 DEF Still, Calm, Ignored
<1>7. QED
  BY <1>2, <1>3, <1>6 DEF DownloadInv, Phase

\* The same in the kernel, which restarts.
LEMMA KernelTimeoutStep ==
  ASSUME DownloadInv, KernelTimeout, UNCHANGED host
  PROVE  DownloadInv'
<1>1. /\ mode = "kernel" /\ bus_state # "IDLE" /\ line = <<>>
      /\ signature' = TRUE /\ mode' = "boot" /\ fpi_pc' = "poll" /\ app' = NoApp
      /\ UNCHANGED <<line, resp, bus_state, frame, frame_received, pc, op, kernel_page,
                     kernel_total_size, flash, hash_sector, host>>
  BY DEF KernelTimeout, EnterBootloader, FpiReset, serialVars, mainVars, flashVars
<1>2. Types'
  BY <1>1 DEF DownloadInv, Types
<1>3. HashOK' /\ BootsWholeImage' /\ AppIntact'
  BY <1>1 DEF DownloadInv, HashOK, BootsWholeImage, AppIntact
<1>4. ASSUME NEW t \in {"kernel", "app"}, NEW s \in 1 .. Steps(t), NEW k \in 0 .. 6,
             NEW m \in k .. 7, IsFrame(t, s), Moving(t, s, k, m)
      PROVE  host = noHost
  BY <1>1, <1>4, StuckFrame DEF Moving
<1>5. host = noHost
  <2>1. ~(Still \/ Waking \/ Storing \/ Booting)
    BY <1>1 DEF Still, Waking, Storing, Booting
  <2>2. ~\E s \in 2 .. Steps("kernel") : BootHandles(s)
    BY <1>1 DEF BootHandles, Arrived
  <2>3. ~\E s \in 1 .. Steps("app") : FpiHandles(s)
    BY <1>1 DEF FpiHandles, Arrived
  <2>4. QED
    BY <1>4, <2>1, <2>2, <2>3 DEF DownloadInv, Phase
<1>6. Booting'
  BY <1>1, <1>5 DEF Booting
<1>7. QED
  BY <1>2, <1>3, <1>6 DEF DownloadInv, Phase

-----------------------------------------------------------------------------
(* The receiver                                                             *)

\* A byte holds its number.
LEMMA ByteFacts ==
  ASSUME NEW d \in Nat
  PROVE  Byte(d) \in Seq(Nat) /\ Byte(d)[1] = d
BY DEF Byte

\* The receiver has moved one byte on from the k-th of a frame.
Advanced(k, c, d) ==
  /\ frame' \in FrameType /\ Len(frame'.payload) >= 1
  /\ k < 6 => /\ Received(k + 1, c, d)' /\ UNCHANGED <<frame_received, resp>>
              /\ frame'.cmd \in {frame.cmd, c}
  /\ k = 6 => /\ bus_state' = "IDLE" /\ frame_received' = TRUE
              /\ UNCHANGED <<frame, resp>>
              /\ frame.cmd = c /\ frame.payload[1] = Byte(d)

\* The next byte of a frame takes the receiver one state further.
LEMMA ByteStep ==
  ASSUME Types, NEW c \in Nat, NEW d \in Nat, NEW w, w = send_frame(c, d),
         NEW k \in 0 .. 6, Received(k, c, d), NEW b, b = w[k + 1], FrameFsm(b)
  PROVE  Advanced(k, c, d)
<1>13. Layout(w, c, d)
  BY FrameBytes
<1>1. /\ w[1] = START_BYTE /\ w[2] = Byte(c) /\ w[3] = Byte(1) /\ w[4] = Byte(0)
      /\ w[5] = Byte(d) /\ w[6] = crc_calculate(c, 1, <<Byte(d)>>) /\ w[7] = END_BYTE
  BY <1>13 DEF Layout
<1>2. frame \in FrameType /\ Len(frame.payload) >= 1
  BY DEF Types
<1>3. Byte(c)[1] = c /\ Byte(1)[1] = 1 /\ Byte(0)[1] = 0
  BY ByteFacts
<1>4. CASE k = 0
  <2>1. bus_state = "IDLE" /\ b = START_BYTE
    BY <1>1, <1>4 DEF Received, At
  <2>2. bus_state' = "CMD" /\ UNCHANGED <<frame, frame_received, resp>>
    BY <2>1 DEF FrameFsm
  <2>3. QED
    BY <1>2, <1>4, <2>2 DEF Received, At, Advanced
<1>5. CASE k = 1
  <2>1. bus_state = "CMD" /\ b = Byte(c)
    BY <1>1, <1>5 DEF Received, At
  <2>2. /\ bus_state' = "SIZE" /\ UNCHANGED <<frame_received, resp>>
        /\ frame' = [frame EXCEPT !.cmd = c, !.size = 0, !.index = 0]
    BY <1>3, <2>1 DEF FrameFsm
  <2>3. frame' \in FrameType /\ frame'.payload = frame.payload
        /\ frame'.cmd = c /\ frame'.size = 0 /\ frame'.index = 0
    BY <1>2, <2>2 DEF FrameType
  <2>4. QED
    BY <1>2, <1>5, <2>2, <2>3 DEF Received, At, Advanced
<1>6. CASE k = 2
  <2>1. /\ bus_state = "SIZE" /\ b = Byte(1) /\ frame.size = 0 /\ frame.index = 0
        /\ frame.cmd = c
    BY <1>1, <1>6 DEF Received, At
  <2>5. /\ bus_state' = IF frame.index + 1 >= 2 THEN "PAYLOAD" ELSE "SIZE"
        /\ frame' = [frame EXCEPT
              !.size = frame.size + b[1] * (IF frame.index + 1 = 1 THEN 1 ELSE 256),
              !.index = IF frame.index + 1 >= 2 THEN 0 ELSE frame.index + 1]
        /\ UNCHANGED <<frame_received, resp>>
    BY <2>1 DEF FrameFsm
  <2>6. /\ frame.index + 1 = 1 /\ ~(frame.index + 1 >= 2)
        /\ frame.size + b[1] * (IF frame.index + 1 = 1 THEN 1 ELSE 256) = 1
    BY <1>3, <2>1
  <2>2. /\ bus_state' = "SIZE" /\ UNCHANGED <<frame_received, resp>>
        /\ frame' = [frame EXCEPT !.size = 1, !.index = 1]
    BY <2>5, <2>6
  <2>3. frame' \in FrameType /\ frame'.payload = frame.payload
        /\ frame'.cmd = c /\ frame'.size = 1 /\ frame'.index = 1
    BY <1>2, <2>1, <2>2 DEF FrameType
  <2>4. QED
    BY <1>2, <1>6, <2>2, <2>3 DEF Received, At, Advanced
<1>7. CASE k = 3
  <2>1. /\ bus_state = "SIZE" /\ b = Byte(0) /\ frame.size = 1 /\ frame.index = 1
        /\ frame.cmd = c
    BY <1>1, <1>7 DEF Received, At
  <2>5. /\ bus_state' = IF frame.index + 1 >= 2 THEN "PAYLOAD" ELSE "SIZE"
        /\ frame' = [frame EXCEPT
              !.size = frame.size + b[1] * (IF frame.index + 1 = 1 THEN 1 ELSE 256),
              !.index = IF frame.index + 1 >= 2 THEN 0 ELSE frame.index + 1]
        /\ UNCHANGED <<frame_received, resp>>
    BY <2>1 DEF FrameFsm
  <2>6. /\ frame.index + 1 >= 2
        /\ frame.size + b[1] * (IF frame.index + 1 = 1 THEN 1 ELSE 256) = 1
    BY <1>3, <2>1
  <2>2. /\ bus_state' = "PAYLOAD" /\ UNCHANGED <<frame_received, resp>>
        /\ frame' = [frame EXCEPT !.size = 1, !.index = 0]
    BY <2>5, <2>6
  <2>3. frame' \in FrameType /\ frame'.payload = frame.payload
        /\ frame'.cmd = c /\ frame'.size = 1 /\ frame'.index = 0
    BY <1>2, <2>1, <2>2 DEF FrameType
  <2>4. QED
    BY <1>2, <1>7, <2>2, <2>3 DEF Received, At, Advanced
<1>8. CASE k = 4
  <2>1. /\ bus_state = "PAYLOAD" /\ b = Byte(d) /\ frame.size = 1 /\ frame.index = 0
        /\ frame.cmd = c
    BY <1>1, <1>8 DEF Received, At
  <2>2. PICK p : p = Store(frame.payload, 1, b)
    OBVIOUS
  <2>3. p \in Seq(Seq(Nat)) /\ Len(p) = Len(frame.payload) /\ p[1] = b
    <3>1. PICK q \in Seq(Seq(Nat)) : q = frame.payload /\ Len(q) >= 1
      BY <1>2 DEF FrameType
    <3>2. b \in Seq(Nat)
      BY <2>1, ByteFacts
    <3>3. p = [q EXCEPT ![1] = b]
      BY <2>2, <3>1 DEF Store
    <3>4. PICK x \in Seq(Nat) : x = b
      BY <3>2
    <3>5. PICK S : S = Seq(Nat) /\ q \in Seq(S) /\ x \in S
      BY <3>1, <3>4
    <3>6. 1 \in 1 .. Len(q)
      BY <3>1
    <3>7. [q EXCEPT ![1] = x] \in Seq(S) /\ Len([q EXCEPT ![1] = x]) = Len(q)
          /\ [q EXCEPT ![1] = x][1] = x
      BY <3>5, <3>6, ExceptSeq
    <3>8. QED
      BY <3>1, <3>3, <3>4, <3>5, <3>7
  <2>4. /\ frame' = [frame EXCEPT !.payload = p, !.index = 1]
        /\ bus_state' = IF frame'.index >= frame.size THEN "FCS" ELSE "PAYLOAD"
        /\ UNCHANGED <<frame_received, resp>>
    BY <1>2, <2>1, <2>2 DEF FrameFsm, FrameType
  <2>5. frame' \in FrameType /\ frame'.payload = p
        /\ frame'.cmd = c /\ frame'.size = 1 /\ frame'.index = 1
    BY <1>2, <2>1, <2>3, <2>4 DEF FrameType
  <2>6. bus_state' = "FCS"
    BY <2>1, <2>4, <2>5
  <2>7. QED
    BY <1>2, <1>8, <2>1, <2>3, <2>4, <2>5, <2>6 DEF Received, At, Advanced
<1>9. CASE k = 5
  <2>1. /\ bus_state = "FCS" /\ frame.size = 1 /\ frame.cmd = c
        /\ frame.payload[1] = Byte(d) /\ b = crc_calculate(c, 1, <<Byte(d)>>)
    BY <1>1, <1>9 DEF Received, At
  <2>2. /\ bus_state' = "END" /\ UNCHANGED <<frame_received, resp>>
        /\ frame' = [frame EXCEPT !.fcs = b]
    BY <2>1 DEF FrameFsm
  <2>3. b \in CheckSequences
    BY <2>1 DEF CheckSequences
  <2>4. frame' \in FrameType /\ frame'.payload = frame.payload
        /\ frame'.cmd = c /\ frame'.size = 1 /\ frame'.fcs = b
    BY <1>2, <2>1, <2>2, <2>3 DEF FrameType
  <2>5. QED
    BY <1>2, <1>9, <2>1, <2>2, <2>4 DEF Received, At, Advanced
<1>10. CASE k = 6
  <2>1. /\ bus_state = "END" /\ frame.size = 1 /\ frame.cmd = c /\ frame.payload[1] = Byte(d)
        /\ frame.fcs = crc_calculate(c, 1, <<Byte(d)>>) /\ b = END_BYTE
    BY <1>1, <1>10 DEF Received, At
  <2>2. SubSeq(frame.payload, 1, 1) = <<Byte(d)>>
    <3>1. PICK q \in Seq(Seq(Nat)) : q = frame.payload /\ Len(q) >= 1
      BY <1>2 DEF FrameType
    <3>4. PICK r : r = SubSeq(q, 1, 1)
      OBVIOUS
    <3>5. 1 \in Int /\ 1 <= Len(q) /\ \A i \in 1 .. 1 : q[i] \in Seq(Nat)
      BY <3>1, ElementOfSeq
    <3>6. r \in Seq(Seq(Nat)) /\ Len(r) = 1 /\ r[1] = q[1]
      BY <3>1, <3>4, <3>5, SubSeqProperties
    <3>7. PICK e : e = q[1] /\ e \in Seq(Nat)
      BY <3>1, <3>5
    <3>8. <<e>> \in Seq(Seq(Nat)) /\ Len(<<e>>) = 1 /\ <<e>>[1] = e
      BY <3>7
    <3>2. SubSeq(q, 1, 1) = <<q[1]>>
      <4>1. \A i \in 1 .. Len(r) : r[i] = <<e>>[i]
        BY <3>6, <3>7, <3>8
      <4>2. r = <<e>>
        BY <3>6, <3>8, <4>1, SeqEqual
      <4>3. QED
        BY <3>4, <3>7, <4>2
    <3>3. QED
      BY <2>1, <3>1, <3>2
  <2>3. EndOfFrame(b) /\ bus_state' = "IDLE" /\ UNCHANGED frame
    BY <2>1 DEF FrameFsm
  <2>4. frame_received' = TRUE /\ UNCHANGED resp
    BY <2>1, <2>2, <2>3 DEF EndOfFrame
  <2>5. QED
    BY <1>2, <1>10, <2>1, <2>3, <2>4 DEF Advanced
<1>11. k = 0 \/ k = 1 \/ k = 2 \/ k = 3 \/ k = 4 \/ k = 5 \/ k = 6
  OBVIOUS
<1>12. QED
  BY <1>4, <1>5, <1>6, <1>7, <1>8, <1>9, <1>10, <1>11

\* The receiver takes one byte of a frame. The last one hands it over, or
\* leaves an application's first frame in a bootloader that ignores it.
LEMMA FrameByteStep ==
  ASSUME DownloadInv, NEW t \in {"kernel", "app"}, NEW s \in 1 .. Steps(t), NEW k \in 0 .. 6,
         NEW m \in k .. 7, IsFrame(t, s), Moving(t, s, k, m),
         line # <<>>, line' = Tail(line), FrameFsm(Head(line)),
         UNCHANGED <<bootVars, fpiVars, host>>
  PROVE  DownloadInv'
<1> USE DEF bootVars, fpiVars
<1>1. PICK c, d, w : /\ c = Cmd(t, s) /\ d = Data(t, s) /\ w = send_frame(c, d)
                     /\ c \in Nat /\ d \in Nat
  BY ScriptFacts
<1>2. Seven(w)
  BY <1>1, FrameBytes
<1>3. PICK S : w \in Seq(S) /\ Len(w) = 7
  BY <1>2 DEF Seven
<1>4. line = SubSeq(w, k + 1, m) /\ Received(k, c, d)
  BY <1>1 DEF Moving
<1>5. m # k /\ Head(line) = w[k + 1] /\ Tail(line) = SubSeq(w, k + 2, m)
  <2>1. PICK q : q = SubSeq(w, k + 1, m) /\ q = line
    BY <1>4
  <2>2. Rest(q, w, k, m)
    BY <1>3, <2>1, RestFacts
  <2>3. QED
    BY <2>1, <2>2 DEF Rest
<1>6. PICK b : b = w[k + 1] /\ FrameFsm(b)
  BY <1>5
<1>7. Types
  BY DEF DownloadInv
<1>17. Advanced(k, c, d)
  BY <1>1, <1>4, <1>6, <1>7, ByteStep
<1>8. /\ frame' \in FrameType /\ Len(frame'.payload) >= 1
      /\ k < 6 => /\ Received(k + 1, c, d)' /\ UNCHANGED <<frame_received, resp>>
                  /\ frame'.cmd \in {frame.cmd, c}
      /\ k = 6 => /\ bus_state' = "IDLE" /\ frame_received' = TRUE
                  /\ UNCHANGED <<frame, resp>>
                  /\ frame.cmd = c /\ frame.payload[1] = Byte(d)
  BY <1>17 DEF Advanced
<1>16. k < 6 \/ k = 6
  OBVIOUS
<1>9. UNCHANGED resp /\ frame_received' \in BOOLEAN
  <2>1. frame_received \in BOOLEAN
    BY <1>7 DEF Types
  <2>2. UNCHANGED resp /\ frame_received' \in {frame_received, TRUE}
    BY <1>8, <1>16, Zenon
  <2>3. QED
    BY <2>1, <2>2
<1>10. Types'
  <2>1. UNCHANGED <<op, flash, kernel_total_size, kernel_page, signature>>
    OBVIOUS
  <2>2. QED
    BY <1>7, <1>8, <1>9, <2>1 DEF Types
<1>11. HashOK' /\ BootsWholeImage' /\ AppIntact'
  BY DataKept
<1>12. Ready(t, s)' /\ Placed(t, s)' /\ Waits(t, s)' /\ Calm'
  BY <1>9, ReadyKept DEF Moving, Placed, Waits, Sent, Calm
<1>13. CASE k < 6
  <2>1. PICK j \in 0 .. 6 : j = k + 1 /\ j + 1 = k + 2 /\ m \in j .. 7
    BY <1>5, <1>13
  <2>2. line' = SubSeq(w, j + 1, m)
    BY <1>5, <2>1
  <2>3. (frame_received => t = "app" /\ Ignored)'
    <3>1. SUFFICES ASSUME frame_received PROVE t = "app" /\ Ignored'
      BY <1>8, <1>13
    <3>2. t = "app" /\ Ignored /\ Placed(t, s)
      BY <3>1 DEF Moving
    <3>3. c = CMD_ALLOCATE_MEM
      BY <1>1, <3>2 DEF Placed, Ignored, Cmd
    <3>4. QED
      BY <1>8, <1>13, <3>2, <3>3 DEF Ignored
  <2>4. Received(j, c, d)'
    BY <1>8, <1>13, <2>1
  <2>5. Moving(t, s, j, m)'
    BY <1>1, <1>12, <2>2, <2>3, <2>4 DEF Moving
  <2>6. Phase'
    BY <2>1, <2>5 DEF Phase
  <2>7. QED
    BY <1>10, <1>11, <2>6 DEF DownloadInv
<1>14. CASE k = 6
  <2>1. line' = <<>>
    <3>1. m = 7 /\ 8 \in Int /\ 7 \in Int /\ 7 < 8 /\ k + 2 = 8
      BY <1>5, <1>14
    <3>2. SubSeq(w, 8, 7) = <<>>
      BY <3>1, SubSeqEmpty
    <3>3. QED
      BY <1>5, <3>1, <3>2
  <2>2. Arrived(t, s)'
    BY <1>1, <1>8, <1>12, <1>14, <2>1 DEF Arrived
  <2>3. CASE t = "kernel"
    <3>1. s \in 2 .. Steps("kernel")
      BY <2>3, ScriptFacts DEF IsFrame
    <3>2. BootHandles(s)'
      BY <1>12, <2>2, <2>3 DEF BootHandles, Placed, Calm
    <3>3. QED
      BY <1>10, <1>11, <3>1, <3>2 DEF DownloadInv, Phase
  <2>4. CASE t = "app" /\ mode = "kernel"
    <3>1. FpiHandles(s)'
      BY <1>12, <2>2, <2>4 DEF FpiHandles, Calm
    <3>2. QED
      BY <1>10, <1>11, <2>4, <3>1 DEF DownloadInv, Phase
  <2>5. CASE t = "app" /\ mode = "bootloader"
    <3>1. s = 1
      BY <2>5 DEF Moving, Placed
    <3>2. Ignored'
      BY <1>1, <1>8, <1>14, <2>5, <3>1 DEF Ignored, Cmd
    <3>3. Still'
      BY <1>8, <1>12, <1>14, <2>1, <2>5, <3>2 DEF Still, Waits, Ignored
    <3>4. QED
      BY <1>10, <1>11, <3>3 DEF DownloadInv, Phase
  <2>6. QED
    BY <2>3, <2>4, <2>5 DEF Moving, Placed
<1>15. QED
  BY <1>13, <1>14, <1>16

\* The first byte of a frame is no 0x00, and the receiver leaves IDLE with it.
LEMMA NotWaking ==
  ASSUME line # <<>>, NEW t \in {"kernel", "app"}, NEW s \in 1 .. Steps(t), NEW k \in 0 .. 6,
         NEW m \in k .. 7, IsFrame(t, s), Moving(t, s, k, m)
  PROVE  ~(bus_state = "IDLE" /\ Head(line) = ZERO)
<1>1. PICK c, d, w : c = Cmd(t, s) /\ d = Data(t, s) /\ w = send_frame(c, d)
  OBVIOUS
<1>9. Seven(w) /\ Layout(w, c, d)
  BY <1>1, FrameBytes
<1>2. Seven(w) /\ w[1] = START_BYTE
  BY <1>9 DEF Layout
<1>3. PICK S : w \in Seq(S) /\ Len(w) = 7
  BY <1>2 DEF Seven
<1>4. line = SubSeq(w, k + 1, m) /\ Received(k, c, d)
  BY <1>1 DEF Moving
<1>5. Head(line) = w[k + 1]
  <2>1. PICK q : q = SubSeq(w, k + 1, m) /\ q = line
    BY <1>4
  <2>2. Rest(q, w, k, m)
    BY <1>3, <2>1, RestFacts
  <2>3. QED
    BY <2>1, <2>2 DEF Rest
<1>6. CASE k = 0
  <2>1. START_BYTE # ZERO
    BY DEF START_BYTE, ZERO, Byte
  <2>2. QED
    BY <1>2, <1>5, <1>6, <2>1
<1>7. CASE k # 0
  <2>1. k = 1 \/ k = 2 \/ k = 3 \/ k = 4 \/ k = 5 \/ k = 6
    BY <1>7
  <2>2. bus_state # "IDLE"
    BY <1>4, <2>1 DEF Received, At
  <2>3. QED
    BY <2>2
<1>8. QED
  BY <1>6, <1>7

LEMMA BootloaderByteStep ==
  ASSUME DownloadInv, BootloaderByte, UNCHANGED <<fpiVars, host>>
  PROVE  DownloadInv'
<1>1. /\ mode = "bootloader" /\ line # <<>> /\ line' = Tail(line) /\ UNCHANGED bootVars
      /\ IF bus_state = "IDLE" /\ Head(line) = ZERO
           THEN send_response(RESP_OK) /\ UNCHANGED <<bus_state, frame>>
           ELSE FrameFsm(Head(line))
  BY DEF BootloaderByte
<1>2. CASE Waking
  <2>1. line = <<ZERO>> /\ Head(line) = ZERO /\ line' = <<>> /\ bus_state = "IDLE"
    BY <1>1, <1>2 DEF Waking
  <2>2. frame_received' = FALSE /\ resp' = Append(resp, RESP_OK) /\ UNCHANGED <<bus_state, frame>>
    BY <1>1, <2>1 DEF send_response
  <2>3. Types'
    <3>1. PICK S : S = {RESP_OK, RESP_ERROR}
      OBVIOUS
    <3>2. resp \in Seq(S) /\ RESP_OK \in S
      BY <3>1 DEF DownloadInv, Types
    <3>3. resp' \in Seq({RESP_OK, RESP_ERROR})
      BY <2>2, <3>1, <3>2
    <3>4. QED
      BY <1>1, <2>2, <3>3 DEF DownloadInv, Types, bootVars
  <2>4. HashOK' /\ BootsWholeImage' /\ AppIntact'
    BY <1>1, DataKept DEF bootVars, fpiVars
  <2>5. Calm' /\ mode' = "bootloader"
    BY <1>1, <1>2 DEF Waking, Calm, bootVars, fpiVars
  <2>6. CASE host = noHost
    <3>1. Still'
      BY <2>1, <2>2, <2>5, <2>6 DEF Still
    <3>2. QED
      BY <2>3, <2>4, <3>1 DEF DownloadInv, Phase
  <2>7. CASE Sent("kernel", 1) /\ resp = <<>>
    <3>1. resp' = <<RESP_OK>>
      BY <2>2, <2>7
    <3>2. Placed("kernel", 2)' /\ Ready("kernel", 2)'
      BY <2>5 DEF Placed, Ready
    <3>3. 1 \in 1 .. Steps("kernel") /\ 1 + 1 = 2 /\ 1 < Steps("kernel")
      BY ScriptFacts
    <3>4. Sent("kernel", 1)'
      BY <2>7 DEF Sent
    <3>5. Answered("kernel", 1)'
      BY <3>1, <3>2, <3>3, <3>4 DEF Answered
    <3>6. Still'
      BY <2>1, <2>2, <2>5, <3>3, <3>5 DEF Still
    <3>7. QED
      BY <2>3, <2>4, <3>6 DEF DownloadInv, Phase
  <2>8. QED
    BY <1>2, <2>6, <2>7 DEF Waking, Waits
<1>3. ASSUME NEW t \in {"kernel", "app"}, NEW s \in 1 .. Steps(t), NEW k \in 0 .. 6,
             NEW m \in k .. 7, IsFrame(t, s), Moving(t, s, k, m)
      PROVE  DownloadInv'
  BY <1>1, <1>3, NotWaking, FrameByteStep
<1>4. QED
  BY <1>1, <1>2, <1>3, Located DEF DownloadInv

\* The kernel answers the 0x00 by restarting into the bootloader.
LEMMA KernelByteStep ==
  ASSUME DownloadInv, KernelByte, UNCHANGED host
  PROVE  DownloadInv'
<1>1. /\ mode = "kernel" /\ line # <<>> /\ line' = Tail(line)
      /\ UNCHANGED <<mainVars, flashVars, pin>>
      /\ IF bus_state = "IDLE" /\ Head(line) = ZERO
           THEN EnterBootloader /\ UNCHANGED <<bus_state, frame, frame_received, resp>>
           ELSE FrameFsm(Head(line)) /\ UNCHANGED <<mode, signature, fpiVars>>
  BY DEF KernelByte
<1>2. CASE Waking
  <2>1. line = <<ZERO>> /\ Head(line) = ZERO /\ line' = <<>> /\ bus_state = "IDLE"
    BY <1>1, <1>2 DEF Waking
  <2>2. /\ signature' = TRUE /\ mode' = "boot" /\ fpi_pc' = "poll" /\ app' = NoApp
        /\ UNCHANGED <<bus_state, frame, frame_received, resp>>
    BY <1>1, <2>1 DEF EnterBootloader, FpiReset
  <2>3. Types'
    BY <1>1, <2>2 DEF DownloadInv, Types, mainVars, flashVars
  <2>4. HashOK' /\ BootsWholeImage' /\ AppIntact'
    BY <1>1, <2>2 DEF DownloadInv, HashOK, BootsWholeImage, AppIntact, flashVars
  <2>5. Booting'
    BY <1>2, <2>1, <2>2 DEF Booting, Waking, Waits, Sent
  <2>6. QED
    BY <2>3, <2>4, <2>5 DEF DownloadInv, Phase
<1>3. ASSUME NEW t \in {"kernel", "app"}, NEW s \in 1 .. Steps(t), NEW k \in 0 .. 6,
             NEW m \in k .. 7, IsFrame(t, s), Moving(t, s, k, m)
      PROVE  DownloadInv'
  <2>1. ~(bus_state = "IDLE" /\ Head(line) = ZERO)
    BY <1>1, <1>3, NotWaking
  <2>2. FrameFsm(Head(line)) /\ UNCHANGED <<bootVars, fpiVars>>
    BY <1>1, <2>1 DEF bootVars, mainVars, flashVars
  <2>3. QED
    BY <1>1, <1>3, <2>2, FrameByteStep
<1>4. QED
  BY <1>1, <1>2, <1>3, Located DEF DownloadInv

-----------------------------------------------------------------------------
(* The commands of the bootloader                                           *)

\* The answers stay codes.
LEMMA RespType ==
  ASSUME Types, NEW x \in {RESP_OK, RESP_ERROR}, resp' = Append(resp, x)
  PROVE  resp' \in Seq({RESP_OK, RESP_ERROR}) /\ resp' # <<>> /\ (resp = <<>> => resp' = <<x>>)
<1>1. PICK S : S = {RESP_OK, RESP_ERROR}
  OBVIOUS
<1>2. resp \in Seq(S) /\ x \in S
  BY <1>1 DEF Types
<1>3. resp' \in Seq(S) /\ Len(resp') = Len(resp) + 1 /\ Len(resp) \in Nat
  BY <1>2
<1>4. resp' # <<>>
  BY <1>3
<1>5. resp = <<>> => resp' = <<x>>
  OBVIOUS
<1>6. QED
  BY <1>1, <1>3, <1>4, <1>5

\* Step s of t is over with answer x: refused, or the next frame is expected.
Over(t, s, x) ==
  s < Steps(t) => \/ s \in Tested(t) /\ x # RESP_OK
                  \/ (Placed(t, s + 1) /\ Ready(t, s + 1))'

\* The device answers a frame and waits for the next one.
LEMMA AnswerStep ==
  ASSUME Types, NEW t \in {"kernel", "app"}, NEW s \in 1 .. Steps(t), Arrived(t, s),
         NEW x \in {RESP_OK, RESP_ERROR}, frame_received' = FALSE, resp' = Append(resp, x),
         UNCHANGED <<line, bus_state, host>>, Calm', mode' \in {"bootloader", "kernel"},
         Over(t, s, x)
  PROVE  Phase'
<1>1. /\ line' = <<>> /\ bus_state' = "IDLE"
      /\ host = noHost \/ (Sent(t, s) /\ resp = <<>>)
  BY DEF Arrived, Waits
<1>2. resp' # <<>> /\ (resp = <<>> => resp' = <<x>>)
  BY RespType
<1>3. CASE host = noHost
  BY <1>1, <1>3 DEF Phase, Still
<1>4. CASE Sent(t, s) /\ resp = <<>>
  <2>1. Sent(t, s)' /\ resp' = <<x>> /\ resp' # <<>>
    BY <1>2, <1>4 DEF Sent
  <2>2. Answered(t, s)'
    BY <2>1 DEF Answered, Over
  <2>3. QED
    BY <1>1, <2>2 DEF Phase, Still
<1>5. QED
  BY <1>1, <1>3, <1>4

\* The frame keeps what it carries while it is handled.
LEMMA ArrivedKept ==
  ASSUME UNCHANGED <<serialVars, host>>, NEW t, NEW s, Arrived(t, s)
  PROVE  Arrived(t, s)'
BY DEF serialVars, Arrived, Waits, Sent

\* A frame of a programmer carries its number.
LEMMA Payload ==
  ASSUME NEW t \in {"kernel", "app"}, NEW s \in 1 .. Steps(t), IsFrame(t, s), Arrived(t, s)
  PROVE  frame.payload[1][1] = Data(t, s) /\ Data(t, s) \in Nat
<1>1. Data(t, s) \in Nat
  BY ScriptFacts
<1>2. QED
  BY <1>1, ByteFacts DEF Arrived

\* The steps of kernel_prog that are frames.
LEMMA KernelFrame ==
  ASSUME NEW s \in 2 .. Steps("kernel")
  PROVE  s \in 1 .. Steps("kernel") /\ IsFrame("kernel", s) /\ s \in Nat /\ Steps("kernel") \in Nat
BY ScriptFacts DEF IsFrame

LEMMA DispatchStep ==
  ASSUME DownloadInv, Dispatch, UNCHANGED <<fpiVars, host>>
  PROVE  DownloadInv'
<1>1. /\ mode = "bootloader" /\ pc = "poll" /\ frame_received
      /\ frame.cmd \in CMD_ERASE_FLASH .. CMD_SET_FLASH_OFFSET
      /\ UNCHANGED <<serialVars, mode, op, flashVars, signature, pin, kernel_page, kernel_total_size>>
      /\ pc' = CASE frame.cmd = CMD_ERASE_FLASH -> "erase_size"
                 [] frame.cmd = CMD_WRITE_PAGE -> "write"
                 [] frame.cmd = CMD_WRITE_PAGE_LAST -> "write_last"
                 [] frame.cmd = CMD_SET_FLASH_OFFSET -> "offset"
  BY DEF Dispatch
<1>2. Types'
  BY <1>1, TypesKept DEF DownloadInv, Types, serialVars, flashVars
<1>3. HashOK' /\ BootsWholeImage' /\ AppIntact'
  BY <1>1, DataKept DEF flashVars, fpiVars
<1>4. PICK s \in 2 .. Steps("kernel") : BootHandles(s)
  <2>1. frame.cmd # CMD_ALLOCATE_MEM
    BY <1>1 DEF CMD_ERASE_FLASH, CMD_SET_FLASH_OFFSET, CMD_ALLOCATE_MEM
  <2>2. QED
    BY <1>1, <2>1, Located DEF DownloadInv
<1>5. /\ Arrived("kernel", s) /\ fpi_pc = "poll" /\ Ready("kernel", s)
      /\ frame.cmd = Cmd("kernel", s)
  BY <1>1, <1>4 DEF BootHandles, Arrived
<1>6. Arrived("kernel", s)' /\ Ready("kernel", s)'
  BY <1>1, <1>5, ArrivedKept, ReadyKept DEF flashVars, fpiVars
<1>7. /\ pc' = IF s = 2 THEN "offset" ELSE IF s = 3 THEN "erase_size"
               ELSE IF s = Steps("kernel") THEN "write_last" ELSE "write"
  BY <1>1, <1>5 DEF Cmd, Steps, CMD_ERASE_FLASH, CMD_SET_FLASH_OFFSET, CMD_WRITE_PAGE,
                    CMD_WRITE_PAGE_LAST
<1>8. s = 2 \/ s = 3 \/ s > 3
  BY KernelFrame
<1>9. BootHandles(s)'
  BY <1>1, <1>5, <1>6, <1>7, <1>8 DEF BootHandles, fpiVars
<1>10. QED
  BY <1>2, <1>3, <1>9 DEF DownloadInv, Phase

LEMMA OffsetStep ==
  ASSUME DownloadInv, SetFlashOffset, UNCHANGED <<fpiVars, host>>
  PROVE  DownloadInv'
<1>1. /\ mode = "bootloader" /\ pc = "offset" /\ kernel_page' = frame.payload[1][1]
      /\ frame_received' = FALSE /\ resp' = Append(resp, RESP_OK) /\ pc' = "poll" /\ op' = noOp
      /\ UNCHANGED <<line, bus_state, frame, mode, flashVars, signature, pin, kernel_total_size>>
  BY DEF SetFlashOffset, Answer, send_response
<1>2. PICK s \in 2 .. Steps("kernel") : BootHandles(s)
  BY <1>1, Located DEF DownloadInv
<1>3. Arrived("kernel", s) /\ fpi_pc = "poll" /\ s = 2
  BY <1>1, <1>2 DEF BootHandles
<1>4. kernel_page' = 0
  <2>1. Data("kernel", s) = 0
    BY <1>3 DEF Data
  <2>2. QED
    BY <1>1, <1>3, <2>1, Payload, KernelFrame
<1>5. Types'
  <2>1. resp' \in Seq({RESP_OK, RESP_ERROR})
    BY <1>1, RespType DEF DownloadInv
  <2>2. QED
    <3>4. frame_received' = FALSE
      BY <1>1
    <3>1. kernel_page' \in Nat /\ frame_received' \in BOOLEAN
      BY <1>4, <3>4
    <3>2. UNCHANGED <<frame, flash, kernel_total_size, signature>> /\ op' = noOp
      BY <1>1 DEF flashVars
    <3>3. QED
      BY <2>1, <3>1, <3>2, FreshTypes DEF DownloadInv, Types
<1>6. HashOK' /\ BootsWholeImage' /\ AppIntact'
  BY <1>1, DataKept DEF flashVars, fpiVars
<1>7. Over("kernel", s, RESP_OK)
  <2>1. Placed("kernel", s + 1)' /\ Ready("kernel", s + 1)'
    BY <1>1, <1>3, <1>4 DEF Placed, Ready
  <2>2. QED
    BY <2>1 DEF Over
<1>8. Calm' /\ mode' \in {"bootloader", "kernel"}
  BY <1>1, <1>3 DEF Calm, fpiVars
<1>9. Phase'
  BY <1>1, <1>3, <1>7, <1>8, AnswerStep, KernelFrame DEF DownloadInv
<1>10. QED
  BY <1>5, <1>6, <1>9 DEF DownloadInv

LEMMA EraseSizeStep ==
  ASSUME DownloadInv, EraseSize, UNCHANGED <<fpiVars, host>>
  PROVE  DownloadInv'
<1>1. /\ mode = "bootloader" /\ pc = "erase_size" /\ pc' = "erase"
      /\ op' = [op EXCEPT !.page = 0,
                          !.blocks = (frame.payload[1][1] + BlockPages - 1) \div BlockPages]
      /\ UNCHANGED <<serialVars, mode, flashVars, signature, pin, kernel_page, kernel_total_size>>
  BY DEF EraseSize
<1>2. PICK s \in 2 .. Steps("kernel") : BootHandles(s)
  BY <1>1, Located DEF DownloadInv
<1>3. Arrived("kernel", s) /\ fpi_pc = "poll" /\ s = 3 /\ Ready("kernel", s)
  BY <1>1, <1>2 DEF BootHandles
<1>4. frame.payload[1][1] = Len(NewImage)
  <2>1. Data("kernel", s) = Len(NewImage)
    BY <1>3 DEF Data
  <2>2. QED
    BY <1>3, <2>1, Payload, KernelFrame
<1>5. PICK b \in Nat : b = (Len(NewImage) + BlockPages - 1) \div BlockPages
  <2>1. Len(NewImage) \in Nat /\ BlockPages \in Nat \ {0}
    BY ImageAssumption, FlashAssumption
  <2>2. QED
    BY <2>1, RoundUp
<1>6. op' = [op EXCEPT !.page = 0, !.blocks = b]
  BY <1>1, <1>4, <1>5
<1>7. op' \in [page : Nat, buffer : Nat, blocks : Nat] /\ op'.blocks = b
  BY <1>6 DEF DownloadInv, Types
<1>8. Types'
  BY <1>1, <1>7 DEF DownloadInv, Types, serialVars, flashVars
<1>9. HashOK' /\ BootsWholeImage' /\ AppIntact'
  BY <1>1, DataKept DEF flashVars, fpiVars
<1>10. Arrived("kernel", s)' /\ Ready("kernel", s)'
  BY <1>1, <1>3, ArrivedKept, ReadyKept DEF flashVars, fpiVars
<1>11. BootHandles(s)'
  BY <1>1, <1>3, <1>5, <1>7, <1>10 DEF BootHandles, fpiVars
<1>12. QED
  BY <1>8, <1>9, <1>11 DEF DownloadInv, Phase

LEMMA EraseBlockStep ==
  ASSUME DownloadInv, EraseBlock, UNCHANGED <<fpiVars, host>>
  PROVE  DownloadInv'
<1>1. /\ mode = "bootloader" /\ pc = "erase"
      /\ flash' = [p \in Pages |-> IF p \in Block(op.page) THEN Erased ELSE flash[p]]
      /\ op' = [op EXCEPT !.page = @ + BlockPages]
      /\ UNCHANGED <<serialVars, mode, pc, hash_sector, signature, pin, kernel_page, kernel_total_size>>
  BY DEF EraseBlock
<1>2. PICK s \in 2 .. Steps("kernel") : BootHandles(s)
  BY <1>1, Located DEF DownloadInv
<1>3. /\ Arrived("kernel", s) /\ fpi_pc = "poll" /\ s = 3 /\ Ready("kernel", s)
      /\ op.blocks = (Len(NewImage) + BlockPages - 1) \div BlockPages
  BY <1>1, <1>2 DEF BootHandles
<1>4. flash' \in [Pages -> Nat]
  BY <1>1 DEF DownloadInv, Types, Erased
<1>5. op' \in [page : Nat, buffer : Nat, blocks : Nat] /\ op'.blocks = op.blocks
  <2>1. PICK n \in Nat : n = op.page + BlockPages
    BY FlashAssumption DEF DownloadInv, Types
  <2>2. op' = [op EXCEPT !.page = n]
    BY <1>1, <2>1
  <2>3. QED
    BY <2>1, <2>2 DEF DownloadInv, Types
<1>6. Types'
  BY <1>1, <1>4, <1>5 DEF DownloadInv, Types, serialVars
<1>7. HashOK' /\ BootsWholeImage' /\ AppIntact'
  BY <1>1 DEF DownloadInv, HashOK, BootsWholeImage, AppIntact, fpiVars
<1>8. Arrived("kernel", s)' /\ Ready("kernel", s)'
  BY <1>1, <1>3, ArrivedKept DEF Ready
<1>9. BootHandles(s)'
  BY <1>1, <1>3, <1>5, <1>8 DEF BootHandles, fpiVars
<1>10. QED
  BY <1>6, <1>7, <1>9 DEF DownloadInv, Phase

\* The erase is answered with an error, or its size covers the image.
LEMMA EraseDoneStep ==
  ASSUME DownloadInv, EraseDone, UNCHANGED <<fpiVars, host>>
  PROVE  DownloadInv'
<1>1. PICK x \in {RESP_OK, RESP_ERROR} :
      /\ mode = "bootloader" /\ pc = "erase"
      /\ frame_received' = FALSE /\ resp' = Append(resp, x) /\ pc' = "poll" /\ op' = noOp
      /\ x = RESP_ERROR => UNCHANGED kernel_total_size
      /\ x = RESP_OK => kernel_total_size' = op.blocks * BlockPages
      /\ UNCHANGED <<line, bus_state, frame, mode, flashVars, signature, pin, kernel_page>>
  BY DEF EraseDone, Answer, send_response, RESP_OK, RESP_ERROR
<1>2. PICK s \in 2 .. Steps("kernel") : BootHandles(s)
  BY <1>1, Located DEF DownloadInv
<1>3. /\ Arrived("kernel", s) /\ fpi_pc = "poll" /\ s = 3 /\ Ready("kernel", s)
      /\ op.blocks = (Len(NewImage) + BlockPages - 1) \div BlockPages
  BY <1>1, <1>2 DEF BootHandles
<1>4. x = RESP_OK => kernel_total_size' \in Nat /\ kernel_total_size' >= Len(NewImage)
  <2>1. Len(NewImage) \in Nat /\ BlockPages \in Nat \ {0}
    BY ImageAssumption, FlashAssumption
  <2>2. op.blocks * BlockPages \in Nat /\ op.blocks * BlockPages >= Len(NewImage)
    BY <1>3, <2>1, RoundUp
  <2>3. QED
    BY <1>1, <2>2
<1>5. Types'
  <2>1. resp' \in Seq({RESP_OK, RESP_ERROR})
    BY <1>1, RespType DEF DownloadInv
  <2>2. kernel_total_size' \in Nat
    BY <1>1, <1>4 DEF DownloadInv, Types
  <2>3. QED
    BY <1>1, <2>1, <2>2, FreshTypes DEF DownloadInv, Types, flashVars
<1>6. HashOK' /\ BootsWholeImage' /\ AppIntact'
  BY <1>1, DataKept DEF flashVars, fpiVars
<1>7. Over("kernel", s, x)
  <2>1. CASE x = RESP_OK
    <3>1. kernel_page' = 0
      BY <1>1, <1>3 DEF Ready
    <3>2. Written(0)'
      BY DEF Written
    <3>3. s + 1 = 4 /\ 4 - 4 = 0
      BY <1>3
    <3>4. Placed("kernel", 4)' /\ Ready("kernel", 4)'
      BY <1>1, <1>4, <2>1, <3>1, <3>2, <3>3 DEF Placed, Ready
    <3>5. QED
      BY <3>3, <3>4 DEF Over
  <2>2. CASE x # RESP_OK
    BY <1>3, <2>2 DEF Over, Tested
  <2>3. QED
    BY <2>1, <2>2
<1>8. Calm' /\ mode' \in {"bootloader", "kernel"}
  BY <1>1, <1>3 DEF Calm, fpiVars
<1>9. Phase'
  BY <1>1, <1>3, <1>7, <1>8, AnswerStep, KernelFrame DEF DownloadInv
<1>10. QED
  BY <1>5, <1>6, <1>9 DEF DownloadInv

LEMMA LoadPageStep ==
  ASSUME DownloadInv, LoadPage, UNCHANGED <<fpiVars, host>>
  PROVE  DownloadInv'
<1>1. /\ mode = "bootloader" /\ pc \in {"write", "write_last"}
      /\ op' = [op EXCEPT !.page = kernel_page, !.buffer = frame.payload[1][1]]
      /\ kernel_page' = IF pc = "write" THEN kernel_page + 1 ELSE kernel_page
      /\ pc' = IF pc = "write" THEN "program" ELSE "program_last"
      /\ UNCHANGED <<serialVars, mode, flashVars, signature, pin, kernel_total_size>>
  BY DEF LoadPage
<1>2. PICK s \in 2 .. Steps("kernel") : BootHandles(s)
  BY <1>1, Located DEF DownloadInv
<1>3. /\ Arrived("kernel", s) /\ fpi_pc = "poll" /\ s > 3 /\ Ready("kernel", s)
      /\ pc = IF s = Steps("kernel") THEN "write_last" ELSE "write"
  BY <1>1, <1>2 DEF BootHandles
<1>4. s \in Nat /\ Steps("kernel") \in Nat /\ s <= Steps("kernel")
  BY KernelFrame
<1>5. frame.payload[1][1] = NewImage[s - 3] /\ NewImage[s - 3] \in Nat
  <2>1. Data("kernel", s) = NewImage[s - 3]
    BY <1>3, <1>4 DEF Data
  <2>2. QED
    BY <1>3, <2>1, Payload, KernelFrame
<1>6. /\ kernel_page = s - 4 /\ Written(s - 4) /\ kernel_total_size >= Len(NewImage)
  BY <1>3 DEF Ready
<1>7. PICK n \in Nat, v \in Nat : n = s - 4 /\ v = NewImage[s - 3]
  <2>1. s - 4 \in Nat
    BY <1>3, <1>4
  <2>2. QED
    BY <1>5, <2>1, Zenon
<1>8. op' = [op EXCEPT !.page = n, !.buffer = v]
  BY <1>1, <1>5, <1>6, <1>7
<1>9. op' \in [page : Nat, buffer : Nat, blocks : Nat] /\ op'.page = n /\ op'.buffer = v
  BY <1>8 DEF DownloadInv, Types
<1>10. kernel_page' \in Nat /\ (s < Steps("kernel") => kernel_page' = s - 3)
  BY <1>1, <1>3, <1>4, <1>6, <1>7
<1>11. Types'
  BY <1>1, <1>9, <1>10 DEF DownloadInv, Types, serialVars, flashVars
<1>12. HashOK' /\ BootsWholeImage' /\ AppIntact'
  BY <1>1, DataKept DEF flashVars, fpiVars
<1>13. Arrived("kernel", s)' /\ Written(s - 4)'
  BY <1>1, <1>3, <1>6, ArrivedKept DEF Written, flashVars
<1>14. pc' = IF s = Steps("kernel") THEN "program_last" ELSE "program"
  BY <1>1, <1>3
<1>15. BootHandles(s)'
  BY <1>1, <1>3, <1>6, <1>7, <1>9, <1>10, <1>13, <1>14 DEF BootHandles, fpiVars
<1>16. QED
  BY <1>11, <1>12, <1>15 DEF DownloadInv, Phase

\* A page of a small image is programmed at its own place.
LEMMA OwnPlace ==
  ASSUME SmallImage, NEW n \in Nat, n < Len(NewImage), NEW v
  PROVE  flash_write_image_page(n, v) = [flash EXCEPT ![n] = Programmed(@, v)]
<1>1. Len(NewImage) \in Nat /\ ImageBase \in Nat /\ FcrPages \in Nat \ {0}
  BY ImageAssumption, FlashAssumption
<1>2. PICK a \in Nat : a = n + ImageBase /\ a < FcrPages
  BY <1>1 DEF SmallImage
<1>3. a % FcrPages = a
  BY <1>1, <1>2
<1>4. ((n + ImageBase) % FcrPages) - ImageBase = n
  BY <1>1, <1>2, <1>3
<1>5. QED
  BY <1>4 DEF flash_write_image_page

\* A page is programmed and read back: it is answered, or the device halts.
LEMMA ProgramStep ==
  ASSUME SmallImage, DownloadInv, ProgramPage, UNCHANGED <<fpiVars, host>>
  PROVE  DownloadInv'
<1>1. /\ mode = "bootloader" /\ pc \in {"program", "program_last"} /\ op' = noOp
      /\ flash' = IF op.page \in Pages THEN flash_write_image_page(op.page, op.buffer) ELSE flash
      /\ \/ mode' = "panic" /\ pc' = "poll" /\ UNCHANGED <<resp, frame_received>>
         \/ /\ op.page \in Pages /\ flash'[op.page] = op.buffer
            /\ frame_received' = FALSE /\ resp' = Append(resp, RESP_OK)
            /\ pc' = (IF pc = "program" THEN "poll" ELSE "store") /\ UNCHANGED mode
      /\ UNCHANGED <<line, bus_state, frame, hash_sector, signature, pin, kernel_page,
                     kernel_total_size>>
  BY DEF ProgramPage, Halt, send_response
<1>2. PICK s \in 2 .. Steps("kernel") : BootHandles(s)
  BY <1>1, Located DEF DownloadInv
<1>3. /\ Arrived("kernel", s) /\ fpi_pc = "poll" /\ s > 3
      /\ pc = IF s = Steps("kernel") THEN "program_last" ELSE "program"
      /\ op.page = s - 4 /\ op.buffer = NewImage[s - 3] /\ Written(s - 4)
      /\ kernel_total_size >= Len(NewImage)
      /\ s < Steps("kernel") => kernel_page = s - 3
  BY <1>1, <1>2 DEF BootHandles
<1>4. /\ s \in Nat /\ Steps("kernel") \in Nat /\ s <= Steps("kernel")
      /\ Steps("kernel") = 3 + Len(NewImage) /\ Len(NewImage) \in Nat
  BY KernelFrame, ImageAssumption DEF Steps
<1>5. Types
  BY DEF DownloadInv
<1>6. PICK n \in Nat, v \in Nat : n = op.page /\ v = op.buffer /\ n = s - 4 /\ n < Len(NewImage)
  BY <1>3, <1>4, <1>5 DEF Types
<1>7. n \in Pages => flash' = [flash EXCEPT ![n] = Programmed(flash[n], v)]
  BY <1>1, <1>6, OwnPlace
<1>8. flash' \in [Pages -> Nat]
  <2>1. Programmed(flash[n], v) \in Nat
    BY <1>6 DEF Programmed, Torn
  <2>2. QED
    BY <1>1, <1>5, <1>6, <1>7, <2>1 DEF Types
<1>9. HashOK' /\ AppIntact' /\ BootsWholeImage'
  BY <1>1 DEF DownloadInv, HashOK, AppIntact, BootsWholeImage, fpiVars
<1>10. Calm' <=> pc' = "poll"
  BY <1>3 DEF Calm, fpiVars
<1>11. CASE mode' = "panic" /\ pc' = "poll" /\ UNCHANGED <<resp, frame_received>>
  <2>1. Types'
    BY <1>1, <1>5, <1>8, <1>11, FreshTypes DEF Types
  <2>2. Waits("kernel", s) /\ line = <<>> /\ bus_state = "IDLE"
    BY <1>3 DEF Arrived
  <2>3. host = noHost \/ (Sent("kernel", s)' /\ resp' = <<>>)
    BY <1>11, <2>2 DEF Waits, Sent
  <2>4. Still'
    BY <1>1, <1>10, <1>11, <2>2, <2>3, KernelFrame DEF Still
  <2>5. QED
    BY <1>9, <2>1, <2>4 DEF DownloadInv, Phase
<1>12. CASE /\ op.page \in Pages /\ flash'[op.page] = op.buffer
            /\ frame_received' = FALSE /\ resp' = Append(resp, RESP_OK)
            /\ pc' = (IF pc = "program" THEN "poll" ELSE "store") /\ UNCHANGED mode
  <2>1. Types'
    <3>1. resp' \in Seq({RESP_OK, RESP_ERROR})
      BY <1>5, <1>12, RespType
    <3>2. frame_received' = FALSE
      BY <1>12
    <3>3. QED
      BY <1>1, <1>5, <1>8, <3>1, <3>2, FreshTypes DEF Types
  <2>2. Written(s - 3)'
    <3>1. SUFFICES ASSUME NEW i \in 1 .. s - 3 PROVE flash'[i - 1] = NewImage[i]
      BY DEF Written
    <3>2. CASE i = s - 3
      BY <1>3, <1>4, <1>6, <1>12, <3>2
    <3>3. CASE i # s - 3
      <4>1. i \in 1 .. s - 4 /\ i - 1 # n
        BY <1>4, <1>6, <3>1, <3>3
      <4>2. flash[i - 1] = NewImage[i]
        BY <1>3, <4>1 DEF Written
      <4>3. i - 1 \in Pages
        BY <1>4, <1>6, <1>12, <4>1, FlashAssumption DEF Pages
      <4>4. QED
        BY <1>5, <1>6, <1>7, <1>12, <4>1, <4>2, <4>3 DEF Types
    <3>4. QED
      BY <3>2, <3>3
  <2>3. CASE s < Steps("kernel")
    <3>1. pc' = "poll" /\ Calm' /\ mode' \in {"bootloader", "kernel"}
      BY <1>1, <1>3, <1>4, <1>10, <1>12, <2>3
    <3>2. s + 1 > 3 /\ (s + 1) - 4 = s - 3 /\ s + 1 # 3
      BY <1>3, <1>4
    <3>3. Placed("kernel", s + 1)' /\ Ready("kernel", s + 1)'
      BY <1>1, <1>3, <1>12, <2>2, <2>3, <3>2 DEF Placed, Ready
    <3>4. Over("kernel", s, RESP_OK)
      BY <3>3 DEF Over
    <3>5. Phase'
      BY <1>1, <1>3, <1>5, <1>12, <3>1, <3>4, AnswerStep, KernelFrame
    <3>6. QED
      BY <1>9, <2>1, <3>5 DEF DownloadInv
  <2>4. CASE s = Steps("kernel")
    <3>1. pc' = "store" /\ mode' = "bootloader"
      BY <1>1, <1>3, <1>12, <2>4
    <3>2. Holds(NewImage)'
      BY <1>4, <2>2, <2>4 DEF Written, Holds
    <3>3. resp' # <<>>
      BY <1>5, <1>12, RespType
    <3>4. Waits("kernel", s) /\ line = <<>> /\ bus_state = "IDLE"
      BY <1>3 DEF Arrived
    <3>5. host' = noHost \/ (Sent("kernel", Steps("kernel"))' /\ resp' # <<>>)
      BY <2>4, <3>3, <3>4 DEF Waits, Sent
    <3>6. Storing'
      BY <1>1, <1>3, <1>12, <3>1, <3>2, <3>4, <3>5 DEF Storing, fpiVars
    <3>7. QED
      BY <1>9, <2>1, <3>6 DEF DownloadInv, Phase
  <2>5. QED
    BY <1>4, <2>3, <2>4
<1>13. QED
  BY <1>1, <1>11, <1>12

\* The hash is stored only over a flash that holds the whole new image, or the
\* hash engine fails and the bootloader panics.
LEMMA StoreStep ==
  ASSUME DownloadInv, StoreHash, UNCHANGED <<fpiVars, host>>
  PROVE  DownloadInv'
<1>1. /\ mode = "bootloader" /\ pc = "store" /\ pc' = "poll"
      /\ \/ mode' = "panic" /\ hash_sector' = hash_sector
         \/ /\ mode' = "boot"
            /\ hash_sector' = [size |-> kernel_total_size,
                               digest |-> hash256_generate(kernel_total_size)]
      /\ UNCHANGED <<serialVars, op, flash, signature, pin, kernel_page, kernel_total_size>>
  BY DEF StoreHash
<1>2. Storing /\ Types
  BY <1>1, Located DEF DownloadInv
<1>3. Types'
  BY <1>1, <1>2 DEF Types, serialVars
<1>4. HashOK'
  <2>1. CASE hash_sector' = hash_sector
    BY <2>1 DEF DownloadInv, HashOK
  <2>2. CASE hash_sector' # hash_sector
    <3>1. kernel_total_size \in Nat
      BY <1>2 DEF Types
    <3>2. QED
      BY <1>1, <1>2, <2>2, <3>1, NewHash DEF Storing
  <2>3. QED
    BY <2>1, <2>2
<1>5. BootsWholeImage' /\ AppIntact'
  BY <1>1 DEF DownloadInv, BootsWholeImage, AppIntact, fpiVars
<1>6. Booting' \/ Still'
  <2>1. PICK n \in 1 .. Steps("kernel") : n = Steps("kernel") /\ n > 1
    BY ScriptFacts
  <2>2. CASE mode' = "boot"
    BY <1>1, <1>2, <2>1, <2>2 DEF Storing, Booting, Sent, serialVars, fpiVars
  <2>3. CASE mode' = "panic"
    <3>1. host = noHost \/ Answered("kernel", n)'
      BY <1>1, <1>2, <2>1 DEF Storing, Answered, Sent, serialVars
    <3>2. QED
      BY <1>1, <1>2, <2>1, <2>3, <3>1 DEF Storing, Still, Calm, serialVars, fpiVars
  <2>4. QED
    BY <1>1, <2>2, <2>3
<1>7. QED
  BY <1>3, <1>4, <1>5, <1>6 DEF DownloadInv, Phase

-----------------------------------------------------------------------------
(* The thread of the kernel that takes applications                         *)

\* The first n blocks of the application.
Blocks(n) == [i \in 1 .. n |-> AppBinary[i]]

LEMMA BlockFacts ==
  /\ Blocks(0) = <<>> /\ Blocks(Len(AppBinary)) = AppBinary
  /\ \A n \in 0 .. Len(AppBinary) : Blocks(n) \in Seq(Nat) /\ Len(Blocks(n)) = n
  /\ \A n \in 0 .. Len(AppBinary) - 1 : Append(Blocks(n), AppBinary[n + 1]) = Blocks(n + 1)
<1>1. Len(AppBinary) \in Nat /\ AppBinary \in Seq(Nat)
  BY ImageAssumption
<1>2. ASSUME NEW n \in 0 .. Len(AppBinary)
      PROVE  Blocks(n) \in Seq(Nat) /\ Len(Blocks(n)) = n
  BY <1>1 DEF Blocks
<1>3. Blocks(0) = <<>>
  <2>1. 0 \in 0 .. Len(AppBinary)
    BY <1>1
  <2>2. QED
    BY <1>2, <2>1, EmptySeq
<1>4. Blocks(Len(AppBinary)) = AppBinary
  BY <1>1 DEF Blocks
<1>5. ASSUME NEW n \in 0 .. Len(AppBinary) - 1
      PROVE  Append(Blocks(n), AppBinary[n + 1]) = Blocks(n + 1)
  <2>1. n \in 0 .. Len(AppBinary) /\ n + 1 \in 0 .. Len(AppBinary) /\ n + 1 \in 1 .. Len(AppBinary)
    BY <1>1
  <2>2. PICK u, v, e : u = Blocks(n) /\ v = Blocks(n + 1) /\ e = AppBinary[n + 1]
    OBVIOUS
  <2>3. e \in Nat /\ u \in Seq(Nat) /\ Len(u) = n /\ v \in Seq(Nat) /\ Len(v) = n + 1
    BY <1>1, <1>2, <2>1, <2>2, SMTT(20)
  <2>4. Append(u, e) \in Seq(Nat) /\ Len(Append(u, e)) = n + 1
    BY <2>3
  <2>5. ASSUME NEW i \in 1 .. n + 1 PROVE Append(u, e)[i] = v[i]
    <3>1. v[i] = AppBinary[i]
      BY <2>2 DEF Blocks
    <3>2. CASE i = n + 1
      BY <2>2, <2>3, <3>1, <3>2
    <3>3. CASE i # n + 1
      <4>1. i \in 1 .. n
        BY <2>1, <3>3
      <4>2. u[i] = AppBinary[i]
        BY <2>2, <4>1 DEF Blocks
      <4>3. QED
        BY <2>3, <3>1, <4>1, <4>2
    <3>4. QED
      BY <3>2, <3>3
  <2>6. Append(u, e) = v
    BY <2>3, <2>4, <2>5, SeqEqual
  <2>7. QED
    BY <2>2, <2>6
<1>6. QED
  BY <1>2, <1>3, <1>4, <1>5

\* The steps of app_prog are frames.
LEMMA AppFrame ==
  ASSUME NEW s \in 1 .. Steps("app")
  PROVE  IsFrame("app", s) /\ s \in Nat /\ Steps("app") = 1 + Len(AppBinary)
         /\ Len(AppBinary) \in Nat
BY ImageAssumption DEF IsFrame, Steps

\* The thread takes a frame: it allocates, or copies a block and perhaps
\* starts the application, which is then complete.
LEMMA FpiCommandStep ==
  ASSUME DownloadInv, FpiCommand, UNCHANGED host
  PROVE  DownloadInv'
<1>1. /\ mode = "kernel" /\ fpi_pc = "poll" /\ frame_received
      /\ UNCHANGED <<serialVars, mainVars, flashVars, pin>>
  BY DEF FpiCommand
<1>2. PICK s \in 1 .. Steps("app") : FpiHandles(s)
  BY <1>1, Located DEF DownloadInv
<1>3. /\ Arrived("app", s) /\ pc = "poll" /\ Ready("app", s) /\ frame.cmd = Cmd("app", s)
  BY <1>1, <1>2 DEF FpiHandles, Arrived
<1>4. s \in Nat /\ Steps("app") = 1 + Len(AppBinary) /\ Len(AppBinary) \in Nat /\ s <= Steps("app")
  BY AppFrame
<1>5. frame.payload[1][1] = Data("app", s)
  BY <1>3, Payload, AppFrame
<1>6. /\ fpi_pc' = "answer" /\ UNCHANGED <<mode, signature>>
      /\ s < Steps("app") => Ready("app", s + 1)'
      /\ app' = app \/ app' = [cap |-> Len(AppBinary), data |-> AppBinary, relocs |-> 1]
  <2>1. CASE s = 1
    <3>1. frame.cmd = CMD_ALLOCATE_MEM /\ Data("app", s) = Len(AppBinary)
      BY <1>3, <2>1 DEF Cmd, Data
    <3>2. /\ buffer' = [cap |-> Len(AppBinary), data |-> <<>>, relocs |-> 0]
          /\ fpi_pc' = "answer" /\ UNCHANGED <<app, mode, signature>>
      BY <1>5, <3>1 DEF FpiCommand, CMD_ALLOCATE_MEM, CMD_BINARY, CMD_BINARY_LAST
    <3>3. buffer' = [cap |-> Len(AppBinary), data |-> Blocks(0), relocs |-> 0]
      BY <3>2, BlockFacts
    <3>4. s + 1 = 2 /\ (s + 1) - 2 = 0
      BY <2>1
    <3>5. Ready("app", s + 1)'
      BY <3>3, <3>4 DEF Ready, Blocks
    <3>6. QED
      BY <3>2, <3>5
  <2>2. CASE s # 1
    <3>1. PICK n \in 0 .. Len(AppBinary) - 1 : n = s - 2 /\ n + 1 = s - 1
      BY <1>4, <2>2
    <3>2. buffer = [cap |-> Len(AppBinary), data |-> Blocks(n), relocs |-> 0]
      BY <1>3, <1>4, <2>2, <3>1 DEF Ready, Blocks
    <3>3. Data("app", s) = AppBinary[n + 1]
      BY <2>2, <3>1 DEF Data
    <3>4. /\ frame.cmd \in {CMD_BINARY, CMD_BINARY_LAST}
          /\ frame.cmd = CMD_BINARY_LAST <=> s = Steps("app")
      BY <1>3, <1>4, <2>2 DEF Cmd, CMD_BINARY, CMD_BINARY_LAST
    <3>5. WriteBinary
      BY <3>4 DEF FpiCommand, CMD_ALLOCATE_MEM, CMD_BINARY, CMD_BINARY_LAST
    <3>6. buffer # NoBuffer
      <4>1. buffer.cap # 0
        BY <1>4, <3>1, <3>2
      <4>2. QED
        BY <4>1 DEF NoBuffer
    <3>7. PICK filled : /\ filled = [cap |-> Len(AppBinary), data |-> Blocks(n + 1), relocs |-> 0]
                        /\ filled = [buffer EXCEPT !.data = Append(@, frame.payload[1][1])]
      <4>1. PICK a, u, v, e : /\ a = Len(AppBinary) /\ u = Blocks(n) /\ v = Blocks(n + 1)
                              /\ e = AppBinary[n + 1] /\ e = frame.payload[1][1]
        BY <1>5, <3>3
      <4>2. Append(u, e) = v
        BY <4>1, BlockFacts
      <4>3. buffer = [cap |-> a, data |-> u, relocs |-> 0]
        BY <3>2, <4>1
      <4>6. buffer.data = u
        BY <4>3
      <4>7. [buffer EXCEPT !.data = Append(@, e)] = [buffer EXCEPT !.data = v]
        BY <4>2, <4>6
      <4>8. [buffer EXCEPT !.data = v] = [cap |-> a, data |-> v, relocs |-> 0]
        BY <4>3
      <4>4. [buffer EXCEPT !.data = Append(@, e)] = [cap |-> a, data |-> v, relocs |-> 0]
        BY <4>7, <4>8
      <4>5. QED
        BY <4>1, <4>4
    <3>8. /\ buffer' = IF s = Steps("app") THEN dynamic_linker(filled) ELSE filled
          /\ app' = IF s = Steps("app") THEN buffer' ELSE app
          /\ fpi_pc' = "answer" /\ UNCHANGED <<mode, signature>>
      BY <3>4, <3>5, <3>6, <3>7 DEF WriteBinary
    <3>9. CASE s = Steps("app")
      <4>1. n + 1 = Len(AppBinary)
        BY <1>4, <3>1, <3>9
      <4>2. dynamic_linker(filled)
              = [cap |-> Len(AppBinary), data |-> Blocks(n + 1), relocs |-> 1]
        BY <3>7 DEF dynamic_linker
      <4>3. app' = [cap |-> Len(AppBinary), data |-> AppBinary, relocs |-> 1]
        BY <3>8, <3>9, <4>1, <4>2, BlockFacts
      <4>4. QED
        BY <1>4, <3>8, <3>9, <4>3
    <3>10. CASE s # Steps("app")
      <4>1. s + 1 > 1 /\ (s + 1) - 2 = n + 1
        BY <1>4, <3>1
      <4>2. Ready("app", s + 1)'
        BY <3>7, <3>8, <3>10, <4>1 DEF Ready, Blocks
      <4>3. QED
        BY <3>8, <3>10, <4>2
    <3>11. QED
      BY <3>9, <3>10
  <2>3. QED
    BY <2>1, <2>2
<1>7. Types'
  BY <1>1, <1>6 DEF DownloadInv, Types, serialVars, mainVars, flashVars
<1>8. HashOK' /\ BootsWholeImage'
  BY <1>1, <1>6 DEF DownloadInv, HashOK, BootsWholeImage, Holds, flashVars
<1>9. AppIntact'
  BY <1>6 DEF DownloadInv, AppIntact
<1>10. Arrived("app", s)'
  BY <1>1, <1>3, ArrivedKept
<1>11. FpiHandles(s)'
  BY <1>1, <1>3, <1>6, <1>10 DEF FpiHandles, mainVars
<1>12. QED
  BY <1>7, <1>8, <1>9, <1>11 DEF DownloadInv, Phase

LEMMA FpiAnswerStep ==
  ASSUME DownloadInv, FpiAnswer, UNCHANGED host
  PROVE  DownloadInv'
<1>1. /\ mode = "kernel" /\ fpi_pc = "answer" /\ fpi_pc' = "poll"
      /\ frame_received' = FALSE /\ resp' = Append(resp, RESP_OK)
      /\ UNCHANGED <<line, bus_state, frame, bootVars, buffer, app>>
  BY DEF FpiAnswer, send_response
<1>2. PICK s \in 1 .. Steps("app") : FpiHandles(s)
  BY <1>1, Located DEF DownloadInv
<1>3. Arrived("app", s) /\ pc = "poll" /\ (s < Steps("app") => Ready("app", s + 1))
  BY <1>1, <1>2 DEF FpiHandles
<1>4. Types'
  <2>1. resp' \in Seq({RESP_OK, RESP_ERROR})
    BY <1>1, RespType DEF DownloadInv
  <2>2. frame_received' = FALSE
    BY <1>1
  <2>3. QED
    BY <1>1, <2>1, <2>2 DEF DownloadInv, Types, bootVars
<1>5. HashOK' /\ BootsWholeImage' /\ AppIntact'
  BY <1>1, DataKept DEF bootVars
<1>6. Over("app", s, RESP_OK)
  <2>1. s < Steps("app") => Ready("app", s + 1)'
    BY <1>1, <1>3, ReadyKept DEF bootVars
  <2>2. Placed("app", s + 1)'
    BY <1>1 DEF Placed, bootVars
  <2>3. QED
    BY <2>1, <2>2 DEF Over
<1>7. Calm' /\ mode' \in {"bootloader", "kernel"}
  BY <1>1, <1>3 DEF Calm, bootVars
<1>8. Phase'
  BY <1>1, <1>3, <1>6, <1>7, AnswerStep DEF DownloadInv
<1>9. QED
  BY <1>4, <1>5, <1>8 DEF DownloadInv

-----------------------------------------------------------------------------
(* The theorems                                                             *)

LEMMA InitHolds == ASSUME Init PROVE DownloadInv
<1>1. /\ line = <<>> /\ resp = <<>> /\ frame = noFrame /\ frame_received = FALSE
      /\ fpi_pc = "poll" /\ app = NoApp /\ mode = "boot" /\ op = noOp
      /\ flash = [p \in Pages |-> IF p < Len(OldImage) THEN OldImage[p + 1] ELSE Erased]
      /\ signature = FALSE /\ kernel_page = 0 /\ kernel_total_size = 0 /\ host = noHost
  BY DEF Init, SerialInit, FpiInit
<1>2. Len(OldImage) \in Nat /\ OldImage \in Seq(Nat) /\ FlashPages \in Nat /\ BlockPages \in Nat \ {0}
  BY ImageAssumption, FlashAssumption
<1>3. flash \in [Pages -> Nat]
  <2>1. ASSUME NEW p \in Pages, p < Len(OldImage) PROVE OldImage[p + 1] \in Nat
    <3>1. p + 1 \in 1 .. Len(OldImage)
      BY <1>2, <2>1 DEF Pages
    <3>2. QED
      BY <1>2, <3>1, ElementOfSeq
  <2>2. QED
    BY <1>1, <2>1 DEF Erased
<1>4. Types
  <2>1. resp \in Seq({RESP_OK, RESP_ERROR})
    BY <1>1
  <2>2. QED
    BY <1>1, <1>3, <2>1, FreshTypes DEF Types
<1>5. HashOK
  <2>1. PICK b : b = (Len(OldImage) + BlockPages - 1) \div BlockPages
    OBVIOUS
  <2>2. b * BlockPages \in Nat /\ b * BlockPages >= Len(OldImage)
    BY <1>2, <2>1, RoundUp
  <2>3. PICK n \in Nat : n = b * BlockPages /\ n >= Len(OldImage)
    BY <2>2
  <2>4. hash_sector = [size |-> n, digest |-> hash256_generate(n)]
    BY <2>1, <2>3 DEF Init
  <2>5. hash_sector.size = n /\ hash_sector.digest = [p \in Covered(n) |-> flash[p]]
    BY <2>4 DEF hash256_generate
  <2>6. ASSUME NEW i \in 1 .. Len(OldImage) PROVE hash_sector.digest[i - 1] = OldImage[i]
    <3>1. i \in 1 .. n /\ i - 1 < Len(OldImage) /\ (i - 1) + 1 = i
      BY <1>2, <2>3
    <3>2. i - 1 \in Pages
      <4>1. 2 * n <= FlashPages
        BY <2>1, <2>3, ImageAssumption
      <4>2. QED
        BY <1>2, <2>3, <2>6, <4>1 DEF Pages
    <3>4. i - 1 \in Covered(n)
      BY <3>1, CoveredFacts
    <3>3. QED
      BY <1>1, <2>5, <3>1, <3>2, <3>4
  <2>7. QED
    BY <1>2, <2>3, <2>5, <2>6 DEF HashOK
<1>6. BootsWholeImage /\ AppIntact
  BY <1>1 DEF BootsWholeImage, AppIntact
<1>7. Booting
  BY <1>1 DEF Booting
<1>8. QED
  BY <1>4, <1>5, <1>6, <1>7 DEF DownloadInv, Phase

LEMMA InvariantKept == ASSUME SmallImage, DownloadInv, [Next]_vars PROVE DownloadInv'
<1>1. CASE BootloaderStep /\ UNCHANGED <<fpiVars, host, envVars>>
  BY <1>1, BootStep, BootloaderByteStep, DispatchStep, OffsetStep, EraseSizeStep,
     EraseBlockStep, EraseDoneStep, LoadPageStep, ProgramStep, StoreStep DEF BootloaderStep
<1>2. CASE KernelStep /\ UNCHANGED <<host, envVars>>
  BY <1>2, KernelTimeoutStep, KernelByteStep, FpiCommandStep, FpiAnswerStep DEF KernelStep
<1>3. CASE mode = "bootloader" /\ FrameTimeout /\ UNCHANGED <<bootVars, fpiVars, host, envVars>>
  BY <1>3, FrameTimeoutStep
<1>4. CASE StartKernelProg \/ StartAppProg
  BY <1>4, StartStep DEF StartKernelProg, StartAppProg
<1>5. CASE GetResponse \/ SendNext \/ HostTimeout \/ Cut
  BY <1>5, ResponseStep, SendStep, TimeoutStep, CutStep
<1>6. CASE PowerLoss \/ ForceBootloader
  BY <1>6, ResetStep DEF PowerLoss, ForceBootloader
<1>7. CASE UNCHANGED vars
  <2>1. UNCHANGED <<line, resp, host, deviceVars>>
    BY <1>7 DEF vars, serialVars, deviceVars
  <2>2. Types'
    BY <2>1, TypesKept DEF DownloadInv, Types, deviceVars, bootVars
  <2>3. HashOK' /\ BootsWholeImage' /\ AppIntact'
    BY <2>1, DataKept DEF deviceVars, bootVars, fpiVars
  <2>4. Phase'
    <3>1. \A t, s : Ready(t, s) => Ready(t, s)'
      BY <2>1, ReadyKept DEF deviceVars, bootVars, fpiVars
    <3>2. \A t, s : /\ Placed(t, s) => Placed(t, s)'
                    /\ Answered(t, s) => Answered(t, s)'
                    /\ Waits(t, s) => Waits(t, s)'
                    /\ Arrived(t, s) => Arrived(t, s)'
      BY <2>1, <3>1 DEF Placed, Answered, Waits, Arrived, Sent, deviceVars, bootVars
    <3>3. (Calm => Calm') /\ (Ignored => Ignored') /\ (Holds(NewImage) => Holds(NewImage)')
      BY <2>1 DEF Calm, Ignored, Holds, deviceVars, bootVars, fpiVars
    <3>4. CASE Still
      BY <2>1, <3>1, <3>2, <3>3, <3>4 DEF Phase, Still, Sent, deviceVars, bootVars
    <3>5. CASE Waking \/ Storing \/ Booting
      BY <2>1, <3>2, <3>3, <3>5 DEF Phase, Waking, Storing, Booting, Sent, deviceVars, bootVars,
                                    fpiVars
    <3>6. \A t, s, k, m : Moving(t, s, k, m) => Moving(t, s, k, m)'
      BY <2>1, <3>1, <3>2, <3>3 DEF Moving, Received, deviceVars
    <3>7. \A s : BootHandles(s) => BootHandles(s)'
      BY <2>1, <3>1, <3>2 DEF BootHandles, Written, deviceVars, bootVars, fpiVars
    <3>8. \A s : FpiHandles(s) => FpiHandles(s)'
      BY <2>1, <3>1, <3>2 DEF FpiHandles, deviceVars, bootVars, fpiVars
    <3>9. QED
      BY <3>4, <3>5, <3>6, <3>7, <3>8 DEF DownloadInv, Phase
  <2>5. QED
    BY <2>2, <2>3, <2>4 DEF DownloadInv
<1>8. QED
  BY <1>1, <1>2, <1>3, <1>4, <1>5, <1>6, <1>7 DEF Next, DeviceStep

\* The types, the stored hash and the frame under way are as DownloadInv says
\* in every state, for every image whose page numbers fit the flash command.
THEOREM DownloadInvariant == ASSUME SmallImage PROVE Spec => []DownloadInv
<1>1. Init => DownloadInv
  BY InitHolds
<1>2. DownloadInv /\ [Next]_vars => DownloadInv'
  BY InvariantKept
<1>3. QED
  BY <1>1, <1>2, PTL DEF Spec

\* No byte of a programmer arrives while the device uses its one frame buffer,
\* whatever answers were late or lost (bootloader/src/frame.c, fpi.c).
THEOREM HostAlwaysWaits == ASSUME SmallImage PROVE Spec => []HostWaits
<1>1. DownloadInv => HostWaits
  <2>1. SUFFICES ASSUME DownloadInv, Busy PROVE line = <<>> /\ bus_state = "IDLE"
    BY DEF HostWaits
  <2>2. CASE mode = "bootloader" /\ pc = "store"
    BY <2>1, <2>2, Located DEF DownloadInv, Storing
  <2>3. CASE mode = "bootloader" /\ pc # "store"
    <3>1. pc \notin {"poll", "store"} \/ (pc = "poll" /\ frame_received /\ frame.cmd # CMD_ALLOCATE_MEM)
      BY <2>1, <2>3 DEF Busy, CMD_ERASE_FLASH, CMD_SET_FLASH_OFFSET, CMD_ALLOCATE_MEM
    <3>2. PICK s \in 2 .. Steps("kernel") : BootHandles(s)
      BY <2>1, <2>3, <3>1, Located DEF DownloadInv
    <3>3. QED
      BY <3>2 DEF BootHandles, Arrived
  <2>4. CASE mode = "kernel"
    <3>1. PICK s \in 1 .. Steps("app") : FpiHandles(s)
      BY <2>1, <2>4, Located DEF DownloadInv, Busy
    <3>2. QED
      BY <3>1 DEF FpiHandles, Arrived
  <2>5. QED
    BY <2>1, <2>2, <2>3, <2>4 DEF Busy
<1>2. QED
  BY <1>1, DownloadInvariant, PTL

\* The bootloader never starts a kernel that is not one whole image, the old or
\* the new, wherever an update was interrupted (bootloader/src/main.c).
THEOREM WholeImageBoots == ASSUME SmallImage PROVE Spec => []BootsWholeImage
<1>1. DownloadInv => BootsWholeImage
  BY DEF DownloadInv
<1>2. QED
  BY <1>1, DownloadInvariant, PTL

\* fpi() launches only the application the host sent, every block once and in
\* order, relocated once (kernel/src/misc/fpi.c).
THEOREM AppStaysIntact == ASSUME SmallImage PROVE Spec => []AppIntact
<1>1. DownloadInv => AppIntact
  BY DEF DownloadInv
<1>2. QED
  BY <1>1, DownloadInvariant, PTL
=============================================================================
