------------------------------- MODULE MC_Usb --------------------------------
EXTENDS UsbCore

D(type, len, class) == [type |-> type, bLength |-> len, class |-> class]

\* A composite keyboard: two HID interfaces with HID descriptors in between,
\* 8-byte packets and a total length that is a multiple of them.
Keyboard ==
  [ep0 |-> 8, iProduct |-> 2, iManufacturer |-> 1, strings |-> [i \in 0 .. 2 |-> <<4, 10, 16>>[i + 1]],
   total |-> 64,
   descs |-> <<D("CONFIG", 9, 0), D("IFACE", 9, 3), D("HID", 9, 0), D("EP", 7, 0),
               D("IFACE", 9, 3), D("HID", 7, 0), D("EP", 7, 0), D("EP", 7, 0)>>]

\* A storage device without names, with 64-byte packets.
Storage ==
  [ep0 |-> 64, iProduct |-> 0, iManufacturer |-> 0, strings |-> [i \in 0 .. 0 |-> 4],
   total |-> 32, descs |-> <<D("CONFIG", 9, 0), D("IFACE", 9, 8), D("EP", 7, 0), D("EP", 7, 0)>>]

\* A device whose interface descriptor comes first: it is refused.
Malformed ==
  [ep0 |-> 16, iProduct |-> 0, iManufacturer |-> 0, strings |-> [i \in 0 .. 0 |-> 4],
   total |-> 18, descs |-> <<D("IFACE", 9, 3), D("CONFIG", 9, 0)>>]

MCDevices == {Keyboard, Storage, Malformed}
OneDevice == {Storage}
MCGarbage == {0, 5}
NoGarbage == {0}
=============================================================================
