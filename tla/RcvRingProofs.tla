--------------------------- MODULE RcvRingProofs ----------------------------
(***************************************************************************)
(* What the receive side passes up is intact and in order, for rings of    *)
(* every size, any packets, any lengths and any number of MCP loads.       *)
(*                                                                         *)
(* The argument counts: rcvs packets were marked since the MCP was loaded, *)
(* and there is a number T of pages the host has returned.  The entries of *)
(* packets T to rcvs - 1 have a marker, the other ones their own page's    *)
(* address; what the host reads is the packet of number T.                 *)
(***************************************************************************)
EXTENDS RcvRing, SequenceTheorems, TLAPS

Size == MAX_RCV_PKT_ENTRIES
At(j) == j % MAX_RCV_PKT_ENTRIES
Loading == mcp.RcvState = "init"
Coming == line.stat # "none"
Copying == mcp.RcvState \in {"R1", "R2", "R3", "R4"}
Carrying == mcp.RcvState \in {"R3", "R4"}

\* A packet for the packet module, with what its CRC vouches for.
Sound(p) ==
    /\ p.len \in PktHdrSize .. MYRPKT_MTU
    /\ p.wanted /\ p.crc => p.size = p.len /\ p.hdr.len[1] = p.len

\* The card's registers by its state.  The length in cur_len may be that of an
\* earlier packet, but it is one; the page of the entry is written by DMA only.
CardInv ==
    /\ Loading => /\ rcvs = 0 /\ up = <<>> /\ line = NoLine /\ host.pc = "out"
                  /\ mcp.last_rcv_pkt = 0
    /\ Coming => Sound(line.pkt)
    /\ mcp.RcvState \in {"wait", "R1", "R2"} => Coming /\ line.pkt.wanted
    /\ Carrying => Sound(mcp.old) /\ mcp.old.wanted
    /\ dma = "busy" => mcp.RcvState = "R4"
    /\ rcvs > 0 \/ Copying \/ mcp.RcvState = "wait" =>
         /\ mcp.cur_len \in PktHdrSize .. MYRPKT_MTU
         /\ mcp.expected_len \in {Round8(mcp.cur_len + 8), -1}
    /\ Copying =>
         /\ mcp.cur_hst_addr = PhysAddr(mcp.last_rcv_pkt)
         /\ rcv_pkt_list[mcp.last_rcv_pkt].len \in {mcp.cur_len, MYRPKT_MTU}
    /\ mcp.RcvState = "R4" /\ dma = "idle" =>
         page[mcp.last_rcv_pkt] = [pkt |-> mcp.old, copied |-> mcp.cur_len]

\* Where the host and the card are, and whose the entries are.
RingInv(T) ==
    /\ T <= rcvs /\ rcvs <= T + Size
    /\ IF host.pc = "len" THEN T > 0 /\ last_pkt = At(T - 1) ELSE last_pkt = At(T)
    /\ mcp.last_rcv_pkt = At(rcvs)
    /\ host.pc \in {"packet", "return"} => T < rcvs
    /\ Copying => rcvs < T + Size
    /\ \A j \in T .. rcvs - 1 : rcv_pkt_list[At(j)].phys_addr \in Markers
    /\ \A j \in rcvs .. T + Size - 1 : rcv_pkt_list[At(j)].phys_addr = PhysAddr(At(j))

\* The first packet the host has not looked at yet.
Seen(T) == IF host.pc = "return" THEN T + 1 ELSE T

\* What the entry and the page of a packet say that the host has still to look
\* at.  The length is the number of bytes copied, or was written over by the host.
Filled(e) ==
    /\ page[e].copied \in PktHdrSize .. MYRPKT_MTU
    /\ rcv_pkt_list[e].len \in {page[e].copied, MYRPKT_MTU}
    /\ page[e].pkt.wanted /\ Sound(page[e].pkt)
    /\ rcv_pkt_list[e].phys_addr = GOOD_PKT =>
         page[e].pkt.crc /\ Round8(page[e].copied + 8) = Round8(page[e].pkt.size + 8)
FillInv(T) == \A j \in Seen(T) .. rcvs - 1 : Filled(At(j))

\* The packets passed up, in pages, on the card and on the link are in the order
\* they came in.
Before(T, x) ==
    /\ \A i \in DOMAIN up : up[i].pkt.id < x
    /\ \A j \in Seen(T) .. rcvs - 1 : page[At(j)].pkt.id < x
OrderInv(T) ==
    /\ UpInOrder
    /\ \A j \in Seen(T) .. rcvs - 1 :
         /\ \A i \in DOMAIN up : up[i].pkt.id < page[At(j)].pkt.id
         /\ \A k \in Seen(T) .. rcvs - 1 : j < k => page[At(j)].pkt.id < page[At(k)].pkt.id
    /\ Before(T, arrived + 1)
    /\ Coming => Before(T, line.pkt.id) /\ line.pkt.id <= arrived
    /\ Carrying => /\ Before(T, mcp.old.id) /\ mcp.old.id <= arrived
                   /\ Coming => mcp.old.id < line.pkt.id

Running(T) == RingInv(T) /\ FillInv(T) /\ OrderInv(T)
RcvInv ==
    /\ TypeOK /\ CardInv /\ UpIntact
    /\ ~Loading => \E T \in 0 .. rcvs : Running(T)
-----------------------------------------------------------------------------
(* Indices of the ring.                                                    *)

\* The remainder is the only number below the divisor that fits.
LEMMA RemainderUnique ==
    ASSUME NEW a \in Nat, NEW s \in Nat \ {0}, NEW q \in Int, NEW r \in Nat,
           r < s, a = (s * q) + r
    PROVE  a % s = r
  <1> DEFINE p == a \div s
             t == a % s
  <1>1. p \in Int /\ t \in Nat /\ t < s
    OBVIOUS
  <1>2. a = (s * p) + t
    OBVIOUS
  <1> HIDE DEF p, t
  <1>3. t - r = s * (q - p)
    BY <1>1, <1>2
  <1>4. CASE q - p <= -1
    <2>1. s * (q - p) <= -s
      BY <1>1, <1>4
    <2> QED BY <1>1, <1>3, <2>1
  <1>5. CASE q - p >= 1
    <2>1. s * (q - p) >= s
      BY <1>1, <1>5
    <2> QED BY <1>1, <1>3, <2>1
  <1>6. CASE q = p
    <2>1. s * (q - p) = 0
      BY <1>1, <1>6
    <2>2. t = r
      BY <1>1, <1>3, <2>1
    <2> QED BY <2>2 DEF t
  <1> QED BY <1>1, <1>4, <1>5, <1>6

\* Numbers less than a round apart have different entries, ...
LEMMA EntriesDiffer ==
    ASSUME NEW a \in Nat, NEW b \in Nat, NEW s \in Nat \ {0}, a < b, b - a < s
    PROVE  a % s # b % s
  <1> SUFFICES ASSUME a % s = b % s PROVE FALSE
    OBVIOUS
  <1> DEFINE p == a \div s
             q == b \div s
  <1>1. p \in Int /\ q \in Int /\ a % s \in Int /\ b % s \in Int
    OBVIOUS
  <1>2. a = (s * p) + (a % s) /\ b = (s * q) + (b % s)
    OBVIOUS
  <1> HIDE DEF p, q
  <1>3. b - a = s * (q - p)
    BY <1>1, <1>2
  <1>4. CASE q - p <= 0
    <2>1. s * (q - p) <= 0
      BY <1>1, <1>4
    <2> QED BY <1>3, <2>1
  <1>5. CASE q - p >= 1
    <2>1. s * (q - p) >= s
      BY <1>1, <1>5
    <2> QED BY <1>3, <2>1
  <1> QED BY <1>1, <1>4, <1>5

\* ... a round apart they have the same one, ...
LEMMA RoundApart ==
    ASSUME NEW a \in Nat, NEW s \in Nat \ {0}
    PROVE  (a + s) % s = a % s
  <1> DEFINE p == a \div s
             t == a % s
  <1>1. p \in Int /\ t \in Nat /\ t < s /\ a = (s * p) + t
    OBVIOUS
  <1> HIDE DEF p, t
  <1>2. a + s = (s * (p + 1)) + t
    BY <1>1
  <1>3. (a + s) % s = t
    BY <1>1, <1>2, RemainderUnique
  <1> QED BY <1>3 DEF t

\* ... and the entry after that of n is that of n + 1.
LEMMA NextEntry ==
    ASSUME NEW n \in Nat, NEW s \in Nat \ {0}
    PROVE  ((n % s) + 1) % s = (n + 1) % s
  <1> DEFINE p == n \div s
             t == n % s
  <1>1. p \in Int /\ t \in Nat /\ t < s /\ n = (s * p) + t
    OBVIOUS
  <1> HIDE DEF p, t
  <1>2. CASE t + 1 < s
    <2>1. n + 1 = (s * p) + (t + 1)
      BY <1>1
    <2>2. (n + 1) % s = t + 1
      BY <1>1, <1>2, <2>1, RemainderUnique
    <2>3. t + 1 = (s * 0) + (t + 1)
      BY <1>1
    <2>4. (t + 1) % s = t + 1
      BY <1>1, <1>2, <2>3, RemainderUnique
    <2> QED BY <2>2, <2>4 DEF t
  <1>3. CASE t + 1 = s
    <2>1. n + 1 = (s * (p + 1)) + 0
      BY <1>1, <1>3
    <2>2. (n + 1) % s = 0
      BY <1>1, <2>1, RemainderUnique
    <2>3. t + 1 = (s * 1) + 0
      BY <1>1, <1>3
    <2>4. (t + 1) % s = 0
      BY <1>1, <2>3, RemainderUnique
    <2> QED BY <2>2, <2>4 DEF t
  <1> QED BY <1>1, <1>2, <1>3

\* The same in terms of At.
LEMMA AtIsEntry == \A j \in Nat : At(j) \in Entries
  BY RcvConstants DEF At, Entries

\* The ring has an entry.
LEMMA SizeIs == Size \in Nat /\ Size > 0
  BY RcvConstants DEF Size

\* Packets less than a round apart are in different entries, ...
LEMMA AtDiffer ==
    ASSUME NEW a \in Nat, NEW b \in Nat, a < b, b < a + Size
    PROVE  At(a) # At(b)
  <1>1. b - a < Size /\ Size \in Nat \ {0}
    BY SizeIs
  <1> QED BY <1>1, EntriesDiffer, Zenon DEF At, Size

\* ... a round apart in the same one, ...
LEMMA AtRound == \A a \in Nat : At(a + Size) = At(a)
  BY RoundApart, RcvConstants, Zenon DEF At, Size

\* ... and the host and the card go from one to the next.
LEMMA AtNext == \A a \in Nat : Advance(At(a)) = At(a + 1)
  BY NextEntry, RcvConstants, Zenon DEF At, Advance

\* An address is no marker: the card and the host tell them apart by the bits
\* they look at.
LEMMA AddressOrMarker ==
    /\ \A e \in Entries : /\ PhysAddr(e) \in Nat /\ PhysAddr(e) \notin Markers
                          /\ IsPage(PhysAddr(e)) /\ PhysAddr(e) % 16 = 0
                          /\ (PhysAddr(e) \div 16) - 1 = e
    /\ \A m \in Markers : m \in Nat /\ ~IsPage(m) /\ m % 16 # 0
  BY RcvConstants DEF Entries, PhysAddr, IsPage, Markers, GOOD_PKT, LONG_PKT, BAD_CRC_PKT, TRUNC_PKT

-----------------------------------------------------------------------------
(* What an assignment to one field leaves alone.                           *)

Slot == [phys_addr : Nat, len : Nat]
Frame == [pkt : Packet, copied : Nat]

\* The host or the card writes the length of an entry.
LEMMA LenUpdate ==
    ASSUME NEW f \in [Entries -> Slot], NEW g, NEW e \in Entries, NEW v \in Nat,
           g = [f EXCEPT ![e].len = v]
    PROVE  /\ g \in [Entries -> Slot] /\ g[e].len = v
           /\ \A x \in Entries : g[x].phys_addr = f[x].phys_addr
           /\ \A x \in Entries : x # e => g[x] = f[x]
  BY Zenon DEF Slot

\* The host or the card writes the address of an entry.
LEMMA AddrUpdate ==
    ASSUME NEW f \in [Entries -> Slot], NEW g, NEW e \in Entries, NEW v \in Nat,
           g = [f EXCEPT ![e].phys_addr = v]
    PROVE  /\ g \in [Entries -> Slot] /\ g[e].phys_addr = v
           /\ \A x \in Entries : g[x].len = f[x].len
           /\ \A x \in Entries : x # e => g[x] = f[x]
  BY Zenon DEF Slot

\* The host clears the header in a page.
LEMMA PageCleared ==
    ASSUME NEW f \in [Entries -> Frame], NEW g, NEW e \in Entries,
           g = [f EXCEPT ![e].copied = 0]
    PROVE  /\ g \in [Entries -> Frame]
           /\ \A x \in Entries : g[x].pkt = f[x].pkt
           /\ \A x \in Entries : x # e => g[x] = f[x]
  BY Zenon DEF Frame

\* No packet is one.
LEMMA NothingThere == NoPacket \in Packet
  <1>1. NoHdr \in Headers
    BY DEF Headers
  <1> QED BY <1>1 DEF NoPacket, Packet

\* A packet is copied into a page.
LEMMA PageFilled ==
    ASSUME NEW f \in [Entries -> Frame], NEW g, NEW e \in Entries, NEW v \in Frame,
           g = [f EXCEPT ![e] = v]
    PROVE  /\ g \in [Entries -> Frame] /\ g[e] = v
           /\ \A x \in Entries : x # e => g[x] = f[x]
  BY Zenon

\* The fields of a packet, and of what has a packet in it.
LEMMA PacketFields ==
    ASSUME NEW p \in Packet
    PROVE  p.id \in Nat /\ p.len \in Nat /\ p.size \in Nat
  BY DEF Packet

-----------------------------------------------------------------------------
(* What the entries say.                                                   *)

\* The card's entry has its page's address exactly if the ring is not full.
LEMMA CardsEntry ==
    ASSUME NEW T \in 0 .. rcvs, rcvs \in Nat, RingInv(T)
    PROVE  /\ mcp.last_rcv_pkt = At(rcvs) /\ At(rcvs) \in Entries
           /\ rcvs < T + Size => Entry.phys_addr = PhysAddr(At(rcvs))
           /\ ~(rcvs < T + Size) => Entry.phys_addr \in Markers /\ rcvs > 0
  <1>1. mcp.last_rcv_pkt = At(rcvs) /\ At(rcvs) \in Entries
    BY AtIsEntry DEF RingInv
  <1>2. ASSUME rcvs < T + Size PROVE Entry.phys_addr = PhysAddr(At(rcvs))
    <2>1. rcvs \in rcvs .. T + Size - 1
      BY <1>2, SizeIs
    <2> QED BY <1>1, <2>1 DEF RingInv, Entry
  <1>3. ASSUME ~(rcvs < T + Size) PROVE Entry.phys_addr \in Markers /\ rcvs > 0
    <2>1. rcvs = T + Size
      BY <1>3, SizeIs DEF RingInv
    <2>2. T \in T .. rcvs - 1 /\ rcvs > 0
      BY <2>1, SizeIs
    <2>3. At(rcvs) = At(T)
      BY <2>1, AtRound
    <2> QED BY <1>1, <2>2, <2>3 DEF RingInv, Entry
  <1> QED BY <1>1, <1>2, <1>3

\* The host's entry has a marker exactly if a packet is there.
LEMMA HostsEntry ==
    ASSUME NEW T \in 0 .. rcvs, rcvs \in Nat, RingInv(T), host.pc # "len"
    PROVE  /\ last_pkt = At(T) /\ At(T) \in Entries
           /\ rcv_pkt_list[last_pkt].phys_addr \in Markers => T < rcvs
  <1>1. last_pkt = At(T) /\ At(T) \in Entries
    BY AtIsEntry DEF RingInv
  <1>2. ASSUME ~(T < rcvs) PROVE rcv_pkt_list[last_pkt].phys_addr \notin Markers
    <2>1. T \in rcvs .. T + Size - 1
      BY <1>2, SizeIs
    <2> QED BY <1>1, <2>1, AddressOrMarker DEF RingInv
  <1> QED BY <1>1, <1>2

-----------------------------------------------------------------------------
(* What a step leaves alone.                                               *)

\* The handler goes on without returning a page or a length.
SameHost(T) ==
    /\ host.pc \in {"len", "return"} \/ host'.pc \in {"len", "return"} => host'.pc = host.pc
    /\ host'.pc = "packet" => T < rcvs
SameAddresses == \A e \in Entries : rcv_pkt_list'[e].phys_addr = rcv_pkt_list[e].phys_addr

\* ... the entries stay whose they are, ...
LEMMA RingKept ==
    ASSUME NEW T \in 0 .. rcvs, rcvs \in Nat, RingInv(T), SameHost(T), SameAddresses,
           UNCHANGED <<last_pkt, rcvs>>, mcp'.last_rcv_pkt = mcp.last_rcv_pkt,
           Copying' => rcvs < T + Size
    PROVE  RingInv(T)'
  <1>1. \A j \in T .. rcvs - 1 : rcv_pkt_list'[At(j)].phys_addr \in Markers
    BY AtIsEntry DEF RingInv, SameAddresses
  <1>2. \A j \in rcvs .. T + Size - 1 : rcv_pkt_list'[At(j)].phys_addr = PhysAddr(At(j))
    BY AtIsEntry, SizeIs DEF RingInv, SameAddresses
  <1>3. IF host'.pc = "len" THEN T > 0 /\ last_pkt' = At(T - 1) ELSE last_pkt' = At(T)
    BY DEF RingInv, SameHost
  <1>4. host'.pc \in {"packet", "return"} => T < rcvs'
    BY DEF RingInv, SameHost
  <1> QED BY <1>1, <1>2, <1>3, <1>4 DEF RingInv

\* ... the pages keep what they say, ...
LEMMA FillKept ==
    ASSUME NEW T \in 0 .. rcvs, rcvs \in Nat, FillInv(T), SameHost(T), SameAddresses,
           UNCHANGED <<page, rcvs>>,
           \A j \in Seen(T) .. rcvs - 1 :
             rcv_pkt_list'[At(j)].len \in {rcv_pkt_list[At(j)].len, MYRPKT_MTU}
    PROVE  FillInv(T)'
  <1>1. Seen(T)' = Seen(T) /\ Seen(T) \in Nat
    BY DEF Seen, SameHost
  <1>2. SUFFICES ASSUME NEW j \in Seen(T) .. rcvs - 1 PROVE Filled(At(j))'
    BY <1>1 DEF FillInv
  <1>3. Filled(At(j)) /\ At(j) \in Entries
    BY <1>1, AtIsEntry DEF FillInv
  <1> QED BY <1>1, <1>3, Zenon DEF Filled, SameAddresses, Sound

\* ... and packets keep their order.
LEMMA OrderKept ==
    ASSUME NEW T \in 0 .. rcvs, rcvs \in Nat, OrderInv(T), SameHost(T),
           UNCHANGED <<up, rcvs, arrived>>,
           \A j \in Seen(T) .. rcvs - 1 : page'[At(j)].pkt = page[At(j)].pkt,
           Coming' => Coming /\ line'.pkt = line.pkt,
           Carrying' => \/ Carrying /\ mcp'.old = mcp.old
                        \/ Coming /\ mcp'.old = line.pkt /\ ~Coming'
    PROVE  OrderInv(T)'
  <1>1. Seen(T)' = Seen(T) /\ Seen(T) \in Nat
    BY DEF Seen, SameHost
  <1>2. \A j \in Seen(T) .. rcvs - 1 : page'[At(j)].pkt = page[At(j)].pkt
    OBVIOUS
  <1>3. UpInOrder'
    BY DEF OrderInv, UpInOrder
  <1>4. \A j \in Seen(T) .. rcvs - 1 :
          /\ \A i \in DOMAIN up : up[i].pkt.id < page'[At(j)].pkt.id
          /\ \A k \in Seen(T) .. rcvs - 1 : j < k => page'[At(j)].pkt.id < page'[At(k)].pkt.id
    BY <1>2 DEF OrderInv
  <1>5. \A x : Before(T, x) => /\ \A i \in DOMAIN up' : up'[i].pkt.id < x
                               /\ \A j \in Seen(T) .. rcvs - 1 : page'[At(j)].pkt.id < x
    BY <1>2 DEF Before
  <1>6. Before(T, arrived + 1)'
    BY <1>1, <1>5 DEF OrderInv, Before
  <1>7. Coming' => Before(T, line.pkt.id)' /\ line'.pkt.id <= arrived'
    BY <1>1, <1>5, SMTT(60) DEF OrderInv, Before
  <1>8. Carrying' => /\ Before(T, mcp.old.id)' /\ mcp'.old.id <= arrived'
                     /\ Coming' => mcp'.old.id < line'.pkt.id
    BY <1>1, <1>5, SMTT(60) DEF OrderInv, Before
  <1> QED BY <1>1, <1>3, <1>4, <1>6, <1>7, <1>8, SMTT(60) DEF OrderInv

\* A step of the card that marks nothing.
LEMMA CardStep ==
    ASSUME RcvInv, NEW T \in 0 .. rcvs, Running(T), TypeOK', CardInv',
           UNCHANGED <<page, rcvs, last_pkt, host, up, arrived>>,
           mcp'.last_rcv_pkt = mcp.last_rcv_pkt, Copying' => rcvs < T + Size,
           SameAddresses, \A j \in T .. rcvs - 1 : rcv_pkt_list'[At(j)] = rcv_pkt_list[At(j)],
           Coming' => Coming /\ line'.pkt = line.pkt,
           Carrying' => \/ Carrying /\ mcp'.old = mcp.old
                        \/ Coming /\ mcp'.old = line.pkt /\ ~Coming'
    PROVE  RcvInv'
  <1>1. rcvs \in Nat
    BY Zenon DEF RcvInv, TypeOK
  <1>2. SameHost(T)
    BY DEF SameHost, Running, RingInv
  <1>3. RingInv(T)'
    BY <1>1, <1>2, RingKept DEF Running
  <1>4. \A j \in Seen(T) .. rcvs - 1 :
          rcv_pkt_list'[At(j)].len \in {rcv_pkt_list[At(j)].len, MYRPKT_MTU}
    BY <1>1 DEF Seen
  <1>5. FillInv(T)'
    BY <1>1, <1>2, <1>4, FillKept DEF Running
  <1>6. OrderInv(T)'
    BY <1>1, <1>2, OrderKept DEF Running
  <1>7. UpIntact'
    BY Zenon DEF RcvInv, UpIntact
  <1> QED BY <1>3, <1>5, <1>6, <1>7 DEF RcvInv, Running

-----------------------------------------------------------------------------
(* The card's steps.                                                       *)

\* What a call of rcv_statem() leaves to the others.
Call == UNCHANGED <<page, sndHolds, hostVars, arrived, loads, scene>>

\* A packet begins and its page is there.
LEMMA RcvBeginsStep ==
    ASSUME RcvInv, RcvBegins, Call
    PROVE  RcvInv'
  <1> DEFINE len == line.pkt.len
             e == mcp.last_rcv_pkt
             s == IF len > Entry.len THEN "R5" ELSE "R1"
  <1>1. /\ TypeOK /\ CardInv /\ mcp.RcvState = "R0" /\ Coming /\ line.pkt.wanted
        /\ IsPage(Entry.phys_addr)
    BY Zenon DEF RcvInv, RcvBegins, Coming
  <1>2. PICK T \in 0 .. rcvs : Running(T)
    BY <1>1 DEF RcvInv, Loading
  <1>3. rcvs \in Nat /\ rcvs < T + Size /\ e = At(rcvs) /\ e \in Entries
        /\ Entry.phys_addr = PhysAddr(e)
    BY <1>1, <1>2, CardsEntry, AddressOrMarker, Zenon DEF Running, TypeOK
  <1>4. line.pkt \in Packet /\ mcp \in Registers
    BY <1>1, Zenon DEF TypeOK, Stream
  <1>5. len \in Nat /\ len \in PktHdrSize .. MYRPKT_MTU /\ Round8(len + 8) \in Int
    BY <1>1, <1>4, PacketFields, SMTT(60) DEF CardInv, Sound, Round8
  <1>6. /\ mcp' \in Registers /\ mcp'.RcvState = s /\ mcp'.last_rcv_pkt = e
        /\ mcp'.cur_len = len /\ mcp'.expected_len = Round8(len + 8)
        /\ mcp'.cur_hst_addr = PhysAddr(e)
    <2>1. s \in RcvStates /\ PhysAddr(e) \in Nat
      BY <1>3, AddressOrMarker DEF RcvStates
    <2>2. mcp' = [mcp EXCEPT !.cur_len = len, !.expected_len = Round8(len + 8),
                             !.cur_hst_addr = PhysAddr(e), !.RcvState = s]
      BY <1>3 DEF RcvBegins
    <2> HIDE DEF len, s
    <2> QED BY <1>4, <1>5, <2>1, <2>2, Zenon DEF Registers
  <1>7. /\ rcv_pkt_list' \in [Entries -> Slot] /\ SameAddresses
        /\ \A x \in Entries : x # e => rcv_pkt_list'[x] = rcv_pkt_list[x]
        /\ s = "R1" => rcv_pkt_list'[e].len = len
    <2>1. rcv_pkt_list \in [Entries -> Slot]
      BY <1>1 DEF TypeOK, Slot
    <2>2. CASE len > Entry.len
      BY <2>1, <2>2 DEF RcvBegins, SameAddresses
    <2>3. CASE ~(len > Entry.len)
      <3>1. rcv_pkt_list' = [rcv_pkt_list EXCEPT ![e].len = len]
        BY <2>3 DEF RcvBegins, SetLen
      <3> QED BY <1>3, <1>5, <2>1, <3>1, LenUpdate DEF SameAddresses
    <2> QED BY <2>2, <2>3
  <1>8. UNCHANGED <<page, line, dma, rcvs, last_pkt, host, up, arrived, scene>> /\ LANai2host' = TRUE
    BY DEF RcvBegins, Call, hostVars, int_hst
  <1>9. TypeOK'
    BY <1>1, <1>6, <1>7, <1>8, Zenon DEF TypeOK, Slot
  <1>10. CardInv'
    <2> HIDE DEF len, e
    <2>1. s \in {"R1", "R5"}
      OBVIOUS
    <2> HIDE DEF s
    <2> QED BY <1>1, <1>5, <1>6, <1>7, <1>8, <2>1, Zenon
            DEF CardInv, Loading, Coming, Copying, Carrying, len, e
  <1>11. \A j \in T .. rcvs - 1 : rcv_pkt_list'[At(j)] = rcv_pkt_list[At(j)]
    BY <1>3, <1>7, AtDiffer, AtIsEntry, SizeIs
  <1>12. ~Carrying' /\ (Coming' => Coming /\ line'.pkt = line.pkt)
    BY <1>6, <1>8, Zenon DEF Carrying, Coming
  <1> QED BY <1>2, <1>3, <1>6, <1>7, <1>8, <1>9, <1>10, <1>11, <1>12, CardStep, Zenon

\* The host has not returned the page: only then the card waits.
LEMMA HostNotReadyStep ==
    ASSUME RcvInv, HostNotReady, Call
    PROVE  RcvInv'
  <1>1. /\ TypeOK /\ CardInv /\ mcp.RcvState = "R0" /\ Coming /\ line.pkt.wanted
        /\ ~IsPage(Entry.phys_addr)
    BY DEF RcvInv, HostNotReady, Coming
  <1>2. PICK T \in 0 .. rcvs : Running(T)
    BY <1>1 DEF RcvInv, Loading
  <1>3. rcvs \in Nat /\ rcvs > 0
    BY <1>1, <1>2, CardsEntry, AddressOrMarker, Zenon DEF Running, TypeOK
  <1>4. /\ mcp' \in Registers /\ mcp'.RcvState = "wait" /\ mcp'.last_rcv_pkt = mcp.last_rcv_pkt
        /\ mcp'.cur_len = mcp.cur_len /\ mcp'.expected_len = mcp.expected_len
    BY <1>1, Zenon DEF HostNotReady, TypeOK, Registers, RcvStates
  <1>5. UNCHANGED <<rcv_pkt_list, page, line, dma, rcvs, last_pkt, host, up, arrived, scene>>
        /\ LANai2host' = TRUE
    BY DEF HostNotReady, Call, hostVars
  <1>6. TypeOK'
    BY <1>1, <1>4, <1>5 DEF TypeOK
  <1>7. CardInv'
    BY <1>1, <1>3, <1>4, <1>5, Zenon DEF CardInv, Loading, Coming, Copying, Carrying
  <1>8. ~Carrying' /\ ~Copying' /\ (Coming' => Coming /\ line'.pkt = line.pkt)
    BY <1>4, <1>5, SMTT(60) DEF Carrying, Copying, Coming
  <1> QED BY <1>2, <1>4, <1>5, <1>6, <1>7, <1>8, CardStep, SMTT(60) DEF SameAddresses

\* The wait is over: the page is there, or the packet is dumped.
LEMMA WaitOverStep ==
    ASSUME RcvInv, WaitOver, Call
    PROVE  RcvInv'
  <1> DEFINE e == mcp.last_rcv_pkt
  <1>1. TypeOK /\ CardInv /\ mcp.RcvState = "wait"
    BY DEF RcvInv, WaitOver
  <1>2. PICK T \in 0 .. rcvs : Running(T)
    BY <1>1 DEF RcvInv, Loading
  <1>3. UNCHANGED <<page, line, dma, rcvs, last_pkt, host, up, arrived, scene, LANai2host>>
    BY DEF WaitOver, Call, hostVars
  <1>4. CASE Entry.phys_addr % 16 # 0
    <2>1. /\ mcp' \in Registers /\ mcp'.RcvState = "R5" /\ mcp'.last_rcv_pkt = e
          /\ mcp'.cur_len = mcp.cur_len /\ mcp'.expected_len = mcp.expected_len
      BY <1>1, <1>4, ZenonT(60) DEF WaitOver, TypeOK, Registers, RcvStates
    <2>2. rcv_pkt_list' = rcv_pkt_list
      BY <1>4 DEF WaitOver
    <2>3. TypeOK'
      BY <1>1, <1>3, <2>1, <2>2 DEF TypeOK
    <2>4. CardInv'
      BY <1>1, <1>3, <2>1, <2>2, Zenon DEF CardInv, Loading, Coming, Copying, Carrying
    <2>5. ~Carrying' /\ ~Copying' /\ (Coming' => Coming /\ line'.pkt = line.pkt)
      BY <1>3, <2>1 DEF Carrying, Copying, Coming
    <2> QED BY <1>2, <1>3, <2>1, <2>2, <2>3, <2>4, <2>5, CardStep DEF SameAddresses
  <1>5. CASE ~(Entry.phys_addr % 16 # 0)
    <2>1. rcvs \in Nat /\ rcvs < T + Size /\ e = At(rcvs) /\ e \in Entries
          /\ Entry.phys_addr = PhysAddr(e)
      BY <1>1, <1>2, <1>5, CardsEntry, AddressOrMarker, Zenon DEF Running, TypeOK
    <2>2. /\ mcp' \in Registers /\ mcp'.RcvState = "R1" /\ mcp'.last_rcv_pkt = e
          /\ mcp'.cur_len = mcp.cur_len /\ mcp'.expected_len = mcp.expected_len
          /\ mcp'.cur_hst_addr = PhysAddr(e) /\ mcp.cur_len \in Nat
      <3>1. mcp' = [mcp EXCEPT !.RcvState = "R1", !.cur_hst_addr = PhysAddr(e)]
        BY <1>5, <2>1 DEF WaitOver
      <3>2. PhysAddr(e) \in Nat /\ mcp \in Registers /\ "R1" \in RcvStates
        BY <1>1, <2>1, AddressOrMarker DEF TypeOK, RcvStates
      <3> HIDE DEF e
      <3> QED BY <3>1, <3>2, Zenon DEF Registers, e
    <2>3. /\ rcv_pkt_list' \in [Entries -> Slot] /\ SameAddresses
          /\ \A x \in Entries : x # e => rcv_pkt_list'[x] = rcv_pkt_list[x]
          /\ rcv_pkt_list'[e].len = mcp.cur_len
      <3>1. rcv_pkt_list \in [Entries -> Slot]
        BY <1>1 DEF TypeOK, Slot
      <3>2. rcv_pkt_list' = [rcv_pkt_list EXCEPT ![e].len = mcp.cur_len]
        BY <1>5 DEF WaitOver, SetLen
      <3> QED BY <2>1, <2>2, <3>1, <3>2, LenUpdate DEF SameAddresses
    <2>4. TypeOK'
      BY <1>1, <1>3, <2>2, <2>3, Zenon DEF TypeOK, Slot
    <2>5. CardInv'
      BY <1>1, <1>3, <2>2, <2>3, Zenon DEF CardInv, Loading, Coming, Copying, Carrying
    <2>6. \A j \in T .. rcvs - 1 : rcv_pkt_list'[At(j)] = rcv_pkt_list[At(j)]
      BY <2>1, <2>3, AtDiffer, AtIsEntry, SizeIs, SMTT(60)
    <2>7. ~Carrying' /\ (Coming' => Coming /\ line'.pkt = line.pkt)
      BY <1>3, <2>2 DEF Carrying, Coming
    <2> QED BY <1>2, <1>3, <2>1, <2>2, <2>3, <2>4, <2>5, <2>6, <2>7, CardStep, Zenon
  <1> QED BY <1>4, <1>5

\* A new receive is posted: what is left of the packet goes on, or none is there.
LEMMA StreamPosted ==
    ASSUME line \in Stream, Post
    PROVE  /\ line' \in Stream
           /\ line.stat = "full" => line'.stat = "begun" /\ line'.pkt = line.pkt
           /\ line.stat # "full" => line'.stat = "none"
  <1>1. NoLine \in Stream /\ NoLine.stat = "none"
    BY NothingThere DEF NoLine, Stream
  <1> QED BY <1>1 DEF Post, Stream

\* Steps that change the state of the card alone.
LEMMA QuietCall ==
    ASSUME RcvInv, NotForUs \/ GrabBus \/ PushToHost, Call
    PROVE  RcvInv'
  <1>1. TypeOK /\ CardInv /\ ~Loading
    BY SMTT(60) DEF RcvInv, NotForUs, GrabBus, PushToHost, Loading
  <1>2. PICK T \in 0 .. rcvs : Running(T)
    BY <1>1 DEF RcvInv
  <1>3. UNCHANGED <<rcv_pkt_list, page, line, rcvs, last_pkt, host, up, arrived, scene, LANai2host>>
    BY DEF NotForUs, GrabBus, PushToHost, Call, hostVars
  <1>4. /\ \/ mcp.RcvState = "R0" /\ mcp'.RcvState = "R5" /\ dma' = dma
           \/ mcp.RcvState = "R1" /\ mcp'.RcvState = "R2" /\ dma' = dma
           \/ mcp.RcvState = "R3" /\ mcp'.RcvState = "R4" /\ dma' = "busy"
        /\ mcp' = [mcp EXCEPT !.RcvState = mcp'.RcvState]
    BY <1>1, Zenon DEF NotForUs, GrabBus, PushToHost, TypeOK, Registers
  <1>5. /\ mcp' \in Registers /\ mcp'.last_rcv_pkt = mcp.last_rcv_pkt
        /\ mcp'.cur_len = mcp.cur_len /\ mcp'.expected_len = mcp.expected_len
        /\ mcp'.cur_hst_addr = mcp.cur_hst_addr /\ mcp'.old = mcp.old
    BY <1>1, <1>4, Zenon DEF TypeOK, Registers, RcvStates
  <1>6. TypeOK'
    BY <1>1, <1>3, <1>4, <1>5 DEF TypeOK
  <1>7. CardInv'
    BY <1>1, <1>3, <1>4, <1>5, SMTT(60) DEF CardInv, Loading, Coming, Copying, Carrying
  <1>8. /\ Coming' => Coming /\ line'.pkt = line.pkt
        /\ Carrying' => Carrying
        /\ Copying' => Copying
    BY <1>3, <1>4 DEF Carrying, Copying, Coming
  <1>9. Copying' => rcvs < T + Size
    BY <1>2, <1>8 DEF Running, RingInv
  <1> QED BY <1>2, <1>3, <1>5, <1>6, <1>7, <1>8, <1>9, CardStep, Zenon DEF SameAddresses

\* The packet is in, or more than a buffer of it.
LEMMA BufferDoneStep ==
    ASSUME RcvInv, BufferDone, Call
    PROVE  RcvInv'
  <1>1. TypeOK /\ CardInv /\ mcp.RcvState = "R2" /\ line.stat \in {"in", "full"} /\ Coming
    BY SMTT(60) DEF RcvInv, BufferDone, Coming
  <1>2. PICK T \in 0 .. rcvs : Running(T)
    BY <1>1 DEF RcvInv, Loading
  <1>3. UNCHANGED <<rcv_pkt_list, page, dma, rcvs, last_pkt, host, up, arrived, scene, LANai2host>>
    BY DEF BufferDone, Call, hostVars
  <1>4. line.pkt \in Packet /\ mcp \in Registers
    BY <1>1 DEF TypeOK, Stream
  <1>5. /\ line' \in Stream
        /\ line.stat = "full" => line'.stat = "begun" /\ line'.pkt = line.pkt
        /\ line.stat = "in" => line'.stat = "none"
    BY <1>1, StreamPosted DEF BufferDone, TypeOK
  <1>6. /\ mcp' \in Registers /\ mcp'.last_rcv_pkt = mcp.last_rcv_pkt
        /\ mcp'.cur_len = mcp.cur_len /\ mcp'.cur_hst_addr = mcp.cur_hst_addr
        /\ mcp'.old = line.pkt
        /\ line.stat = "full" => mcp'.RcvState = "R5" /\ mcp'.expected_len = -1
        /\ line.stat = "in" => mcp'.RcvState = "R3" /\ mcp'.expected_len = mcp.expected_len
    <2>1. CASE line.stat = "full"
      <3>1. mcp' = [mcp EXCEPT !.RcvState = "R5", !.expected_len = -1, !.old = line.pkt]
        BY <2>1 DEF BufferDone
      <3> DEFINE x == -1
      <3>2. x \in Int /\ mcp' = [mcp EXCEPT !.RcvState = "R5", !.expected_len = x, !.old = line.pkt]
        BY <3>1
      <3>3. mcp'.expected_len = x => mcp'.expected_len = -1
        OBVIOUS
      <3> HIDE DEF x
      <3> QED BY <1>4, <2>1, <3>2, <3>3, Zenon DEF Registers, RcvStates
    <2>2. CASE line.stat = "in"
      <3>1. mcp' = [mcp EXCEPT !.RcvState = "R3", !.old = line.pkt]
        BY <2>2 DEF BufferDone
      <3> QED BY <1>4, <2>2, <3>1, Zenon DEF Registers, RcvStates
    <2> QED BY <1>1, <2>1, <2>2, Zenon
  <1>7. TypeOK'
    BY <1>1, <1>3, <1>5, <1>6, Zenon DEF TypeOK
  <1>8. CardInv'
    BY <1>1, <1>3, <1>5, <1>6, Zenon DEF CardInv, Loading, Coming, Copying, Carrying
  <1>9. /\ Coming' => Coming /\ line'.pkt = line.pkt
        /\ Carrying' => Coming /\ mcp'.old = line.pkt /\ ~Coming'
        /\ Copying /\ rcvs < T + Size
    BY <1>1, <1>2, <1>5, <1>6, Zenon DEF Carrying, Copying, Coming, Running, RingInv
  <1> QED BY <1>2, <1>3, <1>6, <1>7, <1>8, <1>9, CardStep, Zenon DEF SameAddresses

\* The rest of a packet streams in.
LEMMA ConsumeStep ==
    ASSUME RcvInv, Consume, Call
    PROVE  RcvInv'
  <1>1. TypeOK /\ CardInv /\ mcp.RcvState = "R5" /\ line.stat \in {"in", "full"} /\ Coming
    BY DEF RcvInv, Consume, Coming
  <1>2. PICK T \in 0 .. rcvs : Running(T)
    BY <1>1 DEF RcvInv, Loading
  <1>3. UNCHANGED <<rcv_pkt_list, page, dma, rcvs, last_pkt, host, up, arrived, scene, LANai2host>>
    BY DEF Consume, Call, hostVars
  <1>4. /\ line' \in Stream
        /\ line.stat = "full" => line'.pkt = line.pkt
        /\ line.stat = "in" => line'.stat = "none"
    BY <1>1, StreamPosted DEF Consume, TypeOK
  <1>5. mcp'.RcvState \in {"R0", "R5"} /\ mcp' = [mcp EXCEPT !.RcvState = mcp'.RcvState]
    BY <1>1 DEF Consume, TypeOK, Registers
  <1>6. /\ mcp' \in Registers /\ mcp'.last_rcv_pkt = mcp.last_rcv_pkt
        /\ mcp'.cur_len = mcp.cur_len /\ mcp'.expected_len = mcp.expected_len
    BY <1>1, <1>5, Zenon DEF TypeOK, Registers, RcvStates
  <1>7. TypeOK'
    BY <1>1, <1>3, <1>4, <1>6 DEF TypeOK
  <1>8. CardInv'
    BY <1>1, <1>3, <1>4, <1>5, <1>6 DEF CardInv, Loading, Coming, Copying, Carrying
  <1>9. ~Carrying' /\ ~Copying' /\ (Coming' => Coming /\ line'.pkt = line.pkt)
    BY <1>1, <1>4, <1>5 DEF Carrying, Copying, Coming
  <1> QED BY <1>2, <1>3, <1>6, <1>7, <1>8, <1>9, CardStep, Zenon DEF SameAddresses

\* The copy is done: the entry gets its marker and the card goes on to the next.
LEMMA MarkEntryStep ==
    ASSUME RcvInv, MarkEntry, Call
    PROVE  RcvInv'
  <1> DEFINE e == mcp.last_rcv_pkt
             m == Marker(Round8(mcp.old.size + 8))
  <1>1. TypeOK /\ CardInv /\ mcp.RcvState = "R4" /\ dma = "idle" /\ UpIntact
    BY DEF RcvInv, MarkEntry
  <1>2. PICK T \in 0 .. rcvs : Running(T)
    BY <1>1 DEF RcvInv, Loading
  <1>3. /\ UNCHANGED <<page, line, dma, last_pkt, host, up, arrived, scene, LANai2host>>
        /\ rcvs' = rcvs + 1
    BY DEF MarkEntry, Call, hostVars
  <1>4. rcvs \in Nat /\ rcvs < T + Size /\ e = At(rcvs) /\ e \in Entries /\ Size \in Nat
    BY <1>1, <1>2, CardsEntry, SizeIs, Zenon DEF Running, TypeOK, RingInv, Copying
  <1>5. m \in Markers
    BY DEF Marker, Markers
  <1>6. /\ mcp' \in Registers /\ mcp'.RcvState = "R0" /\ mcp'.last_rcv_pkt = At(rcvs + 1)
        /\ mcp'.cur_len = mcp.cur_len /\ mcp'.expected_len = mcp.expected_len
    <2>1. mcp' = [mcp EXCEPT !.RcvState = "R0", !.last_rcv_pkt = Advance(e)]
      BY DEF MarkEntry
    <2>2. Advance(e) = At(rcvs + 1) /\ At(rcvs + 1) \in Entries
      BY <1>4, AtNext, AtIsEntry
    <2> HIDE DEF e
    <2> QED BY <1>1, <2>1, <2>2, Zenon DEF TypeOK, Registers, RcvStates
  <1>7. /\ rcv_pkt_list' \in [Entries -> Slot] /\ rcv_pkt_list'[e].phys_addr = m
        /\ \A x \in Entries : rcv_pkt_list'[x].len = rcv_pkt_list[x].len
        /\ \A x \in Entries : x # e => rcv_pkt_list'[x] = rcv_pkt_list[x]
    <2>1. rcv_pkt_list \in [Entries -> Slot]
      BY <1>1 DEF TypeOK, Slot
    <2>2. rcv_pkt_list' = [rcv_pkt_list EXCEPT ![e].phys_addr = m]
      BY DEF MarkEntry
    <2>3. m \in Nat
      BY <1>5, AddressOrMarker
    <2> HIDE DEF m
    <2> QED BY <1>4, <2>1, <2>2, <2>3, AddrUpdate
  <1>8. TypeOK'
    BY <1>1, <1>3, <1>4, <1>6, <1>7, SMTT(60) DEF TypeOK, Slot
  <1>9. CardInv'
    <2> HIDE DEF m, e
    <2>1. mcp.cur_len \in PktHdrSize .. MYRPKT_MTU /\ mcp.expected_len \in {Round8(mcp.cur_len + 8), -1}
      BY <1>1, Zenon DEF CardInv, Copying
    <2> QED BY <1>1, <1>3, <1>6, <2>1, Zenon DEF CardInv, Loading, Coming, Copying, Carrying
  <1>10. \A j \in Nat : T <= j /\ j < T + Size /\ j # rcvs => At(j) # e /\ At(j) \in Entries
    <2> SUFFICES ASSUME NEW j \in Nat, T <= j, j < T + Size, j # rcvs
                 PROVE  At(j) # At(rcvs) /\ At(j) \in Entries
      BY <1>4
    <2>1. CASE j < rcvs
      BY <1>4, <2>1, AtDiffer, AtIsEntry
    <2>2. CASE rcvs < j
      BY <1>4, <2>2, AtDiffer, AtIsEntry, SMTT(60)
    <2> QED BY <1>4, <2>1, <2>2
  <1> HIDE DEF m, e
  <1>11. RingInv(T)'
    <2>1. \A j \in T .. rcvs : rcv_pkt_list'[At(j)].phys_addr \in Markers
      <3> SUFFICES ASSUME NEW j \in T .. rcvs PROVE rcv_pkt_list'[At(j)].phys_addr \in Markers
        OBVIOUS
      <3>1. CASE j = rcvs
        BY <1>4, <1>5, <1>7, <3>1
      <3>2. CASE j # rcvs
        BY <1>2, <1>4, <1>7, <1>10, <3>2, SMTT(60) DEF Running, RingInv
      <3> QED BY <3>1, <3>2
    <2>2. \A j \in rcvs + 1 .. T + Size - 1 : rcv_pkt_list'[At(j)].phys_addr = PhysAddr(At(j))
      BY <1>2, <1>4, <1>7, <1>10, SMTT(60) DEF Running, RingInv
    <2>3. /\ T <= rcvs + 1 /\ rcvs + 1 <= T + Size /\ ~Copying'
          /\ IF host.pc = "len" THEN T > 0 /\ last_pkt = At(T - 1) ELSE last_pkt = At(T)
          /\ host.pc \in {"packet", "return"} => T < rcvs + 1
      BY <1>2, <1>4, <1>6, SMTT(60) DEF Running, RingInv, Copying
    <2>4. rcvs' - 1 = rcvs
      BY <1>3, <1>4
    <2> QED BY <1>3, <1>6, <2>1, <2>2, <2>3, <2>4, Zenon DEF RingInv
  <1>12. Seen(T)' = Seen(T) /\ Seen(T) \in Nat /\ Seen(T) >= T /\ Seen(T) <= rcvs
    BY <1>2, <1>3, <1>4, SMTT(60) DEF Seen, Running, RingInv
  <1>13. page[At(rcvs)] = [pkt |-> mcp.old, copied |-> mcp.cur_len]
    BY <1>1, <1>4, Zenon DEF CardInv, e
  <1>14. FillInv(T)'
    <2> SUFFICES ASSUME NEW j \in Seen(T) .. rcvs PROVE Filled(At(j))'
      BY <1>3, <1>4, <1>12 DEF FillInv
    <2>1. CASE j = rcvs
      <3>1. page'[e].pkt = mcp.old /\ page'[e].copied = mcp.cur_len
        BY <1>3, <1>4, <1>13, SMTT(60)
      <3>2. /\ mcp.cur_len \in PktHdrSize .. MYRPKT_MTU /\ mcp.old.wanted /\ Sound(mcp.old)
            /\ mcp.expected_len \in {Round8(mcp.cur_len + 8), -1}
            /\ rcv_pkt_list[e].len \in {mcp.cur_len, MYRPKT_MTU}
        BY <1>1, Zenon DEF CardInv, Copying, Carrying, e
      <3>3. mcp.old.size \in Nat /\ mcp.expected_len \in Int
        BY <1>1, PacketFields DEF TypeOK, Registers
      <3>4. m = GOOD_PKT => mcp.old.crc /\ Round8(mcp.cur_len + 8) = Round8(mcp.old.size + 8)
        BY <3>2, <3>3, SMTT(60) DEF m, Marker, GOOD_PKT, LONG_PKT, BAD_CRC_PKT, TRUNC_PKT, Round8
      <3> QED BY <1>4, <1>7, <2>1, <3>1, <3>2, <3>4, Zenon DEF Filled, Sound
    <2>2. CASE j # rcvs
      <3>1. Filled(At(j)) /\ rcv_pkt_list'[At(j)] = rcv_pkt_list[At(j)]
        BY <1>2, <1>4, <1>7, <1>10, <1>12, <2>2 DEF Running, FillInv
      <3> QED BY <1>3, <3>1, Zenon DEF Filled, Sound
    <2> QED BY <2>1, <2>2
  <1>15. OrderInv(T)'
    <2>1. OrderInv(T) /\ mcp.old.id \in Nat /\ arrived \in Nat
      BY <1>1, <1>2, PacketFields, Zenon DEF Running, TypeOK, Registers
    <2>2. Before(T, mcp.old.id) /\ mcp.old.id <= arrived /\ (Coming => mcp.old.id < line.pkt.id)
      BY <1>1, <2>1, Zenon DEF OrderInv, Carrying
    <2>3. \A j \in Seen(T) .. rcvs : j # rcvs => j \in Seen(T) .. rcvs - 1
      BY <1>4, <1>12
    <2>4. page[At(rcvs)].pkt = mcp.old
      BY <1>13, SMTT(60)
    <2>5. UpInOrder' /\ ~Carrying' /\ (Coming' <=> Coming)
      BY <1>3, <1>6, <2>1, Zenon DEF OrderInv, UpInOrder, Carrying, Coming
    <2>6. \A j \in Seen(T) .. rcvs :
            /\ \A i \in DOMAIN up : up[i].pkt.id < page[At(j)].pkt.id
            /\ \A k \in Seen(T) .. rcvs : j < k => page[At(j)].pkt.id < page[At(k)].pkt.id
      BY <1>4, <1>12, <2>1, <2>2, <2>3, <2>4, SMTT(60) DEF OrderInv, Before
    <2>7. Before(T, arrived + 1)'
      BY <1>3, <1>4, <1>12, <2>1, <2>2, <2>3, <2>4, SMTT(60) DEF OrderInv, Before
    <2>8. Coming' => Before(T, line.pkt.id)' /\ line'.pkt.id <= arrived'
      BY <1>3, <1>4, <1>12, <2>1, <2>2, <2>3, <2>4, <2>5, SMTT(60) DEF OrderInv, Before
    <2>9. rcvs' - 1 = rcvs
      BY <1>3, <1>4
    <2> QED BY <1>3, <1>12, <2>5, <2>6, <2>7, <2>8, <2>9, Zenon DEF OrderInv
  <1>16. T \in 0 .. rcvs'
    BY <1>3, <1>4
  <1>17. UpIntact'
    BY <1>1, <1>3, Zenon DEF UpIntact
  <1> QED BY <1>8, <1>9, <1>11, <1>14, <1>15, <1>16, <1>17 DEF RcvInv, Running

-----------------------------------------------------------------------------
(* The link, the DMA engine and the clocks.                                *)

\* The DMA engine writes into the page of the card's entry and no other one.
LEMMA DmaDoneStep ==
    ASSUME RcvInv, DmaDone
    PROVE  RcvInv'
  <1> DEFINE e == mcp.last_rcv_pkt
             v == [pkt |-> mcp.old, copied |-> mcp.cur_len]
  <1>1. TypeOK /\ CardInv /\ mcp.RcvState = "R4" /\ dma' = "idle" /\ UpIntact
    BY Zenon DEF RcvInv, DmaDone, CardInv
  <1>2. PICK T \in 0 .. rcvs : Running(T)
    BY <1>1 DEF RcvInv, Loading
  <1>3. UNCHANGED <<rcv_pkt_list, mcp, line, rcvs, last_pkt, host, up, arrived, scene, LANai2host>>
    BY Zenon DEF DmaDone, hostVars
  <1>4. rcvs \in Nat /\ rcvs < T + Size /\ e = At(rcvs) /\ e \in Entries /\ Size \in Nat
    BY <1>1, <1>2, CardsEntry, SizeIs, Zenon DEF Running, TypeOK, RingInv, Copying
  <1>5. page' = [page EXCEPT ![e] = v]
    <2>1. mcp.cur_hst_addr = PhysAddr(e)
      BY <1>1, Zenon DEF CardInv, Copying
    <2> QED BY <1>4, <2>1, AddressOrMarker, Zenon DEF DmaDone
  <1>6. /\ page' \in [Entries -> Frame] /\ page'[e] = v
        /\ \A x \in Entries : x # e => page'[x] = page[x]
    <2>1. page \in [Entries -> Frame] /\ v \in Frame
      BY <1>1, Zenon DEF TypeOK, Frame, Registers
    <2> HIDE DEF v
    <2> QED BY <1>4, <1>5, <2>1, PageFilled
  <1>7. TypeOK'
    BY <1>1, <1>3, <1>6, Zenon DEF TypeOK, Frame
  <1>8. CardInv'
    BY <1>1, <1>3, <1>6, Zenon DEF CardInv, Loading, Coming, Copying, Carrying
  <1>9. Seen(T)' = Seen(T) /\ Seen(T) \in Nat /\ Seen(T) >= T
    BY <1>3 DEF Seen
  <1>10. \A j \in Seen(T) .. rcvs - 1 : page'[At(j)] = page[At(j)]
    BY <1>4, <1>6, <1>9, AtDiffer, AtIsEntry, SMTT(60)
  <1>11. RingInv(T)'
    BY <1>2, <1>3, Zenon DEF Running, RingInv, Copying
  <1>12. FillInv(T)'
    BY <1>2, <1>3, <1>9, <1>10, ZenonT(60) DEF Running, FillInv, Filled, Sound
  <1>13. OrderInv(T)'
    <2>1. SameHost(T)
      BY <1>2, <1>3, Zenon DEF SameHost, Running, RingInv
    <2> QED BY <1>2, <1>3, <1>4, <1>10, <2>1, OrderKept, Zenon DEF Running, Coming, Carrying
  <1>14. UpIntact'
    BY <1>1, <1>3, Zenon DEF UpIntact
  <1> QED BY <1>3, <1>7, <1>8, <1>11, <1>12, <1>13, <1>14 DEF RcvInv, Running

\* A packet begins to come in, after all those before it.
LEMMA ArriveStep ==
    ASSUME RcvInv, Arrive
    PROVE  RcvInv'
  <1>1. TypeOK /\ CardInv /\ ~Loading /\ ~Coming /\ UpIntact
    BY Zenon DEF RcvInv, Arrive, Loading, Coming
  <1>2. PICK T \in 0 .. rcvs : Running(T)
    BY <1>1 DEF RcvInv
  <1>3. /\ UNCHANGED <<rcv_pkt_list, page, mcp, dma, rcvs, last_pkt, host, up, scene, LANai2host>>
        /\ arrived' = arrived + 1 /\ arrived \in Nat /\ rcvs \in Nat
    BY <1>1, Zenon DEF Arrive, hostVars, TypeOK
  <1>4. line' \in Stream /\ line'.stat = "begun" /\ line'.pkt.id = arrived + 1 /\ Sound(line'.pkt)
    <2>1. PICK s \in scene.shapes :
            line' = [pkt |-> [id |-> arrived + 1, wanted |-> s.wanted, len |-> s.len,
                              size |-> s.size, crc |-> s.crc, hdr |-> s.hdr],
                     left |-> s.size, stat |-> "begun"]
      BY Zenon DEF Arrive
    <2>2. /\ s.len \in PktHdrSize .. MYRPKT_MTU /\ s.len \in Nat /\ s.size \in Nat
          /\ s.wanted \in BOOLEAN /\ s.crc \in BOOLEAN
          /\ s.wanted /\ s.crc => s.size = s.len /\ s.hdr.len[1] = s.len
          /\ s.hdr \in Headers
      <3>1. scene \in Scenarios
        BY <1>1, Zenon DEF TypeOK
      <3> QED BY <3>1, RcvConstants, CrcAssumption, SMTT(60) DEF Headers
    <2>3. line'.pkt \in Packet
      <3>1. arrived + 1 \in Nat
        BY <1>3
      <3> QED BY <2>1, <2>2, <3>1, Zenon DEF Packet
    <2> QED BY <2>1, <2>2, <2>3, Zenon DEF Stream, Sound
  <1>5. TypeOK'
    <2>1. arrived' \in Nat
      BY <1>3
    <2> QED BY <1>1, <1>3, <1>4, <2>1, Zenon DEF TypeOK
  <1>6. CardInv'
    BY <1>1, <1>3, <1>4, Zenon DEF CardInv, Loading, Coming, Copying, Carrying
  <1>7. Seen(T)' = Seen(T)
    BY <1>3 DEF Seen
  <1>8. RingInv(T)' /\ FillInv(T)'
    BY <1>2, <1>3, <1>7, Zenon DEF Running, RingInv, Copying, FillInv, Filled, Sound
  <1>9. OrderInv(T)'
    <2>1. OrderInv(T) /\ Before(T, arrived + 1)
      BY <1>2, Zenon DEF Running, OrderInv
    <2>2. Before(T, arrived + 1)'
      <3>1. \A i \in DOMAIN up : up[i].pkt.id \in Nat
        <4> SUFFICES ASSUME NEW i \in DOMAIN up PROVE up[i].pkt.id \in Nat
          BY Zenon
        <4>1. up[i] \in Passed
          BY <1>1 DEF TypeOK
        <4> QED BY <4>1, PacketFields, Zenon DEF Passed
      <3>2. \A j \in Seen(T) .. rcvs - 1 : page[At(j)].pkt.id \in Nat
        <4> SUFFICES ASSUME NEW j \in Seen(T) .. rcvs - 1 PROVE page[At(j)].pkt.id \in Nat
          OBVIOUS
        <4>1. j \in Nat
          BY <1>3 DEF Seen
        <4>2. page[At(j)].pkt \in Packet
          BY <1>1, <4>1, AtIsEntry DEF TypeOK
        <4> QED BY <4>2, PacketFields
      <3>3. \A x \in Nat : x < arrived + 1 => x < arrived' + 1
        BY <1>3
      <3> QED BY <1>3, <1>7, <2>1, <3>1, <3>2, <3>3, Zenon DEF Before
    <2>3. Before(T, line.pkt.id)'
      BY <1>3, <1>4, <1>7, <2>1, Zenon DEF Before
    <2>4. Carrying' => /\ Before(T, mcp.old.id)' /\ mcp'.old.id <= arrived'
                       /\ mcp'.old.id < line'.pkt.id
      <3>1. mcp.old.id \in Nat
        BY <1>1, PacketFields, SMTT(60) DEF TypeOK, Registers
      <3>2. Carrying => Before(T, mcp.old.id) /\ mcp.old.id <= arrived
        BY <2>1, Zenon DEF OrderInv
      <3>3. mcp.old.id <= arrived => mcp.old.id <= arrived + 1 /\ mcp.old.id < arrived + 1
        BY <1>3, <3>1, SMTT(60)
      <3>4. Before(T, mcp.old.id) => Before(T, mcp.old.id)'
        BY <1>3, <1>7, Zenon DEF Before
      <3> QED BY <1>3, <1>4, <3>2, <3>3, <3>4, Zenon DEF Carrying
    <2>5. UpInOrder'
      BY <1>3, <2>1, Zenon DEF OrderInv, UpInOrder
    <2>6. line'.pkt.id <= arrived'
      BY <1>3, <1>4, SMTT(60)
    <2> QED BY <1>3, <1>7, <2>1, <2>2, <2>3, <2>4, <2>5, <2>6, Zenon DEF OrderInv
  <1>10. UpIntact'
    BY <1>1, <1>3, Zenon DEF UpIntact
  <1> QED BY <1>3, <1>5, <1>6, <1>8, <1>9, <1>10 DEF RcvInv, Running

\* All of a packet, or a buffer full of it, is in.
LEMMA LineDoneStep ==
    ASSUME RcvInv, LineDone
    PROVE  RcvInv'
  <1>1. TypeOK /\ CardInv /\ Coming /\ line.stat = "begun"
    BY SMTT(60) DEF RcvInv, LineDone, Coming
  <1>2. ~Loading
    BY <1>1, SMTT(60) DEF CardInv, NoLine
  <1>3. PICK T \in 0 .. rcvs : Running(T)
    BY <1>2 DEF RcvInv
  <1>4. UNCHANGED <<rcv_pkt_list, page, mcp, dma, rcvs, last_pkt, host, up, arrived, scene, LANai2host>>
    BY DEF LineDone, hostVars
  <1>5. line' \in Stream /\ line'.stat \in {"full", "in"} /\ line'.pkt = line.pkt
    <2>1. line \in Stream /\ line.left \in Nat /\ DBL_BUF_SIZE \in Nat
      BY <1>1, RcvConstants, Zenon DEF TypeOK, Stream
    <2>2. CASE line.left > DBL_BUF_SIZE
      <3> DEFINE l == line.left - DBL_BUF_SIZE
      <3>1. l \in Nat /\ line' = [line EXCEPT !.stat = "full", !.left = l]
        BY <2>1, <2>2 DEF LineDone
      <3> HIDE DEF l
      <3> QED BY <2>1, <3>1, Zenon DEF Stream
    <2>3. CASE ~(line.left > DBL_BUF_SIZE)
      <3>1. line' = [line EXCEPT !.stat = "in", !.left = 0]
        BY <2>3 DEF LineDone
      <3> QED BY <2>1, <3>1, Zenon DEF Stream
    <2> QED BY <2>2, <2>3
  <1>6. TypeOK'
    BY <1>1, <1>4, <1>5, Zenon DEF TypeOK
  <1>7. CardInv'
    BY <1>1, <1>2, <1>4, <1>5, Zenon DEF CardInv, Loading, Coming, Copying, Carrying
  <1>8. (Carrying' <=> Carrying) /\ (Copying' => rcvs < T + Size)
    BY <1>3, <1>4, Zenon DEF Carrying, Copying, Running, RingInv
  <1> QED BY <1>1, <1>3, <1>4, <1>5, <1>6, <1>7, <1>8, CardStep, Zenon DEF SameAddresses

\* Steps of the clocks and of the send half.
LEMMA AsideStep ==
    ASSUME RcvInv, LANai2host' \in BOOLEAN,
           UNCHANGED <<rcv_pkt_list, page, mcp, line, dma, rcvs, last_pkt, host, up, arrived, scene>>
    PROVE  RcvInv'
  <1>1. TypeOK' /\ CardInv'
    BY Zenon DEF RcvInv, TypeOK, CardInv, Loading, Coming, Copying, Carrying
  <1>2. UpIntact'
    BY Zenon DEF RcvInv, UpIntact
  <1>3. CASE Loading
    BY <1>1, <1>2, <1>3 DEF RcvInv, Loading
  <1>4. CASE ~Loading
    <2>1. PICK T \in 0 .. rcvs : Running(T)
      BY <1>4, SMTT(60) DEF RcvInv
    <2>2. (Carrying' <=> Carrying) /\ (Coming' <=> Coming) /\ (Copying' => rcvs < T + Size)
      BY <2>1, Zenon DEF Carrying, Coming, Copying, Running, RingInv
    <2> QED BY <1>1, <2>1, <2>2, CardStep, Zenon DEF SameAddresses
  <1> QED BY <1>3, <1>4

-----------------------------------------------------------------------------
(* The host's steps.                                                       *)

\* What the handler leaves to the others.
Handling == UNCHANGED <<cardVars, arrived, loads, scene>>

\* Steps of the handler that change nothing but where it is.
LEMMA HandlerMoves ==
    ASSUME RcvInv, Enter \/ ClearReason \/ Poll \/ More \/ Leave, Handling
    PROVE  RcvInv'
  <1>1. TypeOK /\ CardInv /\ ~Loading
    BY Zenon DEF RcvInv, Enter, ClearReason, Poll, More, Leave, Loading, CardInv
  <1>2. PICK T \in 0 .. rcvs : Running(T)
    BY <1>1 DEF RcvInv
  <1>3. UNCHANGED <<rcv_pkt_list, page, mcp, line, dma, rcvs, last_pkt, up, arrived, scene>>
    BY Zenon DEF Enter, ClearReason, Poll, More, Leave, Handling, cardVars
  <1>4. host \in [pc : HostStates, reason : BOOLEAN] /\ LANai2host \in BOOLEAN
    BY <1>1 DEF TypeOK
  <1>5. /\ host' \in [pc : HostStates, reason : BOOLEAN]
        /\ host.pc \in {"out", "clear", "poll", "more", "leave"}
        /\ host'.pc \in {"clear", "poll", "leave", "packet", "out"}
    <2>1. CASE Enter
      BY <1>4, <2>1, Zenon DEF Enter, HostStates
    <2>2. CASE ClearReason
      BY <1>4, <2>2, Zenon DEF ClearReason, Goes, HostStates
    <2>3. CASE Poll
      BY <1>4, <2>3, Zenon DEF Poll, Goes, HostStates
    <2>4. CASE More
      BY <1>4, <2>4, Zenon DEF More, Goes, HostStates
    <2>5. CASE Leave
      BY <1>4, <2>5, Zenon DEF Leave, OutOfHandler, HostStates
    <2> QED BY <2>1, <2>2, <2>3, <2>4, <2>5
  <1>6. LANai2host' \in BOOLEAN
    BY <1>4, Zenon DEF Enter, ClearReason, Poll, More, Leave
  <1>7. host'.pc = "packet" => rcv_pkt_list[last_pkt].phys_addr \in Markers
    BY <1>4 DEF Enter, ClearReason, Poll, More, Leave, Goes, OutOfHandler
  <1>8. rcvs \in Nat
    BY <1>1 DEF TypeOK
  <1>9. SameHost(T)
    BY <1>2, <1>5, <1>7, <1>8, HostsEntry DEF SameHost, Running
  <1>10. TypeOK'
    BY <1>1, <1>3, <1>5, <1>6, Zenon DEF TypeOK
  <1>11. CardInv'
    BY <1>1, <1>3, Zenon DEF CardInv, Loading, Coming, Copying, Carrying
  <1>12. RingInv(T)'
    BY <1>2, <1>3, <1>8, <1>9, RingKept, Zenon DEF Running, SameAddresses, RingInv, Copying
  <1>13. FillInv(T)'
    BY <1>2, <1>3, <1>8, <1>9, FillKept, Zenon DEF Running, SameAddresses
  <1>14. OrderInv(T)'
    BY <1>2, <1>3, <1>8, <1>9, OrderKept, Zenon DEF Running, Coming, Carrying
  <1>15. UpIntact'
    BY <1>3, Zenon DEF RcvInv, UpIntact
  <1> QED BY <1>3, <1>10, <1>11, <1>12, <1>13, <1>14, <1>15, Zenon DEF RcvInv, Running

\* check_hdr() counts the fields it repaired.
LEMMA Warnings == \A h : check_hdr(h).warning \in Nat
  <1>1. \A f : Repair(f).warning \in Nat
    BY Zenon DEF Repair
  <1> QED BY <1>1 DEF check_hdr

\* Eight bytes are a word.
LEMMA RoundsOn == \A x \in Nat : Round8(x) \in Nat /\ Round8(x + 8) = Round8(x) + 8
  BY DEF Round8

\* What the handler passes up is intact if its body matters.
LEMMA JudgeSound ==
    ASSUME NEW e \in Entries, page[e].pkt \in Packet, page[e].copied \in Nat, Filled(e),
           rcv_pkt_list[e].phys_addr \in Markers, Judge(e).pass,
           NEW u, u.pkt = page[e].pkt, u.checked = Judge(e).checked, u.copied = page[e].copied,
           UpType(u) \notin Class2
    PROVE  LET p == u.pkt
           IN  /\ p.crc /\ p.size = p.len
               /\ \/ u.copied = p.len
                  \/ p.len = MYRPKT_MTU /\ Round8(u.copied) = Round8(p.len)
               /\ check_hdr(p.hdr).error = 0 /\ check_hdr(p.hdr).warning = 0
  <1> DEFINE p == page[e].pkt
             w == rcv_pkt_list[e].phys_addr
             n == rcv_pkt_list[e].len
             c == check_hdr(p.hdr)
  <1>1. HdrIn(page[e]) = p.hdr
    <2>1. page[e].copied >= PktHdrSize
      BY RcvConstants, SMTT(60) DEF Filled
    <2> QED BY <2>1, Zenon DEF HdrIn
  <1>2. n \in Nat /\ n <= MYRPKT_MTU /\ n >= PktHdrSize /\ n \in {page[e].copied, MYRPKT_MTU}
    BY RcvConstants, SMTT(60) DEF Filled
  <1>3. /\ LenVerdict(n, p.hdr.len[1]) # "recover"
        /\ LenVerdict(n, p.hdr.len[1]) = "ok" => n = p.hdr.len[1]
    BY <1>2, RcvConstants, SMTT(60) DEF LenVerdict
  <1>4. /\ w \notin {LONG_PKT, TRUNC_PKT}
        /\ w = BAD_CRC_PKT => ~do_recovery(p.hdr) /\ ~Judge(e).checked
        /\ w # BAD_CRC_PKT => /\ LenVerdict(n, p.hdr.len[1]) = "ok" /\ c.error = 0
                              /\ c.warning > 0 => ~do_recovery(c.hdr)
                              /\ Judge(e).checked
    BY <1>1, <1>3, Zenon DEF Judge
  <1>5. w # BAD_CRC_PKT
    BY <1>4, Zenon DEF UpType, do_recovery
  <1>6. w = GOOD_PKT
    BY <1>4, <1>5, Zenon DEF Markers
  <1>7. c.error = 0 /\ c.warning = 0
    <2>1. UpType(u) = c.hdr.type[1]
      BY <1>4, <1>5, Zenon DEF UpType
    <2>2. ~(c.warning > 0)
      BY <1>4, <1>5, <2>1, Zenon DEF do_recovery
    <2>3. c.warning \in Nat
      BY Warnings, Zenon
    <2>4. c.error = 0
      BY <1>4, <1>5, Zenon
    <2> HIDE DEF c
    <2> QED BY <2>2, <2>3, <2>4, SMTT(60)
  <1>8. p.crc /\ p.wanted /\ Round8(page[e].copied + 8) = Round8(p.size + 8)
    BY <1>6, Zenon DEF Filled
  <1>9. p.size = p.len /\ p.hdr.len[1] = p.len
    BY <1>8, Zenon DEF Filled, Sound
  <1>10. n = p.len
    BY <1>3, <1>4, <1>5, <1>9, Zenon
  <1>11. Round8(page[e].copied) = Round8(p.len)
    <2>1. p.len \in Nat
      BY PacketFields, Zenon
    <2>2. Round8(page[e].copied) + 8 = Round8(p.len) + 8
      BY <1>8, <1>9, <2>1, RoundsOn, Zenon
    <2>3. Round8(page[e].copied) \in Nat /\ Round8(p.len) \in Nat
      BY <2>1, RoundsOn, Zenon
    <2> QED BY <2>2, <2>3, SMTT(60)
  <1> QED BY <1>2, <1>7, <1>8, <1>9, <1>10, <1>11, Zenon

\* The packet of the host's entry is passed up or dropped.
LEMMA ProcessStep ==
    ASSUME RcvInv, Process, Handling
    PROVE  RcvInv'
  <1> DEFINE e == last_pkt
             u == [pkt |-> page[e].pkt, checked |-> Judge(e).checked, copied |-> page[e].copied]
  <1>1. TypeOK /\ CardInv /\ UpIntact /\ host.pc = "packet" /\ ~Loading
    BY Zenon DEF RcvInv, Process, CardInv
  <1>2. PICK T \in 0 .. rcvs : Running(T)
    BY <1>1 DEF RcvInv
  <1>3. UNCHANGED <<rcv_pkt_list, mcp, line, dma, rcvs, last_pkt, arrived, scene, LANai2host>>
    BY DEF Process, Handling, cardVars
  <1>4. /\ rcvs \in Nat /\ T < rcvs /\ rcvs <= T + Size /\ e = At(T) /\ e \in Entries /\ Size \in Nat
        /\ mcp.last_rcv_pkt = At(rcvs) /\ (Copying => rcvs < T + Size)
    BY <1>1, <1>2, HostsEntry, SizeIs, Zenon DEF Running, TypeOK, RingInv
  <1>5. /\ page' \in [Entries -> Frame]
        /\ \A x \in Entries : page'[x].pkt = page[x].pkt
        /\ \A x \in Entries : x # e => page'[x] = page[x]
    <2>1. page \in [Entries -> Frame] /\ page' = [page EXCEPT ![e].copied = 0]
      BY <1>1 DEF TypeOK, Frame, Process
    <2> QED BY <1>4, <2>1, PageCleared, SMTT(60)
  <1>6. host' \in [pc : HostStates, reason : BOOLEAN] /\ host'.pc = "return"
    BY <1>1, Zenon DEF Process, Goes, TypeOK, HostStates
  <1>7. Judge(e).checked \in BOOLEAN
    BY Zenon DEF Judge
  <1>8. u \in Passed /\ page[e].pkt \in Packet /\ page[e].copied \in Nat
    BY <1>1, <1>4, <1>7, Zenon DEF TypeOK, Passed
  <1>9. up' = IF Judge(e).pass THEN Append(up, u) ELSE up
    BY DEF Process
  <1>10. /\ up' \in Seq(Passed) /\ up \in Seq(Passed)
         /\ \A i \in DOMAIN up' : \/ i \in DOMAIN up /\ up'[i] = up[i]
                                  \/ Judge(e).pass /\ up'[i] = u /\ \A k \in DOMAIN up' : k <= i
    <2>1. up \in Seq(Passed)
      BY <1>1 DEF TypeOK
    <2> HIDE DEF u
    <2>2. CASE Judge(e).pass
      <3>1. up' = Append(up, u)
        BY <1>9, <2>2, SMTT(60)
      <3> QED BY <1>8, <2>1, <2>2, <3>1, AppendProperties, SMTT(60)
    <2>3. CASE ~Judge(e).pass
      BY <1>9, <2>1, <2>3
    <2> QED BY <2>2, <2>3, Zenon
  <1>11. T \in Seen(T) .. rcvs - 1 /\ T \in T .. rcvs - 1
    BY <1>1, <1>4 DEF Seen
  <1>12. Filled(e) /\ rcv_pkt_list[e].phys_addr \in Markers
    BY <1>2, <1>4, <1>11, Zenon DEF Running, FillInv, RingInv
  <1>13. u.pkt = page[e].pkt /\ u.checked = Judge(e).checked /\ u.copied = page[e].copied
    BY Zenon
  <1> HIDE DEF u, e
  <1>14. UpIntact'
    <2> SUFFICES ASSUME NEW i \in DOMAIN up', UpType(up'[i]) \notin Class2
                 PROVE  LET p == up'[i].pkt
                        IN  /\ p.crc /\ p.size = p.len
                            /\ \/ up'[i].copied = p.len
                               \/ p.len = MYRPKT_MTU /\ Round8(up'[i].copied) = Round8(p.len)
                            /\ check_hdr(p.hdr).error = 0 /\ check_hdr(p.hdr).warning = 0
      BY Zenon DEF UpIntact
    <2>1. CASE i \in DOMAIN up /\ up'[i] = up[i]
      BY <1>1, <2>1, Zenon DEF UpIntact
    <2>2. CASE Judge(e).pass /\ up'[i] = u
      BY <1>4, <1>8, <1>12, <1>13, <2>2, JudgeSound, Zenon
    <2> QED BY <1>10, <2>1, <2>2, Zenon
  <1>15. TypeOK'
    BY <1>1, <1>3, <1>5, <1>6, <1>10, Zenon DEF TypeOK, Frame
  <1>16. CardInv'
    <2>1. mcp.RcvState = "R4" => At(rcvs) # e /\ At(rcvs) \in Entries
      BY <1>4, AtDiffer, AtIsEntry, SMTT(60) DEF Copying
    <2> QED BY <1>1, <1>3, <1>4, <1>5, <2>1, ZenonT(60) DEF CardInv, Loading, Coming, Copying, Carrying
  <1>17. RingInv(T)'
    BY <1>1, <1>2, <1>3, <1>4, <1>6, Zenon DEF Running, RingInv, Copying
  <1>18. Seen(T)' = T + 1 /\ Seen(T) = T
    BY <1>1, <1>6, Zenon DEF Seen
  <1>19. \A j \in T + 1 .. rcvs - 1 : At(j) # e /\ At(j) \in Entries /\ page'[At(j)] = page[At(j)]
    BY <1>4, <1>5, AtDiffer, AtIsEntry, SMTT(60)
  <1>20. FillInv(T)'
    <2> SUFFICES ASSUME NEW j \in T + 1 .. rcvs - 1 PROVE Filled(At(j))'
      BY <1>3, <1>18, SMTT(60) DEF FillInv
    <2>1. j \in Seen(T) .. rcvs - 1
      BY <1>4, <1>18
    <2>2. Filled(At(j)) /\ page'[At(j)] = page[At(j)]
      BY <1>2, <1>19, <2>1, Zenon DEF Running, FillInv
    <2> QED BY <1>3, <2>2, Zenon DEF Filled, Sound
  <1>21. OrderInv(T)'
    <2>1. OrderInv(T)
      BY <1>2, Zenon DEF Running
    <2>2. \A j \in T + 1 .. rcvs - 1 : j \in Seen(T) .. rcvs - 1 /\ T < j
      BY <1>4, <1>18
    <2>3. page[At(T)].pkt = u.pkt
      BY <1>4, <1>13
    <2>4. UpInOrder'
      <3> SUFFICES ASSUME NEW i \in DOMAIN up', NEW k \in DOMAIN up', i < k
                   PROVE  up'[i].pkt.id < up'[k].pkt.id
        BY Zenon DEF UpInOrder
      <3>1. i \in Nat /\ k \in Nat
        BY <1>10, SMTT(60)
      <3>2. i \in DOMAIN up /\ up'[i] = up[i]
        BY <1>10, <3>1, SMTT(60)
      <3>3. CASE k \in DOMAIN up /\ up'[k] = up[k]
        BY <2>1, <3>2, <3>3, Zenon DEF OrderInv, UpInOrder
      <3>4. CASE up'[k] = u
        BY <1>11, <2>1, <2>3, <3>2, <3>4, Zenon DEF OrderInv
      <3> QED BY <1>10, <3>3, <3>4, Zenon
    <2>5. \A j \in T + 1 .. rcvs - 1 :
            /\ \A i \in DOMAIN up' : up'[i].pkt.id < page'[At(j)].pkt.id
            /\ \A k \in T + 1 .. rcvs - 1 : j < k => page'[At(j)].pkt.id < page'[At(k)].pkt.id
      <3> SUFFICES ASSUME NEW j \in T + 1 .. rcvs - 1
                   PROVE  /\ \A i \in DOMAIN up' : up'[i].pkt.id < page'[At(j)].pkt.id
                          /\ \A k \in T + 1 .. rcvs - 1 :
                               j < k => page'[At(j)].pkt.id < page'[At(k)].pkt.id
        BY Zenon
      <3>1. u.pkt.id < page[At(j)].pkt.id
        BY <1>11, <2>1, <2>2, <2>3, Zenon DEF OrderInv
      <3>2. \A i \in DOMAIN up : up[i].pkt.id < page[At(j)].pkt.id
        BY <2>1, <2>2, Zenon DEF OrderInv
      <3>3. \A k \in T + 1 .. rcvs - 1 : j < k => page[At(j)].pkt.id < page[At(k)].pkt.id
        BY <2>1, <2>2, Zenon DEF OrderInv
      <3> QED BY <1>10, <1>19, <3>1, <3>2, <3>3, Zenon
    <2>6. \A x : Before(T, x) => /\ \A i \in DOMAIN up' : up'[i].pkt.id < x
                                 /\ \A j \in T + 1 .. rcvs - 1 : page'[At(j)].pkt.id < x
      <3> SUFFICES ASSUME NEW x, Before(T, x)
                   PROVE  /\ \A i \in DOMAIN up' : up'[i].pkt.id < x
                          /\ \A j \in T + 1 .. rcvs - 1 : page'[At(j)].pkt.id < x
        BY Zenon
      <3>1. u.pkt.id < x
        BY <1>11, <2>3 DEF Before
      <3> QED BY <1>10, <1>19, <2>2, <3>1, Zenon DEF Before
    <2>7. Before(T, arrived + 1)'
      BY <1>3, <1>18, <2>1, <2>6, Zenon DEF OrderInv, Before
    <2>8. Coming' => Before(T, line.pkt.id)' /\ line'.pkt.id <= arrived'
      BY <1>3, <1>18, <2>1, <2>6, Zenon DEF OrderInv, Before, Coming
    <2>9. Carrying' => /\ Before(T, mcp.old.id)' /\ mcp'.old.id <= arrived'
                       /\ Coming' => mcp'.old.id < line'.pkt.id
      BY <1>3, <1>18, <2>1, <2>6, Zenon DEF OrderInv, Before, Coming, Carrying
    <2> QED BY <1>3, <1>18, <2>4, <2>5, <2>7, <2>8, <2>9, Zenon DEF OrderInv
  <1> QED BY <1>3, <1>14, <1>15, <1>16, <1>17, <1>20, <1>21, SMTT(60) DEF RcvInv, Running

\* The page goes back to the card: its entry is the last of the next round.
LEMMA ReturnPageStep ==
    ASSUME RcvInv, ReturnPage, Handling
    PROVE  RcvInv'
  <1> DEFINE e == last_pkt
  <1>1. TypeOK /\ CardInv /\ UpIntact /\ host.pc = "return" /\ ~Loading
    BY Zenon DEF RcvInv, ReturnPage, CardInv
  <1>2. PICK T \in 0 .. rcvs : Running(T)
    BY <1>1 DEF RcvInv
  <1>3. UNCHANGED <<page, mcp, line, dma, rcvs, last_pkt, up, arrived, scene, LANai2host>>
    BY DEF ReturnPage, Handling, cardVars
  <1>4. /\ rcvs \in Nat /\ T < rcvs /\ rcvs <= T + Size /\ e = At(T) /\ e \in Entries /\ Size \in Nat
    BY <1>1, <1>2, HostsEntry, SizeIs, Zenon DEF Running, TypeOK, RingInv
  <1>5. /\ rcv_pkt_list' \in [Entries -> Slot] /\ rcv_pkt_list'[e].phys_addr = PhysAddr(e)
        /\ \A x \in Entries : rcv_pkt_list'[x].len = rcv_pkt_list[x].len
        /\ \A x \in Entries : x # e => rcv_pkt_list'[x] = rcv_pkt_list[x]
    <2>1. /\ rcv_pkt_list \in [Entries -> Slot] /\ PhysAddr(e) \in Nat
          /\ rcv_pkt_list' = [rcv_pkt_list EXCEPT ![e].phys_addr = PhysAddr(e)]
      BY <1>1, <1>4, AddressOrMarker DEF TypeOK, Slot, ReturnPage
    <2> QED BY <1>4, <2>1, AddrUpdate, SMTT(60)
  <1>6. host' \in [pc : HostStates, reason : BOOLEAN] /\ host'.pc = "len"
    BY <1>1, Zenon DEF ReturnPage, Goes, TypeOK, HostStates
  <1>7. TypeOK'
    BY <1>1, <1>3, <1>5, <1>6, Zenon DEF TypeOK, Slot
  <1>8. CardInv'
    <2>1. mcp.last_rcv_pkt \in Entries
      BY <1>1, SMTT(60) DEF TypeOK, Registers
    <2> QED BY <1>1, <1>3, <1>5, <2>1, Zenon DEF CardInv, Loading, Coming, Copying, Carrying
  <1>9. \A j \in Nat : T < j /\ j < T + Size => At(j) # e /\ At(j) \in Entries
    BY <1>4, AtDiffer, AtIsEntry
  <1>10. At(T + Size) = e
    BY <1>4, AtRound
  <1> HIDE DEF e
  <1>11. RingInv(T + 1)'
    <2>1. \A j \in T + 1 .. rcvs - 1 : rcv_pkt_list'[At(j)].phys_addr \in Markers
      <3> SUFFICES ASSUME NEW j \in T + 1 .. rcvs - 1
                   PROVE  rcv_pkt_list'[At(j)].phys_addr \in Markers
        BY SMTT(60)
      <3>1. j \in T .. rcvs - 1 /\ T < j /\ j < T + Size /\ j \in Nat
        BY <1>4
      <3> QED BY <1>2, <1>5, <1>9, <3>1, Zenon DEF Running, RingInv
    <2>2. \A j \in rcvs .. (T + 1) + Size - 1 : rcv_pkt_list'[At(j)].phys_addr = PhysAddr(At(j))
      <3> SUFFICES ASSUME NEW j \in rcvs .. (T + 1) + Size - 1
                   PROVE  rcv_pkt_list'[At(j)].phys_addr = PhysAddr(At(j))
        OBVIOUS
      <3>1. CASE j = T + Size
        BY <1>5, <1>10, <3>1
      <3>2. CASE j # T + Size
        <4>1. j \in rcvs .. T + Size - 1 /\ T < j /\ j < T + Size /\ j \in Nat
          BY <1>4, <3>2, SMTT(60)
        <4> QED BY <1>2, <1>5, <1>9, <4>1, Zenon DEF Running, RingInv
      <3> QED BY <3>1, <3>2
    <2>3. /\ T + 1 <= rcvs /\ rcvs <= (T + 1) + Size
          /\ T + 1 > 0 /\ last_pkt = At((T + 1) - 1)
          /\ mcp.last_rcv_pkt = At(rcvs) /\ (Copying => rcvs < (T + 1) + Size)
      <3>1. (T + 1) - 1 = T
        OBVIOUS
      <3> QED BY <1>2, <1>4, <3>1, SMTT(60) DEF Running, RingInv, e
    <2> QED BY <1>3, <1>6, <2>1, <2>2, <2>3, Zenon DEF RingInv, Copying
  <1>12. Seen(T + 1)' = T + 1 /\ Seen(T) = T + 1
    BY <1>1, <1>6 DEF Seen
  <1>13. FillInv(T + 1)'
    <2> SUFFICES ASSUME NEW j \in T + 1 .. rcvs - 1 PROVE Filled(At(j))'
      BY <1>3, <1>12, Zenon DEF FillInv
    <2>1. Filled(At(j)) /\ rcv_pkt_list'[At(j)] = rcv_pkt_list[At(j)]
      BY <1>2, <1>4, <1>5, <1>9, <1>12, SMTT(60) DEF Running, FillInv
    <2> QED BY <1>3, <2>1, Zenon DEF Filled, Sound
  <1>14. OrderInv(T + 1)'
    <2>1. OrderInv(T)
      BY <1>2, SMTT(60) DEF Running
    <2>2. \A x : Before(T, x) => /\ \A i \in DOMAIN up : up[i].pkt.id < x
                                 /\ \A j \in T + 1 .. rcvs - 1 : page[At(j)].pkt.id < x
      BY <1>12, Zenon DEF Before
    <2> QED BY <1>3, <1>12, <2>1, <2>2, Zenon DEF OrderInv, Before, UpInOrder, Coming, Carrying
  <1>15. UpIntact'
    BY <1>1, <1>3, Zenon DEF UpIntact
  <1>16. T + 1 \in 0 .. rcvs'
    BY <1>3, <1>4
  <1> QED BY <1>7, <1>8, <1>11, <1>13, <1>14, <1>15, <1>16, Zenon DEF RcvInv, Running

\* The length follows, whatever the card has done with the page meanwhile.
LEMMA ReturnLenStep ==
    ASSUME RcvInv, ReturnLen, Handling
    PROVE  RcvInv'
  <1> DEFINE e == last_pkt
  <1>1. TypeOK /\ CardInv /\ UpIntact /\ host.pc = "len" /\ ~Loading
    BY Zenon DEF RcvInv, ReturnLen, CardInv
  <1>2. PICK T \in 0 .. rcvs : Running(T)
    BY <1>1 DEF RcvInv
  <1>3. UNCHANGED <<page, mcp, line, dma, rcvs, up, arrived, scene, LANai2host>>
    BY DEF ReturnLen, Handling, cardVars
  <1>4. rcvs \in Nat /\ T > 0 /\ e = At(T - 1) /\ e \in Entries
    BY <1>1, <1>2, Zenon DEF Running, TypeOK, RingInv
  <1>5. /\ rcv_pkt_list' \in [Entries -> Slot] /\ rcv_pkt_list'[e].len = MYRPKT_MTU
        /\ SameAddresses
        /\ \A x \in Entries : x # e => rcv_pkt_list'[x] = rcv_pkt_list[x]
    <2>1. /\ rcv_pkt_list \in [Entries -> Slot] /\ MYRPKT_MTU \in Nat
          /\ rcv_pkt_list' = [rcv_pkt_list EXCEPT ![e].len = MYRPKT_MTU]
      BY <1>1, RcvConstants DEF TypeOK, Slot, ReturnLen
    <2> QED BY <1>4, <2>1, LenUpdate DEF SameAddresses
  <1>6. host' \in [pc : HostStates, reason : BOOLEAN] /\ host'.pc = "more"
    BY <1>1, Zenon DEF ReturnLen, Goes, TypeOK, HostStates
  <1>7. last_pkt' = At(T) /\ At(T) \in Entries
    <2>1. T - 1 \in Nat /\ (T - 1) + 1 = T
      BY <1>4
    <2>2. Advance(At(T - 1)) = At((T - 1) + 1)
      BY <2>1, AtNext
    <2> QED BY <1>4, <2>1, <2>2, AtIsEntry DEF ReturnLen
  <1> HIDE DEF e
  <1>8. TypeOK'
    BY <1>1, <1>3, <1>5, <1>6, <1>7, Zenon DEF TypeOK, Slot
  <1>9. \A x \in Entries : rcv_pkt_list'[x].len \in {rcv_pkt_list[x].len, MYRPKT_MTU}
    BY <1>5, Zenon
  <1>10. CardInv'
    <2>1. mcp.last_rcv_pkt \in Entries
      BY <1>1, Zenon DEF TypeOK, Registers
    <2> QED BY <1>1, <1>3, <1>9, <2>1, Zenon DEF CardInv, Loading, Coming, Copying, Carrying
  <1>11. RingInv(T)'
    <2>1. \A j \in T .. rcvs - 1 : rcv_pkt_list'[At(j)].phys_addr \in Markers
      <3>1. T .. rcvs - 1 \subseteq Nat
        BY <1>4, SMTT(60)
      <3> QED BY <1>2, <1>5, <3>1, AtIsEntry, Zenon DEF Running, RingInv, SameAddresses
    <2>2. \A j \in rcvs .. T + Size - 1 : rcv_pkt_list'[At(j)].phys_addr = PhysAddr(At(j))
      <3>1. rcvs .. T + Size - 1 \subseteq Nat
        BY <1>4, SizeIs, SMTT(60)
      <3> QED BY <1>2, <1>5, <3>1, AtIsEntry, Zenon DEF Running, RingInv, SameAddresses
    <2> QED BY <1>2, <1>3, <1>6, <1>7, <2>1, <2>2, Zenon DEF Running, RingInv, Copying
  <1>12. Seen(T)' = T /\ Seen(T) = T
    BY <1>1, <1>6 DEF Seen
  <1>13. FillInv(T)'
    <2> SUFFICES ASSUME NEW j \in T .. rcvs - 1 PROVE Filled(At(j))'
      BY <1>3, <1>12, SMTT(60) DEF FillInv
    <2>1. Filled(At(j)) /\ At(j) \in Entries
      BY <1>2, <1>12, AtIsEntry DEF Running, FillInv
    <2> QED BY <1>3, <1>5, <1>9, <2>1, Zenon DEF Filled, Sound, SameAddresses
  <1>14. OrderInv(T)'
    BY <1>2, <1>3, <1>12, Zenon DEF Running, OrderInv, Before, UpInOrder, Coming, Carrying
  <1>15. UpIntact'
    BY <1>1, <1>3, Zenon DEF UpIntact
  <1> QED BY <1>3, <1>8, <1>10, <1>11, <1>13, <1>14, <1>15, Zenon DEF RcvInv, Running

-----------------------------------------------------------------------------
(* Loading an MCP.                                                         *)

\* A new MCP forgets everything.
LEMMA LoadMCPStep ==
    ASSUME RcvInv, LoadMCP
    PROVE  RcvInv'
  <1>1. TypeOK /\ host.pc = "out"
    BY DEF RcvInv, LoadMCP
  <1>2. /\ UNCHANGED <<page, last_pkt, host, arrived, scene>>
        /\ LANai2host' = FALSE /\ rcvs' = 0 /\ up' = <<>> /\ line' = NoLine /\ dma' = "idle"
    BY DEF LoadMCP
  <1>3. NoPacket \in Packet /\ NoLine \in Stream /\ NoLine.stat = "none" /\ 0 \in Entries
    BY RcvConstants, NothingThere, SMTT(60) DEF NoLine, Stream, Entries
  <1>4. mcp' \in Registers /\ mcp'.RcvState = "init" /\ mcp'.last_rcv_pkt = 0
    BY <1>3 DEF LoadMCP, FirstState, Registers, RcvStates
  <1>5. rcv_pkt_list' \in [Entries -> [phys_addr : Nat, len : Nat]]
    BY DEF LoadMCP, AnyLength
  <1>6. up' \in Seq(Passed) /\ DOMAIN up' = {}
    BY <1>2
  <1>7. TypeOK'
    BY <1>1, <1>2, <1>3, <1>4, <1>5, <1>6, Zenon DEF TypeOK
  <1>8. CardInv'
    BY <1>1, <1>2, <1>3, <1>4, SMTT(60) DEF CardInv, Loading, Coming, Copying, Carrying
  <1>9. UpIntact' /\ Loading'
    BY <1>4, <1>6, Zenon DEF UpIntact, Loading
  <1> QED BY <1>7, <1>8, <1>9 DEF RcvInv

\* All the pages are the card's, and nothing is on its way.
Fresh ==
    /\ rcvs = 0 /\ up = <<>> /\ line = NoLine /\ host.pc = "out" /\ mcp.last_rcv_pkt = 0
    /\ last_pkt = 0 /\ mcp.RcvState = "R0" /\ rcv_pkt_list = FreshList /\ dma = "idle"
LEMMA FreshRing == Fresh => Running(0) /\ UpIntact /\ CardInv
  <1> SUFFICES ASSUME Fresh PROVE Running(0) /\ UpIntact /\ CardInv
    OBVIOUS
  <1>1. At(0) = 0
    BY RcvConstants DEF At
  <1>2. \A j \in Nat : rcv_pkt_list[At(j)].phys_addr = PhysAddr(At(j))
    BY AtIsEntry DEF FreshList, Fresh
  <1>3. ~Coming /\ ~Copying /\ ~Carrying /\ ~Loading /\ Seen(0) = 0 /\ rcvs = 0
    BY DEF NoLine, Coming, Copying, Carrying, Loading, Seen, Fresh
  <1>4. RingInv(0)
    BY <1>1, <1>2, <1>3, SizeIs, SMTT(60) DEF RingInv, Fresh
  <1>5. \A i \in DOMAIN up : FALSE
    BY DEF Fresh
  <1>6. \A j \in Seen(0) .. rcvs - 1 : FALSE
    BY <1>3
  <1>7. FillInv(0) /\ OrderInv(0) /\ UpIntact
    BY <1>3, <1>5, <1>6, Zenon DEF FillInv, OrderInv, Before, UpInOrder, UpIntact
  <1>8. CardInv
    BY <1>3, SMTT(60) DEF CardInv, Fresh
  <1> QED BY <1>4, <1>7, <1>8 DEF Running

\* The host gives the new MCP all the pages.
LEMMA GetHstshmemStep ==
    ASSUME RcvInv, GetHstshmem
    PROVE  RcvInv'
  <1>1. TypeOK /\ CardInv /\ Loading
    BY DEF RcvInv, GetHstshmem, Loading
  <1>2. /\ UNCHANGED <<page, line, dma, rcvs, host, up, LANai2host, arrived, scene>>
        /\ last_pkt' = 0 /\ rcv_pkt_list' = FreshList
    BY DEF GetHstshmem
  <1>3. mcp' \in Registers /\ mcp'.RcvState = "R0" /\ mcp'.last_rcv_pkt = mcp.last_rcv_pkt
    BY <1>1, Zenon DEF GetHstshmem, TypeOK, Registers, RcvStates
  <1>4. /\ rcvs = 0 /\ up = <<>> /\ line = NoLine /\ host.pc = "out" /\ mcp.last_rcv_pkt = 0
    BY <1>1, Zenon DEF CardInv
  <1>5. dma = "idle"
    BY <1>1, Zenon DEF CardInv, Loading, TypeOK
  <1>6. 0 \in Entries /\ FreshList \in [Entries -> [phys_addr : Nat, len : Nat]]
    BY RcvConstants, AddressOrMarker, SMTT(60) DEF FreshList, AnyLength, Entries
  <1>7. TypeOK'
    BY <1>1, <1>2, <1>3, <1>6, Zenon DEF TypeOK
  <1>8. Fresh'
    BY <1>2, <1>3, <1>4, <1>5, Zenon DEF Fresh
  <1>9. (Fresh => Running(0) /\ UpIntact /\ CardInv)'
    BY FreshRing, PTL
  <1> QED BY <1>2, <1>4, <1>7, <1>8, <1>9, SMTT(60) DEF RcvInv

-----------------------------------------------------------------------------
(* The theorems.                                                           *)

\* The invariant holds when the card comes up.
LEMMA InitRcvInv == Init => RcvInv
  <1> SUFFICES ASSUME Init PROVE RcvInv
    OBVIOUS
  <1>1. NoPacket \in Packet /\ NoLine \in Stream /\ NoLine.stat = "none" /\ 0 \in Entries
    BY RcvConstants, NothingThere, SMTT(60) DEF NoLine, Stream, Entries
  <1>2. mcp \in Registers /\ mcp.RcvState = "R0" /\ mcp.last_rcv_pkt = 0
    BY <1>1, SMTT(60) DEF Init, FirstState, Registers, RcvStates
  <1>3. FreshList \in [Entries -> [phys_addr : Nat, len : Nat]]
    BY AddressOrMarker, SMTT(60) DEF FreshList, AnyLength
  <1>4. host \in [pc : HostStates, reason : BOOLEAN] /\ host.pc = "out"
    BY Zenon DEF Init, OutOfHandler, HostStates
  <1>5. page \in [Entries -> [pkt : Packet, copied : Nat]] /\ up \in Seq(Passed)
    BY <1>1, SMTT(60) DEF Init
  <1>6. TypeOK
    BY <1>1, <1>2, <1>3, <1>4, <1>5, Zenon DEF Init, TypeOK
  <1>7. Running(0) /\ UpIntact /\ CardInv
    BY <1>2, <1>4, FreshRing, Zenon DEF Init, Fresh
  <1> QED BY <1>6, <1>7, SMTT(60) DEF RcvInv, Init

\* Every step keeps the invariant.
LEMMA NextRcvInv == RcvInv /\ [Next]_vars => RcvInv'
  <1> SUFFICES ASSUME RcvInv, [Next]_vars PROVE RcvInv'
    BY SMTT(60)
  <1>1. LANai2host \in BOOLEAN
    BY DEF RcvInv, TypeOK
  <1>2. CASE RcvStatem
    <2>1. CASE Idle
      BY <1>1, <1>2, <2>1, AsideStep, Zenon DEF RcvStatem, Idle, int_hst, hostVars
    <2> QED BY <1>2, <2>1, RcvBeginsStep, HostNotReadyStep, WaitOverStep, QuietCall, BufferDoneStep,
               MarkEntryStep, ConsumeStep, Zenon DEF RcvStatem, Call
  <1>3. CASE HandleInterrupt
    BY <1>3, HandlerMoves, ProcessStep, ReturnPageStep, ReturnLenStep, Zenon DEF HandleInterrupt, Handling
  <1>4. CASE IntervalOver \/ IdleOver \/ SndHalf \/ UNCHANGED vars
    BY <1>1, <1>4, AsideStep, Zenon DEF IntervalOver, IdleOver, SndHalf, vars, cardVars, hostVars
  <1> QED BY <1>2, <1>3, <1>4, ArriveStep, LineDoneStep, DmaDoneStep, LoadMCPStep, GetHstshmemStep, SMTT(60)
          DEF Next

\* The inductive invariant holds for any ring, any packets and any number of
\* MCP loads.
THEOREM Invariant == Spec => []RcvInv
  BY InitRcvInv, NextRcvInv, PTL DEF Spec

\* The shared entries, the pages, the registers and the handler keep their types.
THEOREM TypeCorrect == Spec => []TypeOK
  <1>1. RcvInv => TypeOK
    BY DEF RcvInv
  <1> QED BY <1>1, Invariant, PTL

\* A packet whose body matters is passed up only undamaged and whole, but for the
\* end of the last word of one of MYRPKT_MTU bytes, whatever comes in.
THEOREM PassedUpIntact == Spec => []UpIntact
  <1>1. RcvInv => UpIntact
    BY DEF RcvInv
  <1> QED BY <1>1, Invariant, PTL

\* Packets are passed up in the order they came in, each once, across any number
\* of turns of the ring.
THEOREM PassedUpInOrder == Spec => []UpInOrder
  <1>1. RcvInv => UpInOrder
    <2>1. ASSUME RcvInv, Loading PROVE UpInOrder
      <3>1. up = <<>>
        BY <2>1, Zenon DEF RcvInv, CardInv
      <3>2. \A i \in DOMAIN up : FALSE
        BY <3>1
      <3> QED BY <3>2 DEF UpInOrder
    <2>2. ASSUME RcvInv, ~Loading PROVE UpInOrder
      BY <2>2, Zenon DEF RcvInv, Running, OrderInv
    <2> QED BY <2>1, <2>2
  <1> QED BY <1>1, Invariant, PTL

\* The DMA engine writes only into a page that its entry says is the card's, and
\* never into the one the handler reads or clears.
THEOREM PagesApart == Spec => []PageApart
  <1>1. RcvInv => PageApart
    <2> SUFFICES ASSUME RcvInv, dma = "busy"
                 PROVE  LET e == (mcp.cur_hst_addr \div 16) - 1
                        IN  /\ e = mcp.last_rcv_pkt /\ rcv_pkt_list[e].phys_addr = PhysAddr(e)
                            /\ ~(host.pc \in {"packet", "return"} /\ last_pkt = e)
      BY Zenon DEF PageApart
    <2>1. /\ TypeOK /\ mcp.RcvState = "R4" /\ Copying
          /\ mcp.cur_hst_addr = PhysAddr(mcp.last_rcv_pkt) /\ ~Loading
      BY Zenon DEF RcvInv, CardInv, Copying, Loading
    <2>2. PICK T \in 0 .. rcvs : Running(T)
      BY <2>1 DEF RcvInv
    <2>3. /\ rcvs \in Nat /\ rcvs < T + Size /\ mcp.last_rcv_pkt = At(rcvs) /\ At(rcvs) \in Entries
          /\ rcv_pkt_list[At(rcvs)].phys_addr = PhysAddr(At(rcvs))
      BY <2>1, <2>2, CardsEntry, Zenon DEF Running, RingInv, TypeOK, Entry
    <2>4. (mcp.cur_hst_addr \div 16) - 1 = At(rcvs)
      BY <2>1, <2>3, AddressOrMarker, Zenon
    <2>5. host.pc \in {"packet", "return"} => last_pkt = At(T) /\ T < rcvs
      BY <2>2, Zenon DEF Running, RingInv
    <2>6. host.pc \in {"packet", "return"} => last_pkt # At(rcvs)
      BY <2>3, <2>5, AtDiffer, SizeIs, SMTT(60)
    <2> QED BY <2>3, <2>4, <2>6, Zenon
  <1> QED BY <1>1, Invariant, PTL
=============================================================================
