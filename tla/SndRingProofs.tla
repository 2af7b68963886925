--------------------------- MODULE SndRingProofs ----------------------------
(***************************************************************************)
(* The send side is a queue, for rings of every size and any number of     *)
(* packets and loads, as long as it is used as it is made for (Orderly).   *)
(*                                                                         *)
(* The argument has three layers.  Pages: a page is checked out only by    *)
(* the sender that is at work, and an entry and the page it was used for   *)
(* point at each other.  Ring: the entries that hold an address are those  *)
(* of the packets submitted and not yet handed to the link, in order.      *)
(* Card: what the card is pulling in or sending is the oldest of them, in  *)
(* the one buffer or in the other.                                         *)
(***************************************************************************)
EXTENDS SndRing, SequenceTheorems, TLAPS

Cli == host["cli"]
Holding == Cli.pc \in {"fill", "xmit", "send", "phys", "mark"}
Stat(p) == snd_page_list[p].stat

\* Only one sender is ever at work, with a packet, none while an MCP is loaded,
\* and the host's checks have not fired.
Alone ==
    /\ host["ioctl"] = IdleSender
    /\ Loading => Cli.pc = "idle"
    /\ Cli.pc # "idle" => Cli.pkt # 0
    /\ Cli.pc # "oops" /\ printk = {}

\* A page is checked out exactly if the sender holds it; a page being sent is
\* the one its entry points at; a page looked at is still there to take.
PagesInv ==
    /\ \A p \in Pages :
         /\ Stat(p) = "checked_out" <=> (Holding /\ Cli.page_idx = p)
         /\ Stat(p) = "sending" =>
              /\ snd_page_list[p].slot \in Pages
              /\ snd_pkt_list[snd_page_list[p].slot].page_idx = p
    /\ Holding => Cli.page_idx \in Pages
    /\ Cli.pc = "take" =>
         /\ Cli.look = next_avail
         /\ IF Cli.slot = -1 THEN Stat(next_avail) = "avail"
            ELSE /\ Stat(next_avail) = "sending"
                 /\ snd_page_list[next_avail].slot = Cli.slot
                 /\ snd_pkt_list[Cli.slot].phys_addr = 0
    /\ Cli.pc \in {"xmit", "send", "phys", "mark"} =>
         snd_page_list[Cli.page_idx].data = Cli.pkt

\* An entry points at a page that points back, or at the one the sender is about
\* to send; an entry with an address has the address and the packet of its page.
Points(e, p) ==
    \/ Stat(p) = "sending" /\ snd_page_list[p].slot = e
    \/ Cli.pc = "phys" /\ e = last_pkt /\ p = Cli.page_idx
    \/ Cli.pc = "mark" /\ p = Cli.page_idx /\ snd_page_list[p].slot = e
EntriesInv ==
    /\ \A e \in Pages :
         /\ snd_pkt_list[e].page_idx # -1 => Points(e, snd_pkt_list[e].page_idx)
         /\ snd_pkt_list[e].phys_addr # 0 =>
              /\ snd_pkt_list[e].page_idx # -1
              /\ snd_pkt_list[e].phys_addr = PhysAddr(snd_pkt_list[e].page_idx)
              /\ snd_page_list[snd_pkt_list[e].page_idx].data = snd_pkt_list[e].dest
    /\ Cli.pc \in {"send", "phys"} => snd_pkt_list[last_pkt].phys_addr = 0
    /\ Cli.pc = "send" => snd_pkt_list[last_pkt].page_idx = -1
    /\ Cli.pc = "phys" => /\ snd_pkt_list[last_pkt].page_idx = Cli.page_idx
                          /\ snd_pkt_list[last_pkt].dest = Cli.pkt
    /\ Cli.pc = "mark" =>
         /\ snd_page_list[Cli.page_idx].slot \in Pages
         /\ snd_pkt_list[snd_page_list[Cli.page_idx].slot].page_idx = Cli.page_idx

\* The packets the card has handed to the link, and the entry of the j-th packet.
Handed == Len(wire) + (IF net = "body" THEN 1 ELSE 0)
At(j) == (j - 1) % MAX_SND_PKT_ENTRIES

\* The entries with an address are those of the packets submitted and not yet
\* handed to the link.
RingInv ==
    /\ Handed <= Len(submitted) /\ Len(submitted) <= Handed + MAX_SND_PKT_ENTRIES
    /\ last_pkt = Len(submitted) % MAX_SND_PKT_ENTRIES
    /\ mcp.last_snd_pkt = Handed % MAX_SND_PKT_ENTRIES
    /\ \A j \in Handed + 1 .. Len(submitted) :
         snd_pkt_list[At(j)].phys_addr # 0 /\ snd_pkt_list[At(j)].dest = submitted[j]
    /\ \A e \in Pages : snd_pkt_list[e].phys_addr # 0 =>
         \E j \in Handed + 1 .. Len(submitted) : e = At(j)

\* What the card pulls in is what its entry says, and what the link sends is the
\* packet after those that left.
Pulling == mcp.SndState \in {"S1", "S2"}
CardInv ==
    /\ Pulling =>
         /\ snd_pkt_list[mcp.last_snd_pkt].phys_addr = PhysAddr(mcp.page)
         /\ mcp.cur_dest = snd_pkt_list[mcp.last_snd_pkt].dest
         /\ dma = "done" => snd_buf[mcp.cur_buf] = mcp.cur_dest
    /\ net = "body" =>
         /\ Len(submitted) > Len(wire)
         /\ mcp.sent.dest = submitted[Len(wire) + 1]
         /\ snd_buf[mcp.sent.buf] = mcp.sent.dest

\* The DMA engine, the link and the buffers by the state of the card.
Buffers ==
    /\ dma = "busy" => Pulling
    /\ Pulling => dma # "idle"
    /\ mcp.pkt_on_LANai /\ Pulling => dma = "done"
    /\ net \in {"header", "opened"} <=> mcp.SndState = "S2"
    /\ mcp.SndState \in {"init", "off"} => net = "ready"
    /\ net = "body" => IF mcp.SndState = "S0" THEN mcp.sent.buf = mcp.cur_buf
                                              ELSE mcp.sent.buf # mcp.cur_buf

\* The bus flag is clear exactly while one half has the bus.
SndHolds == Pulling /\ ~mcp.pkt_on_LANai
Bus ==
    /\ ~fault
    /\ PCIavailable <=> ~rcvHolds /\ ~SndHolds
    /\ ~(rcvHolds /\ SndHolds)

\* An MCP that waits for the host finds everything cleared.
Fresh ==
    Loading => /\ submitted = <<>> /\ wire = <<>> /\ net = "ready"
               /\ mcp.last_snd_pkt = 0
               /\ snd_pkt_list = [e \in Pages |-> EmptyEntry]

Running == PagesInv /\ EntriesInv /\ RingInv /\ CardInv
SndInv ==
    /\ TypeOK /\ Buffers /\ Bus
    /\ Orderly => Alone /\ Fresh
    /\ Orderly /\ ~Loading => Running

-----------------------------------------------------------------------------
(* Indices of the ring.                                                    *)

\* The remainder is the only number below the divisor that fits.
LEMMA RemainderUnique ==
    ASSUME NEW a \in Nat, NEW s \in Nat \ {0}, NEW q \in Int, NEW r \in Nat,
           r < s, a = (s * q) + r
    PROVE  a % s = r
  <1> DEFINE p == a \div s
             t == a % s
  <1>1. p \in Int /\ t \in Nat /\ t < s
    OBVIOUS
  <1>2. a = (s * p) + t
    OBVIOUS
  <1> HIDE DEF p, t
  <1>3. t - r = s * (q - p)
    BY <1>1, <1>2
  <1>4. CASE q - p <= -1
    <2>1. s * (q - p) <= -s
      BY <1>1, <1>4
    <2> QED BY <1>1, <1>3, <2>1
  <1>5. CASE q - p >= 1
    <2>1. s * (q - p) >= s
      BY <1>1, <1>5
    <2> QED BY <1>1, <1>3, <2>1
  <1>6. CASE q = p
    <2>1. s * (q - p) = 0
      BY <1>1, <1>6
    <2>2. t = r
      BY <1>1, <1>3, <2>1
    <2> QED BY <2>2 DEF t
  <1> QED BY <1>1, <1>4, <1>5, <1>6

\* Numbers less than a round apart have different entries, ...
LEMMA EntriesDiffer ==
    ASSUME NEW a \in Nat, NEW b \in Nat, NEW s \in Nat \ {0}, a < b, b - a < s
    PROVE  a % s # b % s
  <1> SUFFICES ASSUME a % s = b % s PROVE FALSE
    OBVIOUS
  <1> DEFINE p == a \div s
             q == b \div s
  <1>1. p \in Int /\ q \in Int /\ a % s \in Int /\ b % s \in Int
    OBVIOUS
  <1>2. a = (s * p) + (a % s) /\ b = (s * q) + (b % s)
    OBVIOUS
  <1> HIDE DEF p, q
  <1>3. b - a = s * (q - p)
    BY <1>1, <1>2
  <1>4. CASE q - p <= 0
    <2>1. s * (q - p) <= 0
      BY <1>1, <1>4
    <2> QED BY <1>3, <2>1
  <1>5. CASE q - p >= 1
    <2>1. s * (q - p) >= s
      BY <1>1, <1>5
    <2> QED BY <1>3, <2>1
  <1> QED BY <1>1, <1>4, <1>5

\* ... a round apart they have the same one, ...
LEMMA RoundApart ==
    ASSUME NEW a \in Nat, NEW s \in Nat \ {0}
    PROVE  (a + s) % s = a % s
  <1> DEFINE p == a \div s
             t == a % s
  <1>1. p \in Int /\ t \in Nat /\ t < s /\ a = (s * p) + t
    OBVIOUS
  <1> HIDE DEF p, t
  <1>2. a + s = (s * (p + 1)) + t
    BY <1>1
  <1>3. (a + s) % s = t
    BY <1>1, <1>2, RemainderUnique
  <1> QED BY <1>3 DEF t

\* ... and the entry after that of n is that of n + 1.
LEMMA NextEntry ==
    ASSUME NEW n \in Nat, NEW s \in Nat \ {0}
    PROVE  ((n % s) + 1) % s = (n + 1) % s
  <1> DEFINE p == n \div s
             t == n % s
  <1>1. p \in Int /\ t \in Nat /\ t < s /\ n = (s * p) + t
    OBVIOUS
  <1> HIDE DEF p, t
  <1>2. CASE t + 1 < s
    <2>1. n + 1 = (s * p) + (t + 1)
      BY <1>1
    <2>2. (n + 1) % s = t + 1
      BY <1>1, <1>2, <2>1, RemainderUnique
    <2>3. t + 1 = (s * 0) + (t + 1)
      BY <1>1
    <2>4. (t + 1) % s = t + 1
      BY <1>1, <1>2, <2>3, RemainderUnique
    <2> QED BY <2>2, <2>4 DEF t
  <1>3. CASE t + 1 = s
    <2>1. n + 1 = (s * (p + 1)) + 0
      BY <1>1, <1>3
    <2>2. (n + 1) % s = 0
      BY <1>1, <2>1, RemainderUnique
    <2>3. t + 1 = (s * 1) + 0
      BY <1>1, <1>3
    <2>4. (t + 1) % s = 0
      BY <1>1, <2>3, RemainderUnique
    <2> QED BY <2>2, <2>4 DEF t
  <1> QED BY <1>1, <1>2, <1>3

-----------------------------------------------------------------------------
(* What an assignment to one field leaves alone.                           *)

\* A page's status changes alone, and to a value of its type.
LEMMA StatType ==
    ASSUME NEW f \in [Pages -> SendPage], NEW g, NEW p, NEW v \in {"avail", "checked_out", "sending"},
           g = [f EXCEPT ![p].stat = v]
    PROVE  g \in [Pages -> SendPage]
  BY Zenon DEF SendPage

\* The other fields and the other pages stay as they were.
LEMMA StatUpdate ==
    ASSUME NEW f \in [Pages -> SendPage], NEW g, NEW p \in Pages, NEW v,
           g = [f EXCEPT ![p].stat = v]
    PROVE  /\ g[p].stat = v /\ g[p].slot = f[p].slot /\ g[p].data = f[p].data
           /\ \A q \in Pages : q # p => g[q] = f[q]
  BY Zenon DEF SendPage

\* A page's bytes change alone, and to a value of its type.
LEMMA DataType ==
    ASSUME NEW f \in [Pages -> SendPage], NEW g, NEW p, NEW v \in 0 .. MaxPackets,
           g = [f EXCEPT ![p].data = v]
    PROVE  g \in [Pages -> SendPage]
  BY Zenon DEF SendPage

\* The other fields and the other pages stay as they were.
LEMMA DataUpdate ==
    ASSUME NEW f \in [Pages -> SendPage], NEW g, NEW p \in Pages, NEW v,
           g = [f EXCEPT ![p].data = v]
    PROVE  /\ g[p].data = v /\ g[p].slot = f[p].slot /\ g[p].stat = f[p].stat
           /\ \A q \in Pages : q # p => g[q] = f[q]
  BY Zenon DEF SendPage

\* A page's slot changes alone, and to a value of its type.
LEMMA SlotType ==
    ASSUME NEW f \in [Pages -> SendPage], NEW g, NEW p, NEW v \in Pages,
           g = [f EXCEPT ![p].slot = v]
    PROVE  g \in [Pages -> SendPage]
  BY Zenon DEF SendPage

\* The other fields and the other pages stay as they were.
LEMMA SlotUpdate ==
    ASSUME NEW f \in [Pages -> SendPage], NEW g, NEW p \in Pages, NEW v,
           g = [f EXCEPT ![p].slot = v]
    PROVE  /\ g[p].slot = v /\ g[p].data = f[p].data /\ g[p].stat = f[p].stat
           /\ \A q \in Pages : q # p => g[q] = f[q]
  BY Zenon DEF SendPage

\* An entry's address changes alone, and to an address or zero.
LEMMA AddressType ==
    ASSUME NEW f \in [Pages -> SendEntry], NEW g, NEW e \in Pages,
           NEW v \in 0 .. MAX_SND_PKT_ENTRIES, g = [f EXCEPT ![e].phys_addr = v]
    PROVE  g \in [Pages -> SendEntry]
  BY Zenon DEF SendEntry

\* The rest of it and the other entries stay as they were.
LEMMA AddressUpdate ==
    ASSUME NEW f \in [Pages -> SendEntry], NEW g, NEW e \in Pages, NEW v,
           g = [f EXCEPT ![e].phys_addr = v]
    PROVE  /\ g[e].phys_addr = v /\ g[e].dest = f[e].dest /\ g[e].page_idx = f[e].page_idx
           /\ \A q \in Pages : q # e => g[q] = f[q]
  BY Zenon DEF SendEntry

\* Forgetting an entry's page leaves its address and its packet.
LEMMA ForgetUpdate ==
    ASSUME snd_pkt_list \in [Pages -> SendEntry], NEW e \in Pages
    PROVE  /\ Forget(e) \in [Pages -> SendEntry]
           /\ Forget(e)[e].phys_addr = snd_pkt_list[e].phys_addr
           /\ Forget(e)[e].dest = snd_pkt_list[e].dest
           /\ Forget(e)[e].page_idx = -1
           /\ \A d \in Pages : d # e => Forget(e)[d] = snd_pkt_list[d]
  BY Zenon DEF SendEntry, Forget

\* pkt_send() fills in the packet and the page, not the address.
LEMMA EntryType ==
    ASSUME NEW f \in [Pages -> SendEntry], NEW e \in Pages,
           NEW d \in 0 .. MaxPackets, NEW p \in Pages \cup {-1}
    PROVE  [f EXCEPT ![e] = [@ EXCEPT !.dest = d, !.page_idx = p]] \in [Pages -> SendEntry]
  BY Zenon DEF SendEntry

\* A sender goes on, or is done.
LEMMA GoesUpdate ==
    ASSUME host \in [Senders -> Sender], NEW s \in Senders, NEW pc \in Senderstates,
           Goes(s, pc)
    PROVE  host' \in [Senders -> Sender]
  BY Zenon DEF Sender, Goes

\* (A sender that is done is as it was at first.)
LEMMA GivesUpdate ==
    ASSUME host \in [Senders -> Sender], NEW s \in Senders, Gives(s)
    PROVE  host' \in [Senders -> Sender]
  <1>1. IdleSender \in Sender
    BY SndConstants, SMT DEF IdleSender, Sender, Senderstates, Pages
  <1> QED BY <1>1, Zenon DEF Gives

\* A "cli" sender that goes on changes nothing but its place, ...
LEMMA CliGoes ==
    ASSUME host \in [Senders -> Sender], NEW pc, Goes("cli", pc)
    PROVE  /\ Cli'.pc = pc /\ Cli'.page_idx = Cli.page_idx /\ Cli'.pkt = Cli.pkt
           /\ host'["ioctl"] = host["ioctl"]
  BY Zenon DEF Sender, Senders, Goes, Cli

\* ... and when it is done it is as it was at first.
LEMMA CliGives ==
    ASSUME host \in [Senders -> Sender], Gives("cli")
    PROVE  Cli' = IdleSender /\ host'["ioctl"] = host["ioctl"]
  BY Zenon DEF Senders, Gives, Cli

\* What a sender at rest looks like.
LEMMA IdleIs ==
    IdleSender.pc = "idle" /\ IdleSender \in Sender
  BY SndConstants, SMT DEF IdleSender, Sender, Senderstates, Pages

\* The next index is one of the ring.
LEMMA AdvanceInRing == \A i \in Pages : Advance(i) \in Pages
  BY SndConstants DEF Advance, Pages

-----------------------------------------------------------------------------
(* The initial states.                                                     *)

\* Everything is clear at first.
LEMMA InitSndInv == Init => SndInv
  <1> SUFFICES ASSUME Init PROVE SndInv
    OBVIOUS
  <1>0. 0 \in Pages /\ 0 \in 0 .. MaxPackets /\ 0 \in 0 .. MAX_SND_PKT_ENTRIES
        /\ -1 \in Pages \cup {-1} /\ "A" \in Bufs /\ MAX_SND_PKT_ENTRIES \in Nat \ {0}
    BY SndConstants DEF Pages, Bufs
  <1>1. scene.packets \in Nat /\ scene \in Scenarios
    BY SndConstants, SMT DEF Init
  <1>2. TypeOK
    <2>1. snd_page_list \in [Pages -> SendPage]
      BY <1>0, Zenon DEF Init, SendPage
    <2>2. snd_pkt_list \in [Pages -> SendEntry]
      BY <1>0, Zenon DEF Init, SendEntry, EmptyEntry
    <2>3. host \in [Senders -> Sender]
      BY IdleIs, Zenon DEF Init
    <2>4. mcp \in SndRegisters
      BY <1>0, Zenon DEF Init, SndRegisters, FirstState
    <2>5. snd_buf \in [Bufs -> 0 .. MaxPackets]
      BY <1>0, Zenon DEF Init
    <2>6. begun \in 0 .. scene.packets /\ ioctls \in Nat /\ loads \in Nat
      BY <1>1 DEF Init
    <2>7. submitted = <<>> /\ wire = <<>>
      BY DEF Init
    <2>8. /\ submitted \in Seq(0 .. MaxPackets)
          /\ wire \in Seq([dest : 0 .. MaxPackets, data : 0 .. MaxPackets])
      BY <2>7
    <2> QED BY <1>0, <1>1, <2>1, <2>2, <2>3, <2>4, <2>5, <2>6, <2>8, Zenon DEF Init, TypeOK
  <1>3. mcp.SndState = "S0" /\ mcp.last_snd_pkt = 0 /\ net = "ready" /\ dma = "idle"
    BY DEF Init, FirstState
  <1>4. Buffers /\ Bus
    BY <1>3 DEF Init, Buffers, Bus, Pulling, SndHolds
  <1>5. Cli = IdleSender /\ host["ioctl"] = IdleSender
    BY Zenon DEF Init, Cli, Senders
  <1>6. Alone /\ Fresh
    BY <1>3, <1>5, IdleIs DEF Init, Alone, Fresh, Loading
  <1>7. Cli.pc = "idle"
    BY <1>5, IdleIs
  <1>8. \A p \in Pages : Stat(p) = "avail" /\ snd_pkt_list[p] = EmptyEntry
    BY DEF Init, Stat
  <1>9. PagesInv
    BY <1>7, <1>8 DEF PagesInv, Holding
  <1>10. EntriesInv
    BY <1>7, <1>8 DEF EntriesInv, EmptyEntry
  <1>11. Len(submitted) = 0 /\ Len(wire) = 0 /\ Handed = 0 /\ last_pkt = 0
    BY <1>3 DEF Init, Handed
  <1>12. 0 % MAX_SND_PKT_ENTRIES = 0
    BY <1>0
  <1>13. RingInv
    BY <1>0, <1>3, <1>8, <1>11, <1>12 DEF RingInv, EmptyEntry
  <1>14. CardInv
    BY <1>3 DEF CardInv, Pulling
  <1> QED BY <1>2, <1>4, <1>6, <1>9, <1>10, <1>13, <1>14 DEF SndInv, Running

-----------------------------------------------------------------------------
(* Types.                                                                  *)

\* A sender that looks at a page, and one that takes it.
LEMMA LookUpdate ==
    ASSUME host \in [Senders -> Sender], NEW s \in Senders, NEW p \in Pages,
           NEW slot \in Pages \cup {-1}, NEW pkt \in 0 .. MaxPackets,
           host' = [host EXCEPT ![s] = [@ EXCEPT !.pc = "take", !.look = p,
                                                 !.slot = slot, !.pkt = pkt]]
    PROVE  host' \in [Senders -> Sender]
  BY Zenon DEF Sender, Senderstates

\* (The same for the page taken.)
LEMMA TakeUpdate ==
    ASSUME host \in [Senders -> Sender], NEW s \in Senders, NEW p \in Pages,
           host' = [host EXCEPT ![s] = [@ EXCEPT !.pc = "fill", !.page_idx = p]]
    PROVE  host' \in [Senders -> Sender]
  BY Zenon DEF Sender, Senderstates

\* The fields of a sender are within their types.
LEMMA SenderTypes ==
    ASSUME TypeOK, NEW s \in Senders
    PROVE  /\ host[s].pc \in Senderstates /\ host[s].look \in Pages
           /\ host[s].slot \in Pages \cup {-1} /\ host[s].page_idx \in Pages \cup {-1}
           /\ host[s].pkt \in 0 .. MaxPackets
  BY Zenon DEF TypeOK, Sender

\* So are those of a page and of an entry.
LEMMA ListTypes ==
    ASSUME TypeOK, NEW p \in Pages
    PROVE  /\ snd_page_list[p].stat \in {"avail", "checked_out", "sending"}
           /\ snd_page_list[p].slot \in Pages \cup {-1}
           /\ snd_page_list[p].data \in 0 .. MaxPackets
           /\ snd_pkt_list[p].phys_addr \in 0 .. MAX_SND_PKT_ENTRIES
           /\ snd_pkt_list[p].dest \in 0 .. MaxPackets
           /\ snd_pkt_list[p].page_idx \in Pages \cup {-1}
  BY Zenon DEF TypeOK, SendPage, SendEntry

\* The scenario bounds the packets.
LEMMA SceneTypes ==
    ASSUME TypeOK
    PROVE  scene.packets \in 0 .. MaxPackets /\ begun \in Nat /\ MaxPackets \in Nat
  BY SndConstants DEF TypeOK

\* The steps of a sender keep the types.
LEMMA HostTypeOK ==
    ASSUME TypeOK, NEW s \in Senders, HostStep(s)
    PROVE  TypeOK'
  <1> USE SenderTypes
  <1>1. CASE GetSndPage(s)
    <2>1. begun + 1 \in 0 .. MaxPackets /\ begun + 1 \in 0 .. scene.packets
      BY <1>1, SceneTypes DEF GetSndPage, TypeOK
    <2>2. \/ host' = host /\ begun' = begun
          \/ \E slot \in Pages \cup {-1} :
               /\ begun' = begun + 1
               /\ host' = [host EXCEPT ![s] = [@ EXCEPT !.pc = "take", !.look = next_avail,
                                                    !.slot = slot, !.pkt = begun + 1]]
      BY <1>1, ListTypes, Zenon DEF GetSndPage, LookAt, TypeOK
    <2>3. host' \in [Senders -> Sender] /\ begun' \in 0 .. scene.packets
      <3>1. CASE host' = host /\ begun' = begun
        BY <3>1, Zenon DEF TypeOK
      <3>2. ASSUME NEW slot \in Pages \cup {-1}, begun' = begun + 1,
                   host' = [host EXCEPT ![s] = [@ EXCEPT !.pc = "take", !.look = next_avail,
                                                    !.slot = slot, !.pkt = begun + 1]]
            PROVE  host' \in [Senders -> Sender] /\ begun' \in 0 .. scene.packets
        BY <2>1, <3>2, LookUpdate, Zenon DEF TypeOK
      <3> QED BY <2>2, <3>1, <3>2, Zenon
    <2>4. ioctls' \in Nat
      BY <1>1 DEF GetSndPage, TypeOK
    <2> QED BY <1>1, <2>3, <2>4, Zenon DEF GetSndPage, TypeOK, cardVars
  <1>2. CASE TakePage(s)
    <2>1. PICK p \in {host[s].look, next_avail} :
            /\ snd_page_list' = [snd_page_list EXCEPT ![p].stat = "checked_out"]
            /\ snd_pkt_list' = IF host[s].slot = -1 THEN snd_pkt_list
                               ELSE Forget(host[s].slot)
            /\ next_avail' = Advance(p)
            /\ host' = [host EXCEPT ![s] = [@ EXCEPT !.pc = "fill", !.page_idx = p]]
      BY <1>2, Zenon DEF TakePage
    <2>2. p \in Pages
      BY Zenon DEF TypeOK
    <2>3. /\ snd_page_list' \in [Pages -> SendPage] /\ next_avail' \in Pages
          /\ host' \in [Senders -> Sender]
      BY <2>1, <2>2, StatType, TakeUpdate, AdvanceInRing, Zenon DEF TypeOK
    <2>4. snd_pkt_list' \in [Pages -> SendEntry]
      BY <2>1, ForgetUpdate, Zenon DEF TypeOK
    <2> QED BY <1>2, <2>3, <2>4, Zenon DEF TakePage, TypeOK, cardVars
  <1>3. CASE FillPage(s)
    <2>1. snd_page_list' \in [Pages -> SendPage]
      BY <1>3, DataType, Zenon DEF FillPage, NotCheckedOut, TypeOK
    <2>3. host' \in [Senders -> Sender]
      BY <1>3, GoesUpdate, Zenon DEF FillPage, NotCheckedOut, TypeOK, Senderstates
    <2>2. snd_pkt_list' = snd_pkt_list
      BY <1>3, Zenon DEF FillPage, NotCheckedOut
    <2> QED BY <1>3, <2>1, <2>2, <2>3, Zenon DEF FillPage, TypeOK, cardVars
  <1>4. CASE FreeSndPage(s)
    <2>1. snd_page_list' \in [Pages -> SendPage] /\ host' \in [Senders -> Sender]
      BY <1>4, StatType, GivesUpdate, Zenon DEF FreeSndPage, Release, TypeOK
    <2> QED BY <1>4, <2>1, Zenon DEF FreeSndPage, TypeOK, cardVars
  <1>5. CASE MyrPktXmit(s)
    <2> DEFINE p == host[s].page_idx
               entry == snd_pkt_list[last_pkt]
               freed == IF entry.page_idx = -1 THEN snd_page_list
                        ELSE [snd_page_list EXCEPT ![entry.page_idx].stat = "avail"]
    <2>1. freed \in [Pages -> SendPage]
      BY StatType, Zenon DEF TypeOK
    <2>2. [freed EXCEPT ![p].stat = "avail"] \in [Pages -> SendPage]
      BY <2>1, StatType, Zenon
    <2>3. [snd_page_list EXCEPT ![p].stat = "avail"] \in [Pages -> SendPage]
      BY StatType, Zenon DEF TypeOK
    <2>4. /\ snd_page_list' \in {snd_page_list, freed, [freed EXCEPT ![p].stat = "avail"],
                                [snd_page_list EXCEPT ![p].stat = "avail"]}
          /\ snd_pkt_list' \in {snd_pkt_list, Forget(last_pkt)}
          /\ Gives(s) \/ Goes(s, "send") \/ Goes(s, "oops")
      BY <1>5, Zenon DEF MyrPktXmit, Release, NotCheckedOut
    <2>5. snd_page_list' \in [Pages -> SendPage]
      BY <2>1, <2>2, <2>3, <2>4, Zenon DEF TypeOK
    <2>6. snd_pkt_list' \in [Pages -> SendEntry]
      BY <2>4, ForgetUpdate, Zenon DEF TypeOK
    <2>7. host' \in [Senders -> Sender]
      BY <2>4, GivesUpdate, GoesUpdate, Zenon DEF TypeOK, Senderstates
    <2> QED BY <1>5, <2>5, <2>6, <2>7, Zenon DEF MyrPktXmit, TypeOK, cardVars
  <1>6. CASE FillEntry(s)
    <2>1. snd_pkt_list' \in [Pages -> SendEntry]
      BY <1>6, EntryType, Zenon DEF FillEntry, TypeOK
    <2>2. host' \in [Senders -> Sender]
      BY <1>6, GoesUpdate, Zenon DEF FillEntry, TypeOK, Senderstates
    <2> QED BY <1>6, <2>1, <2>2, Zenon DEF FillEntry, TypeOK, cardVars
  <1>7. CASE WritePhysAddr(s)
    <2>1. PhysAddr(host[s].page_idx) \in 0 .. MAX_SND_PKT_ENTRIES
      BY SndConstants DEF PhysAddr, Pages
    <2>2. snd_pkt_list' \in [Pages -> SendEntry] /\ host' \in [Senders -> Sender]
      BY <1>7, <2>1, AddressType, GoesUpdate, Zenon DEF WritePhysAddr, TypeOK, Senderstates
    <2>3. snd_page_list' \in [Pages -> SendPage] /\ last_pkt' \in Pages
      BY <1>7, SlotType, AdvanceInRing, Zenon DEF WritePhysAddr, TypeOK
    <2>4. submitted' \in Seq(0 .. MaxPackets)
      BY <1>7 DEF WritePhysAddr, TypeOK
    <2> QED BY <1>7, <2>2, <2>3, <2>4, Zenon DEF WritePhysAddr, TypeOK, cardVars
  <1>8. CASE MarkSending(s)
    <2>1. snd_page_list' \in [Pages -> SendPage] /\ host' \in [Senders -> Sender]
      BY <1>8, StatType, GivesUpdate, Zenon DEF MarkSending, TypeOK
    <2> QED BY <1>8, <2>1, Zenon DEF MarkSending, TypeOK, cardVars
  <1> QED BY <1>1, <1>2, <1>3, <1>4, <1>5, <1>6, <1>7, <1>8, Zenon DEF HostStep

\* The fields of the card's registers are within their types.
LEMMA RegisterTypes ==
    ASSUME TypeOK
    PROVE  /\ mcp.SndState \in {"S0", "S1", "S2", "init", "off"}
           /\ mcp.last_snd_pkt \in Pages /\ mcp.cur_buf \in Bufs
           /\ mcp.cur_dest \in 0 .. MaxPackets /\ mcp.page \in Pages
           /\ mcp.pkt_on_LANai \in BOOLEAN
           /\ mcp.sent.dest \in 0 .. MaxPackets /\ mcp.sent.buf \in Bufs
  BY Zenon DEF TypeOK, SndRegisters

\* The other buffer is another one.
LEMMA OtherBuffer == \A b \in Bufs : Other(b) \in Bufs /\ Other(b) # b
  BY DEF Other, Bufs

\* What state S0 does to the registers, ...
LEMMA S0Registers ==
    ASSUME TypeOK, SndS0
    PROVE  LET entry == snd_pkt_list[mcp.last_snd_pkt]
           IN  /\ mcp' \in SndRegisters
               /\ mcp.SndState = "S0" /\ PCIavailable /\ ~fault /\ entry.phys_addr # 0
               /\ mcp'.SndState = (IF net = "ready" THEN "S2" ELSE "S1")
               /\ mcp'.cur_buf = Other(mcp.cur_buf) /\ mcp'.cur_dest = entry.dest
               /\ mcp'.page = entry.phys_addr - 1 /\ mcp'.page \in Pages
               /\ mcp'.pkt_on_LANai = FALSE /\ mcp'.sent = mcp.sent
               /\ mcp'.last_snd_pkt = mcp.last_snd_pkt
  <1> DEFINE entry == snd_pkt_list[mcp.last_snd_pkt]
  <1>1. entry.phys_addr \in 0 .. MAX_SND_PKT_ENTRIES /\ entry.dest \in 0 .. MaxPackets
    BY RegisterTypes, ListTypes, Zenon
  <1>2. mcp.SndState = "S0" /\ PCIavailable /\ ~fault /\ entry.phys_addr # 0
    BY DEF SndS0, CardUp
  <1>3. entry.phys_addr - 1 \in Pages
    BY <1>1, <1>2, SndConstants DEF Pages
  <1>4. Other(mcp.cur_buf) \in Bufs
    BY RegisterTypes, OtherBuffer, Zenon
  <1>5. mcp' = [mcp EXCEPT !.SndState = IF net = "ready" THEN "S2" ELSE "S1",
                           !.cur_buf = Other(mcp.cur_buf),
                           !.cur_dest = entry.dest, !.page = entry.phys_addr - 1,
                           !.pkt_on_LANai = FALSE]
    BY Zenon DEF SndS0
  <1> HIDE DEF entry
  <1>6. mcp \in SndRegisters
    BY DEF TypeOK
  <1>7. (IF net = "ready" THEN "S2" ELSE "S1") \in {"S0", "S1", "S2", "init", "off"}
    OBVIOUS
  <1>8. mcp' \in SndRegisters
    BY <1>1, <1>3, <1>4, <1>5, <1>6, <1>7, Zenon DEF SndRegisters
  <1>9. /\ mcp'.SndState = (IF net = "ready" THEN "S2" ELSE "S1")
        /\ mcp'.cur_buf = Other(mcp.cur_buf) /\ mcp'.cur_dest = entry.dest
        /\ mcp'.page = entry.phys_addr - 1
        /\ mcp'.pkt_on_LANai = FALSE /\ mcp'.sent = mcp.sent
        /\ mcp'.last_snd_pkt = mcp.last_snd_pkt
    BY <1>5, <1>6, Zenon DEF SndRegisters
  <1> QED BY <1>2, <1>3, <1>8, <1>9, Zenon DEF entry

\* ... state S1, ...
LEMMA S1Registers ==
    ASSUME TypeOK, SndS1
    PROVE  /\ mcp' \in SndRegisters
           /\ mcp.SndState = "S1" /\ ~fault
           /\ mcp'.SndState = (IF net = "ready" THEN "S2" ELSE "S1")
           /\ mcp'.pkt_on_LANai = (mcp.pkt_on_LANai \/ dma = "done")
           /\ mcp'.cur_buf = mcp.cur_buf /\ mcp'.cur_dest = mcp.cur_dest
           /\ mcp'.page = mcp.page /\ mcp'.sent = mcp.sent
           /\ mcp'.last_snd_pkt = mcp.last_snd_pkt
  <1>1. mcp.SndState = "S1" /\ ~fault
    BY DEF SndS1, CardUp
  <1>2. mcp' = [mcp EXCEPT !.SndState = IF net = "ready" THEN "S2" ELSE "S1",
                           !.pkt_on_LANai = @ \/ dma = "done"]
    BY Zenon DEF SndS1
  <1>3. mcp \in SndRegisters
    BY DEF TypeOK
  <1>4. (IF net = "ready" THEN "S2" ELSE "S1") \in {"S0", "S1", "S2", "init", "off"}
    OBVIOUS
  <1>5. (mcp.pkt_on_LANai \/ dma = "done") \in BOOLEAN
    BY Zenon
  <1> QED BY <1>1, <1>2, <1>3, <1>4, <1>5, Zenon DEF SndRegisters

\* ... and state S2, when the packet goes out or when it is only noticed to be
\* on the card.
SendsNow ==
    /\ mcp.pkt_on_LANai \/ dma = "done"
    /\ net = "opened" /\ net' = "body"
    /\ snd_pkt_list' = [snd_pkt_list EXCEPT ![mcp.last_snd_pkt].phys_addr = 0]
    /\ mcp'.SndState = "S0" /\ mcp'.last_snd_pkt = Advance(mcp.last_snd_pkt)
    /\ mcp'.sent.dest = mcp.cur_dest /\ mcp'.sent.buf = mcp.cur_buf
    /\ mcp'.pkt_on_LANai = mcp.pkt_on_LANai
    /\ IF mcp.pkt_on_LANai THEN KeepPCI ELSE FreePCI
NotesArrival ==
    /\ net # "opened" /\ dma = "done" /\ ~mcp.pkt_on_LANai
    /\ mcp'.SndState = "S2" /\ mcp'.last_snd_pkt = mcp.last_snd_pkt
    /\ mcp'.sent = mcp.sent /\ mcp'.pkt_on_LANai = TRUE
    /\ net' = net /\ snd_pkt_list' = snd_pkt_list /\ FreePCI
LEMMA S2Registers ==
    ASSUME TypeOK, SndS2
    PROVE  /\ mcp' \in SndRegisters
           /\ mcp.SndState = "S2" /\ ~fault
           /\ mcp'.cur_buf = mcp.cur_buf /\ mcp'.cur_dest = mcp.cur_dest
           /\ mcp'.page = mcp.page
           /\ SendsNow \/ NotesArrival
  <1>1. mcp.SndState = "S2" /\ ~fault /\ mcp \in SndRegisters
    BY DEF SndS2, CardUp, TypeOK
  <1> DEFINE out == [dest |-> mcp.cur_dest, buf |-> mcp.cur_buf]
  <1>2. out \in [dest : 0 .. MaxPackets, buf : Bufs] /\ out.dest = mcp.cur_dest
        /\ out.buf = mcp.cur_buf
    BY RegisterTypes, Zenon
  <1> HIDE DEF out
  <1>3. Advance(mcp.last_snd_pkt) \in Pages
    BY RegisterTypes, AdvanceInRing, Zenon
  <1>4. CASE /\ mcp.pkt_on_LANai \/ dma = "done"
             /\ net = "opened"
             /\ net' = "body"
             /\ snd_pkt_list' = [snd_pkt_list EXCEPT ![mcp.last_snd_pkt].phys_addr = 0]
             /\ mcp' = [mcp EXCEPT !.SndState = "S0",
                                   !.last_snd_pkt = Advance(mcp.last_snd_pkt),
                                   !.sent = [dest |-> mcp.cur_dest, buf |-> mcp.cur_buf]]
             /\ IF mcp.pkt_on_LANai THEN KeepPCI ELSE FreePCI
    <2>1. mcp' = [mcp EXCEPT !.SndState = "S0",
                             !.last_snd_pkt = Advance(mcp.last_snd_pkt), !.sent = out]
      BY <1>4, Zenon DEF out
    <2>2. /\ mcp'.SndState = "S0" /\ mcp'.last_snd_pkt = Advance(mcp.last_snd_pkt)
          /\ mcp'.sent = out /\ mcp'.pkt_on_LANai = mcp.pkt_on_LANai
          /\ mcp'.cur_buf = mcp.cur_buf /\ mcp'.cur_dest = mcp.cur_dest
          /\ mcp'.page = mcp.page
      BY <1>1, <2>1, Zenon DEF SndRegisters
    <2>3. mcp' \in SndRegisters
      BY <1>1, <1>2, <1>3, <2>1, Zenon DEF SndRegisters
    <2>4. SendsNow
      BY <1>2, <1>4, <2>2, Zenon DEF SendsNow
    <2> QED BY <1>1, <2>2, <2>3, <2>4, Zenon
  <1>5. CASE /\ net # "opened" /\ dma = "done" /\ ~mcp.pkt_on_LANai
             /\ mcp' = [mcp EXCEPT !.pkt_on_LANai = TRUE]
             /\ FreePCI
             /\ UNCHANGED <<net, snd_pkt_list>>
    <2>1. /\ mcp'.SndState = "S2" /\ mcp'.last_snd_pkt = mcp.last_snd_pkt
          /\ mcp'.sent = mcp.sent /\ mcp'.pkt_on_LANai = TRUE
          /\ mcp'.cur_buf = mcp.cur_buf /\ mcp'.cur_dest = mcp.cur_dest
          /\ mcp'.page = mcp.page /\ mcp' \in SndRegisters
      BY <1>1, <1>5, Zenon DEF SndRegisters
    <2>2. NotesArrival
      BY <1>5, <2>1, Zenon DEF NotesArrival
    <2> QED BY <1>1, <2>1, <2>2, Zenon
  <1> QED BY <1>4, <1>5, Zenon DEF SndS2

\* The steps of the card keep the types, ...
LEMMA CardTypeOK ==
    ASSUME TypeOK, SndStatem
    PROVE  TypeOK'
  <1>1. 0 \in 0 .. MAX_SND_PKT_ENTRIES
    BY SndConstants
  <1>2. CASE SndS0
    <2>1. mcp' \in SndRegisters
      BY <1>2, S0Registers, Zenon
    <2>2. /\ snd_buf' = snd_buf /\ wire' = wire /\ rcvHolds' = rcvHolds
          /\ snd_pkt_list' = snd_pkt_list /\ dma' = "busy" /\ PCIavailable' = FALSE
          /\ net' \in {"header", net} /\ fault' = (fault \/ ~PCIavailable)
      BY <1>2, Zenon DEF SndS0, GrabPCI
    <2> QED BY <2>1, <2>2, Zenon DEF SndStatem, TypeOK, hostVars
  <1>3. CASE SndS1
    <2>1. mcp' \in SndRegisters
      BY <1>3, S1Registers, Zenon
    <2>2. PCIavailable' \in BOOLEAN /\ fault' \in BOOLEAN
      BY <1>3, Zenon DEF SndS1, ReleaseBus, FreePCI, KeepPCI, TypeOK
    <2>3. /\ snd_buf' = snd_buf /\ wire' = wire /\ rcvHolds' = rcvHolds
          /\ snd_pkt_list' = snd_pkt_list /\ dma' = dma /\ net' \in {"header", net}
      BY <1>3, Zenon DEF SndS1
    <2> QED BY <2>1, <2>2, <2>3, Zenon DEF SndStatem, TypeOK, hostVars
  <1>4. CASE SndS2
    <2>1. mcp' \in SndRegisters /\ (SendsNow \/ NotesArrival)
      BY <1>4, S2Registers, Zenon
    <2>5. ASSUME SendsNow PROVE snd_pkt_list' \in [Pages -> SendEntry]
      <3>1. snd_pkt_list' = [snd_pkt_list EXCEPT ![mcp.last_snd_pkt].phys_addr = 0]
        BY <2>5 DEF SendsNow
      <3>2. mcp.last_snd_pkt \in Pages /\ snd_pkt_list \in [Pages -> SendEntry]
        BY RegisterTypes DEF TypeOK
      <3> QED BY <1>1, <3>1, <3>2, AddressType, Zenon
    <2>2. snd_pkt_list' \in [Pages -> SendEntry]
      BY <2>1, <2>5, Zenon DEF NotesArrival, TypeOK
    <2>3. PCIavailable' \in BOOLEAN /\ fault' \in BOOLEAN /\ net' \in {net, "body"}
      BY <2>1, Zenon DEF SendsNow, NotesArrival, FreePCI, KeepPCI, TypeOK
    <2>4. snd_buf' = snd_buf /\ wire' = wire /\ rcvHolds' = rcvHolds /\ dma' = dma
      BY <1>4, Zenon DEF SndS2
    <2> QED BY <2>1, <2>2, <2>3, <2>4, Zenon DEF SndStatem, TypeOK, hostVars
  <1> QED BY <1>2, <1>3, <1>4, Zenon DEF SndStatem

\* ... and so do those of the DMA engine and the link, ...
LEMMA EngineTypeOK ==
    ASSUME TypeOK, DmaDone \/ LinkDone \/ RcvHalf
    PROVE  TypeOK'
  <1>1. CASE DmaDone
    <2>1. snd_buf' \in [Bufs -> 0 .. MaxPackets]
      BY <1>1, RegisterTypes, ListTypes, Zenon DEF DmaDone, TypeOK
    <2> QED BY <1>1, <2>1, Zenon DEF DmaDone, TypeOK, hostVars
  <1>2. CASE LinkDone
    <2>1. snd_buf[mcp.sent.buf] \in 0 .. MaxPackets
      BY RegisterTypes, Zenon DEF TypeOK
    <2>2. [dest |-> mcp.sent.dest, data |-> snd_buf[mcp.sent.buf]]
            \in [dest : 0 .. MaxPackets, data : 0 .. MaxPackets]
      BY <2>1, RegisterTypes, Zenon
    <2> DEFINE T == [dest : 0 .. MaxPackets, data : 0 .. MaxPackets]
               x == [dest |-> mcp.sent.dest, data |-> snd_buf[mcp.sent.buf]]
    <2>4. x \in T /\ wire \in Seq(T) /\ wire' \in {wire, Append(wire, x)}
      BY <1>2, <2>2, Zenon DEF LinkDone, TypeOK
    <2>3. wire' \in Seq(T)
      <3> HIDE DEF T, x
      <3> QED BY <2>4
    <2> QED BY <1>2, <2>3, Zenon DEF LinkDone, TypeOK, hostVars
  <1>3. CASE RcvHalf
    BY <1>3, Zenon DEF RcvHalf, GrabPCI, FreePCI, TypeOK, hostVars
  <1> QED BY <1>1, <1>2, <1>3, Zenon

\* ... and the steps of loading an MCP.
LEMMA LoadTypeOK ==
    ASSUME TypeOK, LoadMCP \/ GetHstshmem
    PROVE  TypeOK'
  <1>0. 0 \in Pages /\ 0 \in 0 .. MaxPackets /\ 0 \in 0 .. MAX_SND_PKT_ENTRIES
        /\ -1 \in Pages \cup {-1} /\ "A" \in Bufs
    BY SndConstants DEF Pages, Bufs
  <1>1. CASE LoadMCP
    <2>1. mcp' \in SndRegisters
      BY <1>0, <1>1, Zenon DEF LoadMCP, SndRegisters, FirstState
    <2>2. snd_pkt_list' \in [Pages -> SendEntry]
      BY <1>0, <1>1, Zenon DEF LoadMCP, SendEntry, EmptyEntry
    <2>3. submitted' = <<>> /\ wire' = <<>>
      BY <1>1, Zenon DEF LoadMCP
    <2>4. /\ submitted' \in Seq(0 .. MaxPackets)
          /\ wire' \in Seq([dest : 0 .. MaxPackets, data : 0 .. MaxPackets])
      BY <2>3
    <2>5. loads' \in Nat
      BY <1>1 DEF LoadMCP, TypeOK
    <2> QED BY <1>1, <2>1, <2>2, <2>4, <2>5, Zenon DEF LoadMCP, TypeOK, hostVars
  <1>2. CASE GetHstshmem
    <2>3. ASSUME NEW p \in Pages
          PROVE  [snd_page_list[p] EXCEPT !.stat = "avail", !.slot = -1] \in SendPage
      BY <1>0, <2>3, Zenon DEF TypeOK, SendPage
    <2>1. snd_page_list' \in [Pages -> SendPage]
      BY <1>2, <2>3, Zenon DEF GetHstshmem
    <2>2. mcp' \in SndRegisters /\ rdy_to_snd' \in BOOLEAN
      BY <1>2, Zenon DEF GetHstshmem, TypeOK, SndRegisters
    <2> QED BY <1>0, <1>2, <2>1, <2>2, Zenon DEF GetHstshmem, TypeOK
  <1> QED BY <1>1, <1>2, Zenon

\* Every step keeps the types.
LEMMA StepTypeOK ==
    ASSUME TypeOK, [Next]_vars
    PROVE  TypeOK'
  <1>1. CASE UNCHANGED vars
    BY <1>1, Zenon DEF vars, hostVars, cardVars, TypeOK
  <1> QED
    BY <1>1, HostTypeOK, CardTypeOK, EngineTypeOK, LoadTypeOK, Zenon DEF Next, CardNext

-----------------------------------------------------------------------------
(* The card's buffers and its bus, however the send side is used.          *)

\* No step mixes the buffers up or takes a bus that is taken.
LEMMA StepBus ==
    ASSUME TypeOK, Buffers, Bus, [Next]_vars
    PROVE  Buffers' /\ Bus'
  <1>1. CASE SndS0 /\ SndStatem
    <2>1. /\ mcp.SndState = "S0" /\ PCIavailable /\ ~fault
          /\ mcp'.SndState = (IF net = "ready" THEN "S2" ELSE "S1")
          /\ mcp'.cur_buf # mcp.cur_buf /\ mcp'.pkt_on_LANai = FALSE
          /\ mcp'.sent = mcp.sent
      BY <1>1, S0Registers, RegisterTypes, OtherBuffer, Zenon
    <2>2. /\ dma' = "busy" /\ net' = (IF net = "ready" THEN "header" ELSE net)
          /\ PCIavailable' = FALSE /\ fault' = (fault \/ ~PCIavailable)
          /\ rcvHolds' = rcvHolds
      BY <1>1 DEF SndS0, GrabPCI
    <2>3. Buffers'
      BY <2>1, <2>2 DEF Buffers, Pulling, TypeOK
    <2>4. Bus'
      BY <2>1, <2>2, Zenon DEF Bus, Pulling, SndHolds
    <2> QED BY <2>3, <2>4, Zenon
  <1>2. CASE SndS1 /\ SndStatem
    <2>1. /\ mcp.SndState = "S1" /\ ~fault
          /\ mcp'.SndState = (IF net = "ready" THEN "S2" ELSE "S1")
          /\ mcp'.pkt_on_LANai = (mcp.pkt_on_LANai \/ dma = "done")
          /\ mcp'.cur_buf = mcp.cur_buf /\ mcp'.sent = mcp.sent
      BY <1>2, S1Registers, Zenon
    <2>2. /\ dma' = dma /\ net' = (IF net = "ready" THEN "header" ELSE net)
          /\ rcvHolds' = rcvHolds
          /\ IF dma = "done" /\ ~mcp.pkt_on_LANai
             THEN PCIavailable' = TRUE /\ fault' = (fault \/ PCIavailable)
             ELSE PCIavailable' = PCIavailable /\ fault' = fault
      BY <1>2, Zenon DEF SndS1, ReleaseBus, FreePCI, KeepPCI
    <2>3. Buffers'
      BY <2>1, <2>2 DEF Buffers, Pulling, TypeOK
    <2>4. Bus'
      BY <2>1, <2>2, RegisterTypes, Zenon DEF Bus, Buffers, Pulling, SndHolds
    <2> QED BY <2>3, <2>4
  <1>3. CASE SndS2 /\ SndStatem
    <2>1. /\ mcp.SndState = "S2" /\ ~fault /\ mcp'.cur_buf = mcp.cur_buf
          /\ SendsNow \/ NotesArrival
      BY <1>3, S2Registers, Zenon
    <2>2. dma' = dma /\ rcvHolds' = rcvHolds
      BY <1>3, Zenon DEF SndS2
    <2>3. CASE SendsNow
      <3>1. Buffers'
        BY <2>1, <2>2, <2>3 DEF Buffers, Pulling, SendsNow, TypeOK
      <3>2. Bus'
        BY <2>1, <2>2, <2>3, Zenon DEF Bus, Pulling, SndHolds, SendsNow, FreePCI, KeepPCI
      <3> QED BY <3>1, <3>2
    <2>4. CASE NotesArrival
      <3>1. Buffers'
        BY <2>1, <2>2, <2>4 DEF Buffers, Pulling, NotesArrival, TypeOK
      <3>2. Bus'
        BY <2>1, <2>2, <2>4, Zenon DEF Bus, Pulling, SndHolds, NotesArrival, FreePCI
      <3> QED BY <3>1, <3>2
    <2> QED BY <2>1, <2>3, <2>4
  <1>4. CASE DmaDone
    BY <1>4 DEF DmaDone, Buffers, Bus, Pulling, SndHolds
  <1>5. CASE LinkDone
    BY <1>5 DEF LinkDone, Buffers, Bus, Pulling, SndHolds
  <1>6. CASE RcvHalf
    BY <1>6, Zenon DEF RcvHalf, Buffers, Bus, Pulling, SndHolds, GrabPCI, FreePCI
  <1>7. CASE LoadMCP
    <2>1. mcp'.SndState = "init"
      BY <1>7 DEF LoadMCP, FirstState
    <2> QED BY <1>7, <2>1 DEF LoadMCP, Buffers, Bus, Pulling, SndHolds
  <1>8. CASE GetHstshmem
    <2>1. /\ mcp.SndState = "init" /\ mcp'.SndState \in {"S0", "off"}
          /\ mcp'.sent = mcp.sent /\ mcp'.cur_buf = mcp.cur_buf
      BY <1>8, Zenon DEF GetHstshmem, Loading, TypeOK, SndRegisters
    <2> QED BY <1>8, <2>1, Zenon DEF GetHstshmem, Buffers, Bus, Pulling, SndHolds
  <1>9. CASE UNCHANGED cardVars
    BY <1>9, Zenon DEF cardVars, Buffers, Bus, Pulling, SndHolds
  <1>10. \A s \in Senders : HostStep(s) => UNCHANGED cardVars
    BY Zenon DEF HostStep, GetSndPage, TakePage, FillPage, FreeSndPage, MyrPktXmit,
                 FillEntry, WritePhysAddr, MarkSending
  <1> QED
    BY <1>1, <1>2, <1>3, <1>4, <1>5, <1>6, <1>7, <1>8, <1>9, <1>10, Zenon
       DEF Next, CardNext, SndStatem, vars

-----------------------------------------------------------------------------
(* The sender's steps, used as the send side is made for.                  *)

\* The number of a packet is one of an entry.
LEMMA AtInRing == \A j \in Nat : j >= 1 => At(j) \in Pages
  <1> SUFFICES ASSUME NEW j \in Nat, j >= 1 PROVE (j - 1) % MAX_SND_PKT_ENTRIES \in Pages
    BY DEF At
  <1>1. j - 1 \in Nat /\ MAX_SND_PKT_ENTRIES \in Nat \ {0}
    BY SndConstants
  <1> QED BY <1>1 DEF Pages

\* The queue's lengths are numbers.
LEMMA Lengths ==
    ASSUME TypeOK
    PROVE  /\ Len(submitted) \in Nat /\ Len(wire) \in Nat /\ Handed \in Nat
           /\ MAX_SND_PKT_ENTRIES \in Nat \ {0}
  <1>1. Len(submitted) \in Nat /\ Len(wire) \in Nat
    BY DEF TypeOK
  <1> QED BY <1>1, SndConstants DEF Handed

\* The ring and the card do not notice what the host does to entries that hold
\* no address.
LEMMA HostFrame ==
    ASSUME TypeOK, RingInv, CardInv, UNCHANGED <<cardVars, submitted, last_pkt>>,
           \A e \in Pages :
             /\ snd_pkt_list'[e].phys_addr = snd_pkt_list[e].phys_addr
             /\ snd_pkt_list[e].phys_addr # 0 => snd_pkt_list'[e].dest = snd_pkt_list[e].dest
    PROVE  RingInv' /\ CardInv'
  <1>1. /\ mcp' = mcp /\ net' = net /\ wire' = wire /\ submitted' = submitted
        /\ dma' = dma /\ snd_buf' = snd_buf /\ last_pkt' = last_pkt
    BY DEF cardVars
  <1>2. Handed' = Handed /\ Handed \in Nat /\ Len(submitted) \in Nat
    BY <1>1, Lengths DEF Handed
  <1>3. \A j \in Handed + 1 .. Len(submitted) : At(j) \in Pages /\ At(j)' = At(j)
    BY <1>2, AtInRing DEF At
  <1>4. RingInv'
    BY <1>1, <1>2, <1>3 DEF RingInv
  <1>5. mcp.last_snd_pkt \in Pages /\ (Pulling => PhysAddr(mcp.page) # 0)
    BY RegisterTypes DEF Pages, PhysAddr
  <1>6. CardInv'
    BY <1>1, <1>5 DEF CardInv, Pulling
  <1> QED BY <1>4, <1>6

\* With one sender at work, the "ioctl" sender takes no step.
LEMMA OnlyCli ==
    ASSUME TypeOK, Alone, Orderly', NEW s \in Senders, HostStep(s)
    PROVE  s = "cli" /\ ~Loading /\ Orderly
  <1>1. host["ioctl"].pc = "idle"
    BY IdleIs DEF Alone
  <1>2. scene' = scene /\ (ioctls' = ioctls \/ ioctls' = ioctls + 1)
    BY Zenon DEF HostStep, GetSndPage, TakePage, FillPage, FreeSndPage, MyrPktXmit,
                 FillEntry, WritePhysAddr, MarkSending
  <1>3. Orderly
    BY <1>2 DEF Orderly, TypeOK
  <1>4. CASE s = "ioctl"
    <2>1. GetSndPage(s)
      BY <1>1, <1>4, Zenon DEF HostStep, TakePage, FillPage, FreeSndPage, MyrPktXmit,
                        FillEntry, WritePhysAddr, MarkSending
    <2>2. ioctls' = ioctls + 1
      BY <1>4, <2>1 DEF GetSndPage
    <2> QED BY <1>3, <2>2 DEF Orderly, TypeOK
  <1>5. CASE s = "cli"
    <2>1. CASE GetSndPage(s)
      BY <1>3, <1>5, <2>1 DEF GetSndPage, Orderly
    <2>2. CASE ~GetSndPage(s)
      <3>1. Cli.pc # "idle"
        BY <1>5, <2>2, Zenon DEF HostStep, TakePage, FillPage, FreeSndPage, MyrPktXmit,
                          FillEntry, WritePhysAddr, MarkSending, Cli
      <3> QED BY <1>3, <1>5, <3>1 DEF Alone
    <2> QED BY <2>1, <2>2
  <1> QED BY <1>4, <1>5 DEF Senders

\* get_snd_page() finds a page that is free or that the card is done with.
LEMMA LookRunning ==
    ASSUME TypeOK, Alone, Running, ~Loading, GetSndPage("cli")
    PROVE  Alone' /\ Running'
  <1> DEFINE p == next_avail
  <1>0. "cli" \in Senders /\ "ioctl" \in Senders
    BY DEF Senders
  <1>1. /\ Cli.pc = "idle" /\ begun + 1 \in 0 .. MaxPackets /\ LookAt("cli")
        /\ snd_page_list' = snd_page_list /\ snd_pkt_list' = snd_pkt_list
        /\ last_pkt' = last_pkt /\ next_avail' = next_avail /\ submitted' = submitted
        /\ UNCHANGED cardVars /\ p \in Pages
    BY SceneTypes DEF GetSndPage, Cli, TypeOK
  <1>2. /\ Stat(p) \in {"avail", "sending"}
        /\ Stat(p) = "sending" => /\ snd_page_list[p].slot \in Pages
                                  /\ snd_pkt_list[snd_page_list[p].slot].page_idx = p
    BY <1>1, ListTypes, Zenon DEF Running, PagesInv, Holding, Stat
  <1>3. /\ printk' = printk
        /\ \/ host' = host
           \/ \E slot \in Pages \cup {-1} :
                /\ host' = [host EXCEPT !["cli"] = [@ EXCEPT !.pc = "take", !.look = p,
                                                    !.slot = slot, !.pkt = begun + 1]]
                /\ IF slot = -1 THEN Stat(p) = "avail"
                   ELSE /\ Stat(p) = "sending" /\ snd_page_list[p].slot = slot
                        /\ snd_pkt_list[slot].phys_addr = 0
    <2>1. CASE Stat(p) = "avail"
      BY <1>1, <2>1, Zenon DEF LookAt, Stat
    <2>2. CASE Stat(p) = "sending"
      <3>1. snd_page_list[p].slot # -1
        BY <1>2, <2>2 DEF Pages
      <3> QED BY <1>1, <1>2, <2>2, <3>1, Zenon DEF LookAt, Stat, EntryAt, MCPDone
    <2> QED BY <1>2, <2>1, <2>2, Zenon
  <1>4. RingInv' /\ CardInv'
    BY <1>1, HostFrame DEF Running
  <1>5. CASE host' = host
    BY <1>1, <1>3, <1>4, <1>5, Zenon
       DEF Alone, Running, PagesInv, EntriesInv, Points, Cli, Holding, Stat, cardVars, Loading
  <1>6. ASSUME NEW slot \in Pages \cup {-1},
               host' = [host EXCEPT !["cli"] = [@ EXCEPT !.pc = "take", !.look = p,
                                                !.slot = slot, !.pkt = begun + 1]],
               IF slot = -1 THEN Stat(p) = "avail"
               ELSE /\ Stat(p) = "sending" /\ snd_page_list[p].slot = slot
                    /\ snd_pkt_list[slot].phys_addr = 0
        PROVE  Alone' /\ Running'
    <2>1. /\ Cli'.pc = "take" /\ Cli'.look = p /\ Cli'.slot = slot
          /\ Cli'.pkt = begun + 1
          /\ host'["ioctl"] = host["ioctl"]
      BY <1>0, <1>6, Zenon DEF Cli, TypeOK, Sender
    <2>2. Alone'
      <3>1. begun + 1 # 0
        BY DEF TypeOK
      <3> QED BY <1>1, <1>3, <2>1, <3>1, Zenon DEF Alone, Loading, cardVars
    <2>3. PagesInv'
      BY <1>1, <1>6, <2>1 DEF Running, PagesInv, Holding, Stat
    <2>4. EntriesInv'
      BY <1>1, <2>1, Zenon DEF Running, EntriesInv, Points, Stat
    <2> QED BY <1>4, <2>2, <2>3, <2>4 DEF Running
  <1> QED BY <1>3, <1>5, <1>6, Zenon

\* The page is checked out, and the entry it was sent from no longer points at
\* it.
LEMMA TakeRunning ==
    ASSUME TypeOK, Alone, Running, ~Loading, TakePage("cli")
    PROVE  Alone' /\ Running'
  <1> DEFINE p == next_avail
             slot == Cli.slot
  <1>0. "cli" \in Senders /\ "ioctl" \in Senders
    BY DEF Senders
  <1>1. /\ Cli.pc = "take" /\ Cli.look = p /\ p \in Pages /\ slot \in Pages \cup {-1}
        /\ IF slot = -1 THEN Stat(p) = "avail"
           ELSE /\ Stat(p) = "sending" /\ snd_page_list[p].slot = slot
                /\ snd_pkt_list[slot].phys_addr = 0
    BY <1>0, SenderTypes DEF TakePage, Cli, Running, PagesInv, TypeOK
  <1>2. /\ snd_page_list' = [snd_page_list EXCEPT ![p].stat = "checked_out"]
        /\ snd_pkt_list' = IF slot = -1 THEN snd_pkt_list ELSE Forget(slot)
        /\ host' = [host EXCEPT !["cli"] = [@ EXCEPT !.pc = "fill", !.page_idx = p]]
        /\ UNCHANGED <<last_pkt, printk, cardVars, submitted>>
    BY <1>1, Zenon DEF TakePage, Cli
  <1>3. /\ Cli'.pc = "fill" /\ Cli'.page_idx = p /\ Cli'.pkt = Cli.pkt
        /\ host'["ioctl"] = host["ioctl"]
    BY <1>0, <1>2, Zenon DEF Cli, TypeOK, Sender
  <1>4. /\ snd_page_list'[p].stat = "checked_out"
        /\ \A q \in Pages : q # p => snd_page_list'[q] = snd_page_list[q]
        /\ \A q \in Pages : snd_page_list'[q].slot = snd_page_list[q].slot
        /\ \A q \in Pages : snd_page_list'[q].data = snd_page_list[q].data
    BY <1>1, <1>2, StatUpdate DEF TypeOK
  <1>5. /\ \A e \in Pages : e # slot => snd_pkt_list'[e] = snd_pkt_list[e]
        /\ slot \in Pages => snd_pkt_list'[slot].page_idx = -1
        /\ \A e \in Pages : /\ snd_pkt_list'[e].phys_addr = snd_pkt_list[e].phys_addr
                            /\ snd_pkt_list'[e].dest = snd_pkt_list[e].dest
    <2>1. CASE slot = -1
      BY <1>2, <2>1 DEF Pages
    <2>2. CASE slot \in Pages
      <3>1. snd_pkt_list' = Forget(slot) /\ snd_pkt_list \in [Pages -> SendEntry]
        BY <1>2, <2>2 DEF Pages, TypeOK
      <3> HIDE DEF slot
      <3> QED BY <2>2, <3>1, ForgetUpdate
    <2> QED BY <1>1, <2>1, <2>2, Zenon
  <1>6. slot \in Pages => snd_pkt_list[slot].page_idx = p
    BY <1>1 DEF Running, PagesInv, Pages
  <1>7. Alone'
    BY <1>1, <1>2, <1>3 DEF Alone, Loading, cardVars
  <1>8. PagesInv'
    <2>1. ASSUME NEW q \in Pages
          PROVE  /\ Stat(q)' = "checked_out" <=> q = p
                 /\ Stat(q)' = "sending" =>
                      /\ snd_page_list'[q].slot \in Pages
                      /\ snd_pkt_list'[snd_page_list'[q].slot].page_idx = q
      BY <1>1, <1>4, <1>5, <1>6, <2>1 DEF Running, PagesInv, Holding, Stat
    <2> QED BY <1>1, <1>3, <2>1, Zenon DEF PagesInv, Holding
  <1>9. EntriesInv'
    <2>1. ASSUME NEW e \in Pages, snd_pkt_list'[e].page_idx # -1
          PROVE  /\ snd_pkt_list[e].page_idx = snd_pkt_list'[e].page_idx
                 /\ snd_pkt_list[e].page_idx # p /\ snd_pkt_list[e].page_idx \in Pages
      BY <1>1, <1>5, <2>1, ListTypes DEF Running, EntriesInv, Points
    <2>2. ASSUME NEW e \in Pages, snd_pkt_list'[e].page_idx # -1
          PROVE  Points(e, snd_pkt_list[e].page_idx)'
      BY <1>1, <1>4, <2>1, <2>2 DEF Running, EntriesInv, Points, Stat
    <2>3. ASSUME NEW e \in Pages, snd_pkt_list'[e].phys_addr # 0
          PROVE  snd_pkt_list'[e] = snd_pkt_list[e]
      BY <1>1, <1>5, <2>3 DEF Pages
    <2>4. ASSUME NEW e \in Pages, snd_pkt_list'[e].phys_addr # 0
          PROVE  /\ snd_pkt_list'[e].page_idx # -1
                 /\ snd_pkt_list'[e].phys_addr = PhysAddr(snd_pkt_list'[e].page_idx)
                 /\ snd_page_list'[snd_pkt_list'[e].page_idx].data = snd_pkt_list'[e].dest
      BY <1>4, <2>3, <2>4, ListTypes DEF Running, EntriesInv
    <2> QED BY <1>3, <2>2, <2>4, Zenon DEF EntriesInv
  <1>10. RingInv' /\ CardInv'
    BY <1>2, <1>5, HostFrame DEF Running
  <1> QED BY <1>7, <1>8, <1>9, <1>10 DEF Running

\* The packet is written into a page no entry points at.
LEMMA FillRunning ==
    ASSUME TypeOK, Alone, Running, ~Loading, FillPage("cli")
    PROVE  Alone' /\ Running'
  <1> DEFINE p == Cli.page_idx
  <1>0. "cli" \in Senders /\ "ioctl" \in Senders
    BY DEF Senders
  <1>1. Cli.pc = "fill" /\ p \in Pages /\ Stat(p) = "checked_out" /\ PageAddr("cli")
    BY DEF FillPage, Cli, Running, PagesInv, Holding, Stat, PageAddr
  <1>2. /\ snd_page_list' = [snd_page_list EXCEPT ![p].data = Cli.pkt]
        /\ Goes("cli", "xmit")
        /\ UNCHANGED <<snd_pkt_list, printk, last_pkt, next_avail, cardVars, submitted>>
    BY <1>1, Zenon DEF FillPage, Cli
  <1>3. /\ Cli'.pc = "xmit" /\ Cli'.page_idx = p /\ Cli'.pkt = Cli.pkt
        /\ host'["ioctl"] = host["ioctl"]
    BY <1>2, CliGoes, Zenon DEF TypeOK
  <1>4. /\ snd_page_list'[p].data = Cli.pkt
        /\ \A q \in Pages : q # p => snd_page_list'[q] = snd_page_list[q]
        /\ \A q \in Pages : snd_page_list'[q].slot = snd_page_list[q].slot
        /\ \A q \in Pages : snd_page_list'[q].stat = snd_page_list[q].stat
    <2> HIDE DEF p
    <2> QED BY <1>1, <1>2, DataUpdate DEF TypeOK
  <1>5. Alone'
    BY <1>1, <1>2, <1>3 DEF Alone, Loading, cardVars
  <1>6. PagesInv'
    BY <1>1, <1>2, <1>3, <1>4 DEF Running, PagesInv, Holding, Stat
  <1>7. \A e \in Pages : snd_pkt_list[e].page_idx # -1 =>
          /\ snd_pkt_list[e].page_idx # p /\ snd_pkt_list[e].page_idx \in Pages
          /\ Points(e, snd_pkt_list[e].page_idx)
    BY <1>1, ListTypes, Zenon DEF Running, EntriesInv, Points
  <1>8. EntriesInv'
    BY <1>1, <1>2, <1>3, <1>4, <1>7 DEF Running, EntriesInv, Points, Stat
  <1>9. RingInv' /\ CardInv'
    BY <1>2, HostFrame DEF Running
  <1> QED BY <1>5, <1>6, <1>8, <1>9 DEF Running

\* A sender that is done holds nothing.
LEMMA CliDone ==
    ASSUME TypeOK, Alone, Gives("cli"), printk' = printk
    PROVE  Alone' /\ Cli'.pc = "idle"
  <1>1. Cli' = IdleSender /\ host'["ioctl"] = host["ioctl"]
    BY CliGives DEF TypeOK
  <1>2. Cli'.pc = "idle"
    BY <1>1, Zenon DEF IdleSender
  <1> QED BY <1>1, <1>2 DEF Alone

\* A page in the sender's hands is one no entry points at, until it is sent.
LEMMA NotPointedAt ==
    ASSUME TypeOK, Running, Cli.pc \in {"fill", "xmit", "send"}
    PROVE  /\ Cli.page_idx \in Pages /\ Stat(Cli.page_idx) = "checked_out"
           /\ \A e \in Pages : snd_pkt_list[e].page_idx # -1 =>
                /\ snd_pkt_list[e].page_idx # Cli.page_idx
                /\ snd_pkt_list[e].page_idx \in Pages
                /\ Stat(snd_pkt_list[e].page_idx) = "sending"
                /\ snd_page_list[snd_pkt_list[e].page_idx].slot = e
  <1>1. Cli.page_idx \in Pages /\ Stat(Cli.page_idx) = "checked_out"
    BY Zenon DEF Running, PagesInv, Holding
  <1> QED BY <1>1, ListTypes, Zenon DEF Running, EntriesInv, Points

\* A page given back unsent leaves everything in order.
LEMMA ReleaseRunning ==
    ASSUME TypeOK, Alone, Running, Cli.pc = "xmit", Release(Cli.page_idx), Gives("cli"),
           UNCHANGED <<last_pkt, next_avail, printk, cardVars, snd_pkt_list, submitted>>
    PROVE  Alone' /\ Running'
  <1> DEFINE p == Cli.page_idx
  <1>1. Alone' /\ Cli'.pc = "idle"
    BY CliDone
  <1>2. p \in Pages
    BY NotPointedAt
  <1>3. /\ snd_page_list'[p].stat = "avail"
        /\ \A q \in Pages : q # p => snd_page_list'[q] = snd_page_list[q]
        /\ \A q \in Pages : snd_page_list'[q].slot = snd_page_list[q].slot
        /\ \A q \in Pages : snd_page_list'[q].data = snd_page_list[q].data
    <2>1. snd_page_list' = [snd_page_list EXCEPT ![p].stat = "avail"]
      BY DEF Release
    <2> HIDE DEF p
    <2> QED BY <1>2, <2>1, StatUpdate DEF TypeOK
  <1>4. PagesInv'
    BY <1>1, <1>2, <1>3 DEF Running, PagesInv, Holding, Stat
  <1>5. EntriesInv'
    BY <1>1, <1>3, NotPointedAt DEF Running, EntriesInv, Points, Stat
  <1>6. RingInv' /\ CardInv'
    BY HostFrame, Zenon DEF Running
  <1> QED BY <1>1, <1>4, <1>5, <1>6 DEF Running

\* free_snd_page().
LEMMA FreeRunning ==
    ASSUME TypeOK, Alone, Running, FreeSndPage("cli")
    PROVE  Alone' /\ Running'
  <1>1. /\ Cli.pc = "xmit" /\ Release(Cli.page_idx) /\ Gives("cli")
        /\ UNCHANGED <<last_pkt, next_avail, printk, cardVars, snd_pkt_list, submitted>>
    BY Zenon DEF FreeSndPage, Cli
  <1> QED BY <1>1, ReleaseRunning

\* myrPkt_xmit() finds the page of an entry the MCP is done with being sent, and
\* makes it available again.
LEMMA XmitRunning ==
    ASSUME TypeOK, Alone, Running, MyrPktXmit("cli")
    PROVE  Alone' /\ Running'
  <1> DEFINE p == Cli.page_idx
             entry == snd_pkt_list[last_pkt]
             f == entry.page_idx
             freed == IF f = -1 THEN snd_page_list
                      ELSE [snd_page_list EXCEPT ![f].stat = "avail"]
  <1>1. /\ Cli.pc = "xmit" /\ last_pkt \in Pages /\ p \in Pages
        /\ UNCHANGED <<last_pkt, next_avail, cardVars, submitted>>
        /\ PageAddr("cli")
        /\ f # -1 => f # p /\ f \in Pages /\ Stat(f) = "sending"
    <2>1. /\ Cli.pc = "xmit" /\ last_pkt \in Pages
          /\ UNCHANGED <<last_pkt, next_avail, cardVars, submitted>>
      BY Zenon DEF MyrPktXmit, Cli, TypeOK
    <2> QED BY <2>1, NotPointedAt, Zenon DEF PageAddr, Stat, Cli
  <1>2. \/ Release(p) /\ Gives("cli") /\ UNCHANGED <<snd_pkt_list, printk>>
        \/ /\ MCPDone(entry) /\ snd_pkt_list' = Forget(last_pkt) /\ printk' = printk
           /\ \/ snd_page_list' = [freed EXCEPT ![p].stat = "avail"] /\ Gives("cli")
              \/ snd_page_list' = freed /\ Goes("cli", "send")
    BY <1>1, Zenon DEF MyrPktXmit, Cli, Stat
  <1>3. CASE Release(p) /\ Gives("cli") /\ UNCHANGED <<snd_pkt_list, printk>>
    BY <1>1, <1>3, ReleaseRunning, Zenon
  <1>4. ASSUME MCPDone(entry), snd_pkt_list' = Forget(last_pkt), printk' = printk,
               \/ snd_page_list' = [freed EXCEPT ![p].stat = "avail"] /\ Gives("cli")
               \/ snd_page_list' = freed /\ Goes("cli", "send")
        PROVE  Alone' /\ Running'
    <2>1. /\ \A e \in Pages : e # last_pkt => snd_pkt_list'[e] = snd_pkt_list[e]
          /\ snd_pkt_list'[last_pkt].page_idx = -1
          /\ \A e \in Pages : /\ snd_pkt_list'[e].phys_addr = snd_pkt_list[e].phys_addr
                              /\ snd_pkt_list'[e].dest = snd_pkt_list[e].dest
      BY <1>1, <1>4, ForgetUpdate, Zenon DEF TypeOK
    <2>2. /\ freed \in [Pages -> SendPage]
          /\ \A q \in Pages : q # f => freed[q] = snd_page_list[q]
          /\ f # -1 => freed[f].stat = "avail"
          /\ \A q \in Pages : /\ freed[q].slot = snd_page_list[q].slot
                              /\ freed[q].data = snd_page_list[q].data
      <3>1. CASE f = -1
        BY <3>1 DEF TypeOK
      <3>2. CASE f # -1
        <4>1. freed = [snd_page_list EXCEPT ![f].stat = "avail"] /\ f \in Pages
              /\ snd_page_list \in [Pages -> SendPage]
          BY <1>1, <3>2 DEF TypeOK
        <4> HIDE DEF freed, f
        <4>2. freed \in [Pages -> SendPage]
          BY <4>1, StatType, Zenon
        <4> QED BY <4>1, <4>2, StatUpdate
      <3> QED BY <3>1, <3>2, Zenon
    <2>3. /\ \A q \in Pages : q # f /\ q # p => snd_page_list'[q] = snd_page_list[q]
          /\ f # -1 => snd_page_list'[f].stat = "avail"
          /\ \A q \in Pages : /\ snd_page_list'[q].slot = snd_page_list[q].slot
                              /\ snd_page_list'[q].data = snd_page_list[q].data
      <3> HIDE DEF freed, p, f
      <3>1. CASE snd_page_list' = freed
        BY <2>2, <3>1, Zenon
      <3>2. CASE snd_page_list' = [freed EXCEPT ![p].stat = "avail"]
        <4>1. /\ \A q \in Pages : q # p => snd_page_list'[q] = freed[q]
              /\ \A q \in Pages : snd_page_list'[q].slot = freed[q].slot
              /\ \A q \in Pages : snd_page_list'[q].data = freed[q].data
          BY <1>1, <2>2, <3>2, StatUpdate
        <4> QED BY <1>1, <2>2, <4>1
      <3> QED BY <1>4, <3>1, <3>2
    <2>4. \/ Cli'.pc = "idle" /\ snd_page_list'[p].stat = "avail"
          \/ /\ Cli'.pc = "send" /\ Cli'.page_idx = p /\ Cli'.pkt = Cli.pkt
             /\ snd_page_list'[p].stat = "checked_out"
      <3>1. CASE snd_page_list' = [freed EXCEPT ![p].stat = "avail"] /\ Gives("cli")
        <4>1. Cli'.pc = "idle"
          BY <1>4, <3>1, CliDone, Zenon
        <4> HIDE DEF freed, p
        <4>2. snd_page_list'[p].stat = "avail"
          BY <1>1, <2>2, <3>1, StatUpdate
        <4> QED BY <4>1, <4>2 DEF p
      <3>2. CASE snd_page_list' = freed /\ Goes("cli", "send")
        <4>1. Cli'.pc = "send" /\ Cli'.page_idx = p /\ Cli'.pkt = Cli.pkt
          BY <3>2, CliGoes, Zenon DEF TypeOK
        <4>2. snd_page_list'[p].stat = snd_page_list[p].stat
          BY <1>1, <2>2, <3>2, Zenon
        <4> QED BY <1>1, <4>1, <4>2, NotPointedAt, Zenon DEF Stat
      <3> QED BY <1>4, <3>1, <3>2, Zenon
    <2>5. Alone'
      <3>1. CASE Gives("cli")
        BY <1>4, <3>1, CliDone, Zenon
      <3>2. CASE Goes("cli", "send")
        BY <1>1, <1>4, <3>2, CliGoes DEF Alone, TypeOK, Loading, cardVars
      <3> QED BY <1>4, <3>1, <3>2, Zenon
    <2> HIDE DEF freed
    <2>6. PagesInv'
      <3>1. ASSUME NEW q \in Pages
            PROVE  /\ Stat(q)' = "checked_out" <=> Cli'.pc = "send" /\ q = p
                   /\ Stat(q)' = "sending" =>
                        /\ snd_page_list'[q].slot \in Pages
                        /\ snd_pkt_list'[snd_page_list'[q].slot].page_idx = q
        <4>1. /\ Stat(q) = "checked_out" <=> q = p
              /\ Stat(q) = "sending" => /\ snd_page_list[q].slot \in Pages
                                        /\ snd_pkt_list[snd_page_list[q].slot].page_idx = q
          BY <1>1, <3>1, Zenon DEF Running, PagesInv, Holding
        <4>2. CASE q = p
          BY <2>4, <4>2 DEF Stat
        <4>3. CASE q = f
          BY <1>1, <2>3, <4>3 DEF Stat, Pages
        <4>4. CASE q # p /\ q # f
          <5>1. snd_page_list'[q] = snd_page_list[q]
            BY <2>3, <4>4, Zenon
          <5>2. Stat(q) = "sending" => snd_page_list[q].slot # last_pkt
            BY <4>1, <4>4
          <5> QED BY <2>1, <4>1, <4>4, <5>1, <5>2, Zenon DEF Stat
        <4> QED BY <4>2, <4>3, <4>4, Zenon
      <3>2. snd_page_list[p].data = Cli.pkt
        BY <1>1, Zenon DEF Running, PagesInv
      <3> QED BY <1>1, <2>3, <2>4, <3>1, <3>2 DEF PagesInv, Holding
    <2>7. EntriesInv'
      <3>1. ASSUME NEW e \in Pages, snd_pkt_list'[e].page_idx # -1
            PROVE  /\ e # last_pkt /\ snd_pkt_list'[e] = snd_pkt_list[e]
                   /\ snd_pkt_list[e].page_idx \in Pages
                   /\ snd_page_list'[snd_pkt_list[e].page_idx] =
                        snd_page_list[snd_pkt_list[e].page_idx]
        BY <1>1, <2>1, <2>3, <3>1, NotPointedAt
      <3>2. ASSUME NEW e \in Pages, snd_pkt_list'[e].page_idx # -1
            PROVE  Points(e, snd_pkt_list[e].page_idx)'
        BY <1>1, <3>1, <3>2, NotPointedAt DEF Points, Stat
      <3>3. ASSUME NEW e \in Pages, snd_pkt_list'[e].phys_addr # 0
            PROVE  /\ snd_pkt_list'[e].page_idx # -1
                   /\ snd_pkt_list'[e].phys_addr = PhysAddr(snd_pkt_list'[e].page_idx)
                   /\ snd_page_list'[snd_pkt_list'[e].page_idx].data = snd_pkt_list'[e].dest
        <4>1. e # last_pkt
          BY <1>4, <2>1, <3>3 DEF MCPDone
        <4>2. snd_pkt_list'[e] = snd_pkt_list[e]
          BY <2>1, <4>1
        <4> QED BY <3>1, <3>3, <4>2 DEF Running, EntriesInv
      <3> QED BY <1>1, <1>4, <2>1, <2>4, <3>2, <3>3 DEF EntriesInv, MCPDone
    <2>8. RingInv' /\ CardInv'
      BY <1>1, <2>1, HostFrame, Zenon DEF Running
    <2> QED BY <2>5, <2>6, <2>7, <2>8 DEF Running
  <1> QED BY <1>2, <1>3, <1>4, Zenon

\* pkt_send() fills in an entry that points at no page.
LEMMA FillEntryRunning ==
    ASSUME TypeOK, Alone, Running, FillEntry("cli")
    PROVE  Alone' /\ Running'
  <1> DEFINE p == Cli.page_idx
  <1>1. /\ Cli.pc = "send" /\ last_pkt \in Pages /\ p \in Pages /\ Goes("cli", "phys")
        /\ snd_pkt_list' = [snd_pkt_list EXCEPT ![last_pkt] =
                              [@ EXCEPT !.dest = Cli.pkt, !.page_idx = p]]
        /\ UNCHANGED <<snd_page_list, last_pkt, next_avail, printk, cardVars, submitted>>
    BY NotPointedAt, Zenon DEF FillEntry, Cli, TypeOK
  <1>2. /\ Cli'.pc = "phys" /\ Cli'.page_idx = p /\ Cli'.pkt = Cli.pkt
        /\ host'["ioctl"] = host["ioctl"]
    BY <1>1, CliGoes, Zenon DEF TypeOK
  <1>3. /\ snd_pkt_list'[last_pkt].phys_addr = snd_pkt_list[last_pkt].phys_addr
        /\ snd_pkt_list'[last_pkt].dest = Cli.pkt /\ snd_pkt_list'[last_pkt].page_idx = p
        /\ \A e \in Pages : e # last_pkt => snd_pkt_list'[e] = snd_pkt_list[e]
    <2>1. Cli.pkt \in 0 .. MaxPackets /\ p \in Pages \cup {-1}
      BY <1>1, SenderTypes DEF Cli, Senders, TypeOK
    <2>2. snd_pkt_list \in [Pages -> SendEntry]
      BY DEF TypeOK
    <2>3. snd_pkt_list[last_pkt] \in SendEntry
      BY <1>1, <2>2
    <2>4. snd_pkt_list'[last_pkt] =
            [snd_pkt_list[last_pkt] EXCEPT !.dest = Cli.pkt, !.page_idx = p]
      BY <1>1, <2>2, Zenon
    <2>5. \A e \in Pages : e # last_pkt => snd_pkt_list'[e] = snd_pkt_list[e]
      BY <1>1, <2>2, Zenon
    <2> HIDE DEF p
    <2> QED BY <2>3, <2>4, <2>5, Zenon DEF SendEntry
  <1>4. /\ snd_pkt_list[last_pkt].phys_addr = 0 /\ snd_pkt_list[last_pkt].page_idx = -1
        /\ snd_page_list[p].data = Cli.pkt /\ p # -1
    BY <1>1 DEF Running, EntriesInv, PagesInv, Pages
  <1>5. Alone'
    BY <1>1, <1>2 DEF Alone, Loading, cardVars
  <1>6. PagesInv'
    <2>1. ASSUME NEW q \in Pages, Stat(q) = "sending"
          PROVE  /\ snd_page_list[q].slot \in Pages
                 /\ snd_pkt_list'[snd_page_list[q].slot].page_idx = q
      <3>1. /\ snd_page_list[q].slot \in Pages
            /\ snd_pkt_list[snd_page_list[q].slot].page_idx = q /\ q # -1
        BY <2>1 DEF Running, PagesInv, Pages
      <3> QED BY <1>3, <1>4, <3>1, Zenon
    <2> QED BY <1>1, <1>2, <1>4, <2>1 DEF Running, PagesInv, Holding, Stat
  <1>7. EntriesInv'
    <2>1. ASSUME NEW e \in Pages, snd_pkt_list'[e].page_idx # -1
          PROVE  Points(e, snd_pkt_list[e].page_idx)'
      BY <1>1, <1>2, <1>3, <2>1, NotPointedAt DEF Points, Stat
    <2>2. ASSUME NEW e \in Pages, snd_pkt_list'[e].phys_addr # 0
          PROVE  /\ snd_pkt_list'[e].page_idx # -1
                 /\ snd_pkt_list'[e].phys_addr = PhysAddr(snd_pkt_list'[e].page_idx)
                 /\ snd_page_list[snd_pkt_list'[e].page_idx].data = snd_pkt_list'[e].dest
      BY <1>3, <1>4, <2>2, Zenon DEF Running, EntriesInv
    <2> QED BY <1>1, <1>2, <1>3, <1>4, <2>1, <2>2 DEF EntriesInv
  <1>8. RingInv' /\ CardInv'
    BY <1>1, <1>3, <1>4, HostFrame DEF Running
  <1> QED BY <1>5, <1>6, <1>7, <1>8 DEF Running

\* myrPkt_xmit() marks the page whose entry points at it.
LEMMA MarkRunning ==
    ASSUME TypeOK, Alone, Running, MarkSending("cli")
    PROVE  Alone' /\ Running'
  <1> DEFINE p == Cli.page_idx
  <1>1. /\ Cli.pc = "mark" /\ Gives("cli")
        /\ snd_page_list' = [snd_page_list EXCEPT ![p].stat = "sending"]
        /\ UNCHANGED <<last_pkt, next_avail, printk, cardVars, snd_pkt_list, submitted>>
    BY Zenon DEF MarkSending, Cli
  <1>2. /\ p \in Pages /\ Stat(p) = "checked_out"
        /\ snd_page_list[p].slot \in Pages
        /\ snd_pkt_list[snd_page_list[p].slot].page_idx = p
    BY <1>1 DEF Running, PagesInv, EntriesInv, Holding
  <1>3. /\ snd_page_list'[p].stat = "sending"
        /\ \A q \in Pages : q # p => snd_page_list'[q] = snd_page_list[q]
        /\ \A q \in Pages : snd_page_list'[q].slot = snd_page_list[q].slot
        /\ \A q \in Pages : snd_page_list'[q].data = snd_page_list[q].data
    <2> HIDE DEF p
    <2> QED BY <1>1, <1>2, StatUpdate DEF TypeOK
  <1>4. Alone' /\ Cli'.pc = "idle"
    BY <1>1, CliDone
  <1>5. PagesInv'
    BY <1>1, <1>2, <1>3, <1>4 DEF Running, PagesInv, Holding, Stat
  <1>6. EntriesInv'
    <2>1. ASSUME NEW e \in Pages, snd_pkt_list[e].page_idx # -1
          PROVE  Points(e, snd_pkt_list[e].page_idx)' /\ snd_pkt_list[e].page_idx \in Pages
      <3>1. snd_pkt_list[e].page_idx \in Pages /\ Points(e, snd_pkt_list[e].page_idx)
        BY <2>1, ListTypes, Zenon DEF Running, EntriesInv
      <3> QED BY <1>1, <1>3, <3>1, Zenon DEF Points, Stat
    <2> QED BY <1>1, <1>3, <1>4, <2>1 DEF Running, EntriesInv
  <1>7. RingInv' /\ CardInv'
    BY <1>1, HostFrame DEF Running
  <1> QED BY <1>4, <1>5, <1>6, <1>7 DEF Running

\* The address is written last: the packet is the next of the queue, and the
\* ring had room for it.
LEMMA WriteRunning ==
    ASSUME TypeOK, Alone, Running, WritePhysAddr("cli")
    PROVE  Alone' /\ Running'
  <1> DEFINE p == Cli.page_idx
             n == Len(submitted)
             N == MAX_SND_PKT_ENTRIES
  <1>1. /\ Cli.pc = "phys" /\ Goes("cli", "mark") /\ last_pkt \in Pages
        /\ snd_pkt_list' = [snd_pkt_list EXCEPT ![last_pkt].phys_addr = PhysAddr(p)]
        /\ snd_page_list' = [snd_page_list EXCEPT ![p].slot = last_pkt]
        /\ last_pkt' = Advance(last_pkt) /\ submitted' = Append(submitted, Cli.pkt)
        /\ UNCHANGED <<next_avail, printk, cardVars>>
    BY Zenon DEF WritePhysAddr, Cli, TypeOK
  <1>2. /\ p \in Pages /\ Stat(p) = "checked_out" /\ snd_page_list[p].data = Cli.pkt
        /\ snd_pkt_list[last_pkt].phys_addr = 0 /\ snd_pkt_list[last_pkt].page_idx = p
        /\ snd_pkt_list[last_pkt].dest = Cli.pkt /\ PhysAddr(p) # 0 /\ p # -1
    BY <1>1 DEF Running, PagesInv, EntriesInv, Holding, PhysAddr, Pages
  <1>3. /\ Cli'.pc = "mark" /\ Cli'.page_idx = p /\ Cli'.pkt = Cli.pkt
        /\ host'["ioctl"] = host["ioctl"]
    BY <1>1, CliGoes, Zenon DEF TypeOK
  <1>4. /\ snd_page_list'[p].slot = last_pkt
        /\ \A q \in Pages : q # p => snd_page_list'[q] = snd_page_list[q]
        /\ \A q \in Pages : snd_page_list'[q].stat = snd_page_list[q].stat
        /\ \A q \in Pages : snd_page_list'[q].data = snd_page_list[q].data
    <2> HIDE DEF p
    <2> QED BY <1>1, <1>2, SlotUpdate DEF TypeOK
  <1>5. /\ snd_pkt_list'[last_pkt].phys_addr = PhysAddr(p)
        /\ \A e \in Pages : e # last_pkt => snd_pkt_list'[e] = snd_pkt_list[e]
        /\ \A e \in Pages : /\ snd_pkt_list'[e].page_idx = snd_pkt_list[e].page_idx
                            /\ snd_pkt_list'[e].dest = snd_pkt_list[e].dest
    <2> HIDE DEF p
    <2> QED BY <1>1, <1>2, AddressUpdate DEF TypeOK
  <1>6. Alone'
    BY <1>1, <1>3 DEF Alone, Loading, cardVars
  <1>7. PagesInv'
    BY <1>1, <1>2, <1>3, <1>4, <1>5 DEF Running, PagesInv, Holding, Stat
  <1>8. EntriesInv'
    <2>1. ASSUME NEW e \in Pages, snd_pkt_list[e].page_idx # -1
          PROVE  /\ snd_pkt_list[e].page_idx \in Pages
                 /\ Points(e, snd_pkt_list[e].page_idx)'
      <3>1. snd_pkt_list[e].page_idx \in Pages /\ Points(e, snd_pkt_list[e].page_idx)
        BY <2>1, ListTypes DEF Running, EntriesInv
      <3> QED BY <1>1, <1>2, <1>3, <1>4, <1>5, <2>1, <3>1 DEF Points, Stat
    <2>2. ASSUME NEW e \in Pages, snd_pkt_list'[e].phys_addr # 0
          PROVE  /\ snd_pkt_list'[e].page_idx # -1
                 /\ snd_pkt_list'[e].phys_addr = PhysAddr(snd_pkt_list'[e].page_idx)
                 /\ snd_page_list'[snd_pkt_list'[e].page_idx].data = snd_pkt_list'[e].dest
      <3>1. CASE e = last_pkt
        BY <1>2, <1>4, <1>5, <3>1, Zenon
      <3>2. CASE e # last_pkt
        BY <1>4, <1>5, <2>1, <2>2, <3>2 DEF Running, EntriesInv
      <3> QED BY <3>1, <3>2
    <2> QED BY <1>1, <1>2, <1>3, <1>4, <1>5, <2>1, <2>2 DEF EntriesInv
  <1>9. /\ n \in Nat /\ N \in Nat \ {0} /\ Handed \in Nat /\ Handed' = Handed
        /\ Len(wire) \in Nat /\ Len(submitted') = n + 1 /\ submitted'[n + 1] = Cli.pkt
        /\ \A j \in 1 .. n : submitted'[j] = submitted[j]
    BY <1>1, Lengths DEF Handed, cardVars, TypeOK
  <1>10. /\ Handed <= n /\ n <= Handed + N /\ last_pkt = n % N
         /\ mcp.last_snd_pkt = Handed % N
         /\ \A j \in Handed + 1 .. n :
              snd_pkt_list[At(j)].phys_addr # 0 /\ snd_pkt_list[At(j)].dest = submitted[j]
         /\ \A e \in Pages : snd_pkt_list[e].phys_addr # 0 =>
              \E j \in Handed + 1 .. n : e = At(j)
    BY Zenon DEF Running, RingInv
  <1> HIDE DEF n, N, p
  <1>11. At(n + 1) = last_pkt /\ \A j \in Handed + 1 .. n : At(j) \in Pages /\ At(j) # last_pkt
    <2>1. (n + 1) - 1 = n
      BY <1>9
    <2>2. At(n + 1) = last_pkt
      BY <1>10, <2>1 DEF At, N
    <2>3. \A j \in Handed + 1 .. n : j \in Nat /\ j >= 1
      BY <1>9
    <2> QED BY <1>2, <1>10, <2>2, <2>3, AtInRing
  <1>12. n < Handed + N
    <2> SUFFICES ASSUME n = Handed + N PROVE FALSE
      BY <1>9, <1>10
    <2>1. n % N = Handed % N
      BY <1>9, RoundApart, Zenon
    <2>2. At(Handed + 1) = last_pkt
      BY <1>9, <1>10, <2>1 DEF At, N
    <2> QED BY <1>9, <1>11, <2>2
  <1>13. RingInv'
    <2>1. last_pkt' = (n + 1) % N
      BY <1>1, <1>9, <1>10, NextEntry, Zenon DEF Advance, N
    <2>2. ASSUME NEW j \in Handed + 1 .. n + 1
          PROVE  snd_pkt_list'[At(j)].phys_addr # 0 /\ snd_pkt_list'[At(j)].dest = submitted'[j]
      <3>1. CASE j = n + 1
        BY <1>1, <1>2, <1>5, <1>9, <1>11, <3>1, Zenon
      <3>2. CASE j \in Handed + 1 .. n
        BY <1>5, <1>9, <1>10, <1>11, <3>2
      <3> QED BY <1>9, <3>1, <3>2
    <2>3. ASSUME NEW e \in Pages, snd_pkt_list'[e].phys_addr # 0
          PROVE  \E j \in Handed + 1 .. n + 1 : e = At(j)
      <3>1. CASE e = last_pkt
        BY <1>9, <1>10, <1>11, <3>1
      <3>2. CASE e # last_pkt
        <4>1. PICK j \in Handed + 1 .. n : e = At(j)
          BY <1>5, <1>10, <2>3, <3>2, Zenon
        <4> QED BY <1>9, <4>1
      <3> QED BY <3>1, <3>2, Zenon
    <2>4. mcp' = mcp /\ \A j : At(j)' = At(j)
      BY <1>1 DEF cardVars, At
    <2> QED BY <1>9, <1>10, <1>12, <2>1, <2>2, <2>3, <2>4 DEF RingInv, N
  <1>14. CardInv'
    <2>1. mcp' = mcp /\ dma' = dma /\ snd_buf' = snd_buf /\ net' = net /\ wire' = wire
      BY <1>1 DEF cardVars
    <2>2. mcp.last_snd_pkt \in Pages /\ (Pulling => PhysAddr(mcp.page) # 0)
      BY RegisterTypes DEF Pages, PhysAddr
    <2>3. Pulling => snd_pkt_list'[mcp.last_snd_pkt] = snd_pkt_list[mcp.last_snd_pkt]
      BY <1>2, <1>5, <2>2, Zenon DEF Running, CardInv
    <2>4. net = "body" => /\ n > Len(wire) /\ submitted'[Len(wire) + 1] = submitted[Len(wire) + 1]
      BY <1>9 DEF Running, CardInv, n
    <2> QED BY <1>9, <2>1, <2>3, <2>4 DEF Running, CardInv, Pulling
  <1> QED BY <1>6, <1>7, <1>8, <1>13, <1>14 DEF Running

\* Every step of a sender, used as the send side is made for.
LEMMA HostRunning ==
    ASSUME TypeOK, Alone, Running, Orderly', NEW s \in Senders, HostStep(s)
    PROVE  Alone' /\ Running'
  <1>1. s = "cli" /\ ~Loading
    BY OnlyCli, Zenon
  <1> QED BY <1>1, LookRunning, TakeRunning, FillRunning, FreeRunning, XmitRunning,
             FillEntryRunning, WriteRunning, MarkRunning, Zenon DEF HostStep

-----------------------------------------------------------------------------
(* The card's steps, used as the send side is made for.                    *)

\* The host does not notice the card, except that it clears addresses.
LEMMA CardFrame ==
    ASSUME TypeOK, PagesInv, EntriesInv, UNCHANGED hostVars,
           \A e \in Pages :
             /\ snd_pkt_list'[e].page_idx = snd_pkt_list[e].page_idx
             /\ snd_pkt_list'[e].dest = snd_pkt_list[e].dest
             /\ snd_pkt_list'[e].phys_addr \in {snd_pkt_list[e].phys_addr, 0}
    PROVE  PagesInv' /\ EntriesInv'
  <1>1. /\ snd_page_list' = snd_page_list /\ last_pkt' = last_pkt
        /\ next_avail' = next_avail /\ Cli' = Cli
    BY DEF hostVars, Cli
  <1>2. Cli.slot \in Pages \cup {-1} /\ last_pkt \in Pages
    BY SenderTypes, Zenon DEF Cli, Senders, TypeOK
  <1>3. PagesInv'
    BY <1>1, <1>2 DEF PagesInv, Holding, Stat
  <1>4. EntriesInv'
    <2>1. \A e \in Pages : snd_pkt_list'[e].page_idx # -1
             => Points(e, snd_pkt_list[e].page_idx)'
      BY <1>1, Zenon DEF EntriesInv, Points, Stat
    <2> QED BY <1>1, <1>2, <2>1, Zenon DEF EntriesInv
  <1> QED BY <1>3, <1>4

\* The entry the card looks at, if it has an address, is that of the oldest
\* packet not yet handed to the link.
LEMMA OldestPacket ==
    ASSUME TypeOK, RingInv, snd_pkt_list[mcp.last_snd_pkt].phys_addr # 0
    PROVE  /\ Handed + 1 <= Len(submitted)
           /\ At(Handed + 1) = mcp.last_snd_pkt
           /\ snd_pkt_list[mcp.last_snd_pkt].dest = submitted[Handed + 1]
  <1>1. Handed \in Nat /\ Len(submitted) \in Nat
    BY Lengths, Zenon
  <1>2. PICK j \in Handed + 1 .. Len(submitted) : mcp.last_snd_pkt = At(j)
    BY RegisterTypes DEF RingInv
  <1>3. Handed + 1 <= Len(submitted) /\ (Handed + 1) - 1 = Handed
    BY <1>1, <1>2
  <1>4. At(Handed + 1) = mcp.last_snd_pkt
    BY <1>3 DEF At, RingInv
  <1> QED BY <1>1, <1>3, <1>4 DEF RingInv

\* A step that hands nothing to the link and touches no entry leaves the ring.
LEMMA RingFrame ==
    ASSUME RingInv, Handed' = Handed, mcp'.last_snd_pkt = mcp.last_snd_pkt,
           UNCHANGED <<submitted, last_pkt, snd_pkt_list>>
    PROVE  RingInv'
  BY Zenon DEF RingInv, At

\* States S0 and S1.
LEMMA PullRunning ==
    ASSUME TypeOK, Buffers, Running, SndS0 \/ SndS1, UNCHANGED <<hostVars, submitted>>
    PROVE  Running' /\ ~Loading'
  <1> DEFINE last == mcp.last_snd_pkt
  <1>1. /\ mcp'.SndState \in {"S1", "S2"} /\ mcp'.last_snd_pkt = last
        /\ mcp'.sent = mcp.sent /\ last \in Pages
    BY S0Registers, S1Registers, RegisterTypes, Zenon
  <1>2. /\ net' = (IF net = "ready" THEN "header" ELSE net)
        /\ UNCHANGED <<snd_buf, wire, snd_pkt_list, submitted, last_pkt>>
    BY DEF SndS0, SndS1, hostVars
  <1>3. Handed' = Handed /\ (net' = "body" <=> net = "body")
    BY <1>2 DEF Handed
  <1>4. RingInv'
    BY <1>1, <1>2, <1>3, RingFrame DEF Running
  <1>5. PagesInv' /\ EntriesInv'
    BY <1>2, CardFrame DEF Running
  <1>6. /\ snd_pkt_list[last].phys_addr = PhysAddr(mcp'.page)
        /\ mcp'.cur_dest = snd_pkt_list[last].dest
        /\ dma' = "done" => snd_buf[mcp'.cur_buf] = mcp'.cur_dest
    <2>1. CASE SndS0
      <3>1. mcp'.page = snd_pkt_list[last].phys_addr - 1 /\ mcp'.cur_dest = snd_pkt_list[last].dest
        BY <2>1, S0Registers
      <3>2. snd_pkt_list[last].phys_addr \in Int /\ dma' = "busy"
        BY <1>1, <2>1, ListTypes DEF SndS0
      <3> QED BY <3>1, <3>2 DEF PhysAddr
    <2>2. CASE SndS1
      <3>1. /\ mcp.SndState = "S1" /\ mcp'.page = mcp.page
            /\ mcp'.cur_dest = mcp.cur_dest /\ mcp'.cur_buf = mcp.cur_buf /\ dma' = dma
        BY <2>2, S1Registers DEF SndS1
      <3> QED BY <3>1 DEF Running, CardInv, Pulling
    <2> QED BY <2>1, <2>2
  <1>7. CardInv'
    BY <1>1, <1>2, <1>3, <1>6, Zenon DEF Running, CardInv
  <1> QED BY <1>1, <1>4, <1>5, <1>7 DEF Running, Loading

\* State S2: the packet that goes out is the oldest one.
LEMMA SendRunning ==
    ASSUME TypeOK, Buffers, Running, SndS2, UNCHANGED <<hostVars, submitted>>
    PROVE  Running' /\ ~Loading'
  <1> DEFINE last == mcp.last_snd_pkt
             N == MAX_SND_PKT_ENTRIES
             n == Len(submitted)
  <1>1. /\ mcp.SndState = "S2" /\ mcp'.cur_buf = mcp.cur_buf
        /\ mcp'.cur_dest = mcp.cur_dest /\ mcp'.page = mcp.page
        /\ SendsNow \/ NotesArrival
        /\ last \in Pages
    BY S2Registers, RegisterTypes, Zenon
  <1>2. UNCHANGED <<dma, snd_buf, wire, submitted, last_pkt>>
    BY DEF SndS2, hostVars
  <1>3. CASE NotesArrival
    <2>1. /\ net' = net /\ snd_pkt_list' = snd_pkt_list /\ mcp'.SndState = "S2"
          /\ mcp'.last_snd_pkt = last /\ mcp'.sent = mcp.sent
      BY <1>3, Zenon DEF NotesArrival
    <2>2. Handed' = Handed
      BY <1>2, <2>1 DEF Handed
    <2>3. RingInv'
      BY <1>2, <2>1, <2>2, RingFrame DEF Running
    <2>4. PagesInv' /\ EntriesInv'
      BY <2>1, CardFrame, Zenon DEF Running
    <2>5. CardInv'
      BY <1>1, <1>2, <2>1, Zenon DEF Running, CardInv, Pulling
    <2> QED BY <2>1, <2>3, <2>4, <2>5 DEF Running, Loading
  <1>4. CASE SendsNow
    <2>1. /\ net = "opened" /\ net' = "body" /\ mcp'.SndState = "S0"
          /\ mcp'.last_snd_pkt = Advance(last)
          /\ mcp'.sent.dest = mcp.cur_dest /\ mcp'.sent.buf = mcp.cur_buf
          /\ snd_pkt_list' = [snd_pkt_list EXCEPT ![last].phys_addr = 0]
          /\ dma = "done"
      BY <1>1, <1>4 DEF SendsNow, Buffers, Pulling
    <2>2. /\ snd_pkt_list'[last].phys_addr = 0
          /\ \A e \in Pages : e # last => snd_pkt_list'[e] = snd_pkt_list[e]
          /\ \A e \in Pages : /\ snd_pkt_list'[e].page_idx = snd_pkt_list[e].page_idx
                              /\ snd_pkt_list'[e].dest = snd_pkt_list[e].dest
                              /\ snd_pkt_list'[e].phys_addr \in {snd_pkt_list[e].phys_addr, 0}
      <3>1. last \in Pages
        BY RegisterTypes
      <3> HIDE DEF last
      <3>2. /\ snd_pkt_list'[last].phys_addr = 0
            /\ snd_pkt_list'[last].dest = snd_pkt_list[last].dest
            /\ snd_pkt_list'[last].page_idx = snd_pkt_list[last].page_idx
            /\ \A e \in Pages : e # last => snd_pkt_list'[e] = snd_pkt_list[e]
        BY <2>1, <3>1, AddressUpdate DEF TypeOK
      <3> QED BY <3>1, <3>2, Zenon
    <2>3. PagesInv' /\ EntriesInv'
      BY <2>2, CardFrame, Zenon DEF Running
    <2>4. /\ snd_pkt_list[last].phys_addr = PhysAddr(mcp.page)
          /\ mcp.cur_dest = snd_pkt_list[last].dest
          /\ snd_buf[mcp.cur_buf] = mcp.cur_dest
          /\ PhysAddr(mcp.page) # 0
      BY <1>1, <2>1, RegisterTypes DEF Running, CardInv, Pulling, PhysAddr, Pages
    <2>5. /\ Handed + 1 <= n /\ At(Handed + 1) = last
          /\ snd_pkt_list[last].dest = submitted[Handed + 1]
      BY <2>4, OldestPacket, Zenon DEF Running
    <2>6. /\ Handed \in Nat /\ n \in Nat /\ Len(wire) \in Nat /\ N \in Nat \ {0}
          /\ Handed = Len(wire) /\ Handed' = Handed + 1
      BY <1>2, <2>1, Lengths DEF Handed
    <2>7. CardInv'
      BY <1>2, <2>1, <2>4, <2>5, <2>6 DEF CardInv, Pulling
    <2>8. /\ n <= Handed + N /\ last_pkt = n % N /\ last = Handed % N
          /\ \A j \in Handed + 1 .. n :
               snd_pkt_list[At(j)].phys_addr # 0 /\ snd_pkt_list[At(j)].dest = submitted[j]
          /\ \A e \in Pages : snd_pkt_list[e].phys_addr # 0 =>
               \E j \in Handed + 1 .. n : e = At(j)
      BY Zenon DEF Running, RingInv
    <2> HIDE DEF last, n, N
    <2>9. ASSUME NEW j \in Handed + 2 .. n
          PROVE  At(j) # last /\ At(j) \in Pages
      <3>1. j - 1 \in Nat /\ Handed < j - 1 /\ (j - 1) - Handed < N /\ j \in Nat /\ j >= 1
        BY <2>6, <2>8
      <3>2. Handed % N # (j - 1) % N
        BY <2>6, <3>1, EntriesDiffer, Zenon
      <3> QED BY <2>8, <3>1, <3>2, AtInRing DEF At, N
    <2>10. mcp'.last_snd_pkt = (Handed + 1) % N
      BY <2>1, <2>6, <2>8, NextEntry, Zenon DEF Advance, N
    <2>11. \A j \in Handed + 2 .. n :
             snd_pkt_list'[At(j)].phys_addr # 0 /\ snd_pkt_list'[At(j)].dest = submitted[j]
      BY <2>2, <2>6, <2>8, <2>9
    <2>12. ASSUME NEW e \in Pages, snd_pkt_list'[e].phys_addr # 0
           PROVE  \E j \in Handed + 2 .. n : e = At(j)
      <3>1. e # last /\ snd_pkt_list[e].phys_addr # 0
        BY <2>2, <2>12
      <3>2. PICK j \in Handed + 1 .. n : e = At(j)
        BY <2>8, <3>1, Zenon
      <3>3. j # Handed + 1
        BY <2>5, <3>1, <3>2
      <3>4. j \in Handed + 2 .. n
        BY <2>6, <3>2, <3>3
      <3> QED BY <3>2, <3>4
    <2>13. RingInv'
      <3>1. \A j : At(j)' = At(j)
        BY Zenon DEF At
      <3>2. (Handed + 1) + 1 = Handed + 2
        BY <2>6
      <3> QED BY <1>2, <2>5, <2>6, <2>8, <2>10, <2>11, <2>12, <3>1, <3>2 DEF RingInv, n, N
    <2> QED BY <2>1, <2>3, <2>7, <2>13 DEF Running, Loading
  <1> QED BY <1>1, <1>3, <1>4

\* The DMA engine copies the bytes of the page the entry was submitted with, into
\* the buffer the link is not sending from; the link sends the oldest packet.
LEMMA EngineRunning ==
    ASSUME TypeOK, Buffers, Running, DmaDone \/ LinkDone \/ RcvHalf
    PROVE  Running' /\ ~Loading'
  <1>1. /\ UNCHANGED hostVars /\ mcp' = mcp /\ submitted' = submitted
        /\ snd_pkt_list' = snd_pkt_list /\ last_pkt' = last_pkt
    BY Zenon DEF DmaDone, LinkDone, RcvHalf, hostVars
  <1>2. PagesInv' /\ EntriesInv'
    BY <1>1, CardFrame DEF Running
  <1>3. ~Loading
    BY Zenon DEF DmaDone, LinkDone, RcvHalf, Buffers, Pulling, CardUp, Loading
  <1>4. Handed' = Handed /\ Len(wire) \in Nat
    BY Lengths DEF DmaDone, LinkDone, RcvHalf, Handed, TypeOK
  <1>5. RingInv'
    BY <1>1, <1>4, RingFrame DEF Running
  <1>6. CardInv'
    <2>1. CASE DmaDone
      <3> DEFINE entry == snd_pkt_list[mcp.last_snd_pkt]
      <3>1. /\ dma = "busy" /\ dma' = "done" /\ net' = net /\ wire' = wire
            /\ snd_buf' = [snd_buf EXCEPT ![mcp.cur_buf] = snd_page_list[mcp.page].data]
        BY <2>1, Zenon DEF DmaDone
      <3>2. mcp.SndState \in {"S1", "S2"} /\ (net = "body" => mcp.sent.buf # mcp.cur_buf)
        BY <3>1 DEF Buffers, Pulling
      <3>3. entry.phys_addr = PhysAddr(mcp.page) /\ mcp.cur_dest = entry.dest
        BY <3>2, Zenon DEF Running, CardInv, Pulling
      <3>4. mcp.page \in Pages /\ mcp.last_snd_pkt \in Pages
        BY RegisterTypes, Zenon
      <3>5. /\ entry.page_idx \in Pages
            /\ entry.phys_addr = PhysAddr(entry.page_idx)
            /\ snd_page_list[entry.page_idx].data = entry.dest
        <4>1. entry.phys_addr # 0
          BY <3>3, <3>4 DEF PhysAddr, Pages
        <4> QED BY <3>4, <4>1, ListTypes, Zenon DEF Running, EntriesInv
      <3>6. entry.page_idx = mcp.page
        BY <3>3, <3>4, <3>5 DEF PhysAddr, Pages
      <3>7. /\ snd_buf'[mcp.cur_buf] = mcp.cur_dest
            /\ net = "body" => snd_buf'[mcp.sent.buf] = snd_buf[mcp.sent.buf]
        BY <3>1, <3>2, <3>3, <3>5, <3>6, RegisterTypes, Zenon DEF TypeOK
      <3> QED BY <1>1, <3>1, <3>7, Zenon DEF Running, CardInv, Pulling
    <2>2. CASE LinkDone
      BY <1>1, <2>2, Zenon DEF LinkDone, Running, CardInv, Pulling
    <2>3. CASE RcvHalf
      BY <1>1, <2>3, Zenon DEF RcvHalf, Running, CardInv, Pulling
    <2> QED BY <2>1, <2>2, <2>3
  <1> QED BY <1>1, <1>2, <1>3, <1>5, <1>6 DEF Running, Loading

-----------------------------------------------------------------------------
(* Loading an MCP.                                                         *)

\* A new MCP clears the lists, ...
LEMMA LoadFresh ==
    ASSUME TypeOK, Alone, Orderly, LoadMCP
    PROVE  Alone' /\ Fresh' /\ Loading'
  <1>1. host' = host /\ printk' = printk
    BY Zenon DEF LoadMCP, hostVars
  <1>2. Cli.pc = "idle"
    BY DEF LoadMCP, Orderly, AllIdle, Senders, Cli
  <1>3. /\ mcp'.SndState = "init" /\ mcp'.last_snd_pkt = 0
        /\ submitted' = <<>> /\ wire' = <<>> /\ net' = "ready"
        /\ snd_pkt_list' = [e \in Pages |-> EmptyEntry]
    BY DEF LoadMCP, FirstState
  <1> QED BY <1>1, <1>2, <1>3, Zenon DEF Alone, Fresh, Loading, Cli

\* ... and pkt_init_send() starts the pages and the ring again from there.
LEMMA InitSendRunning ==
    ASSUME TypeOK, Alone, Fresh, GetHstshmem
    PROVE  Alone' /\ Running' /\ ~Loading'
  <1>1. /\ Loading /\ host' = host /\ printk' = printk /\ wire' = wire
        /\ submitted' = submitted /\ net' = net /\ snd_pkt_list' = snd_pkt_list
        /\ last_pkt' = 0
    BY Zenon DEF GetHstshmem
  <1>2. mcp'.SndState \in {"S0", "off"} /\ mcp'.last_snd_pkt = mcp.last_snd_pkt
    BY Zenon DEF GetHstshmem, TypeOK, SndRegisters
  <1>3. Cli.pc = "idle" /\ Cli' = Cli
    BY <1>1 DEF Alone, Cli
  <1>4. \A p \in Pages : snd_page_list'[p].stat = "avail"
    BY Zenon DEF GetHstshmem, TypeOK, SendPage
  <1>5. \A e \in Pages : snd_pkt_list'[e].phys_addr = 0 /\ snd_pkt_list'[e].page_idx = -1
    BY <1>1 DEF Fresh, EmptyEntry
  <1>6. Alone'
    BY <1>1, <1>3 DEF Alone
  <1>7. PagesInv'
    BY <1>3, <1>4, Zenon DEF PagesInv, Holding, Stat
  <1>8. EntriesInv'
    BY <1>3, <1>5, Zenon DEF EntriesInv
  <1>9. RingInv'
    <2>1. /\ Len(submitted') = 0 /\ Handed' = 0
          /\ MAX_SND_PKT_ENTRIES \in Nat /\ 0 % MAX_SND_PKT_ENTRIES = 0
      BY <1>1, SndConstants DEF Fresh, Handed
    <2>2. last_pkt' = 0 /\ mcp'.last_snd_pkt = 0
      BY <1>1, <1>2 DEF Fresh
    <2> QED BY <1>5, <2>1, <2>2 DEF RingInv
  <1>10. CardInv'
    BY <1>1, <1>2, Zenon DEF CardInv, Pulling, Fresh
  <1> QED BY <1>2, <1>6, <1>7, <1>8, <1>9, <1>10, Zenon DEF Running, Loading

-----------------------------------------------------------------------------
(* The invariant.                                                          *)

\* Once the send side has been used as it is not made for, it has been.
LEMMA OrderlyBefore ==
    ASSUME TypeOK, [Next]_vars, Orderly'
    PROVE  Orderly
  <1>1. scene' = scene /\ (ioctls' = ioctls \/ ioctls' = ioctls + 1)
    <2>1. ASSUME NEW s \in Senders, HostStep(s)
          PROVE  scene' = scene /\ (ioctls' = ioctls \/ ioctls' = ioctls + 1)
      BY <2>1, Zenon DEF HostStep, GetSndPage, TakePage, FillPage, FreeSndPage, MyrPktXmit,
                         FillEntry, WritePhysAddr, MarkSending
    <2>2. CASE CardNext \/ RcvHalf \/ LoadMCP \/ GetHstshmem \/ UNCHANGED vars
      BY <2>2, Zenon DEF CardNext, SndStatem, DmaDone, LinkDone, RcvHalf, LoadMCP,
                         GetHstshmem, vars, hostVars
    <2> QED BY <2>1, <2>2 DEF Next
  <1> QED BY <1>1 DEF Orderly, TypeOK

\* Every step keeps the invariant.
LEMMA StepSndInv ==
    ASSUME SndInv, [Next]_vars
    PROVE  SndInv'
  <1>1. TypeOK' /\ Buffers' /\ Bus'
    BY StepTypeOK, StepBus DEF SndInv
  <1>2. ASSUME Orderly'
        PROVE  Alone' /\ Fresh' /\ (~Loading' => Running')
    <2>1. TypeOK /\ Buffers /\ Orderly /\ Alone /\ Fresh /\ (~Loading => Running)
      BY <1>2, OrderlyBefore DEF SndInv
    <2>2. ASSUME NEW s \in Senders, HostStep(s)
          PROVE  Alone' /\ Running' /\ ~Loading'
      <3>1. ~Loading
        BY <1>2, <2>1, <2>2, OnlyCli, Zenon
      <3>2. mcp' = mcp
        BY <2>2, Zenon DEF HostStep, GetSndPage, TakePage, FillPage, FreeSndPage, MyrPktXmit,
                           FillEntry, WritePhysAddr, MarkSending, cardVars
      <3> QED BY <1>2, <2>1, <2>2, <3>1, <3>2, HostRunning DEF Loading
    <2>3. CASE CardNext \/ RcvHalf
      <3>1. ~Loading
        BY <2>1, <2>3, Zenon DEF CardNext, SndStatem, SndS0, SndS1, SndS2, DmaDone, LinkDone,
                          RcvHalf, Buffers, Pulling, CardUp, Loading
      <3>2. Running' /\ ~Loading'
        BY <2>1, <2>3, <3>1, PullRunning, SendRunning, EngineRunning DEF CardNext, SndStatem
      <3>3. host' = host /\ printk' = printk
        BY <2>3, Zenon DEF CardNext, SndStatem, DmaDone, LinkDone, RcvHalf, hostVars
      <3> QED BY <2>1, <3>2, <3>3, Zenon DEF Alone, Fresh, Cli
    <2>4. CASE LoadMCP
      BY <2>1, <2>4, LoadFresh
    <2>5. CASE GetHstshmem
      BY <2>1, <2>5, InitSendRunning DEF Fresh
    <2>6. CASE UNCHANGED vars
      <3>1. /\ UNCHANGED hostVars /\ host' = host /\ printk' = printk /\ last_pkt' = last_pkt
            /\ mcp' = mcp /\ dma' = dma /\ snd_buf' = snd_buf /\ net' = net /\ wire' = wire
            /\ snd_pkt_list' = snd_pkt_list /\ submitted' = submitted
        BY <2>6, Zenon DEF vars, hostVars, cardVars
      <3>2. Alone' /\ Fresh' /\ Loading' = Loading
        BY <2>1, <3>1, Zenon DEF Alone, Fresh, Loading, Cli
      <3>3. CASE ~Loading
        <4>1. PagesInv' /\ EntriesInv'
          BY <2>1, <3>1, <3>3, CardFrame, Zenon DEF Running
        <4>2. RingInv'
          BY <2>1, <3>1, <3>3, RingFrame DEF Running, Handed
        <4>3. CardInv'
          BY <2>1, <3>1, <3>3, Zenon DEF Running, CardInv, Pulling
        <4> QED BY <3>2, <4>1, <4>2, <4>3 DEF Running
      <3> QED BY <3>2, <3>3
    <2> QED BY <2>2, <2>3, <2>4, <2>5, <2>6, Zenon DEF Next, Fresh
  <1> QED BY <1>1, <1>2 DEF SndInv

\* However many packets, pages and loads there are.
THEOREM Invariant == Spec => []SndInv
  <1>1. Init => SndInv
    BY InitSndInv
  <1>2. SndInv /\ [Next]_vars => SndInv'
    BY StepSndInv
  <1> QED BY <1>1, <1>2, PTL DEF Spec

\* The card's buffers are kept apart and its bus assertions never fire, however
\* the host behaves.
THEOREM CardSafe == Spec => [](BuffersApart /\ NoFault)
  <1>1. SndInv => BuffersApart /\ NoFault
    BY Zenon DEF SndInv, Buffers, Bus, BuffersApart, NoFault, Pulling
  <1> QED BY <1>1, Invariant, PTL

\* None of the host's own checks fires, and an entry the MCP is done with can be
\* used again.
THEOREM HostChecksQuiet == Spec => [](NoComplaint /\ EntryUsable)
  <1>1. SndInv => NoComplaint
    BY DEF SndInv, Alone, NoComplaint
  <1>2. SndInv => EntryUsable
    <2> SUFFICES ASSUME SndInv, Orderly, ~Loading, snd_pkt_list[last_pkt].page_idx # -1,
                        Cli.pc \notin {"phys", "mark"}
                 PROVE  snd_page_list[snd_pkt_list[last_pkt].page_idx].stat = "sending"
      BY DEF EntryUsable, Cli, Senders
    <2>1. last_pkt \in Pages /\ EntriesInv
      BY DEF SndInv, TypeOK, Running
    <2> QED BY <2>1, Zenon DEF EntriesInv, Points, Stat
  <1> QED BY <1>1, <1>2, Invariant, PTL

\* What an entry with an address says of its page.
LEMMA PageOfEntry ==
    ASSUME SndInv, Orderly, NEW e \in Pages, snd_pkt_list[e].phys_addr # 0
    PROVE  /\ Running /\ ~Loading
           /\ snd_pkt_list[e].page_idx = snd_pkt_list[e].phys_addr - 1
           /\ snd_pkt_list[e].page_idx \in Pages
           /\ Points(e, snd_pkt_list[e].page_idx)
  <1>1. ~Loading
    BY DEF SndInv, Fresh, EmptyEntry
  <1>2. Running /\ TypeOK
    BY <1>1 DEF SndInv
  <1>3. /\ snd_pkt_list[e].page_idx # -1 /\ snd_pkt_list[e].page_idx \in Pages
        /\ snd_pkt_list[e].phys_addr = PhysAddr(snd_pkt_list[e].page_idx)
        /\ Points(e, snd_pkt_list[e].page_idx)
    BY <1>2, ListTypes, Zenon DEF Running, EntriesInv
  <1> QED BY <1>1, <1>2, <1>3 DEF PhysAddr, Pages

\* A page the MCP may still read is in nobody's hands.
THEOREM PagesApart == Spec => []PageNotShared
  <1>1. SndInv => PageNotShared
    <2> SUFFICES ASSUME SndInv, Orderly, NEW e \in Pages, snd_pkt_list[e].phys_addr # 0
                 PROVE  /\ snd_page_list[snd_pkt_list[e].phys_addr - 1].slot = e
                        /\ \A s \in Senders : host[s].pc \in {"fill", "xmit", "send", "phys"}
                             => host[s].page_idx # snd_pkt_list[e].phys_addr - 1
      BY Zenon DEF PageNotShared
    <2> DEFINE p == snd_pkt_list[e].page_idx
    <2>1. /\ Running /\ TypeOK /\ p = snd_pkt_list[e].phys_addr - 1 /\ p \in Pages
          /\ Points(e, p) /\ host["ioctl"].pc = "idle"
      BY PageOfEntry, IdleIs, Zenon DEF SndInv, Alone
    <2>2. ~(Cli.pc = "phys" /\ e = last_pkt)
      BY <2>1, Zenon DEF Running, EntriesInv
    <2>3. snd_page_list[p].slot = e
      BY <2>1, <2>2, Zenon DEF Points
    <2>4. Cli.pc \in {"fill", "xmit", "send", "phys"} => Cli.page_idx # p
      BY <2>1, <2>2, Zenon DEF Points, Running, PagesInv, Holding
    <2> QED BY <2>1, <2>3, <2>4, Zenon DEF Senders, Cli
  <1> QED BY <1>1, Invariant, PTL

\* Only a sender that fills its page writes bytes.
LEMMA DataStays ==
    ASSUME TypeOK, [Next]_vars, ~\E s \in Senders : FillPage(s)
    PROVE  \A p \in Pages : snd_page_list'[p].data = snd_page_list[p].data
  <1>1. ASSUME NEW s \in Senders, HostStep(s), ~FillPage(s)
        PROVE  \A p \in Pages : snd_page_list'[p].data = snd_page_list[p].data
    <2> DEFINE L == snd_page_list
               To(f, q, stat) == [f EXCEPT ![q].stat = stat]
    <2>1. ASSUME NEW f \in [Pages -> SendPage], NEW q, NEW stat \in {"avail", "checked_out", "sending"}
          PROVE  /\ To(f, q, stat) \in [Pages -> SendPage]
                 /\ \A p \in Pages : To(f, q, stat)[p].data = f[p].data
      BY Zenon DEF SendPage
    <2>2. ASSUME NEW q PROVE \A p \in Pages : [L EXCEPT ![q].slot = last_pkt][p].data = L[p].data
      BY Zenon DEF TypeOK, SendPage
    <2>3. CASE GetSndPage(s) \/ FillEntry(s)
      BY <2>3, Zenon DEF GetSndPage, FillEntry
    <2>4. CASE TakePage(s) \/ FreeSndPage(s) \/ MarkSending(s)
      <3>1. PICK q, stat : stat \in {"avail", "checked_out", "sending"} /\ L' = To(L, q, stat)
        BY <2>4, Zenon DEF TakePage, FreeSndPage, MarkSending, Release
      <3> HIDE DEF To
      <3>2. \A p \in Pages : To(L, q, stat)[p].data = L[p].data
        BY <2>1, <3>1, Zenon DEF TypeOK
      <3> QED BY <3>1, <3>2, Zenon
    <2>5. CASE MyrPktXmit(s)
      <3>1. \E q, r : \/ L' = L \/ L' = To(L, q, "avail")
                      \/ L' = To(To(L, q, "avail"), r, "avail")
        BY <2>5, Zenon DEF MyrPktXmit, Release, NotCheckedOut
      <3> HIDE DEF To
      <3>2. PICK q, r : \/ L' = L \/ L' = To(L, q, "avail")
                        \/ L' = To(To(L, q, "avail"), r, "avail")
        BY <3>1
      <3>3. /\ To(L, q, "avail") \in [Pages -> SendPage]
            /\ \A p \in Pages : To(L, q, "avail")[p].data = L[p].data
        BY <2>1, Zenon DEF TypeOK
      <3>4. \A p \in Pages : To(To(L, q, "avail"), r, "avail")[p].data = L[p].data
        BY <2>1, <3>3, Zenon
      <3> QED BY <3>2, <3>3, <3>4, Zenon
    <2>6. CASE WritePhysAddr(s)
      BY <2>2, <2>6, Zenon DEF WritePhysAddr
    <2> QED BY <1>1, <2>3, <2>4, <2>5, <2>6, Zenon DEF HostStep
  <1>2. CASE GetHstshmem
    BY <1>2, Zenon DEF GetHstshmem, TypeOK, SendPage
  <1>3. CASE CardNext \/ RcvHalf \/ LoadMCP \/ UNCHANGED vars
    BY <1>3, Zenon DEF CardNext, SndStatem, DmaDone, LinkDone, RcvHalf, LoadMCP, vars, hostVars
  <1> QED BY <1>1, <1>2, <1>3, Zenon DEF Next

\* The bytes of a page do not change while an entry holds its address.
THEOREM BytesFrozen == Spec => PageFrozen
  <1>1. ASSUME SndInv, [Next]_vars, Orderly', NEW e \in Pages, snd_pkt_list[e].phys_addr # 0
        PROVE  snd_page_list'[snd_pkt_list[e].phys_addr - 1].data =
                 snd_page_list[snd_pkt_list[e].phys_addr - 1].data
    <2>1. TypeOK /\ Orderly /\ Alone
      BY <1>1, OrderlyBefore DEF SndInv
    <2>2. /\ Running /\ snd_pkt_list[e].page_idx = snd_pkt_list[e].phys_addr - 1
          /\ snd_pkt_list[e].page_idx \in Pages
      BY <1>1, <2>1, PageOfEntry, Zenon
    <2>3. ASSUME NEW s \in Senders, FillPage(s)
          PROVE  \A p \in Pages : p # Cli.page_idx => snd_page_list'[p] = snd_page_list[p]
      <3>1. s = "cli"
        BY <1>1, <2>1, <2>3, OnlyCli, Zenon DEF HostStep
      <3> QED BY <2>1, <2>3, <3>1, Zenon DEF FillPage, NotCheckedOut, Cli, TypeOK
    <2>4. ASSUME NEW s \in Senders, FillPage(s)
          PROVE  snd_pkt_list[e].page_idx # Cli.page_idx
      <3>1. s = "cli"
        BY <1>1, <2>1, <2>4, OnlyCli DEF HostStep
      <3>2. Cli.pc = "fill"
        BY <2>4, <3>1 DEF FillPage, Cli
      <3> QED BY <2>1, <2>2, <3>2, NotPointedAt DEF Pages
    <2>5. CASE \E s \in Senders : FillPage(s)
      BY <2>2, <2>3, <2>4, <2>5, Zenon
    <2>6. CASE ~\E s \in Senders : FillPage(s)
      BY <1>1, <2>1, <2>2, <2>6, DataStays, Zenon
    <2> QED BY <2>5, <2>6, Zenon
  <1>2. SndInv /\ [Next]_vars =>
          [Orderly' => \A e \in Pages : snd_pkt_list[e].phys_addr # 0 =>
             LET p == snd_pkt_list[e].phys_addr - 1
             IN  snd_page_list'[p].data = snd_page_list[p].data]_vars
    BY <1>1, Zenon
  <1> QED BY <1>2, Invariant, PTL DEF Spec, PageFrozen

-----------------------------------------------------------------------------
(* The send side is a queue.                                               *)

\* Appending to a sequence appends to its end parts.
LEMMA SubSeqAppend ==
    ASSUME NEW S, NEW s \in Seq(S), NEW x \in S, NEW k \in Nat, k <= Len(s)
    PROVE  SubSeq(Append(s, x), k + 1, Len(s) + 1) = Append(SubSeq(s, k + 1, Len(s)), x)
  <1> DEFINE n == Len(s)
             t == Append(s, x)
             a == SubSeq(t, k + 1, n + 1)
             b == SubSeq(s, k + 1, n)
  <1>1. /\ n \in Nat /\ t \in Seq(S) /\ Len(t) = n + 1 /\ t[n + 1] = x
        /\ \A i \in 1 .. n : t[i] = s[i] /\ t[i] \in S /\ s[i] \in S
    BY AppendProperties, ElementOfSeq, LenProperties
  <1> HIDE DEF n, t
  <1>2. a \in Seq(S) /\ Len(a) = n + 1 - k /\ \A i \in 1 .. n + 1 - k : a[i] = t[k + i]
    <2>1. \A i \in k + 1 .. n + 1 : t[i] \in S
      BY <1>1
    <2>2. /\ a \in Seq(S) /\ Len(a) = (IF k + 1 <= n + 1 THEN (n + 1) - (k + 1) + 1 ELSE 0)
          /\ \A i \in 1 .. (n + 1) - (k + 1) + 1 : a[i] = t[k + 1 + i - 1]
      BY <1>1, <2>1, SubSeqProperties
    <2>3. (n + 1) - (k + 1) + 1 = n + 1 - k /\ k + 1 <= n + 1
      BY <1>1 DEF n
    <2>4. \A i \in 1 .. n + 1 - k : k + 1 + i - 1 = k + i
      BY <1>1
    <2> QED BY <2>2, <2>3, <2>4, Zenon
  <1>3. b \in Seq(S) /\ Len(b) = n - k /\ \A i \in 1 .. n - k : b[i] = s[k + i]
    <2>1. \A i \in k + 1 .. n : s[i] \in S
      BY <1>1
    <2>2. /\ b \in Seq(S) /\ Len(b) = (IF k + 1 <= n THEN n - (k + 1) + 1 ELSE 0)
          /\ \A i \in 1 .. n - (k + 1) + 1 : b[i] = s[k + 1 + i - 1]
      BY <1>1, <2>1, SubSeqProperties
    <2>3. n - (k + 1) + 1 = n - k /\ (~(k + 1 <= n) => n - k = 0)
      BY <1>1 DEF n
    <2>4. \A i \in 1 .. n - k : k + 1 + i - 1 = k + i
      BY <1>1
    <2> QED BY <2>2, <2>3, <2>4, Zenon
  <1> HIDE DEF a, b
  <1>4. /\ Append(b, x) \in Seq(S) /\ Len(Append(b, x)) = n - k + 1
        /\ \A i \in 1 .. n - k : Append(b, x)[i] = b[i]
        /\ Append(b, x)[n - k + 1] = x
    BY <1>3, AppendProperties
  <1>5. Len(a) = Len(Append(b, x)) /\ n - k \in Nat
    BY <1>1, <1>2, <1>4 DEF n
  <1>6. ASSUME NEW i \in 1 .. Len(a) PROVE a[i] = Append(b, x)[i]
    <2>1. CASE i = n - k + 1
      <3>1. k + i = n + 1
        BY <1>1, <2>1
      <3> QED BY <1>1, <1>2, <1>4, <2>1, <3>1, Zenon
    <2>2. CASE i \in 1 .. n - k
      <3>1. k + i \in 1 .. n /\ i \in 1 .. n + 1 - k
        BY <1>1, <1>5, <2>2
      <3> QED BY <1>1, <1>2, <1>3, <1>4, <2>2, <3>1, Zenon
    <2>3. i = n - k + 1 \/ i \in 1 .. n - k
      <3>1. i \in Nat /\ 1 <= i /\ i <= n + 1 - k
        BY <1>1, <1>2, <1>5
      <3> QED BY <1>1, <1>5, <3>1
    <2> QED BY <2>1, <2>2, <2>3, Zenon
  <1>7. a = Append(b, x)
    BY <1>2, <1>4, <1>5, <1>6, SeqEqual, Zenon
  <1> QED BY <1>7, Zenon DEF a, b, n, t

\* The queue's variables, as InOrderOnce maps them.
Waiting == IF Orderly THEN SubSeq(submitted, Len(wire) + 1, Len(submitted)) ELSE <<>>
Left == IF Orderly THEN wire ELSE <<>>

\* Every step is a step of the queue, or none.
LEMMA QueueStep ==
    ASSUME SndInv, SndInv', [Next]_vars
    PROVE  [Queue!Submit \/ Queue!Transmit \/ Queue!Reset]_<<Waiting, Left>>
  <1> DEFINE n == Len(submitted)
             k == Len(wire)
             T == 0 .. MaxPackets
  <1>1. TypeOK /\ submitted \in Seq(T) /\ n \in Nat /\ k \in Nat
    BY Lengths, Zenon DEF SndInv, TypeOK
  <1>2. CASE ~Orderly'
    <2>1. Waiting' = <<>> /\ Left' = <<>>
      BY <1>2 DEF Waiting, Left
    <2> QED BY <2>1 DEF Queue!Reset, Waiting, Left
  <1>3. ASSUME Orderly'
        PROVE  [Queue!Submit \/ Queue!Transmit \/ Queue!Reset]_<<Waiting, Left>>
    <2>1. Orderly /\ Alone /\ (~Loading => Running)
      BY <1>1, <1>3, OrderlyBefore, Zenon DEF SndInv
    <2>2. CASE submitted' = submitted /\ wire' = wire
      BY <1>3, <2>1, <2>2 DEF Waiting, Left
    <2>3. ASSUME NEW s \in Senders, WritePhysAddr(s)
          PROVE  Queue!Submit
      <3>1. s = "cli" /\ ~Loading
        BY <1>1, <1>3, <2>1, <2>3, OnlyCli DEF HostStep
      <3>2. /\ Cli.pc = "phys" /\ submitted' = Append(submitted, Cli.pkt) /\ wire' = wire
        BY <2>3, <3>1, Zenon DEF WritePhysAddr, Cli, cardVars
      <3>3. Cli.pkt \in T /\ Cli.pkt \in 1 .. MaxPackets
        BY <1>1, <2>1, <3>2, SenderTypes DEF Alone, Cli, Senders
      <3>4. k <= n
        BY <1>1, <2>1, <3>1 DEF Running, RingInv, Handed
      <3>5. Len(submitted') = n + 1
        BY <1>1, <3>2, <3>3, AppendProperties, Zenon
      <3>6. SubSeq(submitted', k + 1, n + 1) = Append(SubSeq(submitted, k + 1, n), Cli.pkt)
        BY <1>1, <3>2, <3>3, <3>4, SubSeqAppend, Zenon
      <3>7. Waiting' = Append(Waiting, Cli.pkt) /\ Left' = Left
        BY <1>3, <2>1, <3>2, <3>5, <3>6, Zenon DEF Waiting, Left
      <3> QED BY <3>3, <3>7, Zenon DEF Queue!Submit, Waiting, Left
    <2>4. ASSUME LinkDone, ~UNCHANGED wire
          PROVE  Queue!Transmit
      <3>1. /\ net = "body" /\ submitted' = submitted
            /\ wire' = Append(wire, [dest |-> mcp.sent.dest, data |-> snd_buf[mcp.sent.buf]])
        BY <2>4, Zenon DEF LinkDone
      <3>2. ~Loading
        BY <3>1, Zenon DEF SndInv, Buffers, Loading
      <3>3. /\ n > k /\ mcp.sent.dest = submitted[k + 1]
            /\ snd_buf[mcp.sent.buf] = mcp.sent.dest
        BY <2>1, <3>1, <3>2, Zenon DEF Running, CardInv
      <3>4. /\ Head(SubSeq(submitted, k + 1, n)) = submitted[k + 1]
            /\ Tail(SubSeq(submitted, k + 1, n)) = SubSeq(submitted, (k + 1) + 1, n)
        <4>1. k + 1 \in 1 .. n /\ n \in k + 1 .. n
          BY <1>1, <3>3
        <4> QED BY <1>1, <4>1, HeadTailOfSubSeq, Zenon
      <3>5. Waiting # <<>>
        <4> DEFINE q == SubSeq(submitted, k + 1, n)
        <4> HIDE DEF T
        <4>1. \A i \in 1 .. n : submitted[i] \in T
          BY <1>1, ElementOfSeq
        <4>2. \A i \in k + 1 .. n : submitted[i] \in T
          BY <1>1, <4>1
        <4>3. q \in Seq(T) /\ Len(q) = (IF k + 1 <= n THEN n - (k + 1) + 1 ELSE 0)
          BY <1>1, <4>2, SubSeqProperties
        <4> HIDE DEF q
        <4>4. q # <<>>
          BY <1>1, <3>3, <4>3, EmptySeq
        <4> QED BY <2>1, <4>4 DEF Waiting, q
      <3>6. Len(wire') = k + 1
        <4>1. wire \in Seq([dest : T, data : T])
          BY <1>1, Zenon DEF TypeOK
        <4>2. [dest |-> mcp.sent.dest, data |-> snd_buf[mcp.sent.buf]] \in [dest : T, data : T]
          BY <1>1, RegisterTypes, Zenon DEF TypeOK
        <4> QED BY <3>1, <4>1, <4>2, AppendProperties
      <3>7. Waiting' = Tail(Waiting) /\ Head(Waiting) = mcp.sent.dest
        BY <1>3, <2>1, <3>1, <3>3, <3>4, <3>6, Zenon DEF Waiting
      <3>8. Left' = Append(Left, [dest |-> Head(Waiting), data |-> Head(Waiting)])
        BY <1>3, <2>1, <3>1, <3>3, <3>7, Zenon DEF Left
      <3> QED BY <3>5, <3>7, <3>8, Zenon DEF Queue!Transmit, Waiting, Left
    <2>5. CASE LoadMCP
      <3>1. submitted' = <<>> /\ wire' = <<>>
        BY <2>5 DEF LoadMCP
      <3>2. SubSeq(<<>>, 0 + 1, 0) = <<>>
        BY SubSeqEmpty
      <3>3. Waiting' = <<>> /\ Left' = <<>>
        BY <1>3, <3>1, <3>2 DEF Waiting, Left
      <3> QED BY <3>3 DEF Queue!Reset, Waiting, Left
    <2>6. ASSUME NEW s \in Senders, HostStep(s), ~WritePhysAddr(s)
          PROVE  submitted' = submitted /\ wire' = wire
      BY <2>6, Zenon DEF HostStep, GetSndPage, TakePage, FillPage, FreeSndPage, MyrPktXmit,
                         FillEntry, MarkSending, cardVars
    <2>7. CASE SndStatem \/ DmaDone \/ RcvHalf \/ GetHstshmem \/ UNCHANGED vars
      <3>1. submitted' = submitted /\ wire' = wire
        BY <2>7, Zenon DEF SndStatem, SndS0, SndS1, SndS2, DmaDone, RcvHalf, GetHstshmem, vars,
                           cardVars
      <3> QED BY <2>2, <3>1, Zenon
    <2>8. CASE LinkDone /\ UNCHANGED wire
      BY <2>2, <2>8, Zenon DEF LinkDone
    <2>9. CASE \E s \in Senders : HostStep(s)
      BY <2>2, <2>3, <2>6, <2>9
    <2> QED BY <2>4, <2>5, <2>7, <2>8, <2>9 DEF Next, CardNext
  <1> QED BY <1>2, <1>3, Zenon

\* Packets leave in the order they were submitted, each once, whole and to its own
\* destination, for every ring and any number of packets.
THEOREM SendsInOrder == Spec => InOrderOnce
  <1>1. Init => Queue!Init
    <2> SUFFICES ASSUME Init PROVE Waiting = <<>> /\ Left = <<>>
      BY DEF Queue!Init, Waiting, Left
    <2>1. submitted = <<>> /\ wire = <<>> /\ Len(submitted) = 0 /\ Len(wire) = 0
      BY DEF Init
    <2>2. SubSeq(<<>>, 0 + 1, 0) = <<>>
      BY SubSeqEmpty
    <2> QED BY <2>1, <2>2 DEF Waiting, Left
  <1>2. SndInv /\ SndInv' /\ [Next]_vars
          => [Queue!Submit \/ Queue!Transmit \/ Queue!Reset]_<<Waiting, Left>>
    BY QueueStep
  <1> QED BY <1>1, <1>2, Invariant, PTL DEF Spec, InOrderOnce, Queue!Spec, Waiting, Left
=============================================================================
