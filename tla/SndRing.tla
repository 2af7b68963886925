------------------------------- MODULE SndRing -------------------------------
(***************************************************************************)
(* The packet module's send side: the ring of send pages the host keeps    *)
(* (rtscts/Pkt_send.c), the ring of send requests it shares with the card  *)
(* (snd_pkt_list in MCP/MCPshmem.h) and the send half of the card's state  *)
(* machine (snd_statem in MCP/Pkt_statem.c), with its double buffer and    *)
(* the PCI bus it shares with the receive half.                            *)
(*                                                                         *)
(* Who runs: "cli" is any sender that runs with interrupts off from        *)
(* build_page() to myrPkt_xmit() (the interrupt handler, p3_send,          *)
(* sendProtoMSG, the IP device); "ioctl" is sendRouteStat() called by the  *)
(* RTS_ROUTE_STAT ioctl, which turns them off inside pkt_send() only.  The *)
(* card, its DMA engine and the network run all the time.                  *)
(***************************************************************************)
EXTENDS Integers, Sequences, FiniteSets

CONSTANTS
    MAX_SND_PKT_ENTRIES,  \* pages, and entries of snd_pkt_list (2048 in the code)
    MaxPackets,           \* bound: packets to send
    Scenarios             \* what may happen: at most so many packets, ioctls and
                          \* MCP loads, and whether senders stop for a load

ASSUME SndConstants ==
    /\ MAX_SND_PKT_ENTRIES \in Nat /\ MAX_SND_PKT_ENTRIES >= 2
    /\ MaxPackets \in Nat
    /\ Scenarios \subseteq [packets : 0 .. MaxPackets, ioctls : Nat, loads : Nat,
                            sendWhileLoading : BOOLEAN]

VARIABLES
    snd_page_list,  \* per page: stat, slot and data, the packet its bytes are
    last_pkt,       \* the host's next entry of snd_pkt_list
    next_avail,     \* the next page get_snd_page() looks at
    rdy_to_snd,     \* an MCP is there to send
    host,           \* per sender: pc, the page and slot looked at, page_idx, pkt
    snd_pkt_list,   \* per entry: phys_addr, dest and page_idx
    mcp,            \* snd_statem's static variables
    dma,            \* the host-to-card DMA: "idle", "busy" or "done"
    snd_buf,        \* the packets in snd_buf_A and snd_buf_B
    net,            \* the send link: "ready", "header", "opened", "body"
    PCIavailable,   \* the card's PCI bus flag
    rcvHolds,       \* the receive half has the bus
    fault,          \* a fail_if() of the MCP fired
    printk,         \* complaints printed by the host
    submitted,      \* packets handed to the MCP, in order, since it was loaded
    wire,           \* what left on the link since then: dest and data
    begun, ioctls, loads, \* packets, ioctls and MCP loads begun so far
    scene                 \* the scenario

hostVars == <<snd_page_list, last_pkt, next_avail, rdy_to_snd, host, printk,
              begun, ioctls>>
cardVars == <<mcp, dma, snd_buf, net, PCIavailable, rcvHolds, fault, wire>>
vars == <<hostVars, cardVars, snd_pkt_list, submitted, loads, scene>>

Pages == 0 .. MAX_SND_PKT_ENTRIES - 1
Senders == {"cli", "ioctl"}
Bufs == {"A", "B"}
\* What virt_to_bus() gives for a page: a value that is not zero.
PhysAddr(p) == p + 1
\* The two ring indices advance modulo the size of the lists.
Advance(i) == (i + 1) % MAX_SND_PKT_ENTRIES
EmptyEntry == [phys_addr |-> 0, dest |-> 0, page_idx |-> -1]
IdleSender == [pc |-> "idle", look |-> 0, slot |-> -1, page_idx |-> -1, pkt |-> 0]
FirstState == [SndState |-> "S0", last_snd_pkt |-> 0, cur_buf |-> "A",
               cur_dest |-> 0, page |-> 0, pkt_on_LANai |-> FALSE,
               sent |-> [dest |-> 0, buf |-> "A"]]

Init ==
    /\ snd_page_list = [p \in Pages |-> [stat |-> "avail", slot |-> -1, data |-> 0]]
    /\ last_pkt = 0 /\ next_avail = 0 /\ rdy_to_snd = TRUE
    /\ host = [s \in Senders |-> IdleSender]
    /\ snd_pkt_list = [e \in Pages |-> EmptyEntry]
    /\ mcp = FirstState /\ dma = "idle" /\ net = "ready"
    /\ snd_buf = [b \in Bufs |-> 0]
    /\ PCIavailable = TRUE /\ rcvHolds = FALSE
    /\ fault = FALSE /\ printk = {} /\ submitted = <<>> /\ wire = <<>>
    /\ begun = 0 /\ ioctls = 0 /\ loads = 0 /\ scene \in Scenarios

-----------------------------------------------------------------------------
(* The host.                                                               *)

Loading == mcp.SndState = "init"
\* pkt_send() runs with interrupts off, and so does all a "cli" sender does.
InterruptsOff == host["cli"].pc # "idle" \/ host["ioctl"].pc = "phys"
MayRun(s) == IF s = "cli" THEN host["ioctl"].pc # "phys"
                          ELSE host["cli"].pc = "idle"
Goes(s, pc) == host' = [host EXCEPT ![s].pc = pc]
Gives(s) == host' = [host EXCEPT ![s] = IdleSender]

\* The entry a page's slot names.  A page marked by a sender that was overtaken
\* by pkt_init_send() has slot -1: what lies before the list may be anything.
EntryAt(slot) ==
    IF slot # -1 THEN {snd_pkt_list[slot]}
    ELSE [phys_addr : {0, 1}, dest : {0}, page_idx : Pages \cup {-1}]

\* The MCP clears an entry's address when the packet is on its way.
MCPDone_Always(entry) == TRUE
MCPDone(entry) == entry.phys_addr = 0

\* get_snd_page() looks at the page next_avail points at.  A page that was
\* handed to the MCP can be taken when the MCP is done with it and its entry
\* still points back at it.  A page that is checked out is complained about
\* and taken anyway.
LookAt(s) ==
    LET p == next_avail
        stat == snd_page_list[p].stat
        Take(slot) ==
            /\ begun' = begun + 1
            /\ host' = [host EXCEPT ![s] = [@ EXCEPT !.pc = "take", !.look = p,
                                                     !.slot = slot, !.pkt = begun + 1]]
    IN  \/ stat = "avail" /\ Take(-1) /\ UNCHANGED printk
        \/ /\ stat = "sending"
           /\ \E entry \in EntryAt(snd_page_list[p].slot) :
                \/ ~MCPDone(entry) /\ UNCHANGED <<host, begun, printk>>
                \/ /\ MCPDone(entry) /\ entry.page_idx # p
                   /\ printk' = printk \cup {"not pointing at us"}
                   /\ UNCHANGED <<host, begun>>
                \/ /\ MCPDone(entry) /\ entry.page_idx = p
                   /\ Take(snd_page_list[p].slot) /\ UNCHANGED printk
        \/ /\ stat = "checked_out"
           /\ Take(-1) /\ printk' = printk \cup {"usage error"}

GetSndPage(s) ==
    /\ host[s].pc = "idle" /\ MayRun(s)
    /\ begun < scene.packets
    /\ scene.sendWhileLoading \/ ~Loading
    /\ IF s = "ioctl" THEN ioctls < scene.ioctls /\ ioctls' = ioctls + 1
                      ELSE UNCHANGED ioctls
    /\ LookAt(s)
    /\ UNCHANGED <<snd_page_list, last_pkt, next_avail, rdy_to_snd, cardVars,
                   snd_pkt_list, submitted, loads, scene>>

\* An entry whose page was taken back no longer points at it.
Forget(slot) == [snd_pkt_list EXCEPT ![slot].page_idx = -1]

\* get_snd_page() checks the page out.  It reads next_avail again or uses the
\* value it looked at: the compiler chooses, and they differ only for a sender
\* that was interrupted in between.
TakePage(s) ==
    /\ host[s].pc = "take" /\ MayRun(s)
    /\ \E p \in {host[s].look, next_avail} :
         /\ snd_page_list' = [snd_page_list EXCEPT ![p].stat = "checked_out"]
         /\ snd_pkt_list' = IF host[s].slot = -1 THEN snd_pkt_list
                            ELSE Forget(host[s].slot)
         /\ next_avail' = Advance(p)
         /\ host' = [host EXCEPT ![s] = [@ EXCEPT !.pc = "fill", !.page_idx = p]]
    /\ UNCHANGED <<last_pkt, rdy_to_snd, printk, begun, ioctls, cardVars,
                   submitted, loads, scene>>

\* page_addr() gives no address for a page that is not checked out.
PageAddr(s) == snd_page_list[host[s].page_idx].stat = "checked_out"
NotCheckedOut(s) ==
    /\ printk' = printk \cup {"not checked out"}
    /\ Goes(s, "oops")
    /\ UNCHANGED <<snd_page_list, snd_pkt_list>>

\* build_page() and its caller write the packet into the page.
FillPage(s) ==
    /\ host[s].pc = "fill" /\ MayRun(s)
    /\ \/ ~PageAddr(s) /\ NotCheckedOut(s)
       \/ /\ PageAddr(s)
          /\ snd_page_list' = [snd_page_list EXCEPT
                                 ![host[s].page_idx].data = host[s].pkt]
          /\ Goes(s, "xmit")
          /\ UNCHANGED <<snd_pkt_list, printk>>
    /\ UNCHANGED <<last_pkt, next_avail, rdy_to_snd, begun, ioctls, cardVars,
                   submitted, loads, scene>>

Release(p) == snd_page_list' = [snd_page_list EXCEPT ![p].stat = "avail"]

\* The user's data cannot be copied: the caller gives the page back with
\* free_snd_page().
FreeSndPage(s) ==
    /\ s = "cli" /\ host[s].pc = "xmit" /\ MayRun(s)
    /\ Release(host[s].page_idx)
    /\ Gives(s)
    /\ UNCHANGED <<last_pkt, next_avail, rdy_to_snd, printk, begun, ioctls,
                   cardVars, snd_pkt_list, submitted, loads, scene>>

\* myrPkt_xmit() up to the call of pkt_send().  It gives the page back when no
\* MCP is loaded, when the MCP still has the entry, or when the entry's last
\* page is not one being sent.  Otherwise that page is available again; a
\* destination that does not exist still ends the call.
MyrPktXmit(s) ==
    LET p == host[s].page_idx
        entry == snd_pkt_list[last_pkt]
    IN  /\ host[s].pc = "xmit" /\ MayRun(s)
        /\ \/ /\ ~rdy_to_snd \/ ~MCPDone(entry)
              /\ Release(p) /\ Gives(s)
              /\ UNCHANGED <<snd_pkt_list, printk>>
           \/ /\ rdy_to_snd /\ MCPDone(entry)
              /\ ~PageAddr(s) /\ NotCheckedOut(s)
           \/ /\ rdy_to_snd /\ MCPDone(entry) /\ PageAddr(s)
              /\ entry.page_idx # -1 /\ snd_page_list[entry.page_idx].stat # "sending"
              /\ printk' = printk \cup {"Huh?!?"}
              /\ Release(p) /\ Gives(s)
              /\ UNCHANGED snd_pkt_list
           \/ /\ rdy_to_snd /\ MCPDone(entry) /\ PageAddr(s)
              /\ entry.page_idx # -1 => snd_page_list[entry.page_idx].stat = "sending"
              /\ \E badDest \in BOOLEAN :
                   LET freed == IF entry.page_idx = -1 THEN snd_page_list
                                ELSE [snd_page_list EXCEPT
                                        ![entry.page_idx].stat = "avail"]
                   IN  IF badDest
                       THEN snd_page_list' = [freed EXCEPT ![p].stat = "avail"] /\ Gives(s)
                       ELSE snd_page_list' = freed /\ Goes(s, "send")
              /\ snd_pkt_list' = Forget(last_pkt)
              /\ UNCHANGED printk
        /\ UNCHANGED <<last_pkt, next_avail, rdy_to_snd, begun, ioctls, cardVars,
                       submitted, loads, scene>>

\* pkt_send() fills in the entry, with interrupts off...
FillEntry(s) ==
    /\ host[s].pc = "send" /\ MayRun(s)
    /\ snd_pkt_list' = [snd_pkt_list EXCEPT
                          ![last_pkt] = [@ EXCEPT !.dest = host[s].pkt,
                                                  !.page_idx = host[s].page_idx]]
    /\ Goes(s, "phys")
    /\ UNCHANGED <<snd_page_list, last_pkt, next_avail, rdy_to_snd, printk, begun,
                   ioctls, cardVars, submitted, loads, scene>>

\* ...and its address last: from here on the MCP may send it.
WritePhysAddr(s) ==
    /\ host[s].pc = "phys" /\ MayRun(s)
    /\ snd_pkt_list' = [snd_pkt_list EXCEPT
                          ![last_pkt].phys_addr = PhysAddr(host[s].page_idx)]
    /\ snd_page_list' = [snd_page_list EXCEPT ![host[s].page_idx].slot = last_pkt]
    /\ last_pkt' = Advance(last_pkt)
    /\ submitted' = Append(submitted, host[s].pkt)
    /\ Goes(s, "mark")
    /\ UNCHANGED <<next_avail, rdy_to_snd, printk, begun, ioctls, cardVars, loads, scene>>

\* myrPkt_xmit() marks the page once pkt_send() is back.
MarkSending(s) ==
    /\ host[s].pc = "mark" /\ MayRun(s)
    /\ snd_page_list' = [snd_page_list EXCEPT ![host[s].page_idx].stat = "sending"]
    /\ Gives(s)
    /\ UNCHANGED <<last_pkt, next_avail, rdy_to_snd, printk, begun, ioctls,
                   cardVars, snd_pkt_list, submitted, loads, scene>>

HostStep(s) ==
    \/ GetSndPage(s) \/ TakePage(s) \/ FillPage(s) \/ FreeSndPage(s)
    \/ MyrPktXmit(s) \/ FillEntry(s) \/ WritePhysAddr(s) \/ MarkSending(s)

-----------------------------------------------------------------------------
(* The card.                                                               *)

GrabPCI == PCIavailable' = FALSE /\ fault' = (fault \/ ~PCIavailable)
FreePCI == PCIavailable' = TRUE /\ fault' = (fault \/ PCIavailable)
KeepPCI == UNCHANGED <<PCIavailable, fault>>
Other(b) == IF b = "A" THEN "B" ELSE "A"
CardUp(states) == ~fault /\ mcp.SndState \in states

\* (A variant that takes the bus without looking.)
SndS0_Blind ==
    LET entry == snd_pkt_list[mcp.last_snd_pkt]
    IN  /\ CardUp({"S0"}) /\ entry.phys_addr # 0
        /\ mcp' = [mcp EXCEPT !.SndState = IF net = "ready" THEN "S2" ELSE "S1",
                              !.cur_buf = Other(mcp.cur_buf),
                              !.cur_dest = entry.dest, !.page = entry.phys_addr - 1,
                              !.pkt_on_LANai = FALSE]
        /\ dma' = "busy"
        /\ net' = IF net = "ready" THEN "header" ELSE net
        /\ GrabPCI
        /\ UNCHANGED <<snd_buf, wire, rcvHolds, snd_pkt_list>>

\* State S0 with a request of the host and the bus: swap the buffers and start
\* to pull the packet in.  The same call goes on with state S1: it opens the
\* message if the link is ready.
SndS0 ==
    LET entry == snd_pkt_list[mcp.last_snd_pkt]
    IN  /\ CardUp({"S0"}) /\ PCIavailable /\ entry.phys_addr # 0
        /\ mcp' = [mcp EXCEPT !.SndState = IF net = "ready" THEN "S2" ELSE "S1",
                              !.cur_buf = Other(mcp.cur_buf),
                              !.cur_dest = entry.dest, !.page = entry.phys_addr - 1,
                              !.pkt_on_LANai = FALSE]
        /\ dma' = "busy"
        /\ net' = IF net = "ready" THEN "header" ELSE net
        /\ GrabPCI
        /\ UNCHANGED <<snd_buf, wire, rcvHolds, snd_pkt_list>>

ReleaseBus ==
    IF dma = "done" /\ ~mcp.pkt_on_LANai THEN FreePCI ELSE KeepPCI

\* State S1, the link ready: start_msg(), and the same call goes on with S2.
SndS1 ==
    /\ CardUp({"S1"})
    /\ net = "ready" \/ (dma = "done" /\ ~mcp.pkt_on_LANai)
    /\ mcp' = [mcp EXCEPT !.SndState = IF net = "ready" THEN "S2" ELSE "S1",
                          !.pkt_on_LANai = @ \/ dma = "done"]
    /\ net' = IF net = "ready" THEN "header" ELSE net
    /\ ReleaseBus
    /\ UNCHANGED <<dma, snd_buf, wire, rcvHolds, snd_pkt_list>>

\* State S2: once the header is out and the packet is on the card, send it and
\* give the entry back to the host.
SndS2 ==
    /\ CardUp({"S2"})
    /\ \/ /\ mcp.pkt_on_LANai \/ dma = "done"
          /\ net = "opened"
          /\ net' = "body"
          /\ snd_pkt_list' = [snd_pkt_list EXCEPT ![mcp.last_snd_pkt].phys_addr = 0]
          /\ mcp' = [mcp EXCEPT !.SndState = "S0",
                                !.last_snd_pkt = Advance(mcp.last_snd_pkt),
                                !.sent = [dest |-> mcp.cur_dest, buf |-> mcp.cur_buf]]
          /\ IF mcp.pkt_on_LANai THEN KeepPCI ELSE FreePCI
       \/ /\ net # "opened" /\ dma = "done" /\ ~mcp.pkt_on_LANai
          /\ mcp' = [mcp EXCEPT !.pkt_on_LANai = TRUE]
          /\ FreePCI
          /\ UNCHANGED <<net, snd_pkt_list>>
    /\ UNCHANGED <<dma, snd_buf, wire, rcvHolds>>

SndStatem ==
    /\ SndS0 \/ SndS1 \/ SndS2
    /\ UNCHANGED <<hostVars, submitted, loads, scene>>

\* The DMA engine has copied the page into the buffer.
DmaDone ==
    /\ dma = "busy"
    /\ dma' = "done"
    /\ snd_buf' = [snd_buf EXCEPT ![mcp.cur_buf] = snd_page_list[mcp.page].data]
    /\ UNCHANGED <<hostVars, mcp, net, PCIavailable, rcvHolds, fault, wire,
                   snd_pkt_list, submitted, loads, scene>>

\* The link has sent the header, or the rest of the message: the buffer is
\* free from then on.
LinkDone ==
    /\ \/ net = "header" /\ net' = "opened" /\ UNCHANGED wire
       \/ /\ net = "body" /\ net' = "ready"
          /\ wire' = Append(wire, [dest |-> mcp.sent.dest, data |-> snd_buf[mcp.sent.buf]])
    /\ UNCHANGED <<hostVars, mcp, dma, snd_buf, PCIavailable, rcvHolds, fault,
                   snd_pkt_list, submitted, loads, scene>>

\* The receive half takes the bus when it is free and gives it back.
RcvHalf ==
    /\ CardUp({"S0", "S1", "S2"})
    /\ \/ PCIavailable /\ GrabPCI /\ rcvHolds' = TRUE
       \/ rcvHolds /\ FreePCI /\ rcvHolds' = FALSE
    /\ UNCHANGED <<hostVars, mcp, dma, snd_buf, net, wire, snd_pkt_list,
                   submitted, loads, scene>>

-----------------------------------------------------------------------------
(* Loading an MCP.                                                         *)

AllIdle == \A s \in Senders : host[s].pc = "idle"

\* mcpload replaces the MCP: MCP_init() clears the shared lists and waits for
\* the host.
LoadMCP ==
    /\ loads < scene.loads /\ loads' = loads + 1
    /\ ~Loading
    /\ scene.sendWhileLoading \/ AllIdle
    /\ mcp' = [FirstState EXCEPT !.SndState = "init"]
    /\ dma' = "idle" /\ net' = "ready"
    /\ PCIavailable' = TRUE /\ rcvHolds' = FALSE /\ fault' = FALSE
    /\ snd_pkt_list' = [e \in Pages |-> EmptyEntry]
    /\ submitted' = <<>> /\ wire' = <<>>
    /\ UNCHANGED <<hostVars, snd_buf, scene>>

\* The GET_HSTSHMEM interrupt: pkt_init_send() makes every page available and
\* starts again at entry 0.  rdy_to_snd is false until the MCP answers; an MCP
\* that does not answer in time is reported as not running.
GetHstshmem ==
    /\ Loading /\ ~InterruptsOff
    /\ snd_page_list' = [p \in Pages |-> [snd_page_list[p] EXCEPT !.stat = "avail",
                                                                 !.slot = -1]]
    /\ last_pkt' = 0 /\ next_avail' = 0
    /\ \E answers \in BOOLEAN :
         /\ rdy_to_snd' = answers
         /\ mcp' = [mcp EXCEPT !.SndState = IF answers THEN "S0" ELSE "off"]
    /\ UNCHANGED <<host, printk, begun, ioctls, dma, snd_buf, net, PCIavailable,
                   rcvHolds, fault, wire, snd_pkt_list, submitted, loads, scene>>

-----------------------------------------------------------------------------
CardNext == SndStatem \/ DmaDone \/ LinkDone
Next ==
    \/ \E s \in Senders : HostStep(s)
    \/ CardNext
    \/ RcvHalf
    \/ LoadMCP
    \/ GetHstshmem

Spec == Init /\ [][Next]_vars

\* The card's loop, its DMA engine and the link go on, and so does a sender
\* once it has begun (it never blocks).  The loop calls snd_statem() after
\* every call of rcv_statem(), and it is rcv_statem() that frees the bus: the
\* send half sees the bus free every time it becomes free (strong fairness).
Fairness ==
    /\ SF_vars(SndStatem)
    /\ WF_vars(DmaDone) /\ WF_vars(LinkDone)
    /\ WF_vars(RcvHalf /\ rcvHolds)
    /\ \A s \in Senders : WF_vars(HostStep(s) /\ host[s].pc # "idle")
    /\ WF_vars(GetHstshmem)
FairSpec == Spec /\ Fairness

-----------------------------------------------------------------------------
(* What the send side promises.                                            *)

Senderstates == {"idle", "take", "fill", "xmit", "send", "phys", "mark", "oops"}

SendPage == [stat : {"avail", "checked_out", "sending"}, slot : Pages \cup {-1},
             data : 0 .. MaxPackets]
Sender == [pc : Senderstates, look : Pages, slot : Pages \cup {-1},
           page_idx : Pages \cup {-1}, pkt : 0 .. MaxPackets]
SendEntry == [phys_addr : 0 .. MAX_SND_PKT_ENTRIES, dest : 0 .. MaxPackets,
              page_idx : Pages \cup {-1}]
SndRegisters == [SndState : {"S0", "S1", "S2", "init", "off"}, last_snd_pkt : Pages,
                 cur_buf : Bufs, cur_dest : 0 .. MaxPackets, page : Pages,
                 pkt_on_LANai : BOOLEAN, sent : [dest : 0 .. MaxPackets, buf : Bufs]]

\* The send pages, the shared entries and the card's registers stay within
\* their types.
TypeOK ==
    /\ snd_page_list \in [Pages -> SendPage] /\ snd_pkt_list \in [Pages -> SendEntry]
    /\ last_pkt \in Pages /\ next_avail \in Pages /\ rdy_to_snd \in BOOLEAN
    /\ host \in [Senders -> Sender] /\ mcp \in SndRegisters
    /\ dma \in {"idle", "busy", "done"} /\ net \in {"ready", "header", "opened", "body"}
    /\ snd_buf \in [Bufs -> 0 .. MaxPackets]
    /\ PCIavailable \in BOOLEAN /\ rcvHolds \in BOOLEAN /\ fault \in BOOLEAN
    /\ submitted \in Seq(0 .. MaxPackets)
    /\ wire \in Seq([dest : 0 .. MaxPackets, data : 0 .. MaxPackets])
    /\ begun \in 0 .. scene.packets /\ ioctls \in Nat /\ loads \in Nat
    /\ scene \in Scenarios

\* Nothing that the send side is not made for has happened: the route ioctl,
\* whose sender runs with interrupts on, and senders that go on while an MCP is
\* being loaded.  With either, two senders get the same page, or an entry is
\* left that no later myrPkt_xmit() can pass.
Orderly == ioctls = 0 /\ ~scene.sendWhileLoading

\* What the host's own checks watch for never happens: get_snd_page() never
\* meets a page that is checked out (usage error) or whose entry points at
\* another page, myrPkt_xmit() never finds an entry whose page is not being
\* sent (Huh?!?), and page_addr() is never asked for a page not checked out.
NoComplaint == Orderly => printk = {}

\* With an MCP running, an entry it is done with is free or still points at the
\* page it sent (what myrPkt_xmit() says it knows before it reuses the entry).
\* An entry that does not is never usable again: every later myrPkt_xmit()
\* stops there.
EntryUsable ==
    LET entry == snd_pkt_list[last_pkt]
    IN  (Orderly /\ ~Loading /\ entry.phys_addr = 0 /\ entry.page_idx # -1
            /\ \A s \in Senders : host[s].pc \notin {"phys", "mark"})
        => snd_page_list[entry.page_idx].stat = "sending"

\* A page that the MCP may still read, because an entry holds its address, is
\* in nobody's hands: no sender is between get_snd_page() and pkt_send() with
\* it, whatever order pages were given back in.
PageNotShared ==
    Orderly => \A e \in Pages : snd_pkt_list[e].phys_addr # 0 =>
        LET p == snd_pkt_list[e].phys_addr - 1
        IN  /\ snd_page_list[p].slot = e
            /\ \A s \in Senders : host[s].pc \in {"fill", "xmit", "send", "phys"}
                                     => host[s].page_idx # p

\* The card never pulls a packet into the buffer the link is sending from.
BuffersApart == dma = "busy" /\ net = "body" => mcp.cur_buf # mcp.sent.buf

\* The MCP's assertions a48 and a49 never fire: neither half takes the bus
\* while the other has it, and none gives it back twice.
NoFault == ~fault

\* Bytes of a page do not change while an entry holds its address: what the
\* DMA engine reads is what the sender wrote.
PageFrozen ==
    [][Orderly' => \A e \in Pages : snd_pkt_list[e].phys_addr # 0 =>
         LET p == snd_pkt_list[e].phys_addr - 1
         IN  snd_page_list'[p].data = snd_page_list[p].data]_vars

\* Packets leave in the order they were submitted, each once, each whole and to
\* its own destination: the send side implements a queue.  (When it is used as
\* it is not made for, nothing is claimed of what leaves.)
Queue == INSTANCE PktQueue WITH
    Packets <- 1 .. MaxPackets,
    queue <- IF Orderly THEN SubSeq(submitted, Len(wire) + 1, Len(submitted)) ELSE <<>>,
    out <- IF Orderly THEN wire ELSE <<>>
InOrderOnce == Queue!Spec

=============================================================================
