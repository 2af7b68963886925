------------------------------- MODULE RcvRing -------------------------------
(***************************************************************************)
(* The packet module's receive side: the receive half of the card's state  *)
(* machine (rcv_statem in MCP/Pkt_statem.c), the ring of receive pages it  *)
(* shares with the host (rcv_pkt_list in MCP/MCPshmem.h), the interrupt    *)
(* with its throttle (int_hst in MCP/ebus.h) and the host's handler        *)
(* (rtscts/Pkt_handler.c, rtscts/Pkt_recv.c).                              *)
(*                                                                         *)
(* The link, the card with its DMA engine and the host run all the time.   *)
(* Words shared between the card and the host are kept here as the card    *)
(* reads them; the host swaps their bytes.                                 *)
(***************************************************************************)
EXTENDS PktHeader, FiniteSets

CONSTANTS
    MAX_RCV_PKT_ENTRIES,  \* pages, and entries of rcv_pkt_list (2048 in the code)
    MYRPKT_MTU,           \* bytes of a page a packet may fill
    PktHdrSize,           \* sizeof(pkthdr_t)
    DBL_BUF_SIZE,         \* bytes of one of the card's two receive buffers
    MaxArrivals,          \* bound: packets that come in
    Scenarios             \* what may happen: shapes of packets (wanted, len, size,
                          \* crc, hdr), so many arrivals, so many loads of an MCP

ASSUME RcvConstants ==
    /\ MAX_RCV_PKT_ENTRIES \in Nat \ {0} /\ MaxArrivals \in Nat
    /\ MYRPKT_MTU \in Nat /\ PktHdrSize \in 1 .. MYRPKT_MTU
    /\ DBL_BUF_SIZE \in Nat /\ DBL_BUF_SIZE > MYRPKT_MTU
    /\ \A c \in Scenarios :
         /\ c.arrivals \in 0 .. MaxArrivals /\ c.loads \in Nat
         /\ \A s \in c.shapes :
              /\ s.len \in PktHdrSize .. MYRPKT_MTU /\ s.size \in Nat
              /\ s.wanted \in BOOLEAN /\ s.crc \in BOOLEAN
\* A right CRC vouches for the lengths in a packet for the packet module.
ASSUME CrcAssumption ==
    \A c \in Scenarios : \A s \in c.shapes :
        s.wanted /\ s.crc => s.size = s.len /\ s.hdr.len[1] = s.len

VARIABLES
    rcv_pkt_list,   \* per entry: phys_addr and len
    page,           \* per page: the packet last copied into it and how much of it
    mcp,            \* rcv_statem's static variables
    line,           \* the packet coming in: its bytes left and what the link says
    dma,            \* the card-to-host DMA: "idle", "busy"
    PCIavailable,   \* the card's PCI bus flag
    sndHolds,       \* the send half has the bus
    LANai2host,     \* INT_RCV_BEGUN is set in the reason word
    HOST_SIG,       \* the card's interrupt line
    next,           \* int_hst()'s alarm has passed
    idletime,       \* rcv_statem's alarm has passed
    rcvs,           \* the card's count of packets handed up
    num_rcv_pkts,   \* the host's count, as the card sees it
    num_pkts,       \* the host's own count
    last_pkt,       \* the host's next entry
    host,           \* the handler: pc and the reason word it read
    up,             \* what was passed up, in order, since the MCP was loaded
    dumped,         \* packets the card dumped for want of room in their page
    arrived, loads, \* packets that came in, MCP loads
    scene           \* the scenario

cardVars == <<mcp, line, dma, PCIavailable, sndHolds, next, idletime, rcvs, dumped>>
hostVars == <<num_pkts, num_rcv_pkts, last_pkt, host, up>>
vars == <<rcv_pkt_list, page, cardVars, hostVars, LANai2host, HOST_SIG, arrived, loads, scene>>

Entries == 0 .. MAX_RCV_PKT_ENTRIES - 1
GOOD_PKT == 1
LONG_PKT == 2
BAD_CRC_PKT == 3
TRUNC_PKT == 4
Markers == {GOOD_PKT, LONG_PKT, BAD_CRC_PKT, TRUNC_PKT}
\* pkt_init_recv() puts -1, the largest unsigned number, in every length.
AnyLength == 65536
\* What virt_to_bus() gives for a page: its low bits are clear.
PhysAddr(e) == 16 * (e + 1)
\* ntohl() of a number of one byte, and of such a number swapped.
ntohl(w) == IF w < 256 THEN w * 16777216 ELSE w \div 16777216
IsPage(w) == w \div 16 # 0
Advance(i) == (i + 1) % MAX_RCV_PKT_ENTRIES
\* Lengths are compared in whole words of eight bytes.
Round8(n) == ((n + 7) \div 8) * 8

\* A cleared header.
NoHdr == [len |-> <<0, 0>>, type |-> <<0, 0, 0>>, src |-> <<0, 0, 0>>, msgID |-> <<0, 0, 0>>]
NoPacket == [id |-> 0, wanted |-> FALSE, len |-> 0, size |-> 0, crc |-> TRUE, hdr |-> NoHdr]
NoLine == [pkt |-> NoPacket, left |-> 0, stat |-> "none"]
FirstState == [RcvState |-> "R0", last_rcv_pkt |-> 0, cur_len |-> 0,
               expected_len |-> 0, cur_hst_addr |-> 0, old |-> NoPacket]
FreshList == [e \in Entries |-> [phys_addr |-> PhysAddr(e), len |-> AnyLength]]
OutOfHandler == [pc |-> "out", reason |-> FALSE]

Init ==
    /\ rcv_pkt_list = FreshList
    /\ page = [e \in Entries |-> [pkt |-> NoPacket, copied |-> 0]]
    /\ mcp = FirstState /\ line = NoLine /\ dma = "idle"
    /\ PCIavailable = TRUE /\ sndHolds = FALSE
    /\ LANai2host = FALSE /\ HOST_SIG = FALSE /\ next = TRUE /\ idletime = TRUE
    /\ rcvs = 0 /\ num_rcv_pkts = 0 /\ num_pkts = 0 /\ last_pkt = 0
    /\ host = OutOfHandler /\ up = <<>> /\ dumped = {} /\ arrived = 0 /\ loads = 0
    /\ scene \in Scenarios

-----------------------------------------------------------------------------
(* The link.                                                               *)

\* A packet begins to stream into the buffer the card posted.
Arrive ==
    /\ line.stat = "none" /\ arrived < scene.arrivals
    /\ mcp.RcvState # "init"
    /\ arrived' = arrived + 1
    /\ \E s \in scene.shapes :
         line' = [pkt |-> [id |-> arrived + 1, wanted |-> s.wanted, len |-> s.len,
                           size |-> s.size, crc |-> s.crc, hdr |-> s.hdr],
                  left |-> s.size, stat |-> "begun"]
    /\ UNCHANGED <<rcv_pkt_list, page, mcp, dma, PCIavailable, sndHolds, next,
                   idletime, rcvs, dumped, hostVars, LANai2host, HOST_SIG, loads, scene>>

\* All of it is in (RECV_INT), or the buffer is full before that (BUFF_INT).
LineDone ==
    /\ line.stat = "begun"
    /\ line' = IF line.left > DBL_BUF_SIZE
               THEN [line EXCEPT !.stat = "full", !.left = @ - DBL_BUF_SIZE]
               ELSE [line EXCEPT !.stat = "in", !.left = 0]
    /\ UNCHANGED <<rcv_pkt_list, page, mcp, dma, PCIavailable, sndHolds, next,
                   idletime, rcvs, dumped, hostVars, LANai2host, HOST_SIG,
                   arrived, loads, scene>>

\* A new receive is posted into the same or the other buffer.
Post == line' = IF line.stat = "full" THEN [line EXCEPT !.stat = "begun"] ELSE NoLine

-----------------------------------------------------------------------------
(* The card.                                                               *)

\* int_hst(): leave the reason; interrupt unless that was done a moment ago.
int_hst ==
    /\ LANai2host' = TRUE
    /\ HOST_SIG' = (HOST_SIG \/ next)
    /\ next' = FALSE

Entry == rcv_pkt_list[mcp.last_rcv_pkt]
SetLen(len) == rcv_pkt_list' = [rcv_pkt_list EXCEPT ![mcp.last_rcv_pkt].len = len]

\* R0, a packet began and is wanted, and the page is there: take the packet's
\* length and go on if it fits the page.
RcvBegins ==
    LET len == line.pkt.len
    IN  /\ mcp.RcvState = "R0" /\ line.stat # "none" /\ line.pkt.wanted
        /\ IsPage(Entry.phys_addr)
        /\ int_hst
        /\ mcp' = [mcp EXCEPT !.cur_len = len, !.expected_len = Round8(len + 8),
                              !.cur_hst_addr = Entry.phys_addr,
                              !.RcvState = IF len > Entry.len THEN "R5" ELSE "R1"]
        /\ IF len > Entry.len
           THEN dumped' = dumped \cup {line.pkt} /\ UNCHANGED rcv_pkt_list
           ELSE SetLen(len) /\ UNCHANGED dumped
        /\ UNCHANGED <<line, dma, PCIavailable, idletime, rcvs>>

\* R0, wanted, but the host has not returned the page: interrupt it at once and
\* wait a while.
HostNotReady ==
    /\ mcp.RcvState = "R0" /\ line.stat # "none" /\ line.pkt.wanted
    /\ ~IsPage(Entry.phys_addr)
    /\ LANai2host' = TRUE /\ HOST_SIG' = TRUE /\ next' = FALSE
    /\ mcp' = [mcp EXCEPT !.RcvState = "wait"]
    /\ UNCHANGED <<rcv_pkt_list, line, dma, PCIavailable, idletime, rcvs, dumped>>

\* The wait is over: dump the packet if the page is still not there, or go on
\* with it, with the length the last packet had.
WaitOver ==
    /\ mcp.RcvState = "wait"
    /\ IF Entry.phys_addr % 16 # 0
       THEN mcp' = [mcp EXCEPT !.RcvState = "R5"] /\ UNCHANGED rcv_pkt_list
       ELSE /\ mcp' = [mcp EXCEPT !.RcvState = "R1", !.cur_hst_addr = Entry.phys_addr]
            /\ SetLen(mcp.cur_len)
    /\ UNCHANGED <<line, dma, PCIavailable, next, idletime, rcvs, dumped,
                   LANai2host, HOST_SIG>>

\* R0, a packet nobody wants.
NotForUs ==
    /\ mcp.RcvState = "R0" /\ line.stat # "none" /\ ~line.pkt.wanted
    /\ mcp' = [mcp EXCEPT !.RcvState = "R5"]
    /\ UNCHANGED <<rcv_pkt_list, line, dma, PCIavailable, next, idletime, rcvs,
                   dumped, LANai2host, HOST_SIG>>

\* R0 with nothing to do: the card thinks the host is behind, and interrupts it
\* again.
HostBehind_Never == FALSE
HostBehind == rcvs # num_rcv_pkts
Idle ==
    /\ mcp.RcvState = "R0" /\ line.stat = "none" /\ idletime
    /\ IF HostBehind THEN int_hst /\ UNCHANGED idletime
       ELSE idletime' = FALSE /\ UNCHANGED <<LANai2host, HOST_SIG, next>>
    /\ UNCHANGED <<rcv_pkt_list, mcp, line, dma, PCIavailable, rcvs, dumped>>

\* (A variant that takes the bus without looking.)
GrabBus_Blind ==
    /\ mcp.RcvState = "R1"
    /\ PCIavailable' = FALSE
    /\ mcp' = [mcp EXCEPT !.RcvState = "R2"]
    /\ UNCHANGED <<rcv_pkt_list, line, dma, next, idletime, rcvs, dumped,
                   LANai2host, HOST_SIG>>

\* R1: take the bus.
GrabBus ==
    /\ mcp.RcvState = "R1" /\ PCIavailable
    /\ PCIavailable' = FALSE
    /\ mcp' = [mcp EXCEPT !.RcvState = "R2"]
    /\ UNCHANGED <<rcv_pkt_list, line, dma, next, idletime, rcvs, dumped,
                   LANai2host, HOST_SIG>>

\* R2: all of the packet is in, or the buffer is full; the other buffer is
\* posted.  (A packet is copied in one piece: the thresholds for sending chunks
\* are larger than a buffer.)
BufferDone ==
    /\ mcp.RcvState = "R2" /\ line.stat \in {"in", "full"}
    /\ mcp' = IF line.stat = "full"
              THEN [mcp EXCEPT !.RcvState = "R5", !.expected_len = -1, !.old = line.pkt]
              ELSE [mcp EXCEPT !.RcvState = "R3", !.old = line.pkt]
    /\ Post
    /\ UNCHANGED <<rcv_pkt_list, dma, PCIavailable, next, idletime, rcvs, dumped,
                   LANai2host, HOST_SIG>>

\* R3: start the copy to the host.
PushToHost ==
    /\ mcp.RcvState = "R3" /\ dma = "idle"
    /\ dma' = "busy"
    /\ mcp' = [mcp EXCEPT !.RcvState = "R4"]
    /\ UNCHANGED <<rcv_pkt_list, line, PCIavailable, next, idletime, rcvs, dumped,
                   LANai2host, HOST_SIG>>

\* R4: the copy is done: mark the entry for the host, and free the bus.
Marker(len) ==
    IF mcp.expected_len < len THEN LONG_PKT
    ELSE IF mcp.expected_len > len THEN TRUNC_PKT
    ELSE IF ~mcp.old.crc THEN BAD_CRC_PKT ELSE GOOD_PKT

MarkEntry ==
    /\ mcp.RcvState = "R4" /\ dma = "idle"
    /\ rcv_pkt_list' = [rcv_pkt_list EXCEPT ![mcp.last_rcv_pkt].phys_addr =
                           Marker(Round8(mcp.old.size + 8))]
    /\ mcp' = [mcp EXCEPT !.RcvState = "R0", !.last_rcv_pkt = Advance(@)]
    /\ rcvs' = rcvs + 1 /\ idletime' = TRUE /\ PCIavailable' = TRUE
    /\ UNCHANGED <<line, dma, next, dumped, LANai2host, HOST_SIG>>

\* R5: let the rest of the packet stream in.
Consume ==
    /\ mcp.RcvState = "R5" /\ line.stat \in {"in", "full"}
    /\ mcp' = [mcp EXCEPT !.RcvState = IF line.stat = "full" THEN "R5" ELSE "R0"]
    /\ idletime' = TRUE
    /\ Post
    /\ UNCHANGED <<rcv_pkt_list, dma, PCIavailable, next, rcvs, dumped, LANai2host,
                   HOST_SIG>>

RcvStatem ==
    /\ \/ RcvBegins \/ HostNotReady \/ WaitOver \/ NotForUs \/ Idle \/ GrabBus
       \/ BufferDone \/ PushToHost \/ MarkEntry \/ Consume
    /\ UNCHANGED <<page, sndHolds, hostVars, arrived, loads, scene>>

\* The DMA engine copied the buffer into the page.
DmaDone ==
    /\ dma = "busy" /\ dma' = "idle"
    /\ page' = [page EXCEPT ![(mcp.cur_hst_addr \div 16) - 1] =
                  [pkt |-> mcp.old, copied |-> mcp.cur_len]]
    /\ UNCHANGED <<rcv_pkt_list, mcp, line, PCIavailable, sndHolds, next, idletime,
                   rcvs, dumped, hostVars, LANai2host, HOST_SIG, arrived, loads, scene>>

\* Time passes: int_hst()'s alarm, and rcv_statem's.
IntervalOver ==
    /\ ~next /\ next' = TRUE
    /\ UNCHANGED <<rcv_pkt_list, page, mcp, line, dma, PCIavailable, sndHolds,
                   idletime, rcvs, dumped, hostVars, LANai2host, HOST_SIG,
                   arrived, loads, scene>>
IdleOver ==
    /\ ~idletime /\ idletime' = TRUE
    /\ UNCHANGED <<rcv_pkt_list, page, mcp, line, dma, PCIavailable, sndHolds,
                   next, rcvs, dumped, hostVars, LANai2host, HOST_SIG, arrived,
                   loads, scene>>

\* The send half takes the bus when it is free and gives it back.
SndHalf ==
    /\ mcp.RcvState # "init"
    /\ \/ PCIavailable /\ PCIavailable' = FALSE /\ sndHolds' = TRUE
       \/ sndHolds /\ PCIavailable' = TRUE /\ sndHolds' = FALSE
    /\ UNCHANGED <<rcv_pkt_list, page, mcp, line, dma, next, idletime, rcvs, dumped,
                   hostVars, LANai2host, HOST_SIG, arrived, loads, scene>>

-----------------------------------------------------------------------------
(* The host's interrupt handler.                                           *)

Goes(pc) == host' = [host EXCEPT !.pc = pc]

\* myrpkt_handle_interrupt() turns the card's interrupts off and reads why it
\* was called...
Enter ==
    /\ host.pc = "out" /\ HOST_SIG /\ mcp.RcvState # "init"
    /\ host' = [pc |-> "clear", reason |-> LANai2host]
    /\ UNCHANGED <<rcv_pkt_list, page, num_pkts, num_rcv_pkts, last_pkt, up,
                   LANai2host, HOST_SIG>>

\* ...and then clears the word, with what the card added since.
ClearReason ==
    /\ host.pc = "clear"
    /\ LANai2host' = FALSE
    /\ Goes(IF host.reason THEN "poll" ELSE "leave")
    /\ UNCHANGED <<rcv_pkt_list, page, num_pkts, num_rcv_pkts, last_pkt, up, HOST_SIG>>

\* Pkt_rcvLANai_start() polls for the marker for a while.
Poll ==
    /\ host.pc = "poll"
    /\ Goes(IF rcv_pkt_list[last_pkt].phys_addr \in Markers THEN "packet" ELSE "leave")
    /\ UNCHANGED <<rcv_pkt_list, page, num_pkts, num_rcv_pkts, last_pkt, up,
                   LANai2host, HOST_SIG>>

\* The checks before the header's: a length that is too large asks for recovery,
\* one that is too small or not the header's drops the packet.
LenVerdict_NoLen1(rcvlen, len1) ==
    IF rcvlen > MYRPKT_MTU THEN "recover"
    ELSE IF rcvlen < PktHdrSize THEN "drop" ELSE "ok"
LenVerdict(rcvlen, len1) ==
    IF rcvlen > MYRPKT_MTU THEN "recover"
    ELSE IF rcvlen < PktHdrSize \/ rcvlen # len1 THEN "drop" ELSE "ok"

\* What the header in a page reads: nothing where it was cleared and not copied.
HdrIn(p) == IF p.copied >= PktHdrSize THEN p.pkt.hdr ELSE NoHdr

\* Whether the packet in the entry is passed up, and whether its header was
\* checked.  A packet with a bad CRC skips the checks.
Judge(e) ==
    LET marker == rcv_pkt_list[e].phys_addr
        hdr == HdrIn(page[e])
        len == LenVerdict(rcv_pkt_list[e].len, hdr.len[1])
        checked == check_hdr(hdr)
    IN  IF marker \in {LONG_PKT, TRUNC_PKT} THEN [pass |-> FALSE, checked |-> FALSE]
        ELSE IF marker = BAD_CRC_PKT \/ len = "recover"
             THEN [pass |-> ~do_recovery(hdr), checked |-> FALSE]
        ELSE [pass |-> /\ len = "ok" /\ checked.error = 0
                       /\ checked.warning > 0 => ~do_recovery(checked.hdr),
              checked |-> TRUE]

\* The packet is passed up to rtscts_recv() or dropped, and its header cleared.
Process ==
    LET verdict == Judge(last_pkt)
    IN  /\ host.pc = "packet"
        /\ up' = IF verdict.pass
                 THEN Append(up, [pkt |-> page[last_pkt].pkt, checked |-> verdict.checked,
                                  copied |-> page[last_pkt].copied])
                 ELSE up
        /\ page' = [page EXCEPT ![last_pkt].copied = 0]
        /\ Goes("return")
        /\ UNCHANGED <<rcv_pkt_list, num_pkts, num_rcv_pkts, last_pkt, LANai2host, HOST_SIG>>

\* The page goes back to the card: first its address...
ReturnPage ==
    /\ host.pc = "return"
    /\ rcv_pkt_list' = [rcv_pkt_list EXCEPT ![last_pkt].phys_addr = PhysAddr(last_pkt)]
    /\ Goes("len")
    /\ UNCHANGED <<page, num_pkts, num_rcv_pkts, last_pkt, up, LANai2host, HOST_SIG>>

\* ...then its length, and the card is told how many packets were taken.
ReturnLen ==
    /\ host.pc = "len"
    /\ rcv_pkt_list' = [rcv_pkt_list EXCEPT ![last_pkt].len = MYRPKT_MTU]
    /\ num_pkts' = num_pkts + 1 /\ num_rcv_pkts' = num_pkts + 1
    /\ last_pkt' = Advance(last_pkt)
    /\ Goes("more")
    /\ UNCHANGED <<page, up, LANai2host, HOST_SIG>>

\* See if the next one is already here.  The marker of a good packet is compared
\* without swapping its bytes.
NextIsHere ==
    LET w == rcv_pkt_list[last_pkt].phys_addr
    IN  ntohl(w) = GOOD_PKT \/ w \in Markers \ {GOOD_PKT}
More ==
    /\ host.pc = "more"
    /\ Goes(IF NextIsHere THEN "poll" ELSE "leave")
    /\ UNCHANGED <<rcv_pkt_list, page, num_pkts, num_rcv_pkts, last_pkt, up,
                   LANai2host, HOST_SIG>>

\* The handler clears the interrupt and turns the card's interrupts back on.
Leave ==
    /\ host.pc = "leave"
    /\ HOST_SIG' = FALSE
    /\ host' = OutOfHandler
    /\ UNCHANGED <<rcv_pkt_list, page, num_pkts, num_rcv_pkts, last_pkt, up, LANai2host>>

HandleInterrupt ==
    /\ \/ Enter \/ ClearReason \/ Poll \/ Process \/ ReturnPage \/ ReturnLen
       \/ More \/ Leave
    /\ UNCHANGED <<cardVars, arrived, loads, scene>>

-----------------------------------------------------------------------------
(* Loading an MCP.                                                         *)

\* mcpload replaces the MCP: MCP_init() clears the list and both counts and
\* waits for the host.
LoadMCP ==
    /\ loads < scene.loads /\ loads' = loads + 1
    /\ mcp.RcvState # "init" /\ host.pc = "out"
    /\ mcp' = [FirstState EXCEPT !.RcvState = "init"]
    /\ line' = NoLine /\ dma' = "idle" /\ PCIavailable' = TRUE /\ sndHolds' = FALSE
    /\ next' = TRUE /\ idletime' = TRUE /\ rcvs' = 0 /\ num_rcv_pkts' = 0
    /\ dumped' = {} /\ up' = <<>>
    /\ rcv_pkt_list' = [e \in Entries |-> [phys_addr |-> 0, len |-> AnyLength]]
    /\ LANai2host' = FALSE /\ HOST_SIG' = TRUE
    /\ UNCHANGED <<page, num_pkts, last_pkt, host, arrived, scene>>

\* (A variant that goes on at the entry where the old MCP was left.)
GetHstshmem_KeepIndex ==
    /\ mcp.RcvState = "init" /\ host.pc = "out" /\ HOST_SIG
    /\ rcv_pkt_list' = FreshList
    /\ UNCHANGED last_pkt
    /\ HOST_SIG' = FALSE
    /\ mcp' = [mcp EXCEPT !.RcvState = "R0"]
    /\ UNCHANGED <<page, line, dma, PCIavailable, sndHolds, next, idletime, rcvs,
                   dumped, num_pkts, num_rcv_pkts, host, up, LANai2host, arrived,
                   loads, scene>>

\* The GET_HSTSHMEM interrupt: pkt_init_recv() gives the card all the pages and
\* starts again at entry 0.
GetHstshmem ==
    /\ mcp.RcvState = "init" /\ host.pc = "out" /\ HOST_SIG
    /\ rcv_pkt_list' = FreshList
    /\ last_pkt' = 0
    /\ HOST_SIG' = FALSE
    /\ mcp' = [mcp EXCEPT !.RcvState = "R0"]
    /\ UNCHANGED <<page, line, dma, PCIavailable, sndHolds, next, idletime, rcvs,
                   dumped, num_pkts, num_rcv_pkts, host, up, LANai2host, arrived,
                   loads, scene>>

-----------------------------------------------------------------------------
Next ==
    \/ Arrive \/ LineDone
    \/ RcvStatem \/ DmaDone \/ IntervalOver \/ IdleOver \/ SndHalf
    \/ HandleInterrupt
    \/ LoadMCP \/ GetHstshmem

Spec == Init /\ [][Next]_vars

\* The link, the card's loop, its DMA engine, its clock and the host's handler
\* go on.  The loop calls rcv_statem() after every call of snd_statem(), and it
\* is snd_statem() that frees the bus: the receive half sees the bus free every
\* time it becomes free (strong fairness).
Fairness ==
    /\ WF_vars(LineDone) /\ SF_vars(RcvStatem) /\ WF_vars(DmaDone)
    /\ WF_vars(IntervalOver) /\ WF_vars(IdleOver)
    /\ WF_vars(SndHalf /\ sndHolds)
    /\ WF_vars(HandleInterrupt) /\ WF_vars(GetHstshmem)
FairSpec == Spec /\ Fairness

-----------------------------------------------------------------------------
(* What the receive side promises.                                         *)

RcvStates == {"R0", "R1", "R2", "R3", "R4", "R5", "wait", "init"}
HostStates == {"out", "clear", "poll", "packet", "return", "len", "more", "leave"}
Headers == {NoHdr} \cup UNION {{s.hdr : s \in c.shapes} : c \in Scenarios}
Packet == [id : Nat, wanted : BOOLEAN, len : Nat, size : Nat, crc : BOOLEAN, hdr : Headers]
Registers == [RcvState : RcvStates, last_rcv_pkt : Entries, cur_len : Nat,
              expected_len : Int, cur_hst_addr : Nat, old : Packet]
Stream == [pkt : Packet, left : Nat, stat : {"none", "begun", "in", "full"}]
Passed == [pkt : Packet, checked : BOOLEAN, copied : Nat]

\* The shared entries, the pages, the card's registers, the link and the handler
\* stay within their types.
TypeOK ==
    /\ rcv_pkt_list \in [Entries -> [phys_addr : Nat, len : Nat]]
    /\ page \in [Entries -> [pkt : Packet, copied : Nat]]
    /\ mcp \in Registers /\ line \in Stream /\ dma \in {"idle", "busy"}
    /\ LANai2host \in BOOLEAN /\ host \in [pc : HostStates, reason : BOOLEAN]
    /\ last_pkt \in Entries /\ up \in Seq(Passed)
    /\ rcvs \in Nat /\ arrived \in Nat /\ scene \in Scenarios

\* The type rtscts_recv() is given: repaired, if the header was checked.
UpType(u) == (IF u.checked THEN check_hdr(u.pkt.hdr).hdr ELSE u.pkt.hdr).type[1]
\* A packet whose body matters (class 1 and 3: data, requests to send) is passed
\* up only if it came in undamaged and every byte of it is in the page.  The
\* exception: the card copies a packet it had to wait for a page for with the
\* length of the packet before, and the host writes MYRPKT_MTU over that length;
\* so the last bytes of a packet of this length, within its last word, may miss.
UpIntact ==
    \A i \in DOMAIN up : UpType(up[i]) \notin Class2 =>
        LET p == up[i].pkt
        IN  /\ p.crc /\ p.size = p.len
            /\ \/ up[i].copied = p.len
               \/ p.len = MYRPKT_MTU /\ Round8(up[i].copied) = Round8(p.len)
            /\ check_hdr(p.hdr).error = 0 /\ check_hdr(p.hdr).warning = 0

\* Packets are passed up in the order they came in, each once, across any number
\* of turns of the ring.
UpInOrder == \A i, j \in DOMAIN up : i < j => up[i].pkt.id < up[j].pkt.id

\* The card copies into a page only while the entry says the page is the card's,
\* and never into the one the handler is reading or clearing.
PageApart ==
    dma = "busy" =>
        LET e == (mcp.cur_hst_addr \div 16) - 1
        IN  /\ e = mcp.last_rcv_pkt /\ rcv_pkt_list[e].phys_addr = PhysAddr(e)
            /\ ~(host.pc \in {"packet", "return"} /\ last_pkt = e)

\* A packet the card has marked for the host is taken (the interrupt for it may
\* be throttled, or its reason cleared with an earlier one; the card interrupts
\* again if the host does not consume its packets).
EventuallyTaken ==
    \A e \in Entries : (loads = 0 /\ rcv_pkt_list[e].phys_addr \in Markers)
                          ~> (rcv_pkt_list[e].phys_addr \notin Markers)

\* The card gets done with every packet that begins to come in, and goes back to
\* idle.
EveryPacketEnds ==
    \A k \in 1 .. MaxArrivals : (line.pkt.id = k) ~> (line.pkt.id # k /\ mcp.RcvState = "R0")

=============================================================================
