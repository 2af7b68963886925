------------------------------- MODULE PktCard -------------------------------
(***************************************************************************)
(* The whole card: pkt_state_machine() in MCP/Pkt_statem.c calls           *)
(* rcv_statem() and snd_statem() in turn, for ever.  The two halves share  *)
(* the PCI bus and nothing else.  SndRing models the send half with a      *)
(* receive half that takes the bus when it likes, RcvRing the other way    *)
(* around; here the real halves meet, and each must be what the other      *)
(* module assumed of it.                                                   *)
(***************************************************************************)
EXTENDS Integers, Sequences

CONSTANTS
    MAX_NUM_ROUTES, msgID_SHIFT, MAX_SND_PKT_ENTRIES, MaxPackets, MAX_RCV_PKT_ENTRIES,
    MYRPKT_MTU, PktHdrSize, DBL_BUF_SIZE, Shapes, MaxArrivals,
    Traffic        \* how many packets may be sent and may arrive: packets, arrivals

\* A packet that comes in is in before a receive buffer is full: a buffer is
\* larger than any packet of a driver.
ASSUME ShapesAssumption ==
    DBL_BUF_SIZE \in Nat /\ \A s \in Shapes : s.size \in 0 .. DBL_BUF_SIZE
\* SndRing's assumptions, of the traffic.
ASSUME TrafficAssumption ==
    /\ MAX_SND_PKT_ENTRIES \in Nat /\ MAX_SND_PKT_ENTRIES >= 2 /\ MaxPackets \in Nat
    /\ \A t \in Traffic : t.packets \in 0 .. MaxPackets

VARIABLES
    PCIavailable,  \* the bus flag both halves use
    turn,          \* the half the loop calls next: "rcv" or "snd"
    traffic,       \* the bounds of this behaviour, a member of Traffic
    \* the variables of SndRing
    snd_page_list, snd_last_pkt, next_avail, rdy_to_snd, sender, snd_pkt_list,
    snd_mcp, snd_dma, snd_buf, net, fault, printk, submitted, wire, begun, ioctls,
    \* the variables of RcvRing
    rcv_pkt_list, page, rcv_mcp, line, rcv_dma, LANai2host, HOST_SIG, next,
    idletime, rcvs, num_rcv_pkts, num_pkts, rcv_last_pkt, handler, up, dumped, arrived

sndVars == <<snd_page_list, snd_last_pkt, next_avail, rdy_to_snd, sender, snd_pkt_list,
             snd_mcp, snd_dma, snd_buf, net, fault, printk, submitted, wire, begun,
             ioctls>>
rcvVars == <<rcv_pkt_list, page, rcv_mcp, line, rcv_dma, LANai2host, HOST_SIG, next,
             idletime, rcvs, num_rcv_pkts, num_pkts, rcv_last_pkt, handler, up, dumped,
             arrived>>
vars == <<PCIavailable, turn, traffic, sndVars, rcvVars>>

\* Which half has the bus, by the states between taking it and freeing it.
RcvHolds == rcv_mcp.RcvState \in {"R2", "R3", "R4"}
SndHolds == snd_mcp.SndState \in {"S1", "S2"} /\ ~snd_mcp.pkt_on_LANai

SndScene(n) == [packets |-> n, ioctls |-> 0, loads |-> 0, sendWhileLoading |-> FALSE]
RcvScene(n) == [shapes |-> Shapes, arrivals |-> n, loads |-> 0]
Snd == INSTANCE SndRing WITH
    Scenarios <- {SndScene(t.packets) : t \in Traffic},
    scene <- SndScene(traffic.packets), loads <- 0,
    last_pkt <- snd_last_pkt, host <- sender, mcp <- snd_mcp, dma <- snd_dma,
    rcvHolds <- RcvHolds
Rcv == INSTANCE RcvRing WITH
    Scenarios <- {RcvScene(t.arrivals) : t \in Traffic},
    scene <- RcvScene(traffic.arrivals), loads <- 0, last_pkt <- rcv_last_pkt, host <- handler,
    mcp <- rcv_mcp, dma <- rcv_dma, sndHolds <- SndHolds

Init ==
    /\ traffic \in Traffic
    /\ rcv_mcp = Rcv!FirstState /\ snd_mcp = Snd!FirstState
    /\ Snd!Init /\ Rcv!Init /\ turn = "rcv"

\* A call of a half that finds nothing to do in its state returns.
RcvWaits ==
    LET state == rcv_mcp.RcvState
    IN  \/ state = "R0" /\ line.stat = "none" /\ ~idletime
        \/ state = "R1" /\ ~PCIavailable
        \/ state \in {"R2", "R5"} /\ line.stat \notin {"in", "full"}
        \/ state \in {"R3", "R4"} /\ rcv_dma = "busy"
SndWaits ==
    LET state == snd_mcp.SndState
        onCard == snd_mcp.pkt_on_LANai
    IN  \/ state = "S0" /\ (~PCIavailable \/ snd_pkt_list[snd_mcp.last_snd_pkt].phys_addr = 0)
        \/ state = "S1" /\ net # "ready" /\ (snd_dma # "done" \/ onCard)
        \/ state = "S2" /\ net # "opened" /\ (snd_dma # "done" \/ onCard)
        \/ state = "S2" /\ snd_dma # "done" /\ ~onCard

Turn == IF rcv_mcp'.RcvState = "wait" THEN "rcv" ELSE "snd"
Loop ==
    \/ /\ turn = "rcv"
       /\ UNCHANGED <<traffic, sndVars>>
       /\ Rcv!RcvStatem \/ (RcvWaits /\ UNCHANGED <<PCIavailable, rcvVars>>)
       /\ turn' = Turn
    \/ /\ turn = "snd"
       /\ UNCHANGED <<traffic, rcvVars>>
       /\ Snd!SndStatem \/ (SndWaits /\ UNCHANGED <<PCIavailable, sndVars>>)
       /\ turn' = "rcv"

\* What goes on beside the loop: the senders, the links, the DMA engine, the
\* clock and the interrupt handler.
RcvStays == UNCHANGED <<turn, traffic, rcvVars>>
SndStays == UNCHANGED <<turn, traffic, sndVars>>
SndBeside ==
    /\ RcvStays
    /\ (\E s \in Snd!Senders : Snd!HostStep(s)) \/ Snd!DmaDone \/ Snd!LinkDone
RcvBeside ==
    /\ SndStays
    /\ \/ Rcv!Arrive \/ Rcv!LineDone \/ Rcv!DmaDone \/ Rcv!IntervalOver
       \/ Rcv!IdleOver \/ Rcv!HandleInterrupt

Next == Loop \/ SndBeside \/ RcvBeside

Spec == Init /\ [][Next]_vars

\* Only weak fairness: the loop runs; a sender that has begun, the links and the
\* DMA engine go on; time passes; the handler runs.
SndGoesOn ==
    /\ RcvStays
    /\ \/ Snd!DmaDone \/ Snd!LinkDone
       \/ \E s \in Snd!Senders : sender[s].pc # "idle" /\ Snd!HostStep(s)
RcvGoesOn == SndStays /\ (Rcv!LineDone \/ Rcv!DmaDone)
Fairness ==
    /\ WF_vars(Loop) /\ WF_vars(SndGoesOn) /\ WF_vars(RcvGoesOn)
    /\ WF_vars(SndStays /\ Rcv!IntervalOver) /\ WF_vars(SndStays /\ Rcv!IdleOver)
    /\ WF_vars(SndStays /\ Rcv!HandleInterrupt)
FairSpec == Spec /\ Fairness

-----------------------------------------------------------------------------
\* The card's bus flag says free exactly when neither half has the bus, and the
\* two never have it together: neither DMA runs while the other one does.
BusExclusive ==
    /\ PCIavailable = (~RcvHolds /\ ~SndHolds)
    /\ ~(RcvHolds /\ SndHolds)
    /\ ~(snd_dma = "busy" /\ rcv_dma = "busy")

\* With its real other half, the send half behaves as SndRing says it does: what
\* was checked of SndRing holds on the card.
ImplementsSndRing == Snd!Spec

\* With its real other half, the receive half behaves as RcvRing says it does.
ImplementsRcvRing == Rcv!Spec

=============================================================================
