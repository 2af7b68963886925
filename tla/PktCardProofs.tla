---------------------------- MODULE PktCardProofs ----------------------------
(***************************************************************************)
(* On the card each half of the MCP is what the other half's module takes  *)
(* it for: the composition refines SndRing and RcvRing, for any sizes of   *)
(* the rings, any traffic and any kind of packet that fits a buffer.       *)
(*                                                                         *)
(* The argument is one invariant about the bus (CardInv): the flag is down *)
(* exactly while one of the halves is in a state between taking the bus    *)
(* and freeing it, and the DMA engine works for that half only.            *)
(***************************************************************************)
EXTENDS PktCard, TLAPS

RcvCalls == {"R0", "R1", "R2", "R3", "R4", "R5", "wait"}
SndCalls == {"S0", "S1", "S2"}

\* The registers that say who has the bus.
Registers ==
    /\ "RcvState" \in DOMAIN rcv_mcp /\ rcv_mcp.RcvState \in RcvCalls
    /\ "SndState" \in DOMAIN snd_mcp /\ snd_mcp.SndState \in SndCalls
    /\ "pkt_on_LANai" \in DOMAIN snd_mcp /\ snd_mcp.pkt_on_LANai \in BOOLEAN
\* A packet is in before its buffer is full.
LineFits ==
    /\ "stat" \in DOMAIN line /\ "left" \in DOMAIN line
    /\ line.stat # "full" /\ line.left \in 0 .. DBL_BUF_SIZE
CardInv ==
    /\ Registers /\ LineFits
    /\ fault = FALSE /\ PCIavailable \in BOOLEAN
    /\ PCIavailable <=> ~RcvHolds /\ ~SndHolds
    /\ ~(RcvHolds /\ SndHolds)
    /\ snd_dma = "busy" => SndHolds
    /\ rcv_dma = "busy" => rcv_mcp.RcvState = "R4"

-----------------------------------------------------------------------------
(* What a call of a half does to the bus.                                  *)

\* A call of rcv_statem() that leaves the bus alone, takes it or frees it.
RcvKeeps == RcvHolds' <=> RcvHolds
LEMMA RcvCall ==
    ASSUME CardInv, Rcv!RcvStatem
    PROVE  /\ "RcvState" \in DOMAIN rcv_mcp' /\ rcv_mcp'.RcvState \in RcvCalls
           /\ LineFits'
           /\ \/ PCIavailable' = PCIavailable /\ RcvKeeps
              \/ /\ PCIavailable = TRUE /\ PCIavailable' = FALSE /\ ~RcvHolds /\ RcvHolds'
              \/ /\ RcvHolds /\ PCIavailable' = TRUE /\ ~RcvHolds'
           /\ rcv_dma' = "busy" => rcv_mcp'.RcvState = "R4"
  <1> USE DEF RcvKeeps
  <1>0. Registers /\ LineFits /\ PCIavailable \in BOOLEAN
    BY DEF CardInv
  <1>1. CASE Rcv!RcvBegins
    BY <1>0, <1>1 DEF CardInv, Registers, LineFits, RcvCalls, RcvHolds, Rcv!RcvBegins
  <1>2. CASE Rcv!HostNotReady
    BY <1>0, <1>2 DEF CardInv, Registers, LineFits, RcvCalls, RcvHolds, Rcv!HostNotReady
  <1>3. CASE Rcv!WaitOver
    BY <1>0, <1>3, Zenon DEF CardInv, Registers, LineFits, RcvCalls, RcvHolds, Rcv!WaitOver
  <1>4. CASE Rcv!NotForUs
    BY <1>0, <1>4 DEF CardInv, Registers, LineFits, RcvCalls, RcvHolds, Rcv!NotForUs
  <1>5. CASE Rcv!Idle
    BY <1>0, <1>5 DEF CardInv, Registers, LineFits, RcvCalls, RcvHolds, Rcv!Idle
  <1>6. CASE Rcv!GrabBus
    BY <1>0, <1>6 DEF CardInv, Registers, LineFits, RcvCalls, RcvHolds, Rcv!GrabBus
  <1>7. CASE Rcv!BufferDone
    <2>1. line' = Rcv!NoLine
      BY <1>0, <1>7 DEF LineFits, Rcv!BufferDone, Rcv!Post
    <2>2. LineFits'
      BY <2>1, ShapesAssumption DEF LineFits, Rcv!NoLine
    <2> QED BY <1>0, <1>7, <2>2
            DEF CardInv, Registers, LineFits, RcvCalls, RcvHolds, Rcv!BufferDone
  <1>8. CASE Rcv!PushToHost
    BY <1>0, <1>8 DEF CardInv, Registers, LineFits, RcvCalls, RcvHolds, Rcv!PushToHost
  <1>9. CASE Rcv!MarkEntry
    BY <1>0, <1>9 DEF CardInv, Registers, LineFits, RcvCalls, RcvHolds, Rcv!MarkEntry
  <1>10. CASE Rcv!Consume
    <2>1. line' = Rcv!NoLine
      BY <1>0, <1>10 DEF LineFits, Rcv!Consume, Rcv!Post
    <2>2. LineFits'
      BY <2>1, ShapesAssumption DEF LineFits, Rcv!NoLine
    <2> QED BY <1>0, <1>10, <2>2
            DEF CardInv, Registers, LineFits, RcvCalls, RcvHolds, Rcv!Consume
  <1> QED BY <1>1, <1>2, <1>3, <1>4, <1>5, <1>6, <1>7, <1>8, <1>9, <1>10, ZenonT(40) DEF Rcv!RcvStatem

\* A call of snd_statem() leaves the bus alone, takes it or frees it; the MCP's
\* assertions on the flag do not fire.
LEMMA SndCall ==
    ASSUME CardInv, Snd!SndStatem
    PROVE  /\ "SndState" \in DOMAIN snd_mcp' /\ snd_mcp'.SndState \in SndCalls
           /\ "pkt_on_LANai" \in DOMAIN snd_mcp' /\ snd_mcp'.pkt_on_LANai \in BOOLEAN
           /\ fault' = FALSE
           /\ \/ PCIavailable' = PCIavailable /\ (SndHolds' <=> SndHolds)
              \/ /\ PCIavailable = TRUE /\ PCIavailable' = FALSE /\ ~SndHolds /\ SndHolds'
              \/ /\ SndHolds /\ PCIavailable' = TRUE /\ ~SndHolds'
           /\ snd_dma' = "busy" => SndHolds'
  <1>0. /\ Registers /\ fault = FALSE /\ PCIavailable \in BOOLEAN
        /\ SndHolds => PCIavailable = FALSE
        /\ PCIavailable = TRUE => ~SndHolds
        /\ snd_dma = "busy" => SndHolds
    BY DEF CardInv
  <1>1. CASE Snd!SndS0
    <2>1. /\ PCIavailable = TRUE /\ PCIavailable' = FALSE /\ fault' = FALSE
      BY <1>0, <1>1, Zenon DEF Snd!SndS0, Snd!GrabPCI
    <2>2. /\ "SndState" \in DOMAIN snd_mcp' /\ snd_mcp'.SndState \in {"S1", "S2"}
          /\ "pkt_on_LANai" \in DOMAIN snd_mcp' /\ snd_mcp'.pkt_on_LANai = FALSE
      BY <1>0, <1>1 DEF Snd!SndS0, Registers
    <2> QED BY <1>0, <2>1, <2>2, Zenon DEF SndHolds, SndCalls
  <1>2. CASE Snd!SndS1
    <2>1. /\ "SndState" \in DOMAIN snd_mcp' /\ snd_mcp'.SndState \in {"S1", "S2"}
          /\ "pkt_on_LANai" \in DOMAIN snd_mcp'
          /\ snd_mcp'.pkt_on_LANai = (snd_mcp.pkt_on_LANai \/ snd_dma = "done")
          /\ snd_mcp.SndState = "S1" /\ snd_dma' = snd_dma
      BY <1>0, <1>2, Zenon DEF Snd!SndS1, Registers, Snd!CardUp
    <2>2. CASE snd_dma = "done" /\ ~snd_mcp.pkt_on_LANai
      <3>1. SndHolds
        BY <2>1, <2>2 DEF SndHolds
      <3>2. PCIavailable' = TRUE /\ fault' = FALSE
        BY <1>0, <1>2, <2>2, <3>1 DEF Snd!SndS1, Snd!ReleaseBus, Snd!FreePCI
      <3>3. snd_mcp'.pkt_on_LANai = TRUE
        BY <2>1, <2>2, Zenon
      <3> QED BY <2>1, <2>2, <3>1, <3>2, <3>3, Zenon DEF SndHolds, SndCalls
    <2>3. CASE ~(snd_dma = "done" /\ ~snd_mcp.pkt_on_LANai)
      <3>1. PCIavailable' = PCIavailable /\ fault' = FALSE
        BY <1>0, <1>2, <2>3 DEF Snd!SndS1, Snd!ReleaseBus, Snd!KeepPCI
      <3>2. snd_mcp'.pkt_on_LANai = snd_mcp.pkt_on_LANai
        BY <1>0, <2>1, <2>3 DEF Registers
      <3> QED BY <1>0, <2>1, <3>1, <3>2 DEF SndHolds, SndCalls, Registers
    <2> QED BY <2>2, <2>3, Zenon
  <1>3. CASE Snd!SndS2
    <2>0. snd_mcp.SndState = "S2" /\ snd_dma' = snd_dma
      BY <1>3 DEF Snd!SndS2, Snd!CardUp
    <2>1. CASE /\ snd_mcp.pkt_on_LANai \/ snd_dma = "done"
               /\ snd_mcp' = [snd_mcp EXCEPT !.SndState = "S0",
                                !.last_snd_pkt = Snd!Advance(snd_mcp.last_snd_pkt),
                                !.sent = [dest |-> snd_mcp.cur_dest, buf |-> snd_mcp.cur_buf]]
               /\ IF snd_mcp.pkt_on_LANai THEN Snd!KeepPCI ELSE Snd!FreePCI
      <3>1. /\ "SndState" \in DOMAIN snd_mcp' /\ snd_mcp'.SndState = "S0"
            /\ "pkt_on_LANai" \in DOMAIN snd_mcp'
            /\ snd_mcp'.pkt_on_LANai = snd_mcp.pkt_on_LANai
        BY <1>0, <2>1 DEF Registers
      <3>2. snd_dma # "busy"
        BY <1>0, <2>1 DEF SndHolds
      <3> QED BY <1>0, <2>0, <2>1, <3>1, <3>2
              DEF SndHolds, SndCalls, Registers, Snd!KeepPCI, Snd!FreePCI
    <2>2. CASE /\ snd_dma = "done" /\ ~snd_mcp.pkt_on_LANai
               /\ snd_mcp' = [snd_mcp EXCEPT !.pkt_on_LANai = TRUE] /\ Snd!FreePCI
      <3>1. /\ "SndState" \in DOMAIN snd_mcp' /\ snd_mcp'.SndState = "S2"
            /\ "pkt_on_LANai" \in DOMAIN snd_mcp' /\ snd_mcp'.pkt_on_LANai = TRUE
        BY <1>0, <2>0, <2>2 DEF Registers
      <3> QED BY <1>0, <2>0, <2>2, <3>1, Zenon DEF SndHolds, SndCalls, Snd!FreePCI
    <2> QED BY <1>3, <2>1, <2>2, Zenon DEF Snd!SndS2
  <1> QED BY <1>1, <1>2, <1>3, Zenon DEF Snd!SndStatem

-----------------------------------------------------------------------------
(* What goes on beside the loop leaves the bus alone.                      *)

\* A sender on the host does not touch the card's registers.
LEMMA SenderBeside ==
    ASSUME NEW s, Snd!HostStep(s)
    PROVE  UNCHANGED <<snd_mcp, snd_dma, PCIavailable, fault>>
  BY Zenon DEF Snd!HostStep, Snd!GetSndPage, Snd!TakePage, Snd!FillPage, Snd!FreeSndPage,
         Snd!MyrPktXmit, Snd!FillEntry, Snd!WritePhysAddr, Snd!MarkSending, Snd!cardVars

\* Neither do the DMA engine and the link on the way out.
LEMMA SndBesideIs ==
    ASSUME SndBeside
    PROVE  /\ UNCHANGED <<snd_mcp, PCIavailable, fault, rcv_mcp, rcv_dma, line>>
           /\ snd_dma' = "busy" => snd_dma = "busy"
  <1>1. UNCHANGED <<rcv_mcp, rcv_dma, line>>
    BY DEF SndBeside, RcvStays, rcvVars
  <1>2. CASE \E s \in Snd!Senders : Snd!HostStep(s)
    BY <1>1, <1>2, SenderBeside
  <1>3. CASE Snd!DmaDone
    BY <1>1, <1>3 DEF Snd!DmaDone
  <1>4. CASE Snd!LinkDone
    BY <1>1, <1>4 DEF Snd!LinkDone
  <1> QED BY <1>2, <1>3, <1>4 DEF SndBeside

\* On the way in, packets fit their buffers.
LEMMA RcvBesideIs ==
    ASSUME CardInv, RcvBeside
    PROVE  /\ UNCHANGED <<snd_mcp, snd_dma, PCIavailable, fault, rcv_mcp>>
           /\ rcv_dma' = "busy" => rcv_dma = "busy"
           /\ LineFits'
  <1>1. UNCHANGED <<snd_mcp, snd_dma, fault>>
    BY DEF RcvBeside, SndStays, sndVars
  <1>2. LineFits
    BY DEF CardInv
  <1>3. CASE Rcv!Arrive
    <2>1. PICK s \in Shapes : line' = [pkt |-> [id |-> arrived + 1, wanted |-> s.wanted,
                                  len |-> s.len, size |-> s.size, crc |-> s.crc,
                                  hdr |-> s.hdr], left |-> s.size, stat |-> "begun"]
      BY <1>3, Zenon DEF Rcv!Arrive, RcvScene
    <2>2. LineFits'
      BY <2>1, ShapesAssumption DEF LineFits
    <2> QED BY <1>1, <1>3, <2>2 DEF Rcv!Arrive
  <1>4. CASE Rcv!LineDone
    <2>1. line' = [line EXCEPT !.stat = "in", !.left = 0]
      BY <1>2, <1>4, ShapesAssumption DEF Rcv!LineDone, LineFits
    <2>2. LineFits'
      BY <1>2, <2>1, ShapesAssumption DEF LineFits
    <2> QED BY <1>1, <1>4, <2>2 DEF Rcv!LineDone
  <1>5. CASE Rcv!DmaDone
    BY <1>1, <1>2, <1>5 DEF Rcv!DmaDone, LineFits
  <1>6. CASE Rcv!IntervalOver \/ Rcv!IdleOver
    BY <1>1, <1>2, <1>6 DEF Rcv!IntervalOver, Rcv!IdleOver, LineFits
  <1>7. CASE Rcv!HandleInterrupt
    BY <1>1, <1>2, <1>7 DEF Rcv!HandleInterrupt, Rcv!cardVars, LineFits
  <1> QED BY <1>3, <1>4, <1>5, <1>6, <1>7 DEF RcvBeside

-----------------------------------------------------------------------------
(* The invariant.                                                          *)

\* Each half's variables are the other's to leave alone.
LEMMA SndStill ==
    ASSUME UNCHANGED snd_mcp
    PROVE  SndHolds' <=> SndHolds
  BY DEF SndHolds

LEMMA RcvStill ==
    ASSUME UNCHANGED rcv_mcp
    PROVE  RcvHolds' <=> RcvHolds
  BY DEF RcvHolds

\* Every step keeps the invariant about the bus.
LEMMA CardStep == CardInv /\ [Next]_vars => CardInv'
  <1> SUFFICES ASSUME CardInv, [Next]_vars PROVE CardInv'
    OBVIOUS
  <1>0. /\ Registers /\ LineFits /\ fault = FALSE /\ PCIavailable \in BOOLEAN
        /\ PCIavailable <=> ~RcvHolds /\ ~SndHolds
        /\ ~(RcvHolds /\ SndHolds)
        /\ snd_dma = "busy" => SndHolds
        /\ rcv_dma = "busy" => rcv_mcp.RcvState = "R4"
    BY DEF CardInv
  <1>1. ASSUME UNCHANGED sndVars, Rcv!RcvStatem PROVE CardInv'
    <2>1. UNCHANGED <<snd_mcp, snd_dma, fault>> /\ (SndHolds' <=> SndHolds)
      BY <1>1, SndStill DEF sndVars
    <2>2. Registers'
      BY <1>0, <1>1, <2>1, RcvCall DEF Registers
    <2>3. /\ LineFits' /\ fault' = FALSE
          /\ snd_dma' = "busy" => SndHolds'
          /\ rcv_dma' = "busy" => rcv_mcp'.RcvState = "R4"
      BY <1>0, <1>1, <2>1, <2>2, RcvCall
    <2>4. CASE PCIavailable' = PCIavailable /\ (RcvHolds' <=> RcvHolds)
      BY <1>0, <2>1, <2>2, <2>3, <2>4, Zenon DEF CardInv
    <2>5. CASE PCIavailable = TRUE /\ PCIavailable' = FALSE /\ ~RcvHolds /\ RcvHolds'
      BY <1>0, <2>1, <2>2, <2>3, <2>5, Zenon DEF CardInv
    <2>6. CASE RcvHolds /\ PCIavailable' = TRUE /\ ~RcvHolds'
      BY <1>0, <2>1, <2>2, <2>3, <2>6, Zenon DEF CardInv
    <2> QED BY <1>1, <2>4, <2>5, <2>6, RcvCall, Zenon DEF RcvKeeps
  <1>2. ASSUME UNCHANGED rcvVars, Snd!SndStatem PROVE CardInv'
    <2>1. UNCHANGED <<rcv_mcp, rcv_dma, line>> /\ (RcvHolds' <=> RcvHolds)
      BY <1>2, RcvStill DEF rcvVars
    <2>2. Registers' /\ LineFits'
      BY <1>0, <1>2, <2>1, SndCall DEF Registers, LineFits
    <2>3. /\ LineFits' /\ fault' = FALSE
          /\ snd_dma' = "busy" => SndHolds'
          /\ rcv_dma' = "busy" => rcv_mcp'.RcvState = "R4"
      BY <1>0, <1>2, <2>1, <2>2, SndCall
    <2>4. CASE PCIavailable' = PCIavailable /\ (SndHolds' <=> SndHolds)
      BY <1>0, <2>1, <2>2, <2>3, <2>4, Zenon DEF CardInv
    <2>5. CASE PCIavailable = TRUE /\ PCIavailable' = FALSE /\ ~SndHolds /\ SndHolds'
      BY <1>0, <2>1, <2>2, <2>3, <2>5, Zenon DEF CardInv
    <2>6. CASE SndHolds /\ PCIavailable' = TRUE /\ ~SndHolds'
      BY <1>0, <2>1, <2>2, <2>3, <2>6, Zenon DEF CardInv
    <2> QED BY <1>2, <2>4, <2>5, <2>6, SndCall, Zenon
  <1>3. ASSUME UNCHANGED <<rcv_mcp, snd_mcp, PCIavailable, fault>>, LineFits',
               snd_dma' = "busy" => snd_dma = "busy", rcv_dma' = "busy" => rcv_dma = "busy"
        PROVE  CardInv'
    <2>1. (SndHolds' <=> SndHolds) /\ (RcvHolds' <=> RcvHolds)
      BY <1>3, SndStill, RcvStill
    <2>2. Registers'
      BY <1>0, <1>3 DEF Registers
    <2> QED BY <1>0, <1>3, <2>1, <2>2 DEF CardInv
  <1>4. CASE Loop
    <2>1. ASSUME UNCHANGED <<sndVars, PCIavailable, rcvVars>> PROVE CardInv'
      BY <1>0, <1>3, <2>1 DEF sndVars, rcvVars, LineFits
    <2> QED BY <1>1, <1>2, <1>4, <2>1 DEF Loop
  <1>5. CASE SndBeside
    BY <1>0, <1>3, <1>5, SndBesideIs DEF LineFits
  <1>6. CASE RcvBeside
    BY <1>3, <1>6, RcvBesideIs
  <1>7. CASE UNCHANGED vars
    BY <1>0, <1>3, <1>7 DEF vars, sndVars, rcvVars, LineFits
  <1> QED BY <1>4, <1>5, <1>6, <1>7 DEF Next

\* The invariant about the bus.
THEOREM Invariant == Spec => []CardInv
  <1>1. Init => CardInv
    <2> SUFFICES ASSUME Init PROVE CardInv
      OBVIOUS
    <2>1. /\ rcv_mcp = Rcv!FirstState /\ snd_mcp = Snd!FirstState /\ line = Rcv!NoLine
          /\ fault = FALSE /\ PCIavailable = TRUE /\ snd_dma = "idle" /\ rcv_dma = "idle"
      BY DEF Init, Snd!Init, Rcv!Init
    <2>2. Registers /\ ~RcvHolds /\ ~SndHolds
      BY <2>1 DEF Registers, RcvHolds, SndHolds, Rcv!FirstState, Snd!FirstState, RcvCalls,
                  SndCalls
    <2>3. LineFits
      BY <2>1, ShapesAssumption DEF LineFits, Rcv!NoLine
    <2> QED BY <2>1, <2>2, <2>3 DEF CardInv
  <1> QED BY <1>1, CardStep, PTL DEF Spec

\* The card's bus flag says free exactly when neither half has the bus, and the
\* two halves never have it, nor move data over it, together.
THEOREM BusSafe == Spec => []BusExclusive
  <1>1. CardInv => BusExclusive
    <2> SUFFICES ASSUME CardInv PROVE BusExclusive
      OBVIOUS
    <2>1. PCIavailable = (~RcvHolds /\ ~SndHolds)
      BY Zenon DEF CardInv
    <2>2. ~(snd_dma = "busy" /\ rcv_dma = "busy")
      BY DEF CardInv, RcvHolds
    <2> QED BY <2>1, <2>2 DEF CardInv, BusExclusive
  <1> QED BY <1>1, Invariant, PTL

-----------------------------------------------------------------------------
(* The refinements.                                                        *)

\* A step of the card is a step of SndRing: its own, one of the receive half
\* with the bus, or none.
LEMMA SndSim == CardInv /\ [Next]_vars => [Snd!Next]_(Snd!vars)
  <1> SUFFICES ASSUME CardInv, [Next]_vars PROVE Snd!Next \/ UNCHANGED Snd!vars
    BY Zenon
  <1>0. /\ fault = FALSE /\ PCIavailable \in BOOLEAN /\ snd_mcp.SndState \in SndCalls
        /\ RcvHolds => ~PCIavailable
    BY DEF CardInv, Registers
  <1>1. ASSUME UNCHANGED <<traffic, sndVars>>, PCIavailable' = PCIavailable,
               RcvHolds' <=> RcvHolds
        PROVE  UNCHANGED Snd!vars
    <2>1. RcvHolds' = RcvHolds
      BY <1>1, Zenon
    <2> QED BY <1>1, <2>1, Zenon
            DEF sndVars, Snd!vars, Snd!hostVars, Snd!cardVars, SndScene
  <1>2. ASSUME UNCHANGED <<traffic, sndVars>>, Rcv!RcvStatem
        PROVE  Snd!Next \/ UNCHANGED Snd!vars
    <2>0. /\ UNCHANGED <<Snd!hostVars, snd_mcp, snd_dma, snd_buf, net, wire, snd_pkt_list,
                          submitted>>
          /\ SndScene(traffic.packets)' = SndScene(traffic.packets) /\ fault' = fault
      BY <1>2 DEF sndVars, Snd!hostVars, SndScene
    <2>1. Snd!CardUp({"S0", "S1", "S2"})
      BY <1>0 DEF Snd!CardUp, SndCalls
    <2>2. CASE PCIavailable = TRUE /\ PCIavailable' = FALSE /\ ~RcvHolds /\ RcvHolds'
      <3>1. RcvHolds' = TRUE /\ Snd!GrabPCI /\ PCIavailable
        BY <1>0, <2>0, <2>2, Zenon DEF Snd!GrabPCI
      <3> QED BY <2>0, <2>1, <3>1, Zenon DEF Snd!Next, Snd!RcvHalf
    <2>3. CASE RcvHolds /\ PCIavailable' = TRUE /\ ~RcvHolds'
      <3>1. RcvHolds' = FALSE
        BY <2>3 DEF RcvHolds
      <3>2. PCIavailable = FALSE
        BY <1>0, <2>3
      <3>3. Snd!FreePCI
        BY <1>0, <2>0, <2>3, <3>2, Zenon DEF Snd!FreePCI
      <3> QED BY <2>0, <2>1, <2>3, <3>1, <3>3, Zenon DEF Snd!Next, Snd!RcvHalf
    <2>4. CASE PCIavailable' = PCIavailable /\ (RcvHolds' <=> RcvHolds)
      BY <1>1, <1>2, <2>4, Zenon
    <2>5. \/ PCIavailable' = PCIavailable /\ (RcvHolds' <=> RcvHolds)
          \/ PCIavailable = TRUE /\ PCIavailable' = FALSE /\ ~RcvHolds /\ RcvHolds'
          \/ RcvHolds /\ PCIavailable' = TRUE /\ ~RcvHolds'
      BY <1>2, RcvCall, Zenon DEF RcvKeeps
    <2> QED BY <2>2, <2>3, <2>4, <2>5, Zenon
  <1>3. CASE Loop
    <2>1. CASE /\ UNCHANGED <<traffic, sndVars>>
               /\ Rcv!RcvStatem \/ UNCHANGED <<PCIavailable, rcvVars>>
      BY <1>1, <1>2, <2>1, RcvStill DEF rcvVars
    <2>2. CASE Snd!SndStatem
      BY <2>2 DEF Snd!Next, Snd!CardNext
    <2>3. CASE UNCHANGED <<traffic, rcvVars, PCIavailable, sndVars>>
      BY <1>1, <2>3, RcvStill DEF rcvVars
    <2> QED BY <1>3, <2>1, <2>2, <2>3 DEF Loop
  <1>4. CASE SndBeside
    BY <1>4 DEF SndBeside, Snd!Next, Snd!CardNext
  <1>5. CASE RcvBeside
    BY <1>1, <1>5, RcvBesideIs, RcvStill DEF RcvBeside, SndStays
  <1>6. CASE UNCHANGED vars
    BY <1>1, <1>6, RcvStill DEF vars, rcvVars
  <1> QED BY <1>3, <1>4, <1>5, <1>6 DEF Next

\* A step of the card is a step of RcvRing: its own, one of the send half with
\* the bus, or none.
LEMMA RcvSim == CardInv /\ [Next]_vars => [Rcv!Next]_(Rcv!vars)
  <1> SUFFICES ASSUME CardInv, [Next]_vars PROVE Rcv!Next \/ UNCHANGED Rcv!vars
    BY Zenon
  <1>0. PCIavailable \in BOOLEAN /\ rcv_mcp.RcvState # "init"
    BY DEF CardInv, Registers, RcvCalls
  <1>1. ASSUME UNCHANGED <<traffic, rcvVars>>, PCIavailable' = PCIavailable,
               SndHolds' <=> SndHolds
        PROVE  UNCHANGED Rcv!vars
    <2>1. SndHolds' = SndHolds
      BY <1>1, Zenon
    <2> QED BY <1>1, <2>1, Zenon
            DEF rcvVars, Rcv!vars, Rcv!hostVars, Rcv!cardVars, RcvScene
  <1>2. ASSUME UNCHANGED <<traffic, rcvVars>>, Snd!SndStatem
        PROVE  Rcv!Next \/ UNCHANGED Rcv!vars
    <2>0. /\ UNCHANGED <<rcv_pkt_list, page, rcv_mcp, line, rcv_dma, next, idletime, rcvs,
                          dumped, Rcv!hostVars, LANai2host, HOST_SIG, arrived>>
          /\ RcvScene(traffic.arrivals)' = RcvScene(traffic.arrivals)
      BY <1>2 DEF rcvVars, Rcv!hostVars, RcvScene
    <2>2. CASE PCIavailable = TRUE /\ PCIavailable' = FALSE /\ ~SndHolds /\ SndHolds'
      <3>1. SndHolds' = TRUE /\ PCIavailable
        BY <2>2, Zenon
      <3> QED BY <1>0, <2>0, <2>2, <3>1, Zenon DEF Rcv!Next, Rcv!SndHalf
    <2>3. CASE SndHolds /\ PCIavailable' = TRUE /\ ~SndHolds'
      <3>1. SndHolds' = FALSE
        BY <2>3, Zenon DEF SndHolds
      <3> QED BY <1>0, <2>0, <2>3, <3>1, Zenon DEF Rcv!Next, Rcv!SndHalf
    <2>4. CASE PCIavailable' = PCIavailable /\ (SndHolds' <=> SndHolds)
      BY <1>1, <1>2, <2>4, Zenon
    <2>5. \/ PCIavailable' = PCIavailable /\ (SndHolds' <=> SndHolds)
          \/ PCIavailable = TRUE /\ PCIavailable' = FALSE /\ ~SndHolds /\ SndHolds'
          \/ SndHolds /\ PCIavailable' = TRUE /\ ~SndHolds'
      BY <1>2, SndCall, Zenon
    <2> QED BY <2>2, <2>3, <2>4, <2>5, Zenon
  <1>3. CASE Loop
    <2>1. CASE /\ UNCHANGED <<traffic, rcvVars>>
               /\ Snd!SndStatem \/ UNCHANGED <<PCIavailable, sndVars>>
      BY <1>1, <1>2, <2>1, SndStill DEF sndVars
    <2>2. CASE Rcv!RcvStatem
      BY <2>2 DEF Rcv!Next
    <2>3. CASE UNCHANGED <<traffic, rcvVars, PCIavailable, sndVars>>
      BY <1>1, <2>3, SndStill DEF sndVars
    <2> QED BY <1>3, <2>1, <2>2, <2>3 DEF Loop
  <1>4. CASE SndBeside
    BY <1>1, <1>4, SndBesideIs, SndStill DEF SndBeside, RcvStays
  <1>5. CASE RcvBeside
    BY <1>5 DEF RcvBeside, Rcv!Next
  <1>6. CASE UNCHANGED vars
    BY <1>1, <1>6, SndStill DEF vars, sndVars
  <1> QED BY <1>3, <1>4, <1>5, <1>6 DEF Next

\* With its real other half, snd_statem() behaves as SndRing says.
THEOREM SendHalf == Spec => ImplementsSndRing
  <1>1. Init => Snd!Init
    BY DEF Init
  <1> QED BY <1>1, SndSim, Invariant, PTL DEF Spec, ImplementsSndRing, Snd!Spec

\* With its real other half, rcv_statem() behaves as RcvRing says.
THEOREM ReceiveHalf == Spec => ImplementsRcvRing
  <1>1. Init => Rcv!Init
    BY DEF Init
  <1> QED BY <1>1, RcvSim, Invariant, PTL DEF Spec, ImplementsRcvRing, Rcv!Spec

-----------------------------------------------------------------------------
(* What was proved of SndRing holds on the card.                           *)

SndP == INSTANCE SndRingProofs WITH
    Scenarios <- {SndScene(t.packets) : t \in Traffic},
    scene <- SndScene(traffic.packets), loads <- 0,
    last_pkt <- snd_last_pkt, host <- sender, mcp <- snd_mcp, dma <- snd_dma,
    rcvHolds <- RcvHolds

\* The card's constants are constants SndRing's theorems are about.
LEMMA SndConstantsHold ==
    /\ MAX_SND_PKT_ENTRIES \in Nat /\ MAX_SND_PKT_ENTRIES >= 2
    /\ MaxPackets \in Nat
    /\ {SndScene(t.packets) : t \in Traffic}
         \subseteq [packets : 0 .. MaxPackets, ioctls : Nat, loads : Nat,
                    sendWhileLoading : BOOLEAN]
  <1>1. \A t \in Traffic : SndScene(t.packets)
            \in [packets : 0 .. MaxPackets, ioctls : Nat, loads : Nat,
                 sendWhileLoading : BOOLEAN]
    BY TrafficAssumption DEF SndScene
  <1> QED BY <1>1, TrafficAssumption

\* The module the theorems are in has the same definitions: a sender's steps...
LEMMA SameSender ==
    ASSUME NEW s
    PROVE  Snd!HostStep(s) => SndP!HostStep(s)
  <1>1. Snd!GetSndPage(s) => SndP!GetSndPage(s)
    BY ZenonT(40) DEF Snd!GetSndPage, SndP!GetSndPage, Snd!MayRun, SndP!MayRun,
                 Snd!Loading, SndP!Loading, Snd!LookAt, SndP!LookAt, Snd!EntryAt,
                 SndP!EntryAt, Snd!Pages, SndP!Pages, Snd!MCPDone, SndP!MCPDone,
                 Snd!cardVars, SndP!cardVars
  <1>2. Snd!TakePage(s) => SndP!TakePage(s)
    BY ZenonT(40) DEF Snd!TakePage, SndP!TakePage, Snd!MayRun, SndP!MayRun, Snd!Forget,
                 SndP!Forget, Snd!Advance, SndP!Advance, Snd!cardVars, SndP!cardVars
  <1>3. Snd!FillPage(s) => SndP!FillPage(s)
    BY ZenonT(40) DEF Snd!FillPage, SndP!FillPage, Snd!MayRun, SndP!MayRun, Snd!PageAddr,
                 SndP!PageAddr, Snd!NotCheckedOut, SndP!NotCheckedOut, Snd!Goes,
                 SndP!Goes, Snd!cardVars, SndP!cardVars
  <1>4. Snd!FreeSndPage(s) => SndP!FreeSndPage(s)
    BY ZenonT(40) DEF Snd!FreeSndPage, SndP!FreeSndPage, Snd!MayRun, SndP!MayRun,
                 Snd!Release, SndP!Release, Snd!Gives, SndP!Gives, Snd!IdleSender,
                 SndP!IdleSender, Snd!cardVars, SndP!cardVars
  <1>5. Snd!MyrPktXmit(s) => SndP!MyrPktXmit(s)
    BY Zenon DEF Snd!MyrPktXmit, SndP!MyrPktXmit, Snd!MayRun, SndP!MayRun,
                 Snd!MCPDone, SndP!MCPDone, Snd!Release, SndP!Release, Snd!Gives,
                 SndP!Gives, Snd!Goes, SndP!Goes, Snd!Forget, SndP!Forget,
                 Snd!IdleSender, SndP!IdleSender, Snd!PageAddr, SndP!PageAddr,
                 Snd!NotCheckedOut, SndP!NotCheckedOut, Snd!cardVars, SndP!cardVars
  <1>6. Snd!FillEntry(s) => SndP!FillEntry(s)
    BY ZenonT(40) DEF Snd!FillEntry, SndP!FillEntry, Snd!MayRun, SndP!MayRun, Snd!Goes,
                 SndP!Goes, Snd!cardVars, SndP!cardVars
  <1>7. Snd!WritePhysAddr(s) => SndP!WritePhysAddr(s)
    BY ZenonT(40) DEF Snd!WritePhysAddr, SndP!WritePhysAddr, Snd!MayRun, SndP!MayRun,
                 Snd!PhysAddr, SndP!PhysAddr, Snd!Advance, SndP!Advance, Snd!Goes,
                 SndP!Goes, Snd!cardVars, SndP!cardVars
  <1>8. Snd!MarkSending(s) => SndP!MarkSending(s)
    BY ZenonT(40) DEF Snd!MarkSending, SndP!MarkSending, Snd!MayRun, SndP!MayRun,
                 Snd!Gives, SndP!Gives, Snd!IdleSender, SndP!IdleSender,
                 Snd!cardVars, SndP!cardVars
  <1> QED BY <1>1, <1>2, <1>3, <1>4, <1>5, <1>6, <1>7, <1>8 DEF Snd!HostStep, SndP!HostStep

\* ...the steps of the card, and of the MCP being loaded...
LEMMA SameNext == Snd!Next => SndP!Next
  <1>1. Snd!SndStatem => SndP!SndStatem
    BY ZenonT(40) DEF Snd!SndStatem, SndP!SndStatem, Snd!SndS0, SndP!SndS0, Snd!SndS1,
                 SndP!SndS1, Snd!SndS2, SndP!SndS2, Snd!CardUp, SndP!CardUp,
                 Snd!GrabPCI, SndP!GrabPCI, Snd!FreePCI, SndP!FreePCI, Snd!KeepPCI,
                 SndP!KeepPCI, Snd!Other, SndP!Other, Snd!Advance, SndP!Advance,
                 Snd!ReleaseBus, SndP!ReleaseBus, Snd!hostVars, SndP!hostVars
  <1>2. Snd!DmaDone => SndP!DmaDone
    BY ZenonT(40) DEF Snd!DmaDone, SndP!DmaDone, Snd!hostVars, SndP!hostVars
  <1>3. Snd!LinkDone => SndP!LinkDone
    BY ZenonT(40) DEF Snd!LinkDone, SndP!LinkDone, Snd!hostVars, SndP!hostVars
  <1>4. Snd!RcvHalf => SndP!RcvHalf
    BY ZenonT(40) DEF Snd!RcvHalf, SndP!RcvHalf, Snd!CardUp, SndP!CardUp, Snd!GrabPCI,
                 SndP!GrabPCI, Snd!FreePCI, SndP!FreePCI, Snd!hostVars,
                 SndP!hostVars
  <1>5. Snd!LoadMCP => SndP!LoadMCP
    BY ZenonT(40) DEF Snd!LoadMCP, SndP!LoadMCP, Snd!Loading, SndP!Loading, Snd!AllIdle,
                 SndP!AllIdle, Snd!Senders, SndP!Senders, Snd!FirstState,
                 SndP!FirstState, Snd!Pages, SndP!Pages, Snd!EmptyEntry,
                 SndP!EmptyEntry, Snd!hostVars, SndP!hostVars
  <1>6. Snd!GetHstshmem => SndP!GetHstshmem
    BY ZenonT(40) DEF Snd!GetHstshmem, SndP!GetHstshmem, Snd!Loading, SndP!Loading,
                 Snd!InterruptsOff, SndP!InterruptsOff, Snd!Pages, SndP!Pages
  <1>7. Snd!Senders = SndP!Senders
    BY Zenon DEF Snd!Senders, SndP!Senders
  <1> QED BY <1>1, <1>2, <1>3, <1>4, <1>5, <1>6, <1>7, SameSender
          DEF Snd!Next, SndP!Next, Snd!CardNext, SndP!CardNext

\* ...and so the same behaviours.
LEMMA SameSpec == Snd!Spec => SndP!Spec
  <1>1. Snd!Init => SndP!Init
    BY ZenonT(40) DEF Snd!Init, SndP!Init, Snd!Pages, SndP!Pages, Snd!Senders,
                 SndP!Senders, Snd!Bufs, SndP!Bufs, Snd!IdleSender, SndP!IdleSender,
                 Snd!EmptyEntry, SndP!EmptyEntry, Snd!FirstState, SndP!FirstState
  <1>2. Snd!vars = SndP!vars
    BY Zenon DEF Snd!vars, SndP!vars, Snd!hostVars, SndP!hostVars, Snd!cardVars,
                 SndP!cardVars
  <1>3. [Snd!Next]_(Snd!vars) => [SndP!Next]_(SndP!vars)
    <2>1. UNCHANGED Snd!vars => UNCHANGED SndP!vars
      BY ZenonT(40) DEF Snd!vars, SndP!vars, Snd!hostVars, SndP!hostVars, Snd!cardVars,
                   SndP!cardVars
    <2> QED BY <2>1, SameNext
  <1> QED BY <1>1, <1>3, PTL DEF Snd!Spec, SndP!Spec

\* On the card, with a real receive half beside it, no page that the MCP may
\* still read is in a sender's hands, and the MCP's assertions on the bus and on
\* its two buffers hold.
THEOREM CardPagesApart == Spec => [](Snd!PageNotShared /\ Snd!BuffersApart /\ Snd!NoFault)
  <1>1. SndP!PageNotShared => Snd!PageNotShared
    BY ZenonT(40) DEF Snd!PageNotShared, SndP!PageNotShared, Snd!Orderly, SndP!Orderly,
                 Snd!Pages, SndP!Pages, Snd!Senders, SndP!Senders
  <1>2. SndP!BuffersApart /\ SndP!NoFault => Snd!BuffersApart /\ Snd!NoFault
    BY ZenonT(40) DEF Snd!BuffersApart, SndP!BuffersApart, Snd!NoFault, SndP!NoFault
  <1>3. SndP!Spec => []SndP!PageNotShared
    BY SndConstantsHold, SndP!PagesApart
  <1>4. SndP!Spec => [](SndP!BuffersApart /\ SndP!NoFault)
    BY SndConstantsHold, SndP!CardSafe
  <1> QED BY <1>1, <1>2, <1>3, <1>4, SendHalf, SameSpec, PTL
          DEF ImplementsSndRing

\* On the card, with a real receive half beside it, packets leave in the order
\* they were submitted, each once and whole: it implements PktQueue.
THEOREM CardSendsInOrder == Spec => Snd!InOrderOnce
  <1>1. SndP!Queue!Init => Snd!Queue!Init
    BY ZenonT(40) DEF SndP!Queue!Init, Snd!Queue!Init, SndP!Orderly, Snd!Orderly
  <1>2. [SndP!Queue!Submit \/ SndP!Queue!Transmit \/ SndP!Queue!Reset]_
           <<IF SndP!Orderly THEN SubSeq(submitted, Len(wire) + 1, Len(submitted)) ELSE <<>>,
             IF SndP!Orderly THEN wire ELSE <<>>>>
        => [Snd!Queue!Submit \/ Snd!Queue!Transmit \/ Snd!Queue!Reset]_
             <<IF Snd!Orderly THEN SubSeq(submitted, Len(wire) + 1, Len(submitted)) ELSE <<>>,
               IF Snd!Orderly THEN wire ELSE <<>>>>
    BY ZenonT(40) DEF SndP!Queue!Submit, Snd!Queue!Submit, SndP!Queue!Transmit,
                 Snd!Queue!Transmit, SndP!Queue!Reset, Snd!Queue!Reset, SndP!Orderly,
                 Snd!Orderly
  <1>3. SndP!Spec => SndP!InOrderOnce
    BY SndConstantsHold, SndP!SendsInOrder
  <1> QED BY <1>1, <1>2, <1>3, SendHalf, SameSpec, PTL
          DEF ImplementsSndRing, SndP!InOrderOnce, Snd!InOrderOnce, SndP!Queue!Spec,
              Snd!Queue!Spec
=============================================================================
