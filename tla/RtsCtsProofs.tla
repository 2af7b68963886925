---------------------------- MODULE RtsCtsProofs ----------------------------
(***************************************************************************)
(* The theorems about RtsCts, for every number of nodes, messages, sizes,  *)
(* faults and identifiers: the type invariant, and that the receiver never *)
(* copies beyond the end of a user's buffer.  The inductive invariant has  *)
(* the types of the values the protocol builds, of the channels, and of    *)
(* the tables, with the bound on what an entry of the receiver still has   *)
(* to copy.                                                                *)
(***************************************************************************)
EXTENDS RtsCts, TLAPS

-----------------------------------------------------------------------------
(* Values: entries, packets, grants                                        *)

\* The empty entries are entries.
LEMMA EmptyEntries == NoSnd \in SndEntry /\ NoRcv \in RcvEntry
  BY SizeAssumption DEF NoSnd, SndEntry, NoRcv, RcvEntry, SndEvent, RcvEvent, ILLMSGNUM

\* Least() is the smaller of two integers.
LEMMA LeastType ==
  ASSUME NEW x \in Int, NEW y \in Int
  PROVE  Least(x, y) \in Int /\ Least(x, y) <= x /\ Least(x, y) <= y
                             /\ (x \in Nat /\ y \in Nat => Least(x, y) \in Nat)
  BY DEF Least

\* Every grant is between 1 and MAX_DATA_PKTS.
LEMMA NumPktsType ==
  ASSUME NEW out \in Int
  PROVE  NumPkts(out) \in 1 .. MaxDataPkts /\ NumPkts(out) \in Nat
  BY SizeAssumption DEF NumPkts

\* build_page() makes a packet.
LEMMA BuildType ==
  ASSUME NEW type \in PktType, NEW c \in Cnt, NEW num \in Nat, NEW m \in Nat,
         NEW off \in Int, NEW len \in Int,
         type \in {"P3_RTS", "P3_LAST_RTS"} => m \in Msg
  PROVE  build_page(type, c, num, m, off, len) \in Packet
  BY DEF build_page, Packet

\* sendProtoMSG() makes a packet.
LEMMA ProtoType ==
  ASSUME NEW type \in {"CTS", "MSGEND", "MSGDROP", "GCH"}, NEW c \in Cnt,
         NEW info \in Nat, NEW info2 \in Nat
  PROVE  /\ sendProtoMSG(type, c, info, info2) \in Packet
         /\ <<sendProtoMSG(type, c, info, info2)>> \in Seq(Packet)
<1>1. sendProtoMSG(type, c, info, info2) \in Packet
  BY DEF sendProtoMSG, Packet, PktType, P3Type, DataType, ILLMSGNUM
<1>2. QED BY <1>1

\* The first packet of a message is a packet.
LEMMA FirstType1 ==
  ASSUME NEW m \in Msg, NEW c \in Cnt, NEW num \in Nat
  PROVE  /\ FirstPay(m) \in Nat /\ FirstPay(m) <= Size[m]
         /\ FirstPacket(m, c, num) \in Packet
         /\ <<FirstPacket(m, c, num)>> \in Seq(Packet)
         /\ FirstEvent(m) \in SndEvent
<1>1. FirstPay(m) \in Nat /\ FirstPay(m) <= Size[m]
  BY MsgAssumption, SizeAssumption DEF FirstPay, Least
<1>2. FirstType(m) \in PktType /\ FirstEvent(m) \in SndEvent
  BY DEF FirstType, FirstEvent, PktType, P3Type, SndEvent
<1>3. m \in Nat
  BY MsgAssumption
<1>4. FirstPacket(m, c, num) \in Packet
  BY <1>1, <1>2, <1>3, BuildType DEF FirstPacket
<1>5. QED BY <1>1, <1>2, <1>4
-----------------------------------------------------------------------------
(* Channels                                                                *)

NetType == [Node -> [Node -> Seq(Packet)]]

\* Sending keeps the channels typed.
LEMMA TransmitType ==
  ASSUME net \in NetType, NEW n \in Node, NEW d \in Node, NEW pkts \in Seq(Packet),
         Transmit(n, d, pkts)
  PROVE  net' \in NetType
  BY DEF Transmit, NetType

\* Receiving and answering keeps the channels typed.
LEMMA AnswerType ==
  ASSUME net \in NetType, NEW n \in Node, NEW s \in Node, NEW d \in Node,
         NEW pkts \in Seq(Packet), net[s][n] # <<>>, Answer(n, s, d, pkts)
  PROVE  net' \in NetType
<1>1. Tail(net[s][n]) \in Seq(Packet)
  BY DEF NetType
<1>2. DEFINE net1 == [net EXCEPT ![s][n] = Tail(@)]
<1>3. net1 \in NetType
  BY <1>1 DEF NetType
<1>4. net' = [net1 EXCEPT ![n][d] = @ \o pkts]
  BY DEF Answer
<1>5. net1[n][d] \o pkts \in Seq(Packet)
  BY <1>3 DEF NetType
<1>6. QED BY <1>3, <1>4, <1>5, Zenon DEF NetType

\* Receiving without an answer keeps them typed too.
LEMMA SilentType ==
  ASSUME net \in NetType, NEW n \in Node, NEW s \in Node, net[s][n] # <<>>,
         Answer(n, s, s, <<>>)
  PROVE  net' \in NetType
<1>1. <<>> \in Seq(Packet)
  OBVIOUS
<1>2. QED BY <1>1, AnswerType, Zenon

\* The packet that arrives is a packet.
LEMMA HeadType ==
  ASSUME net \in NetType, NEW n \in Node, NEW s \in Node, NEW types,
         Arrives(n, s, types)
  PROVE  /\ net[s][n] # <<>> /\ Head(net[s][n]) \in Packet
         /\ Head(net[s][n]).type \in types
  BY DEF Arrives, NetType
-----------------------------------------------------------------------------
(* The inductive invariant                                                 *)

\* A receive entry whose position is inside the user's buffer.
GoodRcv ==
    {e \in RcvEntry : e.datasent <= e.len /\ (e.q # "none" => e.len = Mlen[e.m])}

SndType == [Node -> [Cnt -> SndEntry]]
RcvType == [Node -> [Node -> [Cnt -> GoodRcv]]]
Rest ==
    /\ send_msgNum \in [Node -> [Node -> Nat]]
    /\ lastMsgNum \in [Node -> [Node -> Nat]]
    /\ first_ack \in [Node -> [Node -> BOOLEAN]]
    /\ outstanding \in [Node -> Int]
    /\ nextID \in [Node -> Cnt]
    /\ proc \in [Node -> {"up", "closing", "gone"}]
    /\ sig \in [Node -> BOOLEAN]
    /\ status \in [Msg -> {"unsent", "queued", "ended", "dropped", "gone"}]
    /\ acc \in [Node -> [Node -> Seq(Msg)]]
    /\ fin \in [Msg -> Nat]
    /\ bad \subseteq Msg
    /\ stale \subseteq Node
    /\ used \in [Node -> SUBSET Cnt]
    /\ reuse \in BOOLEAN
    /\ budget \in Budget

\* The type invariant and the bound on the copies, variable by variable.
IInv == net \in NetType /\ snd \in SndType /\ rcv \in RcvType /\ Rest

\* The inductive invariant says what the two properties say.
LEMMA IInvMeaning == IInv <=> TypeOK /\ BufferBound
<1>1. rcv \in RcvType <=> rcv \in [Node -> [Node -> [Cnt -> RcvEntry]]] /\ BufferBound
  BY DEF RcvType, GoodRcv, BufferBound
<1>2. QED BY <1>1, Zenon DEF IInv, TypeOK, NetType, SndType, Rest

\* Replacing one entry keeps a queue typed.
LEMMA SndUpdate ==
  ASSUME snd \in SndType, NEW n \in Node, NEW c \in Cnt, NEW e \in SndEntry,
         snd' = [snd EXCEPT ![n][c] = e]
  PROVE  snd' \in SndType
  BY DEF SndType

LEMMA RcvUpdate ==
  ASSUME rcv \in RcvType, NEW n \in Node, NEW s \in Node, NEW c \in Cnt,
         NEW e \in GoodRcv, rcv' = [rcv EXCEPT ![n][s][c] = e]
  PROVE  rcv' \in RcvType
<1>1. [rcv[n][s] EXCEPT ![c] = e] \in [Cnt -> GoodRcv]
  BY DEF RcvType
<1>2. [rcv[n] EXCEPT ![s] = [rcv[n][s] EXCEPT ![c] = e]] \in [Node -> [Cnt -> GoodRcv]]
  BY <1>1 DEF RcvType
<1>3. rcv' = [rcv EXCEPT ![n] = [rcv[n] EXCEPT ![s] = [rcv[n][s] EXCEPT ![c] = e]]]
  OBVIOUS
<1>4. QED BY <1>2, <1>3 DEF RcvType

\* The initial state satisfies the invariant.
LEMMA InitIInv == Init => IInv
<1>1. NoRcv \in GoodRcv
  BY EmptyEntries DEF GoodRcv, NoRcv
<1>2. 0 \in Cnt
  BY SizeAssumption DEF Cnt
<1>3. ASSUME Init PROVE net \in NetType /\ snd \in SndType /\ rcv \in RcvType
  <2>1. net \in NetType BY <1>3 DEF Init, NetType
  <2>2. snd \in SndType BY <1>3, EmptyEntries DEF Init, SndType
  <2>3. rcv \in RcvType BY <1>3, <1>1 DEF Init, RcvType
  <2>4. QED BY <2>1, <2>2, <2>3
<1>4. ASSUME Init PROVE Rest
  <2>1. /\ send_msgNum \in [Node -> [Node -> Nat]]
        /\ lastMsgNum \in [Node -> [Node -> Nat]]
    BY <1>4 DEF Init, BOOTMSGNUM
  <2>2. /\ first_ack \in [Node -> [Node -> BOOLEAN]]
        /\ outstanding \in [Node -> Int]
        /\ nextID \in [Node -> Cnt]
    BY <1>4, <1>2 DEF Init
  <2>3. /\ proc \in [Node -> {"up", "closing", "gone"}]
        /\ sig \in [Node -> BOOLEAN]
        /\ status \in [Msg -> {"unsent", "queued", "ended", "dropped", "gone"}]
    BY <1>4, Zenon DEF Init
  <2>4. acc \in [Node -> [Node -> Seq(Msg)]]
    BY <1>4 DEF Init
  <2>5. /\ fin \in [Msg -> Nat] /\ bad \subseteq Msg /\ stale \subseteq Node
        /\ used \in [Node -> SUBSET Cnt] /\ reuse \in BOOLEAN
    BY <1>4, SizeAssumption, Zenon DEF Init
  <2>6. budget \in Budget
    BY <1>4, SizeAssumption DEF Init, Budget
  <2>7. QED BY <2>1, <2>2, <2>3, <2>4, <2>5, <2>6 DEF Rest
<1>5. QED BY <1>3, <1>4 DEF IInv


-----------------------------------------------------------------------------
(* The steps of the sender                                                 *)

\* The fault budget stays a record of the kinds and the number of faults.
LEMMA BudgetType ==
  ASSUME budget \in Budget, NoFault \/ \E kind \in FaultKinds : Fault(kind)
  PROVE  budget' \in Budget
  BY DEF NoFault, Fault, Budget

\* Changing the number of granted packets of one node keeps it an integer.
LEMMA OutUpdate ==
  ASSUME outstanding \in [Node -> Int], NEW n \in Node, NEW k \in Int,
         outstanding' = [outstanding EXCEPT ![n] = k]
  PROVE  outstanding' \in [Node -> Int]
  OBVIOUS

\* The entry of a new message is an entry.
LEMMA NewEntryType ==
  ASSUME NEW m \in Msg, NEW num \in Nat, NEW payload \in Nat,
         NEW task \in {"task", "null", "junk"}
  PROVE  NewEntry(m, num, payload, task) \in SndEntry
<1>1. m \in Nat /\ Size[m] \in Int
  BY MsgAssumption
<1>2. FirstEvent(m) \in SndEvent
  BY DEF FirstEvent, SndEvent
<1>3. 0 \in 0 .. P3MsgRetries
  BY SizeAssumption
<1>4. QED BY <1>1, <1>2, <1>3 DEF NewEntry, SndEntry

\* Losing a packet.
LEMMA LoseStep ==
  ASSUME IInv, NEW s \in Node, NEW d \in Node, Lose(s, d)
  PROVE  IInv'
<1>1. net' \in NetType
  BY DEF IInv, NetType, Lose
<1>2. budget' \in Budget
  <2>1. budget \in Budget /\ Fault("loss")
    BY DEF IInv, Rest, Lose
  <2>2. QED BY <2>1, BudgetType DEF FaultKinds
<1>3. QED BY <1>1, <1>2, Zenon DEF IInv, Rest, Lose, SndType, RcvType

\* Sending a message.
LEMMA SendStep ==
  ASSUME IInv, NEW m \in Msg, SendMsg(m)
  PROVE  IInv'
<1> DEFINE n == Src[m]
           d == Dst[m]
           c == nextID[n]
           num == send_msgNum[n][d]
<1>1. n \in Node /\ d \in Node /\ c \in Cnt /\ num \in Nat
  BY MsgAssumption DEF IInv, Rest
<1>2. p3_send(m, n, d, c, num)
  BY Zenon DEF SendMsg
<1>3. net' \in NetType
  <2>1. <<FirstPacket(m, c, num)>> \in Seq(Packet)
    BY <1>1, FirstType1
  <2>2. net' = net \/ Transmit(n, d, <<FirstPacket(m, c, num)>>)
    BY <1>2, Zenon DEF p3_send
  <2>3. QED BY <1>1, <2>1, <2>2, TransmitType, Zenon DEF IInv
<1>4. snd' \in SndType /\ send_msgNum' \in [Node -> [Node -> Nat]]
  <2>1. \/ UNCHANGED <<snd, send_msgNum>>
        \/ \E payload \in {0, FirstPay(m)}, task \in {"task", "junk"} :
              /\ snd' = [snd EXCEPT ![n][c] = NewEntry(m, num, payload, task)]
              /\ send_msgNum' = [send_msgNum EXCEPT ![n][d] = incMsgNum(@)]
    BY <1>2, Zenon DEF p3_send, Uninitialized
  <2>2. CASE UNCHANGED <<snd, send_msgNum>>
    BY <2>2 DEF IInv, Rest
  <2>3. ASSUME NEW payload \in {0, FirstPay(m)}, NEW task \in {"task", "junk"},
               snd' = [snd EXCEPT ![n][c] = NewEntry(m, num, payload, task)],
               send_msgNum' = [send_msgNum EXCEPT ![n][d] = incMsgNum(@)]
        PROVE  snd' \in SndType /\ send_msgNum' \in [Node -> [Node -> Nat]]
    <3>1. payload \in Nat
      BY <1>1, FirstType1
    <3>2. NewEntry(m, num, payload, task) \in SndEntry
      BY <1>1, <3>1, NewEntryType
    <3>3. snd' \in SndType
      BY <1>1, <2>3, <3>2, SndUpdate, Zenon DEF IInv
    <3>4. incMsgNum(num) \in Nat
      BY <1>1 DEF incMsgNum, BOOTMSGNUM, ILLMSGNUM
    <3>5. QED BY <1>1, <2>3, <3>3, <3>4, Zenon DEF IInv, Rest
  <2>4. QED BY <2>1, <2>2, <2>3, Zenon
<1>5. budget' \in Budget
  <2>1. budget \in Budget
    BY DEF IInv, Rest
  <2>2. NoFault \/ Fault("page") \/ Fault("copy") \/ Fault("nomem")
    BY <1>2, Zenon DEF p3_send
  <2>3. QED BY <2>1, <2>2, BudgetType DEF FaultKinds
<1>6. /\ status' \in [Msg -> {"unsent", "queued", "ended", "dropped", "gone"}]
      /\ sig' \in [Node -> BOOLEAN]
  BY <1>1, <1>2, Zenon DEF p3_send, IInv, Rest
<1>7. first_ack' \in [Node -> [Node -> BOOLEAN]]
  BY <1>1, Zenon DEF SendMsg, IInv, Rest
<1>8. /\ nextID' \in [Node -> Cnt] /\ used' \in [Node -> SUBSET Cnt]
      /\ reuse' \in BOOLEAN
  <2>1. next_msgID(c) \in Cnt
    BY <1>1, SizeAssumption DEF next_msgID, Cnt
  <2>2. nextID' \in [Node -> Cnt]
    BY <1>1, <2>1, Zenon DEF SendMsg, IInv, Rest
  <2>3. used' \in [Node -> SUBSET Cnt]
    BY <1>1, Zenon DEF SendMsg, IInv, Rest
  <2>4. reuse' \in BOOLEAN
    BY <1>1, Zenon DEF SendMsg, IInv, Rest
  <2>5. QED BY <2>2, <2>3, <2>4
<1>9. QED
  BY <1>3, <1>4, <1>5, <1>6, <1>7, <1>8, Zenon DEF SendMsg, IInv, Rest, RcvType

\* Counting a retry, and storing a task, keep an entry an entry.
LEMMA RetriedType ==
  ASSUME NEW e \in SndEntry, NEW task \in {"task", "null", "junk"}
  PROVE  Retried(e) \in SndEntry /\ [Retried(e) EXCEPT !.task = task] \in SndEntry
<1>1. Retried(e) \in SndEntry
  BY SizeAssumption DEF Retried, SndEntry
<1>2. ASSUME NEW f \in SndEntry PROVE [f EXCEPT !.task = task] \in SndEntry
  BY DEF SndEntry
<1>3. QED BY <1>1, <1>2

\* A timeout of Qsnd_pending.
LEMMA TimeoutStep ==
  ASSUME IInv, NEW n \in Node, NEW d \in Node, NEW c \in Cnt, TimeoutPending(n, d, c)
  PROVE  IInv'
<1> DEFINE e == snd[n][c]
<1>1. e \in SndEntry
  BY DEF IInv, SndType
<1>2. e.q # "none" /\ e.m \in Msg /\ e.msgNum \in Nat /\ e.task \in {"task", "null", "junk"}
  BY <1>1, Zenon DEF TimeoutPending, find_oldest_msgNum, SndEntry
<1>3. handleP3sync(n, d, c) \/ handleP3resend(n, d, c)
  BY DEF TimeoutPending
<1>4. net' \in NetType
  <2>1. /\ <<FirstPacket(e.m, c, e.msgNum)>> \in Seq(Packet)
        /\ <<build_page("P3_NULL", c, e.msgNum, 0, 0, 0)>> \in Seq(Packet)
        /\ <<build_page("P3_SYNC", c, e.msgNum, 0, 0, 0)>> \in Seq(Packet)
    <3>1. <<FirstPacket(e.m, c, e.msgNum)>> \in Seq(Packet)
      BY <1>2, FirstType1
    <3>2. \A type \in {"P3_NULL", "P3_SYNC"} : build_page(type, c, e.msgNum, 0, 0, 0) \in Packet
      BY <1>2 DEF build_page, Packet, PktType, P3Type, DataType
    <3>3. QED BY <3>1, <3>2
  <2>2. \/ net' = net
        \/ Transmit(n, d, <<FirstPacket(e.m, c, e.msgNum)>>)
        \/ Transmit(n, d, <<build_page("P3_NULL", c, e.msgNum, 0, 0, 0)>>)
        \/ Transmit(n, d, <<build_page("P3_SYNC", c, e.msgNum, 0, 0, 0)>>)
    BY <1>3, Zenon DEF handleP3sync, handleP3resend
  <2>3. QED BY <2>1, <2>2, TransmitType, Zenon DEF IInv
<1>5. snd' \in SndType
  <2>1. \E f \in SndEntry : snd' = [snd EXCEPT ![n][c] = f]
    <3>1. \A task \in Uninitialized(e.task) : task \in {"task", "null", "junk"}
      BY <1>2 DEF Uninitialized
    <3>2. \/ snd' = [snd EXCEPT ![n][c] = NoSnd]
          \/ snd' = [snd EXCEPT ![n][c] = Retried(e)]
          \/ \E task \in {"task", "null", "junk"} :
                snd' = [snd EXCEPT ![n][c] = [Retried(e) EXCEPT !.task = task]]
      BY <1>3, <3>1, Zenon DEF handleP3sync, handleP3resend
    <3>3. QED BY <1>1, <3>2, RetriedType, EmptyEntries, Zenon
  <2>2. QED BY <2>1, SndUpdate, Zenon DEF IInv
<1>6. budget' \in Budget
  <2>1. NoFault \/ Fault("early") \/ Fault("copy")
    BY <1>3, Zenon DEF handleP3sync, handleP3resend, Expires
  <2>2. QED BY <2>1, BudgetType DEF FaultKinds, IInv, Rest
<1>7. status' \in [Msg -> {"unsent", "queued", "ended", "dropped", "gone"}]
  BY <1>3, Zenon DEF handleP3sync, handleP3resend, IInv, Rest
<1>8. QED
  BY <1>4, <1>5, <1>6, <1>7, Zenon DEF TimeoutPending, IInv, Rest, RcvType

\* The packets sendDATA() sends are packets.
LEMMA DataPacketsType ==
  ASSUME NEW e \in SndEntry, NEW c \in Cnt, NEW num_pkts \in Nat, NEW k \in Nat
  PROVE  DataPackets(e, c, num_pkts, k) \in Seq(Packet)
<1>1. ASSUME NEW i \in 1 .. k PROVE DataPacket(e, c, num_pkts, i) \in Packet
  <2> DEFINE off == e.datasent + (i - 1) * DataPay
             type == IF i = Needed(e) THEN "LAST_DATA"
                     ELSE IF i = num_pkts THEN "STOP_DATA" ELSE "DATA"
             len == Least(DataPay, e.len - off)
  <2>1. /\ e.datasent \in Int /\ e.len \in Int /\ e.m \in Nat /\ e.msgNum \in Nat
        /\ e.seq \in Nat /\ e.retries \in Nat
    BY DEF SndEntry
  <2>2. off \in Int
    BY <2>1, SizeAssumption
  <2>3. len \in Int
    <3> HIDE DEF off
    <3> QED BY <2>1, <2>2, SizeAssumption DEF Least
  <2>4. type \in {"LAST_DATA", "STOP_DATA", "DATA"}
    OBVIOUS
  <2>5. DataPacket(e, c, num_pkts, i) =
          [type |-> type, msgID |-> c, msgNum |-> e.msgNum, seq |-> e.seq + i,
           info |-> num_pkts, info2 |-> e.retries, m |-> e.m, off |-> off, len |-> len]
    BY DEF DataPacket
  <2>6. QED
    <3> HIDE DEF off, type, len
    <3> QED BY <2>1, <2>2, <2>3, <2>4, <2>5 DEF Packet, PktType, DataType
<1>2. QED BY <1>1 DEF DataPackets

\* sendDATA() plans at least no packet and leaves an entry.
LEMMA AfterDataType ==
  ASSUME NEW e \in SndEntry, NEW num_pkts \in Nat, NEW k \in Nat, NEW why \in Outcome
  PROVE  AfterData(e, num_pkts, k, why) \in SndEntry
<1> DEFINE datasent == IF k = 0 THEN e.datasent ELSE Least(e.datasent + k * DataPay, e.len)
           seq == e.seq + k + (IF why = "xmit" THEN 1 ELSE 0)
           event == IF why = "ok" /\ k = Needed(e) THEN "E_SENT_LAST_DATA" ELSE "E_SENT_STOP_DATA"
<1>1. AfterData(e, num_pkts, k, why) = [e EXCEPT !.datasent = datasent, !.seq = seq, !.event = event]
  BY DEF AfterData, SndEntry
<1>2. datasent \in Int /\ seq \in Nat
  <2>1. e.datasent \in Int /\ e.len \in Int /\ e.seq \in Nat
    BY DEF SndEntry
  <2>2. k * DataPay \in Int
    BY SizeAssumption
  <2>3. QED BY <2>1, <2>2 DEF Least
<1>3. event \in SndEvent
  BY DEF SndEvent
<1>4. QED
  <2> HIDE DEF datasent, seq, event
  <2> QED BY <1>1, <1>2, <1>3, Zenon, Zenon DEF SndEntry

\* What sendDATA() does to the state.
LEMMA SendDataType ==
  ASSUME IInv, NEW n \in Node, NEW c \in Cnt, NEW e \in SndEntry, e.m \in Msg,
         NEW num_pkts \in Nat, NEW k \in Nat, NEW why \in Outcome,
         sendDATA(n, c, e, num_pkts, k, why)
  PROVE  /\ snd' \in SndType /\ budget' \in Budget /\ sig' \in [Node -> BOOLEAN]
         /\ status' \in [Msg -> {"unsent", "queued", "ended", "dropped", "gone"}]
         /\ stale' \subseteq Node
<1>1. snd' \in SndType
  <2>1. \E f \in SndEntry : snd' = [snd EXCEPT ![n][c] = f]
    BY AfterDataType, EmptyEntries DEF sendDATA
  <2>2. QED BY <2>1, SndUpdate, Zenon DEF IInv
<1>2. budget' \in Budget
  <2>1. NoFault \/ (why # "ok" /\ Fault(why))
    BY DEF sendDATA
  <2>2. why # "ok" => why \in FaultKinds
    BY DEF Outcome, FaultKinds
  <2>3. QED BY <2>1, <2>2, BudgetType DEF IInv, Rest
<1>3. sig' \in [Node -> BOOLEAN] /\ stale' \subseteq Node
  <2>1. sig' = sig \/ sig' = [sig EXCEPT ![n] = TRUE]
    BY DEF sendDATA
  <2>2. stale' = stale \/ stale' = stale \cup {n}
    BY DEF sendDATA
  <2>3. QED BY <2>1, <2>2, Zenon DEF IInv, Rest
<1>4. status' \in [Msg -> {"unsent", "queued", "ended", "dropped", "gone"}]
  BY Zenon DEF sendDATA, IInv, Rest
<1>5. QED BY <1>1, <1>2, <1>3, <1>4

\* A CTS.
LEMMA CtsStep ==
  ASSUME IInv, NEW n \in Node, NEW s \in Node, handleCTS(n, s)
  PROVE  IInv'
<1> DEFINE p == Head(net[s][n])
           c == p.msgID
           e == snd[n][c]
           e1 == [e EXCEPT !.q = "sending", !.len = Least(p.info, @)]
<1>1. net[s][n] # <<>> /\ p \in Packet
  BY HeadType, Zenon DEF IInv, handleCTS
<1>2. c \in Cnt /\ p.info \in Nat /\ p.info2 \in Nat
  BY <1>1, Zenon DEF Packet
<1>3. e \in SndEntry
  BY <1>2 DEF IInv, SndType
<1>4. first_ack' \in [Node -> [Node -> BOOLEAN]]
  BY Zenon DEF handleCTS, Acked, IInv, Rest
<1>5. CASE e.q = "none"
  <2>1. Answer(n, s, s, <<>>) /\ UNCHANGED <<snd, status, sig, stale, budget>>
    <3> HIDE DEF e1
    <3> QED BY <1>5, Zenon DEF handleCTS, NoFault
  <2>2. net' \in NetType
    BY <1>1, <2>1, SilentType DEF IInv
  <2>3. QED BY <1>4, <2>1, <2>2, Zenon DEF handleCTS, IInv, Rest, SndType, RcvType
<1>6. CASE e.q # "none"
  <2>1. PICK k \in 0 .. Planned(e1, p.info2), why \in Outcome :
          /\ sendDATA(n, c, e1, p.info2, k, why)
          /\ Answer(n, s, Dst[e.m], DataPackets(e1, c, p.info2, k))
    BY <1>6, Zenon DEF handleCTS
  <2>2. e.m \in Msg /\ e.len \in Int
    BY <1>3, <1>6, Zenon DEF SndEntry
  <2>3. e1 \in SndEntry /\ e1.m = e.m
    <3>1. Least(p.info, e.len) \in Int
      <4> HIDE DEF e, p
      <4> QED BY <1>2, <2>2 DEF Least
    <3>2. QED
      <4> HIDE DEF e, p
      <4> QED BY <1>3, <2>2, <3>1, Zenon DEF SndEntry
  <2>4. k \in Nat
    OBVIOUS
  <2>5. DataPackets(e1, c, p.info2, k) \in Seq(Packet)
    <3> HIDE DEF e1, c, p
    <3> QED BY <1>2, <2>3, <2>4, DataPacketsType, Zenon
  <2>6. net' \in NetType
    <3> HIDE DEF e1, c, p
    <3> QED BY <1>1, <2>1, <2>2, <2>5, AnswerType, MsgAssumption, Zenon DEF IInv, p
  <2>7. /\ snd' \in SndType /\ budget' \in Budget /\ sig' \in [Node -> BOOLEAN]
        /\ status' \in [Msg -> {"unsent", "queued", "ended", "dropped", "gone"}]
        /\ stale' \subseteq Node
    <3> HIDE DEF e1, c, p
    <3> QED BY <1>2, <2>1, <2>2, <2>3, <2>4, SendDataType, Zenon
  <2>8. UNCHANGED <<rcv, send_msgNum, lastMsgNum, outstanding, nextID, proc, acc, fin, bad, used, reuse>>
    BY Zenon DEF handleCTS
  <2>9. QED BY <1>4, <2>6, <2>7, <2>8, Zenon DEF IInv, Rest, RcvType
<1>7. QED BY <1>5, <1>6, Zenon

\* An entry that handleDataResend() starts over is an entry.
LEMMA RestartType ==
  ASSUME NEW e \in SndEntry, NEW datasent \in Int, NEW seq \in Nat, NEW retries \in Nat
  PROVE  [e EXCEPT !.datasent = datasent, !.seq = seq, !.retries = retries] \in SndEntry
<1>1. [e EXCEPT !.datasent = datasent, !.seq = seq] \in SndEntry
  BY Zenon DEF SndEntry
<1>2. ASSUME NEW f \in SndEntry PROVE [f EXCEPT !.retries = retries] \in SndEntry
  BY DEF SndEntry
<1>3. [e EXCEPT !.datasent = datasent, !.seq = seq, !.retries = retries]
        = [[e EXCEPT !.datasent = datasent, !.seq = seq] EXCEPT !.retries = retries]
  OBVIOUS
<1>4. QED BY <1>1, <1>2, <1>3, Zenon

\* A timeout of Qsending.
LEMMA DataResendStep ==
  ASSUME IInv, NEW n \in Node, NEW c \in Cnt, handleDataResend(n, c)
  PROVE  IInv'
<1> DEFINE e == snd[n][c]
           e1 == [e EXCEPT !.datasent = 0, !.seq = 0, !.retries = @ + 1]
<1>1. e \in SndEntry
  BY DEF IInv, SndType
<1>2. e.m \in Msg
  BY <1>1, Zenon DEF handleDataResend, SndEntry
<1>3. e1 \in SndEntry /\ e1.m = e.m
  <2> DEFINE r == e.retries + 1
  <2>1. r \in Nat
    BY <1>1 DEF SndEntry
  <2>2. e1 = [e EXCEPT !.datasent = 0, !.seq = 0, !.retries = r]
    BY <1>1 DEF SndEntry
  <2> HIDE DEF e, e1, r
  <2>3. e1.m = e.m
    BY <1>1, <2>2 DEF SndEntry
  <2>4. e1 \in SndEntry
    <3>1. 0 \in Int /\ 0 \in Nat
      OBVIOUS
    <3>2. [e EXCEPT !.datasent = 0, !.seq = 0, !.retries = r] \in SndEntry
      BY ONLY <1>1, <2>1, <3>1, RestartType, Zenon
    <3>3. QED BY <2>2, <3>2
  <2>5. QED BY <2>3, <2>4
<1>4. PICK k \in 0 .. Planned(e1, 1), why \in Outcome :
        sendDATA(n, c, e1, 1, k, why) /\ Transmit(n, Dst[e.m], DataPackets(e1, c, 1, k))
  BY DEF handleDataResend
<1>5. k \in Nat
  OBVIOUS
<1>6. net' \in NetType
  <2> HIDE DEF e, e1
  <2>1. DataPackets(e1, c, 1, k) \in Seq(Packet)
    BY <1>3, <1>5, DataPacketsType
  <2>2. Dst[e.m] \in Node
    BY <1>2, MsgAssumption, Zenon
  <2>3. QED BY <1>4, <2>1, <2>2, TransmitType DEF IInv
<1>7. /\ snd' \in SndType /\ budget' \in Budget /\ sig' \in [Node -> BOOLEAN]
      /\ status' \in [Msg -> {"unsent", "queued", "ended", "dropped", "gone"}]
      /\ stale' \subseteq Node
  <2> HIDE DEF e, e1
  <2> QED BY <1>2, <1>3, <1>4, <1>5, SendDataType, Zenon
<1>8. UNCHANGED <<rcv, send_msgNum, lastMsgNum, first_ack, outstanding, nextID, proc, acc, fin,
                  bad, used, reuse>>
  BY DEF handleDataResend
<1>9. QED BY <1>6, <1>7, <1>8, Zenon DEF IInv, Rest, RcvType

\* The end of an entry.
LEMMA FinishedType ==
  ASSUME IInv, NEW n \in Node, NEW c \in Cnt, NEW e \in SndEntry, e.m \in Msg,
         NEW how \in {"ended", "dropped"}, Finished(n, c, e, how)
  PROVE  /\ snd' \in SndType /\ stale' \subseteq Node
         /\ status' \in [Msg -> {"unsent", "queued", "ended", "dropped", "gone"}]
<1>1. snd' \in SndType
  BY SndUpdate, EmptyEntries, Zenon DEF IInv, Finished
<1>2. stale' = stale \/ stale' = stale \cup {n}
  BY DEF Finished
<1>3. status' \in [Msg -> {"unsent", "queued", "ended", "dropped", "gone"}]
  BY DEF Finished, IInv, Rest
<1>4. QED BY <1>1, <1>2, <1>3 DEF IInv, Rest

\* A MSGEND or a MSGDROP.
LEMMA EndStep ==
  ASSUME IInv, NEW n \in Node, NEW s \in Node, handleMSGEND(n, s) \/ handleMSGDROP(n, s)
  PROVE  IInv'
<1> DEFINE p == Head(net[s][n])
           c == p.msgID
           e == snd[n][c]
           gch == <<sendProtoMSG("GCH", c, 0, 0)>>
<1>1. net[s][n] # <<>> /\ p \in Packet
  BY HeadType, Zenon DEF IInv, handleMSGEND, handleMSGDROP
<1>2. c \in Cnt
  BY <1>1, Zenon DEF Packet
<1>3. e \in SndEntry
  BY <1>2 DEF IInv, SndType
<1>4. first_ack' \in [Node -> [Node -> BOOLEAN]]
  <2>1. Acked(n, s)
    BY Zenon DEF handleMSGEND, handleMSGDROP
  <2>2. QED BY <2>1, Zenon DEF Acked, IInv, Rest
<1>5. UNCHANGED <<rcv, send_msgNum, lastMsgNum, outstanding, nextID, proc, sig, acc, fin, bad,
                  budget, used, reuse>>
  BY Zenon DEF handleMSGEND, handleMSGDROP
<1>6. CASE e.q = "none"
  <2>1. Answer(n, s, s, <<>>) /\ UNCHANGED <<snd, status, stale>>
    BY <1>6, Zenon DEF handleMSGEND, handleMSGDROP
  <2>2. net' \in NetType
    BY <1>1, <2>1, SilentType, Zenon DEF IInv
  <2>3. QED BY <1>4, <1>5, <2>1, <2>2, Zenon DEF IInv, Rest, SndType, RcvType
<1>7. CASE e.q # "none"
  <2>1. PICK how \in {"ended", "dropped"}, pkts \in {<<>>, gch} :
          Finished(n, c, e, how) /\ Answer(n, s, Dst[e.m], pkts)
    <3>1. CASE handleMSGEND(n, s)
      <4>1. Finished(n, c, e, "ended") /\ Answer(n, s, Dst[e.m], gch)
        BY <1>7, <3>1, Zenon DEF handleMSGEND
      <4>2. QED BY <4>1, Zenon
    <3>2. CASE handleMSGDROP(n, s)
      <4>1. /\ Finished(n, c, e, "dropped")
            /\ Answer(n, s, Dst[e.m], IF p.info2 = NullDrop THEN <<>> ELSE gch)
        BY <1>7, <3>2, Zenon DEF handleMSGDROP
      <4>2. QED BY <4>1, Zenon
    <3>3. QED BY <3>1, <3>2, Zenon
  <2>2. e.m \in Msg /\ Dst[e.m] \in Node
    <3>1. e.m \in Msg
      BY <1>3, <1>7, Zenon DEF SndEntry
    <3>2. QED BY <3>1, MsgAssumption, Zenon
  <2>3. pkts \in Seq(Packet)
    <3>1. gch \in Seq(Packet)
      BY <1>2, ProtoType
    <3>2. <<>> \in Seq(Packet)
      OBVIOUS
    <3>3. QED BY <2>1, <3>1, <3>2, Zenon
  <2>4. net' \in NetType
    BY <1>1, <2>1, <2>2, <2>3, AnswerType, Zenon DEF IInv
  <2>5. /\ snd' \in SndType /\ stale' \subseteq Node
        /\ status' \in [Msg -> {"unsent", "queued", "ended", "dropped", "gone"}]
    BY <1>2, <1>3, <2>1, <2>2, FinishedType, Zenon
  <2>6. QED BY <1>4, <1>5, <2>4, <2>5, Zenon DEF IInv, Rest, RcvType
<1>8. QED BY <1>6, <1>7, Zenon

\* A P3_SYNC.
LEMMA SyncStep ==
  ASSUME IInv, NEW n \in Node, NEW s \in Node, handleP3SYNC(n, s)
  PROVE  IInv'
<1> DEFINE p == Head(net[s][n])
<1>1. net[s][n] # <<>> /\ p \in Packet
  BY HeadType, Zenon DEF IInv, handleP3SYNC
<1>2. p.msgNum \in Nat
  BY <1>1, Zenon DEF Packet
<1>3. net' \in NetType
  BY <1>1, SilentType, Zenon DEF IInv, handleP3SYNC
<1>4. lastMsgNum' \in [Node -> [Node -> Nat]]
  <2>1. CASE p.msgNum = 0
    BY <2>1, Zenon DEF handleP3SYNC, BOOTMSGNUM, IInv, Rest
  <2>2. CASE p.msgNum # 0
    <3>1. p.msgNum - 1 \in Nat
      BY <1>2, <2>2
    <3>2. lastMsgNum' = lastMsgNum \/ lastMsgNum' = [lastMsgNum EXCEPT ![n][s] = p.msgNum - 1]
      BY Zenon DEF handleP3SYNC
    <3>3. lastMsgNum \in [Node -> [Node -> Nat]]
      BY DEF IInv, Rest
    <3> DEFINE num == p.msgNum - 1
    <3> HIDE DEF num
    <3>4. QED BY <3>1, <3>2, <3>3 DEF num
  <2>3. QED BY <2>1, <2>2
<1>5. QED BY <1>3, <1>4, Zenon DEF handleP3SYNC, IInv, Rest, SndType, RcvType

\* Freeing a receive entry.
LEMMA FreeType ==
  ASSUME IInv, NEW n \in Node, NEW s \in Node, NEW c \in Cnt, FreeRcv(n, s, c)
  PROVE  rcv' \in RcvType /\ outstanding' \in [Node -> Int]
<1>1. NoRcv \in GoodRcv
  BY EmptyEntries DEF GoodRcv, NoRcv
<1>2. rcv' \in RcvType
  BY <1>1, RcvUpdate, Zenon DEF IInv, FreeRcv
<1>3. rcv[n][s][c].granted \in Nat
  BY DEF IInv, RcvType, GoodRcv, RcvEntry
<1>4. outstanding' \in [Node -> Int]
  <2> DEFINE g == rcv[n][s][c].granted
             k == outstanding[n] - g
  <2>1. outstanding' = [outstanding EXCEPT ![n] = k]
    BY DEF FreeRcv
  <2>2. outstanding \in [Node -> Int]
    BY DEF IInv, Rest
  <2>3. g \in Int
    BY <1>3
  <2> HIDE DEF g
  <2>4. k \in Int
    BY <2>2, <2>3
  <2> HIDE DEF k
  <2>5. QED BY <2>1, <2>2, <2>4, OutUpdate
<1>5. QED BY <1>2, <1>4

\* A GCH.
LEMMA GchStep ==
  ASSUME IInv, NEW n \in Node, NEW s \in Node, handleGCH(n, s)
  PROVE  IInv'
<1> DEFINE p == Head(net[s][n])
<1>1. net[s][n] # <<>> /\ p \in Packet
  BY HeadType, Zenon DEF IInv, handleGCH
<1>2. p.msgID \in Cnt
  BY <1>1, Zenon DEF Packet
<1>3. net' \in NetType
  BY <1>1, SilentType, Zenon DEF IInv, handleGCH
<1>4. rcv' \in RcvType /\ outstanding' \in [Node -> Int]
  BY <1>2, FreeType, Zenon DEF handleGCH
<1>5. QED BY <1>3, <1>4, Zenon DEF handleGCH, IInv, Rest, SndType

\* The garbage collector of Qreceiving.
LEMMA CleanStep ==
  ASSUME IInv, NEW n \in Node, NEW s \in Node, NEW c \in Cnt, clean_recv_queues(n, s, c)
  PROVE  IInv'
<1>1. rcv' \in RcvType /\ outstanding' \in [Node -> Int]
  BY FreeType, Zenon DEF clean_recv_queues
<1>2. budget' \in Budget
  <2>1. NoFault \/ Fault("cut")
    BY Zenon DEF clean_recv_queues
  <2>2. QED BY <2>1, BudgetType DEF FaultKinds, IInv, Rest
<1>3. QED BY <1>1, <1>2, Zenon DEF clean_recv_queues, IInv, Rest, SndType, NetType

\* Empty queues are typed.
LEMMA EmptyQueues ==
  /\ [c \in Cnt |-> NoSnd] \in [Cnt -> SndEntry]
  /\ [s \in Node |-> [c \in Cnt |-> NoRcv]] \in [Node -> [Cnt -> GoodRcv]]
<1>1. NoRcv \in GoodRcv
  BY EmptyEntries DEF GoodRcv, NoRcv
<1>2. QED BY <1>1, EmptyEntries

\* A process that exits.
LEMMA ExitStep ==
  ASSUME IInv, NEW n \in Node, p3_exit(n)
  PROVE  IInv'
<1>1. CleanSnd(n) \in [Cnt -> SndEntry]
  <2>1. ASSUME NEW e \in SndEntry
        PROVE [e EXCEPT !.event = "E_SENT_P3_NULL", !.nal = "null", !.task = "null"] \in SndEntry
    BY Zenon DEF SndEntry, SndEvent
  <2>2. \A c \in Cnt : snd[n][c] \in SndEntry
    BY DEF IInv, SndType
  <2>3. QED BY <2>1, <2>2, EmptyEntries, Zenon DEF CleanSnd
<1>2. snd' \in SndType
  BY <1>1, Zenon DEF p3_exit, IInv, SndType
<1>3. rcv' \in RcvType
  BY EmptyQueues, Zenon DEF p3_exit, IInv, RcvType
<1>4. outstanding' \in [Node -> Int]
  <2> DEFINE g == Granted(n)
             k == outstanding[n] - g
  <2>1. g \in Nat /\ outstanding' = [outstanding EXCEPT ![n] = k]
    BY Zenon DEF p3_exit
  <2>2. outstanding \in [Node -> Int]
    BY DEF IInv, Rest
  <2> HIDE DEF g
  <2>3. k \in Int
    BY <2>1, <2>2
  <2> HIDE DEF k
  <2>4. QED BY <2>1, <2>2, <2>3, OutUpdate
<1>5. status' \in [Msg -> {"unsent", "queued", "ended", "dropped", "gone"}]
  BY Zenon DEF p3_exit, IInv, Rest
<1>6. proc' \in [Node -> {"up", "closing", "gone"}]
  BY Zenon DEF p3_exit, IInv, Rest
<1>7. QED BY <1>2, <1>3, <1>4, <1>5, <1>6, Zenon DEF p3_exit, IInv, Rest, NetType

\* The callback block goes away.
LEMMA CloseStep ==
  ASSUME IInv, NEW n \in Node, close_lib_myrnal(n)
  PROVE  IInv'
<1>1. proc' \in [Node -> {"up", "closing", "gone"}]
  BY Zenon DEF close_lib_myrnal, IInv, Rest
<1>2. QED BY <1>1, Zenon DEF close_lib_myrnal, IInv, Rest, NetType, SndType, RcvType

\* A node comes back.
LEMMA RebootStep ==
  ASSUME IInv, NEW n \in Node, Reboot(n)
  PROVE  IInv'
<1>1. net' \in NetType
  <2>1. <<>> \in Seq(Packet)
    OBVIOUS
  <2>2. QED BY <2>1, Zenon DEF Reboot, IInv, NetType
<1>2. snd' \in SndType /\ rcv' \in RcvType
  BY EmptyQueues, Zenon DEF Reboot, IInv, SndType, RcvType
<1>3. send_msgNum' \in [Node -> [Node -> Nat]] /\ lastMsgNum' \in [Node -> [Node -> Nat]]
  BY Zenon DEF Reboot, IInv, Rest, BOOTMSGNUM
<1>4. first_ack' \in [Node -> [Node -> BOOLEAN]] /\ outstanding' \in [Node -> Int]
  <2>1. first_ack' \in [Node -> [Node -> BOOLEAN]]
    BY Zenon DEF Reboot, IInv, Rest
  <2>2. outstanding \in [Node -> Int] /\ outstanding' = [outstanding EXCEPT ![n] = 0]
    BY Zenon DEF Reboot, IInv, Rest
  <2>3. QED BY <2>1, <2>2, OutUpdate
<1>5. nextID' \in [Node -> Cnt]
  <2>1. 0 \in Cnt
    BY SizeAssumption DEF Cnt
  <2>2. nextID \in [Node -> Cnt] /\ nextID' = [nextID EXCEPT ![n] = 0]
    BY Zenon DEF Reboot, IInv, Rest
  <2>3. QED BY ONLY <2>1, <2>2, n \in Node, Zenon
<1>6. proc' \in [Node -> {"up", "closing", "gone"}] /\ sig' \in [Node -> BOOLEAN]
  BY Zenon DEF Reboot, IInv, Rest
<1>7. status' \in [Msg -> {"unsent", "queued", "ended", "dropped", "gone"}]
  BY Zenon DEF Reboot, IInv, Rest
<1>8. budget' \in Budget
  BY BudgetType, Zenon DEF Reboot, FaultKinds, IInv, Rest
<1>9. QED BY <1>1, <1>2, <1>3, <1>4, <1>5, <1>6, <1>7, <1>8, Zenon DEF Reboot, IInv, Rest

-----------------------------------------------------------------------------
(* The receiver                                                            *)

\* lib_finalize() of the receiver.
LEMMA FinalizeType ==
  ASSUME Rest, NEW n \in Node, NEW m \in Msg, NEW got, NEW signalled,
         Finalize(n, m, got, signalled) \/ UNCHANGED <<fin, bad>>
  PROVE  fin' \in [Msg -> Nat] /\ bad' \subseteq Msg
<1>1. bad' = bad \/ bad' = bad \cup {m}
  BY DEF Finalize
<1>2. fin' = fin \/ fin' = [fin EXCEPT ![m] = fin[m] + 1]
  BY DEF Finalize
<1>3. bad' \subseteq Msg
  BY <1>1 DEF Rest
<1>4. fin' \in [Msg -> Nat]
  <2> DEFINE k == fin[m] + 1
  <2>1. fin \in [Msg -> Nat] /\ k \in Nat
    BY DEF Rest
  <2>2. fin' = fin \/ fin' = [fin EXCEPT ![m] = k]
    BY <1>2
  <2> HIDE DEF k
  <2>3. QED BY <2>1, <2>2
<1>5. QED BY <1>3, <1>4

\* A duplicate first packet.
LEMMA DuplicateType ==
  ASSUME IInv, NEW n \in Node, NEW s \in Node, NEW c \in Cnt, net[s][n] # <<>>,
         Duplicate(n, s, c)
  PROVE  net' \in NetType /\ rcv' \in RcvType /\ outstanding' \in [Node -> Int]
<1> DEFINE e == rcv[n][s][c]
<1>1. e \in GoodRcv
  BY DEF IInv, RcvType
<1>2. e.len \in Nat /\ e.granted \in Nat
  BY <1>1, Zenon DEF GoodRcv, RcvEntry
<1>3. \/ UNCHANGED <<rcv, outstanding>>
      \/ Regrant(n, s, c)
  BY DEF Duplicate
<1>4. \E pkts \in Seq(Packet) : Answer(n, s, s, pkts)
  <2> DEFINE len == e.len
  <2>1. /\ <<sendProtoMSG("MSGDROP", c, 0, 0)>> \in Seq(Packet)
        /\ <<sendProtoMSG("MSGEND", c, 0, 0)>> \in Seq(Packet)
        /\ <<sendProtoMSG("CTS", c, len, 1)>> \in Seq(Packet)
        /\ <<>> \in Seq(Packet)
    <3>1. len \in Nat
      BY <1>2
    <3> HIDE DEF len, e
    <3>2. QED BY <3>1, ProtoType
  <2>2. \/ Answer(n, s, s, <<sendProtoMSG("MSGDROP", c, 0, 0)>>)
        \/ Answer(n, s, s, <<sendProtoMSG("MSGEND", c, 0, 0)>>)
        \/ Answer(n, s, s, <<sendProtoMSG("CTS", c, e.len, 1)>>)
        \/ Answer(n, s, s, <<>>)
    BY DEF Duplicate
  <2>3. QED BY <2>1, <2>2, Zenon
<1>5. net' \in NetType
  BY <1>4, AnswerType DEF IInv
<1>6. rcv' \in RcvType
  <2>1. [e EXCEPT !.granted = 1] \in GoodRcv
    BY <1>1, Zenon DEF GoodRcv, RcvEntry
  <2>2. ASSUME Regrant(n, s, c) PROVE rcv' = [rcv EXCEPT ![n][s][c] = [e EXCEPT !.granted = 1]]
    BY <2>2 DEF Regrant, IInv, RcvType
  <2>3. CASE Regrant(n, s, c)
    BY <2>1, <2>2, <2>3, RcvUpdate DEF IInv
  <2>4. CASE UNCHANGED <<rcv, outstanding>>
    BY <2>4 DEF IInv
  <2>5. QED BY <1>3, <2>3, <2>4
<1>7. outstanding' \in [Node -> Int]
  <2> DEFINE g == e.granted
  <2>1. \/ outstanding' = outstanding
        \/ outstanding' = [outstanding EXCEPT ![n] = outstanding[n] + 1 - g]
    BY <1>3 DEF Regrant
  <2>2. outstanding \in [Node -> Int]
    BY DEF IInv, Rest
  <2>3. g \in Int
    BY <1>2
  <2> DEFINE k == outstanding[n] + 1 - g
  <2>4. outstanding' = outstanding \/ outstanding' = [outstanding EXCEPT ![n] = k]
    BY <2>1
  <2> HIDE DEF g, e
  <2>5. k \in Int
    <3>1. outstanding[n] \in Int
      BY <2>2
    <3>2. ASSUME NEW x \in Int, NEW y \in Int PROVE x + 1 - y \in Int
      OBVIOUS
    <3>3. QED BY <2>3, <3>1, <3>2
  <2> HIDE DEF k
  <2>6. QED BY <2>2, <2>4, <2>5, OutUpdate
<1>8. QED BY <1>5, <1>6, <1>7

\* p3_recvBody() of a first packet.
LEMMA RecvBodyType ==
  ASSUME IInv, NEW n \in Node, NEW s \in Node, NEW p \in Packet, p.m \in Msg,
         net[s][n] # <<>>, p3_recvBody(n, s, p)
  PROVE  /\ net' \in NetType /\ rcv' \in RcvType
         /\ outstanding' \in [Node -> Int] /\ sig' \in [Node -> BOOLEAN]
         /\ fin' \in [Msg -> Nat] /\ bad' \subseteq Msg /\ stale' = stale /\ budget' \in Budget
<1> DEFINE c == p.msgID
           mlen == Mlen[p.m]
           len == Least(mlen, p.len)
           more == p.len < mlen /\ p.type # "P3_LAST_RTS"
           num_pkts == IF more THEN NumPkts(outstanding[n]) ELSE 0
           Entry(event, got) ==
             [q |-> "receiving", m |-> p.m, event |-> event, len |-> mlen, datasent |-> len,
              seq |-> 1, retries |-> 0, granted |-> num_pkts, done |-> FALSE, got |-> got]
           cts == <<sendProtoMSG("CTS", c, mlen, num_pkts)>>
           end == <<sendProtoMSG("MSGEND", c, 0, 0)>>
<1>1. c \in Cnt /\ p.len \in Int
  BY DEF Packet
<1>2. mlen \in Nat /\ p.m \in Nat
  BY MsgAssumption, Zenon
<1>3. len \in Int /\ len <= mlen
  <2> HIDE DEF mlen
  <2> QED BY <1>1, <1>2 DEF Least
<1>4. outstanding[n] \in Int /\ outstanding \in [Node -> Int]
  BY DEF IInv, Rest
<1>5. num_pkts \in Nat
  <2>1. NumPkts(outstanding[n]) \in Nat
    BY <1>4, NumPktsType
  <2> HIDE DEF more
  <2>2. QED BY <2>1
<1>6. ASSUME NEW event \in RcvEvent, NEW got \in SUBSET Int
      PROVE  Entry(event, got) \in GoodRcv
  <2>1. Entry(event, got) \in RcvEntry
    <3> HIDE DEF mlen, len, num_pkts
    <3> QED BY <1>2, <1>3, <1>5 DEF RcvEntry
  <2>2. /\ Entry(event, got).datasent = len /\ Entry(event, got).len = mlen
        /\ Entry(event, got).m = p.m
    OBVIOUS
  <2> HIDE DEF Entry, len
  <2>3. QED BY <1>3, <2>1, <2>2 DEF GoodRcv
<1>7. net' \in NetType
  <2>1. cts \in Seq(Packet) /\ end \in Seq(Packet)
    <3> HIDE DEF mlen, num_pkts, c
    <3> QED BY <1>1, <1>2, <1>5, ProtoType, Zenon
  <2>2. Answer(n, s, s, IF more THEN cts ELSE end)
    BY Zenon DEF p3_recvBody
  <2> HIDE DEF cts, end, more
  <2>3. QED BY <2>1, <2>2, AnswerType DEF IInv
<1>8. outstanding' \in [Node -> Int]
  <2>1. outstanding' = [outstanding EXCEPT ![n] = outstanding[n] + num_pkts]
    BY Zenon DEF p3_recvBody
  <2> HIDE DEF num_pkts
  <2>2. QED BY <1>4, <1>5, <2>1
<1>9. rcv' \in RcvType
  <2>1. Units(0, len) \in SUBSET Int
    <3> HIDE DEF len
    <3> QED BY <1>3 DEF Units
  <2>2. /\ (IF more THEN "E_SENT_CTS" ELSE "E_SENT_MSGEND") \in RcvEvent
        /\ (IF more THEN "E_SENT_MSGDROP" ELSE "E_SENT_MSGEND") \in RcvEvent
    BY DEF RcvEvent
  <2>3. \/ rcv' = rcv
        \/ rcv' = [rcv EXCEPT ![n][s][c] =
                     Entry(IF more THEN "E_SENT_CTS" ELSE "E_SENT_MSGEND", Units(0, len))]
        \/ rcv' = [rcv EXCEPT ![n][s][c] =
                     Entry(IF more THEN "E_SENT_MSGDROP" ELSE "E_SENT_MSGEND", {})]
    BY Zenon DEF p3_recvBody
  <2> HIDE DEF Entry, len, more, c
  <2>4. rcv' = rcv \/ \E e \in GoodRcv : rcv' = [rcv EXCEPT ![n][s][c] = e]
    BY <1>6, <2>1, <2>2, <2>3, Zenon
  <2>5. QED BY <1>1, <2>4, RcvUpdate DEF IInv
<1>10. fin' \in [Msg -> Nat] /\ bad' \subseteq Msg
  <2>1. \E got, signalled : Finalize(n, p.m, got, signalled) \/ UNCHANGED <<fin, bad>>
    BY Zenon DEF p3_recvBody
  <2>2. QED BY <2>1, FinalizeType, Zenon DEF IInv
<1>11. sig' \in [Node -> BOOLEAN] /\ stale' = stale
  BY Zenon DEF p3_recvBody, IInv, Rest
<1>12. budget' \in Budget
  <2>1. NoFault \/ Fault("nomem") \/ Fault("copy")
    BY Zenon DEF p3_recvBody
  <2>2. QED BY <2>1, BudgetType DEF FaultKinds, IInv, Rest
<1>13. QED BY <1>7, <1>8, <1>9, <1>10, <1>11, <1>12

\* A first packet.
LEMMA P3Step ==
  ASSUME IInv, NEW n \in Node, NEW s \in Node, handleP3(n, s)
  PROVE  IInv'
<1> DEFINE p == Head(net[s][n])
           c == p.msgID
           drop(info2) == <<sendProtoMSG("MSGDROP", c, 0, info2)>>
<1>1. net[s][n] # <<>> /\ p \in Packet /\ p.type \in P3Type
  BY HeadType, Zenon DEF IInv, handleP3
<1>2. c \in Cnt /\ p.msgNum \in Nat
  BY <1>1, Zenon DEF Packet
<1>3. UNCHANGED <<snd, send_msgNum, first_ack, nextID, proc, status, used, reuse>>
  BY Zenon DEF handleP3
<1>4. ASSUME lastMsgNum' = [lastMsgNum EXCEPT ![n][s] = NewLast(p.msgNum)]
      PROVE  lastMsgNum' \in [Node -> [Node -> Nat]]
  <2>1. NewLast(p.msgNum) \in Nat
    BY <1>2 DEF NewLast, ILLMSGNUM
  <2>2. QED BY <1>4, <2>1, Zenon DEF IInv, Rest
<1>5. CASE /\ Duplicate(n, s, c)
           /\ UNCHANGED <<lastMsgNum, acc, fin, bad, sig, stale, budget>>
  <2>1. net' \in NetType /\ rcv' \in RcvType /\ outstanding' \in [Node -> Int]
    BY <1>1, <1>2, <1>5, DuplicateType, Zenon
  <2>2. QED BY <1>3, <1>5, <2>1, Zenon DEF IInv, Rest, SndType
<1>6. CASE /\ Answer(n, s, s, <<>>)
           /\ UNCHANGED <<rcv, lastMsgNum, outstanding, acc, fin, bad, sig, stale>>
           /\ UNCHANGED budget \/ Fault("parse")
  <2>1. net' \in NetType
    BY <1>1, <1>6, SilentType, Zenon DEF IInv
  <2>2. budget' \in Budget
    BY <1>6, BudgetType DEF NoFault, FaultKinds, IInv, Rest
  <2>3. QED BY <1>3, <1>6, <2>1, <2>2, Zenon DEF IInv, Rest, SndType, RcvType
<1>7. CASE /\ lastMsgNum' = [lastMsgNum EXCEPT ![n][s] = NewLast(p.msgNum)]
           /\ Answer(n, s, s, drop(IF p.type = "P3_NULL" THEN NullDrop ELSE 0))
           /\ UNCHANGED <<rcv, outstanding, acc, fin, bad, sig, stale, budget>>
  <2>1. drop(0) \in Seq(Packet) /\ drop(NullDrop) \in Seq(Packet)
    BY <1>2, ProtoType, Zenon DEF NullDrop
  <2>2. Answer(n, s, s, drop(0)) \/ Answer(n, s, s, drop(NullDrop))
    BY <1>7
  <2>3. net' \in NetType
    <3> HIDE DEF drop
    <3> QED BY <1>1, <2>1, <2>2, AnswerType DEF IInv
  <2>4. QED BY <1>3, <1>4, <1>7, <2>3, Zenon DEF IInv, Rest, SndType, RcvType
<1>8. CASE /\ p.type # "P3_NULL"
           /\ lastMsgNum' = [lastMsgNum EXCEPT ![n][s] = NewLast(p.msgNum)]
           /\ acc' = IF proc[n] = "up" THEN [acc EXCEPT ![n][s] = Append(@, p.m)] ELSE acc
           /\ p3_recvBody(n, s, p)
  <2>1. p.m \in Msg
    BY <1>1, <1>8, Zenon DEF Packet, P3Type
  <2>2. /\ net' \in NetType /\ rcv' \in RcvType
        /\ outstanding' \in [Node -> Int] /\ sig' \in [Node -> BOOLEAN]
        /\ fin' \in [Msg -> Nat] /\ bad' \subseteq Msg /\ stale' = stale /\ budget' \in Budget
    <3> HIDE DEF p
    <3> QED BY <1>1, <1>8, <2>1, RecvBodyType
  <2>3. acc' \in [Node -> [Node -> Seq(Msg)]]
    <3>1. acc \in [Node -> [Node -> Seq(Msg)]]
      BY DEF IInv, Rest
    <3> DEFINE longer == Append(acc[n][s], p.m)
    <3>2. longer \in Seq(Msg)
      BY <2>1, <3>1
    <3>3. acc' = acc \/ acc' = [acc EXCEPT ![n][s] = longer]
      BY <1>8, Zenon
    <3> HIDE DEF p, longer
    <3>4. ASSUME NEW S, NEW f \in [Node -> [Node -> S]], NEW x \in S
          PROVE  [f EXCEPT ![n][s] = x] \in [Node -> [Node -> S]]
      OBVIOUS
    <3>5. [acc EXCEPT ![n][s] = longer] \in [Node -> [Node -> Seq(Msg)]]
      BY ONLY <3>1, <3>2, <3>4, Zenon
    <3>6. QED BY ONLY <3>1, <3>3, <3>5, Zenon
  <2>4. lastMsgNum' \in [Node -> [Node -> Nat]]
    BY <1>4, <1>8, Zenon
  <2>5. QED
    <3> HIDE DEF p
    <3> QED BY <1>3, <2>2, <2>3, <2>4, Zenon DEF IInv, Rest, SndType
<1>9. QED
  BY <1>5, <1>6, <1>7, <1>8, Zenon DEF handleP3

\* Taking a grant back keeps the position inside the buffer.
LEMMA TakeBackType ==
  ASSUME NEW e \in GoodRcv, NEW p \in Packet
  PROVE  TakeBack(e, p) \in GoodRcv
<1>1. p.info2 \in Nat
  BY DEF Packet
<1>2. [e EXCEPT !.granted = 0] \in GoodRcv
  BY DEF GoodRcv, RcvEntry
<1>3. [e EXCEPT !.seq = 1, !.datasent = 0, !.retries = p.info2, !.granted = 0] \in GoodRcv
  <2>1. ASSUME NEW f \in GoodRcv PROVE [f EXCEPT !.seq = 1] \in GoodRcv
    BY DEF GoodRcv, RcvEntry
  <2>2. ASSUME NEW f \in GoodRcv PROVE [f EXCEPT !.datasent = 0] \in GoodRcv
    BY DEF GoodRcv, RcvEntry
  <2>3. ASSUME NEW f \in GoodRcv, NEW r \in Nat
        PROVE  [f EXCEPT !.retries = r, !.granted = 0] \in GoodRcv
    BY Zenon DEF GoodRcv, RcvEntry
  <2>4. [e EXCEPT !.seq = 1, !.datasent = 0, !.retries = p.info2, !.granted = 0]
          = [[[e EXCEPT !.seq = 1] EXCEPT !.datasent = 0] EXCEPT !.retries = p.info2, !.granted = 0]
    OBVIOUS
  <2>5. QED
    <3>1. [[e EXCEPT !.seq = 1] EXCEPT !.datasent = 0] \in GoodRcv
      BY <2>1, <2>2, Zenon
    <3>2. QED BY <1>1, <2>3, <2>4, <3>1, Zenon
<1>4. QED BY <1>2, <1>3 DEF TakeBack

\* Copying a packet keeps the position inside the buffer: handleDATA() cuts the
\* packet to entry->len - entry->datasent.
LEMMA CopiedType ==
  ASSUME NEW e \in GoodRcv, NEW p \in Packet
  PROVE  Copied(e, p) \in GoodRcv /\ Copied(e, p).m = e.m
<1> DEFINE len == Least(p.len, e.len - e.datasent)
           old == IF e.done THEN {} ELSE Units(e.datasent, len)
           new == IF p.m = e.m /\ p.off = e.datasent THEN old ELSE {}
           datasent == e.datasent + len
           seq == e.seq + 1
           got == (e.got \ old) \cup new
<1>1. e.len \in Nat /\ e.datasent \in Int /\ e.seq \in Nat /\ e.got \in SUBSET Int
  BY DEF GoodRcv, RcvEntry
<1>2. len \in Int /\ len <= e.len - e.datasent
  <2>1. p.len \in Int
    BY DEF Packet
  <2>2. QED BY <1>1, <2>1 DEF Least
<1>3. datasent \in Int /\ datasent <= e.len /\ seq \in Nat
  <2> HIDE DEF len
  <2> QED BY <1>1, <1>2
<1>4. old \subseteq Int
  <2> HIDE DEF len
  <2> QED BY <1>1, <1>2 DEF Units
<1>5. got \in SUBSET Int
  <2> HIDE DEF old
  <2> QED BY <1>1, <1>4, Zenon
<1>6. Copied(e, p) = [e EXCEPT !.datasent = datasent, !.seq = seq, !.event = "E_RCVD_DATA", !.got = got]
  BY DEF Copied, GoodRcv, RcvEntry
<1> HIDE DEF datasent, seq, got
<1>7. [e EXCEPT !.datasent = datasent, !.seq = seq] \in GoodRcv
  BY <1>3, Zenon DEF GoodRcv, RcvEntry
<1>8. ASSUME NEW f \in GoodRcv PROVE [f EXCEPT !.event = "E_RCVD_DATA", !.got = got] \in GoodRcv
  BY <1>5, Zenon DEF GoodRcv, RcvEntry, RcvEvent
<1>9. [e EXCEPT !.datasent = datasent, !.seq = seq, !.event = "E_RCVD_DATA", !.got = got]
        = [[e EXCEPT !.datasent = datasent, !.seq = seq] EXCEPT !.event = "E_RCVD_DATA", !.got = got]
  OBVIOUS
<1>10. Copied(e, p) \in GoodRcv
  BY <1>6, <1>7, <1>8, <1>9, Zenon
<1>11. Copied(e, p).m = e.m
  BY <1>6 DEF GoodRcv, RcvEntry
<1>12. QED BY <1>10, <1>11

\* handleDATA() of a packet in sequence.
LEMMA AcceptType ==
  ASSUME IInv, NEW n \in Node, NEW s \in Node, NEW c \in Cnt, NEW e1 \in GoodRcv,
         NEW p \in Packet, e1.m \in Msg, net[s][n] # <<>>, Accept(n, s, c, e1, p)
  PROVE  /\ net' \in NetType /\ rcv' \in RcvType
         /\ outstanding' \in [Node -> Int] /\ sig' \in [Node -> BOOLEAN]
         /\ fin' \in [Msg -> Nat] /\ bad' \subseteq Msg /\ stale' \subseteq Node
         /\ budget' \in Budget
<1> DEFINE e2 == Copied(e1, p)
           stop == p.type = "STOP_DATA"
           last == p.type = "LAST_DATA"
           rest == outstanding[n] - rcv[n][s][c].granted + e1.granted
           num_pkts == IF stop THEN NumPkts(rest) ELSE 0
           early == Complete(e2, p) /\ p.type # "LAST_DATA"
           granted == IF stop THEN num_pkts ELSE e2.granted
           done == e2.done \/ last
           event == IF Complete(e2, p) THEN "E_SENT_MSGEND"
                    ELSE IF stop THEN "E_SENT_CTS" ELSE e2.event
           e3 == [e2 EXCEPT !.granted = granted, !.done = done, !.event = event]
<1>1. e2 \in GoodRcv /\ e2.m = e1.m
  BY CopiedType
<1>2. /\ e2.granted \in Nat /\ e2.done \in BOOLEAN /\ e2.event \in RcvEvent
      /\ e1.granted \in Nat /\ e1.len \in Nat /\ rcv[n][s][c].granted \in Nat
  <2>1. e2.granted \in Nat /\ e2.done \in BOOLEAN /\ e2.event \in RcvEvent
    <3> HIDE DEF e2
    <3> QED BY <1>1 DEF GoodRcv, RcvEntry
  <2>2. e1.granted \in Nat /\ e1.len \in Nat
    BY DEF GoodRcv, RcvEntry
  <2>3. rcv[n][s][c].granted \in Nat
    <3>1. rcv[n][s][c] \in GoodRcv
      BY DEF IInv, RcvType
    <3>2. QED BY <3>1, Zenon DEF GoodRcv, RcvEntry
  <2>4. QED BY <2>1, <2>2, <2>3
<1>3. outstanding \in [Node -> Int] /\ outstanding[n] \in Int
  BY Zenon DEF IInv, Rest
<1>4. rest \in Int
  <2>1. ASSUME NEW x \in Int, NEW y \in Nat, NEW z \in Nat PROVE x - y + z \in Int
    OBVIOUS
  <2>2. QED BY <1>2, <1>3, <2>1, Zenon
<1>5. num_pkts \in Nat
  <2> HIDE DEF rest
  <2> QED BY <1>4, NumPktsType
<1>6. rcv' \in RcvType
  <2>1. rcv' = [rcv EXCEPT ![n][s][c] = e3]
    BY <1>1 DEF Accept, GoodRcv, RcvEntry
  <2>2. granted \in Nat /\ done \in BOOLEAN /\ event \in RcvEvent
    <3> HIDE DEF e2, num_pkts
    <3>1. granted \in Nat
      BY <1>2, <1>5
    <3>2. done \in BOOLEAN
      BY <1>2
    <3>3. event \in RcvEvent
      BY <1>2 DEF RcvEvent
    <3>4. QED BY <3>1, <3>2, <3>3
  <2>3. e3 \in GoodRcv
    <3> HIDE DEF e2, granted, done, event
    <3>1. [e2 EXCEPT !.granted = granted, !.done = done] \in GoodRcv
      BY <1>1, <2>2, Zenon DEF GoodRcv, RcvEntry
    <3>2. ASSUME NEW f \in GoodRcv PROVE [f EXCEPT !.event = event] \in GoodRcv
      BY <2>2, Zenon DEF GoodRcv, RcvEntry
    <3>3. e3 = [[e2 EXCEPT !.granted = granted, !.done = done] EXCEPT !.event = event]
      OBVIOUS
    <3>4. QED BY <3>1, <3>2, <3>3, Zenon
  <2> HIDE DEF e3
  <2>4. QED BY <2>1, <2>3, RcvUpdate, Zenon DEF IInv
<1>7. outstanding' \in [Node -> Int]
  <2>1. outstanding' = [outstanding EXCEPT ![n] = rest + num_pkts]
    BY DEF Accept
  <2> HIDE DEF rest, num_pkts
  <2>2. QED BY <1>3, <1>4, <1>5, <2>1
<1>8. net' \in NetType
  <2> DEFINE cts == IF stop THEN <<sendProtoMSG("CTS", c, e1.len, num_pkts)>> ELSE <<>>
             drop == IF early THEN <<sendProtoMSG("MSGDROP", c, 1, 0)>> ELSE <<>>
             end == IF last THEN <<sendProtoMSG("MSGEND", c, 0, 0)>> ELSE <<>>
  <2>1. Answer(n, s, s, cts \o drop \o end)
    BY DEF Accept
  <2>2. <<>> \in Seq(Packet)
    OBVIOUS
  <2>3. cts \in Seq(Packet)
    <3> HIDE DEF num_pkts
    <3> QED BY <1>2, <1>5, <2>2, ProtoType
  <2>4. drop \in Seq(Packet) /\ end \in Seq(Packet)
    <3> HIDE DEF early
    <3> QED BY <2>2, ProtoType, Zenon
  <2> HIDE DEF cts, drop, end
  <2>5. cts \o drop \o end \in Seq(Packet)
    <3>1. cts \o drop \in Seq(Packet)
      BY <2>3, <2>4
    <3>2. QED BY <2>4, <3>1
  <2>6. QED BY <2>1, <2>5, AnswerType, Zenon DEF IInv
<1>9. fin' \in [Msg -> Nat] /\ bad' \subseteq Msg
  <2>1. Finalize(n, e2.m, e2.got, sig[n]) \/ UNCHANGED <<fin, bad>>
    BY DEF Accept
  <2> HIDE DEF e2
  <2>2. QED BY <1>1, <2>1, FinalizeType, Zenon DEF IInv
<1>10. sig' \in [Node -> BOOLEAN] /\ stale' \subseteq Node
  <2>1. sig' = sig \/ sig' = [sig EXCEPT ![n] = TRUE]
    BY DEF Accept
  <2>2. stale' = stale \/ stale' = stale \cup {n}
    BY DEF Accept
  <2>3. QED BY <2>1, <2>2, Zenon DEF IInv, Rest
<1>11. budget' \in Budget
  BY Zenon DEF Accept, NoFault, IInv, Rest
<1>12. QED BY <1>6, <1>7, <1>8, <1>9, <1>10, <1>11

\* A data packet.
LEMMA DataStep ==
  ASSUME IInv, NEW n \in Node, NEW s \in Node, handleDATA(n, s)
  PROVE  IInv'
<1> DEFINE p == Head(net[s][n])
           c == p.msgID
           e == rcv[n][s][c]
           e1 == TakeBack(e, p)
<1>1. net[s][n] # <<>> /\ p \in Packet
  BY HeadType, Zenon DEF IInv, handleDATA
<1>2. c \in Cnt
  BY <1>1, Zenon DEF Packet
<1>3. e \in GoodRcv
  BY <1>2 DEF IInv, RcvType
<1>4. e1 \in GoodRcv
  <2> HIDE DEF e, p
  <2> QED BY <1>1, <1>3, TakeBackType
<1>5. first_ack' \in [Node -> [Node -> BOOLEAN]]
  <2>1. Acked(n, s)
    BY Zenon DEF handleDATA
  <2>2. QED BY <2>1, Zenon DEF Acked, IInv, Rest
<1>6. UNCHANGED <<snd, send_msgNum, lastMsgNum, nextID, proc, status, acc, used, reuse>>
  BY Zenon DEF handleDATA
<1>7. CASE /\ Answer(n, s, s, <<>>)
           /\ UNCHANGED <<rcv, outstanding, fin, bad, sig, stale, budget>>
  <2>1. net' \in NetType
    BY <1>1, <1>7, SilentType, Zenon DEF IInv
  <2>2. QED BY <1>5, <1>6, <1>7, <2>1, Zenon DEF IInv, Rest, SndType, RcvType
<1>8. CASE /\ Answer(n, s, s, <<>>)
           /\ rcv' = [rcv EXCEPT ![n][s][c].seq = BadSeq]
           /\ UNCHANGED <<outstanding, fin, bad, sig, stale, budget>>
  <2>1. net' \in NetType
    BY <1>1, <1>8, SilentType, Zenon DEF IInv
  <2>2. rcv' \in RcvType
    <3>1. [e EXCEPT !.seq = BadSeq] \in GoodRcv
      <4>1. BadSeq \in Nat
        BY DEF BadSeq
      <4> HIDE DEF e
      <4>2. QED BY <1>3, <4>1 DEF GoodRcv, RcvEntry
    <3>2. rcv' = [rcv EXCEPT ![n][s][c] = [e EXCEPT !.seq = BadSeq]]
      BY <1>8, Zenon
    <3> HIDE DEF e, c
    <3>3. QED BY <1>2, <3>1, <3>2, RcvUpdate, Zenon DEF IInv
  <2>3. QED BY <1>5, <1>6, <1>8, <2>1, <2>2, Zenon DEF IInv, Rest, SndType
<1>9. CASE e.q # "none" /\ Accept(n, s, c, e1, p)
  <2>1. e1.m \in Msg
    <3>1. e.m \in Msg
      BY <1>3, <1>9, Zenon DEF GoodRcv, RcvEntry
    <3>2. e1.m = e.m
      BY <1>3, Zenon DEF TakeBack, GoodRcv, RcvEntry
    <3>3. QED BY <3>1, <3>2, Zenon
  <2>2. /\ net' \in NetType /\ rcv' \in RcvType
        /\ outstanding' \in [Node -> Int] /\ sig' \in [Node -> BOOLEAN]
        /\ fin' \in [Msg -> Nat] /\ bad' \subseteq Msg /\ stale' \subseteq Node
        /\ budget' \in Budget
    <3>1. net[s][n] # <<>> /\ p \in Packet /\ Accept(n, s, c, e1, p)
      BY <1>1, <1>9, Zenon
    <3> HIDE DEF e1, e, c, p
    <3>2. QED BY <1>2, <1>4, <2>1, <3>1, AcceptType, Zenon
  <2>3. QED BY <1>5, <1>6, <2>2, Zenon DEF IInv, Rest, SndType
<1>10. CASE /\ Fault("copy")
            /\ Answer(n, s, s, <<>>)
            /\ rcv' = [rcv EXCEPT ![n][s][c] = e1]
            /\ outstanding' = [outstanding EXCEPT ![n] = @ - e.granted + e1.granted]
            /\ sig' = [sig EXCEPT ![n] = TRUE]
            /\ UNCHANGED <<fin, bad, stale>>
  <2>1. net' \in NetType
    BY <1>1, <1>10, SilentType, Zenon DEF IInv
  <2>2. rcv' \in RcvType
    <3>1. rcv' = [rcv EXCEPT ![n][s][c] = e1]
      BY <1>10, Zenon
    <3> HIDE DEF e1, e, c
    <3>2. QED BY <1>2, <1>4, <3>1, RcvUpdate, Zenon DEF IInv
  <2>3. outstanding' \in [Node -> Int]
    <3> DEFINE rest == outstanding[n] - e.granted + e1.granted
    <3>1. outstanding \in [Node -> Int] /\ outstanding[n] \in Int
      BY DEF IInv, Rest
    <3>2. e.granted \in Nat /\ e1.granted \in Nat
      <4> HIDE DEF e1, e
      <4> QED BY <1>3, <1>4 DEF GoodRcv, RcvEntry
    <3>3. rest \in Int
      <4>1. ASSUME NEW x \in Int, NEW y \in Nat, NEW z \in Nat PROVE x - y + z \in Int
        OBVIOUS
      <4> HIDE DEF e1, e
      <4>2. QED BY <3>1, <3>2, <4>1
    <3>4. outstanding' = [outstanding EXCEPT ![n] = rest]
      BY <1>10, Zenon
    <3> HIDE DEF rest
    <3>5. QED BY <3>1, <3>3, <3>4
  <2>4. budget' \in Budget
    BY <1>10, BudgetType, Zenon DEF FaultKinds, IInv, Rest
  <2>5. sig' \in [Node -> BOOLEAN]
    BY <1>10, Zenon DEF IInv, Rest
  <2>6. UNCHANGED <<fin, bad, stale>>
    BY <1>10, Zenon
  <2>7. QED BY <1>5, <1>6, <2>1, <2>2, <2>3, <2>4, <2>5, <2>6, Zenon DEF IInv, Rest, SndType
<1>11. QED
  <2> HIDE DEF e1
  <2> QED BY <1>7, <1>8, <1>9, <1>10, Zenon DEF handleDATA, e1
-----------------------------------------------------------------------------
(* The theorems                                                            *)

\* Every handler, timer, exit and fault preserves the invariant.
LEMMA NextIInv == IInv /\ [Next]_vars => IInv'
<1> SUFFICES ASSUME IInv, [Next]_vars PROVE IInv'
  OBVIOUS
<1>1. CASE UNCHANGED vars
  BY <1>1, Zenon DEF vars, IInv, NetType, SndType, RcvType, Rest
<1>2. ASSUME NEW n \in Node, NEW s \in Node, Receive(n, s) PROVE IInv'
  BY <1>2, P3Step, SyncStep, CtsStep, DataStep, EndStep, GchStep DEF Receive
<1>3. QED
  BY <1>1, <1>2, SendStep, LoseStep, TimeoutStep, DataResendStep, CleanStep, ExitStep, CloseStep,
     RebootStep DEF Next

\* The invariant holds for every node set, message set, size, pool and fault budget.
LEMMA Invariance == Spec => []IInv
<1>1. Init => IInv
  BY InitIInv
<1>2. IInv /\ [Next]_vars => IInv'
  BY NextIInv
<1>3. QED BY <1>1, <1>2, PTL DEF Spec

\* Whatever is lost, repeated, restarted, killed or rebooted, the queues, tables and
\* packets of the transport keep their types, and every queued entry and first packet
\* belongs to a message.
THEOREM TypeCorrect == Spec => []TypeOK
<1>1. IInv => TypeOK
  BY IInvMeaning
<1>2. QED BY <1>1, Invariance, PTL

\* handleDATA() never copies past the memory the descriptor gave to the message, for
\* every size, window, pool and number of faults.
THEOREM BufferSafe == Spec => []BufferBound
<1>1. IInv => BufferBound
  BY IInvMeaning
<1>2. QED BY <1>1, Invariance, PTL
=============================================================================
