------------------------------- MODULE RtsCts -------------------------------
(***************************************************************************)
(* The RTS/CTS message transport of the Cplant compute-node kernel module  *)
(* (compute/OS/Myrinet/rtscts): reliable, ordered Portals 3 messages over  *)
(* a Myrinet that loses packets but keeps the order of a source route.     *)
(*                                                                         *)
(* Every handler runs between cli() and restore_flags(), so one handler    *)
(* (with everything it calls) is one action.  The build modelled is the    *)
(* one Makefile-common and Makefile-core select: DO_TIMEOUT_PROTOCOL,      *)
(* NEW_P3_RESEND and EXTENDED_P3_RTSCTS on, KERNEL_ADDR_CACHE off.         *)
(*                                                                         *)
(* A queue is a function from the counter part of a msgID to an entry or   *)
(* NoEntry; the node part of a msgID is the sender and is implied by the   *)
(* queue or the channel.  Bytes are abstract units: RtsPay units fit in    *)
(* the first packet of a message, DataPay in every later one.              *)
(***************************************************************************)
EXTENDS Integers, Sequences, FiniteSetsExt

CONSTANTS
    Node,          \* physical nodes
    Msg,           \* the Portals messages of the run: 1..k, sent in this order
    Src, Dst,      \* [Msg -> Node]: sender and target node
    Size,          \* [Msg -> Nat]: length the sender announces
    Mlen,          \* [Msg -> Nat]: length the target's memory descriptor takes
    RtsPay,        \* MYRPKT_MTU - sizeof(pkthdr_t) - sizeof(ptl_hdr_t)
    DataPay,       \* MYRPKT_MTU - sizeof(pkthdr_t)
    RcvPool,       \* MAX_RCV_PKT_ENTRIES - OTHER_NODES
    MaxDataPkts,   \* MAX_DATA_PKTS
    P3MsgRetries,  \* P3_MSG_RETRIES
    IdMod,         \* msgID_MASK + 1
    Scenarios,     \* what may happen: which messages are sent (msgs), which failures
                   \* there may be (kinds, of FaultKinds) and how many (faults)
    MaxRestart     \* bound: retries of one multi-packet message

\* loss:   a packet is lost.  A protocol packet that finds no send page, and a
\*         first packet the MCP refuses, are lost packets too: the code goes on
\*         as if they had been sent
\* early:  a timer fires although an answer is still under way
\* page, xmit: p3_send() or sendDATA() finds no send page, or the MCP refuses
\* copy:   a copy from or to the user's buffer fails (SIGPIPE follows)
\* parse:  lib_parse() finds no free message object and returns 1
\* nomem:  enqueue() gets no memory
\* exit:   the process closes its Portals device
\* junk:   an uninitialized send_task differs from the task of the process
\* cut:    two minutes of lost packets: clean_recv_queues() collects an entry
\*         whose sender still tries
\* reboot: a node reboots
FaultKinds == {"loss", "early", "page", "xmit", "copy", "parse", "nomem", "exit",
               "junk", "cut", "reboot"}
Budget == [kinds : SUBSET FaultKinds, left : Nat]

ASSUME MsgAssumption ==
    /\ Msg \subseteq Nat \ {0}
    /\ Src \in [Msg -> Node] /\ Dst \in [Msg -> Node]
    /\ \A m \in Msg : Src[m] # Dst[m]
    /\ Size \in [Msg -> Nat] /\ Mlen \in [Msg -> Nat]
    /\ \A m \in Msg : Mlen[m] <= Size[m]

ASSUME SizeAssumption ==
    /\ RtsPay \in Nat \ {0} /\ DataPay \in Nat \ {0}
    /\ RcvPool \in Nat /\ MaxDataPkts \in Nat \ {0}
    /\ P3MsgRetries \in Nat \ {0} /\ IdMod \in Nat \ {0}
    /\ \A s \in Scenarios : s.kinds \subseteq FaultKinds /\ s.faults \in Nat
    /\ MaxRestart \in Nat

VARIABLES
    net,          \* net[s][d]: packets on their way from s to d, oldest first
    snd,          \* snd[n][c]: entry of Qsnd_pending or Qsending of node n
    rcv,          \* rcv[n][s][c]: entry of Qreceiving of n for a message of s
    send_msgNum,  \* send_msgNum[n][d]
    lastMsgNum,   \* lastMsgNum[n][s]
    first_ack,    \* remote_status[d].first_ack of node n
    outstanding,  \* rtscts_stat->outstanding_pkts of node n
    nextID,       \* counter of next_msgID() of node n
    proc,         \* Portals process of node n: "up", "closing", "gone"
    sig,          \* a signal that kills the process of n is pending
    status,       \* status[m]: what the sender knows of message m
    acc,          \* acc[n][s]: messages of s that a live process of n got, in order
    fin,          \* fin[m]: lib_finalize() calls of the receiver for m
    bad,          \* messages the receiver finalized with a wrong buffer
    stale,        \* nodes where a handler used the state of a process that is gone
    used,         \* used[n]: identifiers n has handed out since the beginning
    reuse,        \* some node has handed out an identifier a second time
    budget        \* the kinds of faults that may happen, and how many are left

vars == <<net, snd, rcv, send_msgNum, lastMsgNum, first_ack, outstanding, nextID,
          proc, sig, status, acc, fin, bad, stale, used, reuse,
          budget>>
-----------------------------------------------------------------------------
(* Message numbers, identifiers and grants                                 *)

BOOTMSGNUM == 0
ILLMSGNUM  == 1

\* The number after num, never BOOTMSGNUM or ILLMSGNUM.  A run sends far fewer
\* than 2^32 messages, so the wrap-around is not reached.
incMsgNum(num) ==
    IF num + 1 \in {BOOTMSGNUM, ILLMSGNUM} THEN ILLMSGNUM + 1 ELSE num + 1

\* The counter part of a msgID; it repeats after IdMod messages of a node.
Cnt == 0 .. (IdMod - 1)
next_msgID_NoMask(cnt) == cnt + 1
next_msgID(cnt) == (cnt + 1) % IdMod

Least(a, b) == IF a < b THEN a ELSE b

\* Packets the receiver grants with a CTS: what is left of the receive pool,
\* between 1 and MAX_DATA_PKTS.
NumPkts(out) ==
    LET left == RcvPool - out
    IN  IF left > MaxDataPkts THEN MaxDataPkts ELSE IF left < 1 THEN 1 ELSE left

\* entry->seq of a stream the receiver has given up until it is restarted.
BadSeq == 2147483647
-----------------------------------------------------------------------------
(* Queue entries and packets                                               *)

SndEvent == {"E_CREATE", "E_SENT_P3_RTS", "E_SENT_P3_LAST_RTS", "E_SENT_P3_NULL",
             "E_SENT_STOP_DATA", "E_SENT_LAST_DATA"}
RcvEvent == {"E_CREATE", "E_SENT_CTS", "E_SENT_MSGEND", "E_SENT_MSGDROP", "E_RCVD_DATA"}
P3Type   == {"P3_RTS", "P3_LAST_RTS", "P3_NULL"}
DataType == {"DATA", "STOP_DATA", "LAST_DATA"}
PktType  == P3Type \cup DataType \cup {"P3_SYNC", "CTS", "MSGEND", "MSGDROP", "GCH"}

\* An entry of Qsnd_pending or Qsending.  task is the process's task, NULL after
\* clean_queue(), or whatever an uninitialized variable held.
SndEntry ==
    {e \in [q : {"none", "pending", "sending"}, m : Nat, msgNum : Nat,
            event : SndEvent, len : Int, datasent : Int, seq : Nat, retries : Nat,
            p3msg_retries : 0 .. P3MsgRetries,
            nal : {"cb", "null"}, task : {"task", "null", "junk"}] :
        e.q # "none" => e.m \in Msg}
NoSnd == [q |-> "none", m |-> 0, msgNum |-> ILLMSGNUM, event |-> "E_CREATE",
          len |-> 0, datasent |-> 0, seq |-> 0, retries |-> 0, p3msg_retries |-> 0,
          nal |-> "null", task |-> "null"]

\* An entry of Qreceiving.  got is the part of the user's buffer that holds the
\* right units, done is lib_finalize_called.
RcvEntry ==
    {e \in [q : {"none", "receiving"}, m : Nat, event : RcvEvent, len : Nat,
            datasent : Int, seq : Nat, retries : Nat, granted : Nat,
            done : BOOLEAN, got : SUBSET Int] :
        e.q # "none" => e.m \in Msg}
NoRcv == [q |-> "none", m |-> 0, event |-> "E_CREATE", len |-> 0, datasent |-> 0,
          seq |-> 0, retries |-> 0, granted |-> 0, done |-> FALSE, got |-> {}]

\* pkthdr_t, with the units off .. off+len-1 of message m as the payload.
Packet ==
    {p \in [type : PktType, msgID : Cnt, msgNum : Nat, seq : Nat, info : Nat,
            info2 : Nat, m : Nat, off : Int, len : Int] :
        p.type \in {"P3_RTS", "P3_LAST_RTS"} => p.m \in Msg}

build_page(type, id, num, m, off, len) ==
    [type |-> type, msgID |-> id, msgNum |-> num, seq |-> 0, info |-> 0,
     info2 |-> 0, m |-> m, off |-> off, len |-> len]

sendProtoMSG(type, id, info, info2) ==
    [type |-> type, msgID |-> id, msgNum |-> ILLMSGNUM, seq |-> 0, info |-> info,
     info2 |-> info2, m |-> 0, off |-> 0, len |-> 0]

\* info2 of the MSGDROP that answers a P3_NULL (0xd5d5 in the code).
NullDrop == 1
-----------------------------------------------------------------------------
(* The network: one first-in first-out channel for each route              *)

Init ==
    /\ net = [s \in Node |-> [d \in Node |-> <<>>]]
    /\ snd = [n \in Node |-> [c \in Cnt |-> NoSnd]]
    /\ rcv = [n \in Node |-> [s \in Node |-> [c \in Cnt |-> NoRcv]]]
    /\ send_msgNum = [n \in Node |-> [d \in Node |-> BOOTMSGNUM]]
    /\ lastMsgNum  = [n \in Node |-> [s \in Node |-> BOOTMSGNUM]]
    /\ first_ack   = [n \in Node |-> [d \in Node |-> FALSE]]
    /\ outstanding = [n \in Node |-> 0]
    /\ nextID = [n \in Node |-> 0]
    /\ proc = [n \in Node |-> "up"]
    /\ sig = [n \in Node |-> FALSE]
    /\ acc = [n \in Node |-> [s \in Node |-> <<>>]]
    /\ fin = [m \in Msg |-> 0]
    /\ bad = {}
    /\ stale = {}
    /\ used = [n \in Node |-> {}]
    /\ reuse = FALSE
    /\ \E s \in Scenarios :
         /\ status = [m \in Msg |-> IF m \in s.msgs THEN "unsent" ELSE "gone"]
         /\ budget = [kinds |-> s.kinds, left |-> s.faults]

\* A fault of the given kind happens, if there may be another one.
Fault(kind) ==
    /\ kind \in budget.kinds /\ budget.left > 0
    /\ budget' = [budget EXCEPT !.left = @ - 1]
NoFault == UNCHANGED budget

Transmit(n, d, pkts) == net' = [net EXCEPT ![n][d] = @ \o pkts]

\* n takes the oldest packet from s and sends pkts to d, most often s itself.
Answer(n, s, d, pkts) ==
    LET rest == [net EXCEPT ![s][n] = Tail(@)]
    IN  net' = [rest EXCEPT ![n][d] = @ \o pkts]

Arrives(n, s, types) == net[s][n] # <<>> /\ Head(net[s][n]).type \in types

\* A packet that carries the msgID <<n, c>> is on its way to or from d.
InFlight(n, d, c) ==
    \/ \E i \in 1 .. Len(net[n][d]) :
          net[n][d][i].msgID = c /\ net[n][d][i].type \in P3Type \cup DataType \cup {"P3_SYNC", "GCH"}
    \/ \E i \in 1 .. Len(net[d][n]) :
          net[d][n][i].msgID = c /\ net[d][n][i].type \in {"CTS", "MSGEND", "MSGDROP"}

Lose(s, d) ==
    /\ net[s][d] # <<>>
    /\ Fault("loss")
    /\ net' = [net EXCEPT ![s][d] = Tail(@)]
    /\ UNCHANGED <<snd, rcv, send_msgNum, lastMsgNum, first_ack, outstanding, nextID,
                   proc, sig, status, acc, fin, bad, stale, used, reuse>>
-----------------------------------------------------------------------------
(* The sender: p3_send() and the timers of Qsnd_pending                    *)

\* What send_task holds when p3_send() did not call get_cb(): anything.
Uninitialized(task) == IF "junk" \in budget.kinds THEN {"task", "junk"} ELSE {task}

\* Payload of the first packet of m.
FirstPay(m) == Least(RtsPay, Size[m])
FirstType(m) == IF FirstPay(m) = Size[m] THEN "P3_LAST_RTS" ELSE "P3_RTS"
FirstEvent(m) == IF FirstPay(m) = Size[m] THEN "E_SENT_P3_LAST_RTS" ELSE "E_SENT_P3_RTS"
FirstPacket(m, c, num) == build_page(FirstType(m), c, num, m, 0, FirstPay(m))

\* The entry p3_send() queues for a new message, payload units of which are
\* taken to be on their way.
NewEntry(m, num, payload, task) ==
    [q |-> "pending", m |-> m, msgNum |-> num, event |-> FirstEvent(m), len |-> Size[m],
     datasent |-> payload, seq |-> 0, retries |-> 0, p3msg_retries |-> 0, nal |-> "cb",
     task |-> task]

\* p3_send() of a new message, given its identifier c and its number num.
\* Until the first message got an answer, later ones are only queued.
p3_send(m, n, d, c, num) ==
    LET queue_only == num # BOOTMSGNUM /\ ~first_ack[n][d]
        Queue(payload, task) ==
            /\ snd' = [snd EXCEPT ![n][c] = NewEntry(m, num, payload, task)]
            /\ send_msgNum' = [send_msgNum EXCEPT ![n][d] = incMsgNum(@)]
            /\ status' = [status EXCEPT ![m] = "queued"]
            /\ UNCHANGED sig
        GiveUp ==
            /\ status' = [status EXCEPT ![m] = "gone"]
            /\ UNCHANGED <<net, snd, send_msgNum>>
    IN  \/ /\ queue_only
           /\ \E task \in Uninitialized("task") : Queue(FirstPay(m), task)
           /\ NoFault /\ UNCHANGED net
        \/ /\ ~queue_only
           /\ Queue(FirstPay(m), "task")
           /\ NoFault /\ Transmit(n, d, <<FirstPacket(m, c, num)>>)
        \/ /\ ~queue_only /\ Fault("page")
           /\ Queue(0, "task") /\ UNCHANGED net
        \/ /\ ~queue_only /\ FirstPay(m) > 0 /\ Fault("copy")
           /\ GiveUp /\ sig' = [sig EXCEPT ![n] = TRUE]
        \/ Fault("nomem") /\ GiveUp /\ UNCHANGED sig

\* The process of Src[m] sends m (cb_send of the library).  The messages of a
\* node are labelled in the order it sends them.
SendMsg(m) ==
    LET n == Src[m]  d == Dst[m]  num == send_msgNum[n][d]
    IN  /\ status[m] = "unsent"
        /\ \A k \in Msg : k < m /\ Src[k] = n => status[k] # "unsent"
        /\ proc[n] = "up"
        /\ snd[n][nextID[n]].q = "none"
        /\ nextID' = [nextID EXCEPT ![n] = next_msgID(@)]
        /\ first_ack' = IF num = BOOTMSGNUM THEN [first_ack EXCEPT ![n][d] = FALSE]
                                            ELSE first_ack
        /\ used' = [used EXCEPT ![n] = @ \cup {nextID[n]}]
        /\ reuse' = (reuse \/ nextID[n] \in used[n])
        /\ p3_send(m, n, d, nextID[n], num)
        /\ UNCHANGED <<rcv, lastMsgNum, outstanding, proc, acc, fin, bad, stale>>

\* The pending entry for d with the lowest number, the only one a timeout resends.
find_oldest_msgNum(n, d, c) ==
    LET Pending(k) == snd[n][k].q = "pending" /\ Dst[snd[n][k].m] = d
    IN  Pending(c) /\ \A k \in Cnt : Pending(k) => snd[n][c].msgNum <= snd[n][k].msgNum

\* A timer of the message <<n, c>> to d fires: in time when no packet of the
\* message is under way any more, early otherwise.
Expires(n, d, c) == IF InFlight(n, d, c) THEN Fault("early") ELSE NoFault

\* p3msg_retries only matters modulo P3_MSG_RETRIES, once it is not zero.
Retried(e) ==
    [e EXCEPT !.p3msg_retries = IF @ = P3MsgRetries THEN 1 ELSE @ + 1]
SyncDue(e) == e.p3msg_retries = P3MsgRetries

\* The first message to a node has not been answered and this is a later one.
DestNotAcked(n, d, e) == e.msgNum # BOOTMSGNUM /\ ~first_ack[n][d]

\* handleP3resend() gives up on an entry whose process has gone or whose buffer
\* cannot be read.
handleP3resend(n, d, c) ==
    LET e == snd[n][c]
        Gone == /\ snd' = [snd EXCEPT ![n][c] = NoSnd]
                /\ status' = [status EXCEPT ![e.m] = "gone"]
                /\ UNCHANGED net
    IN  \/ /\ DestNotAcked(n, d, e)
           /\ Expires(n, d, c)
           /\ snd' = [snd EXCEPT ![n][c] = Retried(e)]
           /\ UNCHANGED <<net, status>>
        \/ /\ ~DestNotAcked(n, d, e) /\ e.event = "E_SENT_P3_NULL"
           /\ Expires(n, d, c)
           /\ \E task \in Uninitialized(e.task) :
                 snd' = [snd EXCEPT ![n][c] = [Retried(e) EXCEPT !.task = task]]
           /\ Transmit(n, d, <<build_page("P3_NULL", c, e.msgNum, 0, 0, 0)>>)
           /\ UNCHANGED status
        \/ /\ ~DestNotAcked(n, d, e) /\ e.event # "E_SENT_P3_NULL" /\ proc[n] = "gone"
           /\ Expires(n, d, c) /\ Gone
        \/ /\ ~DestNotAcked(n, d, e) /\ e.event # "E_SENT_P3_NULL" /\ proc[n] # "gone"
           /\ Expires(n, d, c)
           /\ snd' = [snd EXCEPT ![n][c] = [Retried(e) EXCEPT !.task = "task"]]
           /\ Transmit(n, d, <<FirstPacket(e.m, c, e.msgNum)>>)
           /\ UNCHANGED status
        \/ /\ ~DestNotAcked(n, d, e) /\ e.event # "E_SENT_P3_NULL" /\ proc[n] # "gone"
           /\ FirstPay(e.m) > 0 /\ ~InFlight(n, d, c) /\ Fault("copy") /\ Gone

\* handleP3sync() asks the receiver to expect the number of this message next.
handleP3sync(n, d, c) ==
    LET e == snd[n][c]
    IN  /\ Expires(n, d, c)
        /\ \/ /\ DestNotAcked(n, d, e)
              /\ snd' = [snd EXCEPT ![n][c] = Retried(e)]
              /\ UNCHANGED net
           \/ /\ ~DestNotAcked(n, d, e)
              /\ \E task \in Uninitialized(e.task) :
                    snd' = [snd EXCEPT ![n][c] = [Retried(e) EXCEPT !.task = task]]
              /\ Transmit(n, d, <<build_page("P3_SYNC", c, e.msgNum, 0, 0, 0)>>)
        /\ UNCHANGED status

\* timeout_send_queues(), first loop.
TimeoutPending(n, d, c) ==
    /\ find_oldest_msgNum(n, d, c)
    /\ IF SyncDue(snd[n][c]) THEN handleP3sync(n, d, c) ELSE handleP3resend(n, d, c)
    /\ UNCHANGED <<rcv, send_msgNum, lastMsgNum, first_ack, outstanding, nextID, proc,
                   sig, acc, fin, bad, stale, used, reuse>>
-----------------------------------------------------------------------------
(* The sender: data packets                                                *)

\* Packets sendDATA() needs for the rest of entry e; an empty rest takes one.
Needed(e) ==
    IF e.len <= e.datasent THEN 1 ELSE (e.len - e.datasent + DataPay - 1) \div DataPay
Planned(e, num_pkts) == Least(Needed(e), num_pkts)

\* The i-th packet sendDATA() sends of entry e = snd[n][c].
DataPacket(e, c, num_pkts, i) ==
    LET off  == e.datasent + (i - 1) * DataPay
        type == IF i = Needed(e) THEN "LAST_DATA"
                ELSE IF i = num_pkts THEN "STOP_DATA" ELSE "DATA"
    IN  [type |-> type, msgID |-> c, msgNum |-> e.msgNum, seq |-> e.seq + i,
         info |-> num_pkts, info2 |-> e.retries, m |-> e.m, off |-> off,
         len |-> Least(DataPay, e.len - off)]

\* The entry after k packets.  Without a send page, or when the MCP refuses the
\* packet, sendDATA() fakes a STOP_DATA for the timer; a refused packet has used
\* up its sequence number.
AfterData_WholePackets(e, num_pkts, k, why) ==
    [e EXCEPT !.datasent = @ + k * DataPay,
              !.seq = @ + k + (IF why = "xmit" THEN 1 ELSE 0),
              !.event = IF why = "ok" /\ k = Needed(e) THEN "E_SENT_LAST_DATA"
                                                       ELSE "E_SENT_STOP_DATA"]
AfterData(e, num_pkts, k, why) ==
    [e EXCEPT !.datasent = IF k = 0 THEN @ ELSE Least(@ + k * DataPay, e.len),
              !.seq = @ + k + (IF why = "xmit" THEN 1 ELSE 0),
              !.event = IF why = "ok" /\ k = Needed(e) THEN "E_SENT_LAST_DATA"
                                                       ELSE "E_SENT_STOP_DATA"]

Outcome == {"ok", "page", "xmit", "copy"}

\* The entry's task is the task of a process that still exists.
TaskAlive(n, e) == e.task = "task" /\ proc[n] # "gone"

\* sendDATA(e, num_pkts) for e = snd[n][c] stops after k packets: at the end of the
\* message or of the grant ("ok"), or for a failure.  A copy through a task that is
\* not there fails at best.
DataPackets(e, c, num_pkts, k) == [i \in 1 .. k |-> DataPacket(e, c, num_pkts, i)]

sendDATA(n, c, e, num_pkts, k, why) ==
    /\ why = "ok" <=> k = Planned(e, num_pkts)
    /\ why = "ok" => TaskAlive(n, e)
    /\ ~TaskAlive(n, e) => k = 0
    /\ IF why = "ok" \/ (why = "copy" /\ ~TaskAlive(n, e)) THEN NoFault ELSE Fault(why)
    /\ IF why = "copy"
          THEN /\ snd' = [snd EXCEPT ![n][c] = NoSnd]
               /\ status' = [status EXCEPT ![e.m] = "gone"]
               /\ sig' = [sig EXCEPT ![n] = TRUE]
               /\ stale' = IF TaskAlive(n, e) THEN stale ELSE stale \cup {n}
          ELSE /\ snd' = [snd EXCEPT ![n][c] = AfterData(e, num_pkts, k, why)]
               /\ UNCHANGED <<status, sig, stale>>

\* remote_status[s].first_ack is set by every packet that proves s to be there.
Acked_Never(n, s) == UNCHANGED first_ack
Acked(n, s) == first_ack' = [first_ack EXCEPT ![n][s] = TRUE]

\* A CTS from s: truncate to what the receiver takes, move the entry to Qsending
\* and send what was granted.  There is no check that the entry still has a process.
handleCTS(n, s) ==
    LET p == Head(net[s][n])
        c == p.msgID
        e == snd[n][c]
    IN  /\ Arrives(n, s, {"CTS"})
        /\ Acked(n, s)
        /\ \/ /\ e.q = "none"
              /\ NoFault /\ Answer(n, s, s, <<>>)
              /\ UNCHANGED <<snd, status, sig, stale>>
           \/ /\ e.q # "none"
              /\ LET e1 == [e EXCEPT !.q = "sending", !.len = Least(p.info, @)]
                 IN  \E k \in 0 .. Planned(e1, p.info2), why \in Outcome :
                        /\ sendDATA(n, c, e1, p.info2, k, why)
                        /\ Answer(n, s, Dst[e.m], DataPackets(e1, c, p.info2, k))
        /\ UNCHANGED <<rcv, send_msgNum, lastMsgNum, outstanding, nextID, proc, acc, fin, bad, used, reuse>>

\* timeout_send_queues(), second loop: start the message over with one packet.
handleDataResend(n, c) ==
    LET e == snd[n][c]
        d == Dst[e.m]
        e1 == [e EXCEPT !.datasent = 0, !.seq = 0, !.retries = @ + 1]
    IN  /\ e.q = "sending"
        /\ e.retries < MaxRestart
        /\ InFlight(n, d, c) => "early" \in budget.kinds
        /\ \E k \in 0 .. Planned(e1, 1), why \in Outcome :
              /\ sendDATA(n, c, e1, 1, k, why)
              /\ Transmit(n, d, DataPackets(e1, c, 1, k))
        /\ UNCHANGED <<rcv, send_msgNum, lastMsgNum, first_ack, outstanding, nextID,
                       proc, acc, fin, bad, used, reuse>>

Finished(n, c, e, how) ==
    /\ snd' = [snd EXCEPT ![n][c] = NoSnd]
    /\ status' = [status EXCEPT ![e.m] = IF e.nal = "cb" THEN how ELSE "gone"]
    /\ stale' = IF e.nal = "cb" /\ proc[n] = "gone" THEN stale \cup {n} ELSE stale

handleMSGEND(n, s) ==
    LET c == Head(net[s][n]).msgID
        e == snd[n][c]
    IN  /\ Arrives(n, s, {"MSGEND"})
        /\ Acked(n, s)
        /\ \/ e.q = "none" /\ Answer(n, s, s, <<>>) /\ UNCHANGED <<snd, status, stale>>
           \/ /\ e.q # "none"
              /\ Finished(n, c, e, "ended")
              /\ Answer(n, s, Dst[e.m], <<sendProtoMSG("GCH", c, 0, 0)>>)
        /\ UNCHANGED <<rcv, send_msgNum, lastMsgNum, outstanding, nextID, proc, sig, acc,
                       fin, bad, budget, used, reuse>>

\* The receiver keeps nothing for a P3_NULL, so its MSGDROP needs no GCH.
handleMSGDROP(n, s) ==
    LET p == Head(net[s][n])
        c == p.msgID
        e == snd[n][c]
    IN  /\ Arrives(n, s, {"MSGDROP"})
        /\ Acked(n, s)
        /\ \/ e.q = "none" /\ Answer(n, s, s, <<>>) /\ UNCHANGED <<snd, status, stale>>
           \/ /\ e.q # "none"
              /\ Finished(n, c, e, "dropped")
              /\ Answer(n, s, Dst[e.m], IF p.info2 = NullDrop THEN <<>>
                              ELSE <<sendProtoMSG("GCH", c, 0, 0)>>)
        /\ UNCHANGED <<rcv, send_msgNum, lastMsgNum, outstanding, nextID, proc, sig, acc,
                       fin, bad, budget, used, reuse>>
-----------------------------------------------------------------------------
(* The receiver                                                            *)

Units(from, len) == from .. (from + len - 1)

\* The process of n is finished with message m: lib_finalize() at the receiver.
\* got is the part of the buffer that is right; a pending signal kills the
\* process before it looks.
Finalize(n, m, got, signalled) ==
    /\ fin' = [fin EXCEPT ![m] = @ + 1]
    /\ bad' = IF got = Units(0, Mlen[m]) \/ signalled THEN bad ELSE bad \cup {m}

\* A grant repeated for a duplicate first packet replaces the one given earlier.
Regrant_Adds(n, s, c) ==
    /\ outstanding' = [outstanding EXCEPT ![n] = @ + 1]
    /\ rcv' = [rcv EXCEPT ![n][s][c].granted = 1]
Regrant(n, s, c) ==
    /\ outstanding' = [outstanding EXCEPT ![n] = @ + 1 - rcv[n][s][c].granted]
    /\ rcv' = [rcv EXCEPT ![n][s][c].granted = 1]

\* A first packet of a message n already knows is answered by what n did last.
Duplicate(n, s, c) ==
    LET e == rcv[n][s][c]
        Reply(pkts) == Answer(n, s, s, pkts)
    IN  CASE e.event = "E_SENT_MSGDROP" ->
               /\ Reply(<<sendProtoMSG("MSGDROP", c, 0, 0)>>)
               /\ UNCHANGED <<rcv, outstanding>>
          [] e.event = "E_SENT_MSGEND" ->
               /\ Reply(<<sendProtoMSG("MSGEND", c, 0, 0)>>)
               /\ UNCHANGED <<rcv, outstanding>>
          [] e.event = "E_SENT_CTS" ->
               /\ Reply(<<sendProtoMSG("CTS", c, e.len, 1)>>)
               /\ Regrant(n, s, c)
          [] OTHER -> Reply(<<>>) /\ UNCHANGED <<rcv, outstanding>>

\* The number check of handleP3().
InSequence_Unchecked(n, s, num) == TRUE
InSequence(n, s, num) ==
    \/ lastMsgNum[n][s] = BOOTMSGNUM
    \/ num = BOOTMSGNUM
    \/ num = incMsgNum(lastMsgNum[n][s])
NewLast(num) == IF num = BOOTMSGNUM THEN ILLMSGNUM ELSE num

\* p3_recvBody(): grant packets for the rest, or finish a message that fits, and
\* keep an entry in Qreceiving so that a repeated first packet can be answered.
\* lib_finalize_called of that entry is FALSE even when lib_finalize() was called.
p3_recvBody(n, s, p) ==
    LET m    == p.m
        mlen == Mlen[m]
        len  == Least(mlen, p.len)
        more == p.len < mlen /\ p.type # "P3_LAST_RTS"
        num_pkts == IF more THEN NumPkts(outstanding[n]) ELSE 0
        Entry(event, got) ==
            [q |-> "receiving", m |-> m, event |-> event, len |-> mlen, datasent |-> len,
             seq |-> 1, retries |-> 0, granted |-> num_pkts, done |-> FALSE, got |-> got]
        Enqueue(event, got) == rcv' = [rcv EXCEPT ![n][s][p.msgID] = Entry(event, got)]
        End(got, signalled) ==
            IF more THEN UNCHANGED <<fin, bad>> ELSE Finalize(n, m, got, signalled)
        after(event) == IF more THEN event ELSE "E_SENT_MSGEND"
    IN  /\ Answer(n, s, s, IF more THEN <<sendProtoMSG("CTS", p.msgID, mlen, num_pkts)>>
                                   ELSE <<sendProtoMSG("MSGEND", p.msgID, 0, 0)>>)
        /\ outstanding' = [outstanding EXCEPT ![n] = @ + num_pkts]
        /\ UNCHANGED stale
        /\ \/ /\ NoFault
              /\ Enqueue(after("E_SENT_CTS"), Units(0, len))
              /\ End(Units(0, len), sig[n])
              /\ UNCHANGED sig
           \/ /\ Fault("nomem")
              /\ End(Units(0, len), sig[n])
              /\ UNCHANGED <<rcv, sig>>
           \/ /\ len > 0 /\ Fault("copy")
              /\ Enqueue(after("E_SENT_MSGDROP"), {})
              /\ End({}, TRUE)
              /\ sig' = [sig EXCEPT ![n] = TRUE]

\* A first packet (or a P3_NULL in its place) arrives.
handleP3(n, s) ==
    LET p == Head(net[s][n])
        c == p.msgID
        Take == lastMsgNum' = [lastMsgNum EXCEPT ![n][s] = NewLast(p.msgNum)]
        Drop(info2) == Answer(n, s, s, <<sendProtoMSG("MSGDROP", c, 0, info2)>>)
    IN  /\ Arrives(n, s, P3Type)
        /\ \/ /\ rcv[n][s][c].q # "none"
              /\ Duplicate(n, s, c)
              /\ UNCHANGED <<lastMsgNum, acc, fin, bad, sig, stale, budget>>
           \/ /\ rcv[n][s][c].q = "none"
              /\ ~InSequence(n, s, p.msgNum)
              /\ Answer(n, s, s, <<>>)
              /\ UNCHANGED <<rcv, lastMsgNum, outstanding, acc, fin, bad, sig, stale, budget>>
           \/ /\ rcv[n][s][c].q = "none"
              /\ InSequence(n, s, p.msgNum)
              /\ p.type = "P3_NULL" \/ proc[n] = "gone"
              /\ Take
              /\ Drop(IF p.type = "P3_NULL" THEN NullDrop ELSE 0)
              /\ UNCHANGED <<rcv, outstanding, acc, fin, bad, sig, stale, budget>>
           \/ /\ rcv[n][s][c].q = "none"
              /\ InSequence(n, s, p.msgNum)
              /\ p.type # "P3_NULL" /\ proc[n] # "gone"
              /\ \/ /\ Take
                    /\ acc' = IF proc[n] = "up" THEN [acc EXCEPT ![n][s] = Append(@, p.m)] ELSE acc
                    /\ p3_recvBody(n, s, p)
                 \/ /\ Fault("parse")
                    /\ Answer(n, s, s, <<>>)
                    /\ UNCHANGED <<rcv, lastMsgNum, outstanding, acc, fin, bad, sig, stale>>
        /\ UNCHANGED <<snd, send_msgNum, first_ack, nextID, proc, status, used, reuse>>

\* P3_SYNC: expect the number of this message next, unless one side has rebooted.
handleP3SYNC(n, s) ==
    LET num == Head(net[s][n]).msgNum
    IN  /\ Arrives(n, s, {"P3_SYNC"})
        /\ Answer(n, s, s, <<>>)
        /\ lastMsgNum' = IF BOOTMSGNUM \in {num, lastMsgNum[n][s]} THEN lastMsgNum
                         ELSE [lastMsgNum EXCEPT ![n][s] = num - 1]
        /\ UNCHANGED <<snd, rcv, send_msgNum, first_ack, outstanding, nextID, proc, sig,
                       status, acc, fin, bad, stale, budget, used, reuse>>

\* The sender starts the message over.
Restarts(e, p) == p.seq = 1 /\ (p.seq < e.seq \/ p.info2 > e.retries)
\* The packet is neither a restart nor the next one of the stream.
Misplaced(e, p) == ~Restarts(e, p) /\ (p.seq # e.seq \/ p.info2 > e.retries)

\* The entry once handleDATA() has taken the grant back: on a restart, and on the
\* packet that uses up the grant.
TakeBack_KeepsPosition(e, p) ==
    IF Restarts(e, p)
    THEN [e EXCEPT !.seq = 1, !.retries = p.info2, !.granted = 0]
    ELSE IF p.type = "DATA" THEN e ELSE [e EXCEPT !.granted = 0]
TakeBack(e, p) ==
    IF Restarts(e, p)
    THEN [e EXCEPT !.seq = 1, !.datasent = 0, !.retries = p.info2, !.granted = 0]
    ELSE IF p.type = "DATA" THEN e ELSE [e EXCEPT !.granted = 0]

\* A copy that forgets to cut the packet to what is left of the buffer.
Copied_Untrimmed(e, p) ==
    [e EXCEPT !.datasent = @ + p.len, !.seq = @ + 1, !.event = "E_RCVD_DATA"]

\* The entry after the units of p were copied behind those it has.  A message
\* that was finalized is not copied again.
Copied(e, p) ==
    LET len == Least(p.len, e.len - e.datasent)
        old == IF e.done THEN {} ELSE Units(e.datasent, len)
        new == IF p.m = e.m /\ p.off = e.datasent THEN old ELSE {}
    IN  [e EXCEPT !.datasent = @ + len, !.seq = @ + 1, !.event = "E_RCVD_DATA",
                  !.got = (@ \ old) \cup new]

\* The packet completes the message.
Complete(e, p) == e.datasent >= e.len \/ p.type = "LAST_DATA"

\* msgDone() tells the process of e once, however often the end is repeated.
MustFinalize_EveryEnd(e, p) == p.type = "LAST_DATA"
MustFinalize(e, p) == p.type = "LAST_DATA" /\ ~e.done

\* handleDATA() and msgDone(), for a packet in sequence: e1 is the entry after the
\* grant is taken back, e2 after the copy.
Accept(n, s, c, e1, p) ==
    LET e2   == Copied(e1, p)
        rest == outstanding[n] - rcv[n][s][c].granted + e1.granted
        stop == p.type = "STOP_DATA"
        num_pkts == IF stop THEN NumPkts(rest) ELSE 0
        early == Complete(e2, p) /\ p.type # "LAST_DATA"
        last  == p.type = "LAST_DATA"
        e3 == [e2 EXCEPT !.granted = IF stop THEN num_pkts ELSE @,
                         !.done = @ \/ last,
                         !.event = IF Complete(e2, p) THEN "E_SENT_MSGEND"
                                   ELSE IF stop THEN "E_SENT_CTS" ELSE @]
    IN  /\ rcv' = [rcv EXCEPT ![n][s][c] = e3]
        /\ outstanding' = [outstanding EXCEPT ![n] = rest + num_pkts]
        /\ Answer(n, s, s,
              (IF stop  THEN <<sendProtoMSG("CTS", c, e1.len, num_pkts)>> ELSE <<>>)
           \o (IF early THEN <<sendProtoMSG("MSGDROP", c, 1, 0)>> ELSE <<>>)
           \o (IF last  THEN <<sendProtoMSG("MSGEND", c, 0, 0)>> ELSE <<>>))
        /\ IF MustFinalize(e2, p) THEN Finalize(n, e2.m, e2.got, sig[n])
                                 ELSE UNCHANGED <<fin, bad>>
        /\ sig' = IF early THEN [sig EXCEPT ![n] = TRUE] ELSE sig
        /\ stale' = IF proc[n] = "gone" THEN stale \cup {n} ELSE stale
        /\ NoFault

handleDATA(n, s) ==
    LET p  == Head(net[s][n])
        c  == p.msgID
        e  == rcv[n][s][c]
        e1 == TakeBack(e, p)
    IN  /\ Arrives(n, s, DataType)
        /\ Acked(n, s)
        /\ \/ /\ e.q = "none"
              /\ Answer(n, s, s, <<>>)
              /\ UNCHANGED <<rcv, outstanding, fin, bad, sig, stale, budget>>
           \/ /\ e.q # "none" /\ Misplaced(e, p)
              /\ Answer(n, s, s, <<>>)
              /\ rcv' = [rcv EXCEPT ![n][s][c].seq = BadSeq]
              /\ UNCHANGED <<outstanding, fin, bad, sig, stale, budget>>
           \/ /\ e.q # "none" /\ ~Misplaced(e, p)
              /\ Accept(n, s, c, e1, p)
           \/ /\ e.q # "none" /\ ~Misplaced(e, p)
              /\ ~e.done /\ Least(p.len, e1.len - e1.datasent) > 0 /\ Fault("copy")
              /\ Answer(n, s, s, <<>>)
              /\ rcv' = [rcv EXCEPT ![n][s][c] = e1]
              /\ outstanding' = [outstanding EXCEPT ![n] = @ - e.granted + e1.granted]
              /\ sig' = [sig EXCEPT ![n] = TRUE]
              /\ UNCHANGED <<fin, bad, stale>>
        /\ UNCHANGED <<snd, send_msgNum, lastMsgNum, nextID, proc, status, acc, used, reuse>>

\* dequeue() and free_entry() of a Qreceiving entry.
FreeRcv(n, s, c) ==
    /\ rcv' = [rcv EXCEPT ![n][s][c] = NoRcv]
    /\ outstanding' = [outstanding EXCEPT ![n] = @ - rcv[n][s][c].granted]

\* The sender will not ask again: forget the message.
handleGCH(n, s) ==
    /\ Arrives(n, s, {"GCH"})
    /\ Answer(n, s, s, <<>>)
    /\ FreeRcv(n, s, Head(net[s][n]).msgID)
    /\ UNCHANGED <<snd, send_msgNum, lastMsgNum, first_ack, nextID, proc, sig, status,
                   acc, fin, bad, stale, budget, used, reuse>>

\* clean_recv_queues() removes an answered entry that has been idle for
\* GCH_TIMEOUT, about a hundred packet timeouts.  In that time every packet of the
\* message has arrived or is lost, and a sender that still holds the message has
\* asked for an answer again and again.
clean_recv_queues(n, s, c) ==
    /\ rcv[n][s][c].q # "none"
    /\ rcv[n][s][c].event \in {"E_SENT_MSGEND", "E_SENT_MSGDROP"}
    /\ ~InFlight(s, n, c)
    /\ IF snd[s][c].q = "none" THEN NoFault ELSE Fault("cut")
    /\ FreeRcv(n, s, c)
    /\ UNCHANGED <<net, snd, send_msgNum, lastMsgNum, first_ack, nextID, proc, sig,
                   status, acc, fin, bad, stale, used, reuse>>
-----------------------------------------------------------------------------
(* Processes and nodes                                                     *)

\* clean_queue() on the two send queues of n: pending messages of the process are
\* sent on as P3_NULL, messages whose data is moving are forgotten.
CleanSnd(n) ==
    [c \in Cnt |->
        LET e == snd[n][c]
        IN  IF e.task # "task" THEN e
            ELSE IF e.q = "pending"
                 THEN [e EXCEPT !.event = "E_SENT_P3_NULL", !.nal = "null", !.task = "null"]
                 ELSE NoSnd]

Granted(n) == MapThenSumSet(LAMBDA sc : rcv[n][sc[1]][sc[2]].granted, Node \X Cnt)

\* p3release() of a process that exits or was signalled: first p3_exit() cleans the
\* queues, ...
p3_exit(n) ==
    /\ proc[n] = "up"
    /\ sig[n] \/ "exit" \in budget.kinds
    /\ proc' = [proc EXCEPT ![n] = "closing"]
    /\ snd' = [snd EXCEPT ![n] = CleanSnd(n)]
    /\ status' = [m \in Msg |->
           IF \E c \in Cnt : snd[n][c].q = "sending" /\ snd[n][c].task = "task" /\ snd[n][c].m = m
           THEN "gone" ELSE status[m]]
    /\ rcv' = [rcv EXCEPT ![n] = [s \in Node |-> [c \in Cnt |-> NoRcv]]]
    /\ Granted(n) \in Nat  \* always: a sum of natural numbers
    /\ outstanding' = [outstanding EXCEPT ![n] = @ - Granted(n)]
    /\ UNCHANGED <<net, send_msgNum, lastMsgNum, first_ack, nextID, sig, acc, fin, bad,
                   stale, budget, used, reuse>>

\* ... then close_lib_myrnal() takes the callback block out of the table.  Packets
\* that arrive between the two still find the process.
close_lib_myrnal(n) ==
    /\ proc[n] = "closing"
    /\ proc' = [proc EXCEPT ![n] = "gone"]
    /\ UNCHANGED <<net, snd, rcv, send_msgNum, lastMsgNum, first_ack, outstanding, nextID,
                   sig, status, acc, fin, bad, stale, budget, used, reuse>>

\* A node (or its module) comes back with init_protocol() and empty queues.  By then
\* what it sent before has arrived or is lost, and what was sent to it is lost.
Reboot(n) ==
    /\ \A d \in Node : net[n][d] = <<>>
    /\ Fault("reboot")
    /\ net' = [s \in Node |-> [net[s] EXCEPT ![n] = <<>>]]
    /\ snd' = [snd EXCEPT ![n] = [c \in Cnt |-> NoSnd]]
    /\ rcv' = [rcv EXCEPT ![n] = [s \in Node |-> [c \in Cnt |-> NoRcv]]]
    /\ send_msgNum' = [send_msgNum EXCEPT ![n] = [d \in Node |-> BOOTMSGNUM]]
    /\ lastMsgNum' = [lastMsgNum EXCEPT ![n] = [s \in Node |-> BOOTMSGNUM]]
    /\ first_ack' = [first_ack EXCEPT ![n] = [d \in Node |-> FALSE]]
    /\ outstanding' = [outstanding EXCEPT ![n] = 0]
    /\ nextID' = [nextID EXCEPT ![n] = 0]
    /\ proc' = [proc EXCEPT ![n] = "up"]
    /\ sig' = [sig EXCEPT ![n] = FALSE]
    /\ status' = [m \in Msg |->
           IF Src[m] = n /\ status[m] = "queued" THEN "gone" ELSE status[m]]
    /\ UNCHANGED <<acc, fin, bad, stale, used, reuse>>
-----------------------------------------------------------------------------
Receive(n, s) ==
    \/ handleP3(n, s) \/ handleP3SYNC(n, s) \/ handleCTS(n, s) \/ handleDATA(n, s)
    \/ handleMSGEND(n, s) \/ handleMSGDROP(n, s) \/ handleGCH(n, s)

Next ==
    \/ \E m \in Msg : SendMsg(m)
    \/ \E n, s \in Node : Receive(n, s) \/ Lose(n, s)
    \/ \E n, d \in Node, c \in Cnt : TimeoutPending(n, d, c)
    \/ \E n \in Node, c \in Cnt : handleDataResend(n, c)
    \/ \E n, s \in Node, c \in Cnt : clean_recv_queues(n, s, c)
    \/ \E n \in Node : p3_exit(n) \/ close_lib_myrnal(n) \/ Reboot(n)

Spec == Init /\ [][Next]_vars

\* Packets that are not lost arrive, and the timer tick of handle_timer() goes on
\* for ever.
Fairness ==
    /\ \A n, s \in Node : WF_vars(Receive(n, s))
    /\ \A n, d \in Node, c \in Cnt : WF_vars(TimeoutPending(n, d, c))
    /\ \A n \in Node, c \in Cnt : WF_vars(handleDataResend(n, c))
    /\ \A n, s \in Node, c \in Cnt : WF_vars(clean_recv_queues(n, s, c))
    /\ \A n \in Node : WF_vars(sig[n] /\ p3_exit(n)) /\ WF_vars(close_lib_myrnal(n))

FairSpec == Spec /\ Fairness
-----------------------------------------------------------------------------
(* Properties                                                              *)

\* Types of the queues, the packets and the tables; every queued message and every
\* first packet belongs to a message that was really sent.
TypeOK ==
    /\ net \in [Node -> [Node -> Seq(Packet)]]
    /\ snd \in [Node -> [Cnt -> SndEntry]]
    /\ rcv \in [Node -> [Node -> [Cnt -> RcvEntry]]]
    /\ send_msgNum \in [Node -> [Node -> Nat]]
    /\ lastMsgNum \in [Node -> [Node -> Nat]]
    /\ first_ack \in [Node -> [Node -> BOOLEAN]]
    /\ outstanding \in [Node -> Int]
    /\ nextID \in [Node -> Cnt]
    /\ proc \in [Node -> {"up", "closing", "gone"}]
    /\ sig \in [Node -> BOOLEAN]
    /\ status \in [Msg -> {"unsent", "queued", "ended", "dropped", "gone"}]
    /\ acc \in [Node -> [Node -> Seq(Msg)]]
    /\ fin \in [Msg -> Nat]
    /\ bad \subseteq Msg
    /\ stale \subseteq Node
    /\ used \in [Node -> SUBSET Cnt]
    /\ reuse \in BOOLEAN
    /\ budget \in Budget

\* None of these failures happens.  What the protocol does not survive is named
\* this way in the properties below.
Without(kinds) == budget.kinds \cap kinds = {}

\* outstanding_pkts is exactly what the entries of Qreceiving were granted, through
\* every repeated CTS, restart, exit, reboot and garbage collection (but not if
\* enqueue() gets no memory for an entry that was granted packets).
GrantAccounting ==
    Without({"nomem"}) => \A n \in Node : outstanding[n] = Granted(n)

\* The receiving process is told of a message only with the bytes the sender sent in
\* its buffer, whatever was lost, repeated or restarted (but not if p3_send() finds no
\* send page, or if a node reboots and its identifiers start again).
DataIntegrity == Without({"page", "reboot"}) => bad = {}

\* A node hands the messages of another node to the Portals library in the order
\* they were sent and each at most once (the promise of msgNum and msgID), as long
\* as the receiver does not lose the entry that tells it a repeated message: no memory
\* for it, an entry collected while its sender still tries, a reboot.
OrderedOnce ==
    Without({"nomem", "cut", "reboot"}) =>
        \A n, s \in Node : \A i, j \in 1 .. Len(acc[n][s]) : i < j => acc[n][s][i] < acc[n][s][j]

\* On the same condition, a process that is not exiting gets at most one event for a
\* message.
FinalizedOnce ==
    Without({"nomem", "cut", "reboot"}) =>
        \A m \in Msg : proc[Dst[m]] = "up" => fin[m] <= 1


\* entry->len - entry->datasent, an unsigned difference in sendDATA(), never goes
\* below zero: neither a length the receiver cut short in its grant nor a restart at
\* an earlier offset leaves the sender's position past the end of the message.
NoUnderflow == \A n \in Node, c \in Cnt : snd[n][c].datasent <= snd[n][c].len

\* The receiver never copies beyond the part of the user's buffer the memory
\* descriptor gave it, not even when identifiers are reused or data is shifted: the
\* copies of handleDATA() end at entry->len at the latest.
BufferBound ==
    \A n, s \in Node, c \in Cnt :
        /\ rcv[n][s][c].datasent <= rcv[n][s][c].len
        /\ rcv[n][s][c].q # "none" => rcv[n][s][c].len = Mlen[rcv[n][s][c].m]

\* Once the faults stop, every message that was sent is answered, every queue
\* drains and every granted packet is returned.
Quiet ==
    /\ \A n, s \in Node : net[n][s] = <<>>
    /\ \A n \in Node, c \in Cnt : snd[n][c].q = "none"
    /\ \A n, s \in Node, c \in Cnt : rcv[n][s][c].q = "none"
    /\ \A n \in Node : outstanding[n] = 0
EventuallyQuiet == <>[]Quiet

=============================================================================
