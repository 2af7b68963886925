----------------------------- MODULE PktHeader ------------------------------
(***************************************************************************)
(* The packet header's redundancy (rtscts/Pkt_recv.c): the length is kept  *)
(* twice, the type, the source node and the message ID three times.        *)
(* check_hdr() repairs what it can; do_recovery() decides by the packet's  *)
(* type what becomes of a packet that was damaged.                         *)
(***************************************************************************)
EXTENDS Integers, Sequences

CONSTANTS
    MAX_NUM_ROUTES,  \* nodes (2048 in the code)
    msgID_SHIFT      \* bits of a message ID below the node number (21)

ASSUME HeaderConstants == MAX_NUM_ROUTES \in Nat \ {0} /\ msgID_SHIFT \in Nat

\* A message ID fills a word: 2048 * 2^21 = 2^32.
MaskSize == 2 ^ msgID_SHIFT
Word == MAX_NUM_ROUTES * MaskSize

\* There is room for a counter below the node number.
ASSUME MaskAssumption == MaskSize \in Nat /\ MaskSize >= 2

\* pkt_type_t, with DO_TIMEOUT_PROTOCOL and EXTENDED_P3_RTSCTS.
CTS == 2
DATA == 3
MSGEND == 6
MSGDROP == 7
PING == 8
ROUTE_STAT == 12
ROUTE_ACK == 13
P3_RTS == 14
ROUTE_REQ == 16
ROUTE_REQ_REPLY == 17
P3_RESEND == 18
GCH == 19
LAST_ENTRY_DO_NOT_MOVE == 28

\* The three copies of a field: equal, repaired from the two that agree, or
\* beyond repair.
Repair_First(f) ==
    [f |-> <<f[1], f[1], f[1]>>, warning |-> IF f = <<f[1], f[1], f[1]>> THEN 0 ELSE 1,
     error |-> 0]
Repair(f) ==
    LET Fixed(v) == [f |-> <<v, v, v>>, warning |-> 1, error |-> 0]
    IN  IF f[1] = f[2] /\ f[2] = f[3] THEN [f |-> f, warning |-> 0, error |-> 0]
        ELSE IF f[1] = f[2] \/ f[1] = f[3] THEN Fixed(f[1])
        ELSE IF f[2] = f[3] THEN Fixed(f[2])
        ELSE [f |-> f, warning |-> 0, error |-> 1]

\* next_msgID(): the node number plus one above a counter that wraps around.
next_msgID_NoMask(msgID, pnid) ==
    IF msgID = 0 THEN ((pnid + 1) * MaskSize) % Word ELSE (msgID + 1) % Word
next_msgID(msgID, pnid) ==
    IF msgID = 0 THEN ((pnid + 1) * MaskSize) % Word
    ELSE (msgID - (msgID % MaskSize)) + (((msgID % MaskSize) + 1) % MaskSize)

\* msgID2pnid(), as the unsigned number its caller compares.
msgID2pnid(msgID) == ((msgID \div MaskSize) - 1) % Word

\* The fields that were repaired are looked at once more for values that no
\* sender can have put there.
Insane_Before(h, type, src, msgID) ==
    (IF msgID2pnid(h.msgID[1]) >= MAX_NUM_ROUTES THEN 1 ELSE 0)
    + (IF h.src[1] >= MAX_NUM_ROUTES THEN 1 ELSE 0)
    + (IF h.type[1] \notin CTS .. LAST_ENTRY_DO_NOT_MOVE - 1 THEN 1 ELSE 0)
Insane(h, type, src, msgID) ==
    (IF msgID2pnid(msgID.f[1]) >= MAX_NUM_ROUTES THEN 1 ELSE 0)
    + (IF src.f[1] >= MAX_NUM_ROUTES THEN 1 ELSE 0)
    + (IF type.f[1] \notin CTS .. LAST_ENTRY_DO_NOT_MOVE - 1 THEN 1 ELSE 0)

\* check_hdr(): how many fields are beyond repair, how many were repaired, and
\* the header as it is left.
check_hdr(h) ==
    LET type == Repair(h.type)
        src == Repair(h.src)
        msgID == Repair(h.msgID)
    IN  [error |-> (IF h.len[1] # h.len[2] THEN 1 ELSE 0)
                   + type.error + src.error + msgID.error
                   + Insane(h, type, src, msgID),
         warning |-> type.warning + src.warning + msgID.warning,
         hdr |-> [h EXCEPT !.type = type.f, !.src = src.f, !.msgID = msgID.f]]

\* do_recovery(): whether a damaged packet is dropped.  Class 1 always is,
\* class 2 never, and class 3 is because resends are not asked for.
Class2 == {CTS, MSGEND, MSGDROP, PING, ROUTE_STAT, ROUTE_ACK, ROUTE_REQ,
           ROUTE_REQ_REPLY, P3_RESEND, GCH}
do_recovery(h) == h.type[1] \notin Class2
=============================================================================
