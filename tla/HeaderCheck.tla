---------------------------- MODULE HeaderCheck -----------------------------
(***************************************************************************)
(* A node numbers and sends messages, the network damages some fields of a *)
(* packet's header, and the receiver checks the header and decides what to *)
(* do with the packet, in Pkt_rcvLANai_start().  The cyclic redundancy     *)
(* check of the packet did not notice (GOOD_PKT).                          *)
(***************************************************************************)
EXTENDS PktHeader

CONSTANTS
    Nodes,      \* the nodes that may send
    Types,      \* the packet types sent
    WrongTypes  \* what a damaged type may read

\* The number of a node plus one fits above the counter, and senders use the types
\* there are.
ASSUME SendersAssumption ==
    /\ Nodes \subseteq 0 .. MAX_NUM_ROUTES - 2
    /\ Types \subseteq CTS .. LAST_ENTRY_DO_NOT_MOVE - 1

VARIABLES
    pnid,   \* the sender
    msgID,  \* its last message ID; 0 before the first
    sent,   \* the header as it was sent
    got,    \* the header as it came in, and as the check left it
    stage,  \* "idle", "wire", or what became of the packet: "up" or "drop"
    fixes   \* how many fields check_hdr() repaired
vars == <<pnid, msgID, sent, got, stage, fixes>>

\* build_page() writes every copy of every field.
Header(type, id) ==
    [len |-> <<1, 1>>, type |-> <<type, type, type>>, src |-> <<pnid, pnid, pnid>>,
     msgID |-> <<id, id, id>>]

\* What the network may make of three copies of v, and of the two lengths.
Copies(v, wrong) == [1 .. 3 -> {v} \cup wrong]
Damaged(h) ==
    {[len |-> len, type |-> type, src |-> src, msgID |-> id] :
        len \in {<<1, 1>>, <<1, 2>>},
        type \in Copies(h.type[1], WrongTypes),
        src \in Copies(h.src[1], {MAX_NUM_ROUTES}),
        id \in Copies(h.msgID[1], {0})}

Init ==
    /\ pnid \in Nodes /\ msgID = 0 /\ stage = "idle" /\ fixes = 0
    /\ sent = Header(CTS, 0) /\ got = Header(CTS, 0)

\* A packet of the next message, as it arrives.
Send ==
    /\ stage = "idle" /\ stage' = "wire"
    /\ msgID' = next_msgID(msgID, pnid)
    /\ \E type \in Types : sent' = Header(type, msgID')
    /\ got' \in Damaged(sent')
    /\ fixes' = 0
    /\ UNCHANGED pnid

\* A header beyond repair drops the packet; a repaired one is passed up only if
\* its class allows it.
Verdict(checked) ==
    checked.error = 0 /\ (checked.warning > 0 => ~do_recovery(checked.hdr))

Receive ==
    LET checked == check_hdr(got)
    IN  /\ stage = "wire"
        /\ got' = checked.hdr
        /\ fixes' = checked.warning
        /\ stage' = IF Verdict(checked) THEN "up" ELSE "drop"
        /\ UNCHANGED <<pnid, msgID, sent>>

\* The header is cleared before the page goes back to the card.
Clear ==
    /\ stage \in {"up", "drop"} /\ stage' = "idle"
    /\ sent' = Header(CTS, 0) /\ got' = Header(CTS, 0) /\ fixes' = 0
    /\ UNCHANGED <<pnid, msgID>>

Next == Send \/ Receive \/ Clear
Spec == Init /\ [][Next]_vars

-----------------------------------------------------------------------------
Fields == {"type", "src", "msgID"}
Right(h, f) == {i \in 1 .. 3 : h[f][i] = sent[f][1]}
Most(h) == \A f \in Fields : \E i, j \in Right(h, f) : i # j

\* The three copies do what they are for: when at most one copy of each field
\* was damaged and the lengths agree, the receiver ends with the header that
\* was sent.
OneCopyRestored ==
    [][stage = "wire" /\ stage' # "wire" /\ Most(got) /\ got.len[1] = got.len[2]
         => [f \in Fields |-> got'[f]] = [f \in Fields |-> sent[f]]]_vars

\* An undamaged packet of any node that has a route is passed up.
GoodAccepted ==
    [][stage = "wire" /\ stage' # "wire" /\ got = sent => stage' = "up"]_vars

\* A packet that was passed up names one type, source and message in all its
\* copies, all of them possible ones.
UpConsistent ==
    stage = "up" =>
        /\ \A f \in Fields : got[f][1] = got[f][2] /\ got[f][2] = got[f][3]
        /\ got.src[1] < MAX_NUM_ROUTES
        /\ msgID2pnid(got.msgID[1]) < MAX_NUM_ROUTES
        /\ got.type[1] \in CTS .. LAST_ENTRY_DO_NOT_MOVE - 1

\* A packet whose body matters (class 1 and 3: data, requests to send) is
\* passed up only if no copy of its header had to be repaired.
BodyTrusted == stage = "up" /\ got.type[1] \notin Class2 => fixes = 0

\* Two messages in a row have different IDs, and an ID names its sender.
IdsTellApart ==
    [][stage' = "wire" => msgID' # msgID /\ msgID2pnid(msgID') = pnid]_vars
=============================================================================
