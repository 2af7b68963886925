------------------------- MODULE HeaderCheckProofs --------------------------
(***************************************************************************)
(* What the redundant header achieves, for any number of nodes, any width  *)
(* of the message counter, any types and whatever a damaged type reads.    *)
(*                                                                         *)
(* The argument: a message ID is the node number plus one above a counter, *)
(* for ever (IdOf), and a packet on the wire carries the ID that was drawn *)
(* for it; the rest is what check_hdr() does to three copies.              *)
(***************************************************************************)
EXTENDS HeaderCheck, TLAPS

\* An ID of node p.
IdOf(id, p) == \E r \in 0 .. MaskSize - 1 : id = (MaskSize * (p + 1)) + r

HdrInv ==
    /\ pnid \in Nodes
    /\ msgID = 0 \/ IdOf(msgID, pnid)
    /\ stage \in {"idle", "wire", "up", "drop"}
    /\ stage = "wire" =>
         /\ IdOf(msgID, pnid)
         /\ \E type \in Types : sent = Header(type, msgID)
         /\ got \in Damaged(sent)
    /\ UpConsistent /\ BodyTrusted

-----------------------------------------------------------------------------
(* Message IDs.                                                            *)

\* The quotient and the remainder are the only numbers that fit.
LEMMA Division ==
    ASSUME NEW s \in Nat \ {0}, NEW q \in Nat, NEW r \in 0 .. s - 1
    PROVE  ((s * q) + r) \div s = q /\ ((s * q) + r) % s = r
  <1> DEFINE a == (s * q) + r
             p == a \div s
             t == a % s
  <1>0. s * q \in Nat
    OBVIOUS
  <1>1. a \in Nat /\ r \in Nat /\ r < s
    BY <1>0
  <1> HIDE DEF a
  <1>2. p \in Int /\ t \in Nat /\ t < s
    BY <1>1
  <1>3. a = (s * p) + t
    BY <1>1
  <1> HIDE DEF p, t
  <1>4. t - r = s * (q - p)
    BY <1>1, <1>2, <1>3 DEF a
  <1>5. CASE q - p <= -1
    <2>1. s * (q - p) <= -s
      BY <1>2, <1>5
    <2> QED BY <1>1, <1>2, <1>4, <2>1
  <1>6. CASE q - p >= 1
    <2>1. s * (q - p) >= s
      BY <1>2, <1>6
    <2> QED BY <1>1, <1>2, <1>4, <2>1
  <1>7. CASE q = p
    <2>1. s * (q - p) = 0
      BY <1>2, <1>7
    <2>2. t = r
      BY <1>1, <1>2, <1>4, <2>1
    <2> QED BY <1>7, <2>2 DEF a, p, t
  <1> QED BY <1>2, <1>5, <1>6, <1>7

\* A node's number is below the number of routes, and so is the one above its IDs.
LEMMA NodeNumbers ==
    ASSUME NEW p \in Nodes
    PROVE  /\ p \in Nat /\ p + 1 < MAX_NUM_ROUTES /\ p < MAX_NUM_ROUTES
           /\ MaskSize * (p + 1) \in Nat /\ MaskSize * (p + 1) > 0
           /\ Word \in Nat /\ (MaskSize * (p + 1)) < Word /\ p < Word
  <1>1. /\ p \in Nat /\ p + 1 < MAX_NUM_ROUTES /\ MAX_NUM_ROUTES \in Nat
        /\ MaskSize \in Nat /\ MaskSize >= 2
    BY HeaderConstants, MaskAssumption, SendersAssumption
  <1> DEFINE M == MaskSize
             R == MAX_NUM_ROUTES
  <1> HIDE DEF M, R
  <1>2. \A m \in Nat : \A q, n \in Nat : m >= 2 /\ q + 1 < n =>
          /\ m * (q + 1) \in Nat /\ m * (q + 1) > 0 /\ n * m \in Nat
          /\ m * (q + 1) < n * m /\ q < n * m
    <2> SUFFICES ASSUME NEW m \in Nat, NEW q \in Nat, NEW n \in Nat, m >= 2, q + 1 < n
                 PROVE  /\ m * (q + 1) \in Nat /\ m * (q + 1) > 0 /\ n * m \in Nat
                        /\ m * (q + 1) < n * m /\ q < n * m
      OBVIOUS
    <2>1. n - (q + 1) >= 1 /\ m * (n - (q + 1)) >= m
      OBVIOUS
    <2>2. m * (n - (q + 1)) = (n * m) - (m * (q + 1))
      OBVIOUS
    <2>3. m * (q + 1) >= q + 1 /\ m * (q + 1) \in Nat /\ n * m \in Nat
      OBVIOUS
    <2> QED BY <2>1, <2>2, <2>3
  <1> QED BY <1>1, <1>2 DEF Word

\* An ID names its node.
LEMMA IdNames ==
    ASSUME NEW p \in Nodes, NEW id, IdOf(id, p)
    PROVE  id \in Nat /\ id > 0 /\ msgID2pnid(id) = p
  <1>1. PICK r \in 0 .. MaskSize - 1 : id = (MaskSize * (p + 1)) + r
    BY DEF IdOf
  <1>2. id \in Nat /\ id > 0
    BY <1>1, NodeNumbers, MaskAssumption
  <1>3. id \div MaskSize = p + 1
    <2>1. p + 1 \in Nat /\ MaskSize \in Nat \ {0}
      BY NodeNumbers, MaskAssumption
    <2> QED BY <1>1, <2>1, Division
  <1>4. p = (Word * 0) + p /\ p \in 0 .. Word - 1 /\ Word \in Nat \ {0}
    BY NodeNumbers
  <1>5. p % Word = p
    BY <1>4
  <1>6. (p + 1) - 1 = p
    BY NodeNumbers
  <1> QED BY <1>2, <1>3, <1>5, <1>6 DEF msgID2pnid

\* The next ID is another one of the same node.
LEMMA NextId ==
    ASSUME NEW p \in Nodes, NEW id, id = 0 \/ IdOf(id, p)
    PROVE  IdOf(next_msgID(id, p), p) /\ next_msgID(id, p) # id
  <1> DEFINE M == MaskSize
  <1>0. M \in Nat /\ M >= 2
    BY MaskAssumption
  <1>1. CASE id = 0
    <2>1. (p + 1) * M = M * (p + 1)
      BY <1>0, NodeNumbers
    <2>2. (M * (p + 1)) % Word = M * (p + 1)
      BY NodeNumbers
    <2>3. next_msgID(id, p) = M * (p + 1)
      BY <1>1, <2>1, <2>2 DEF next_msgID
    <2>4. M * (p + 1) = (M * (p + 1)) + 0 /\ 0 \in 0 .. M - 1
      BY <1>0, NodeNumbers
    <2>5. IdOf(next_msgID(id, p), p)
      BY <2>3, <2>4 DEF IdOf
    <2> QED BY <1>1, <2>3, <2>5, NodeNumbers
  <1>2. CASE IdOf(id, p)
    <2>1. PICK r \in 0 .. M - 1 : id = (M * (p + 1)) + r
      BY <1>2 DEF IdOf
    <2>2. id % M = r /\ id # 0
      <3>1. p + 1 \in Nat /\ M \in Nat \ {0}
        BY <1>0, NodeNumbers
      <3>2. id # 0
        BY <1>2, IdNames
      <3> HIDE DEF M
      <3> QED BY <2>1, <3>1, <3>2, Division
    <2> DEFINE b == M * (p + 1)
               n == (r + 1) % M
    <2>3. b \in Nat
      BY NodeNumbers
    <2>4. next_msgID(id, p) = (id - r) + n
      BY <2>2 DEF next_msgID
    <2>5. n \in 0 .. M - 1 /\ n # r
      <3>1. CASE r + 1 = M
        <4>1. n = 0
          BY <1>0, <3>1
        <4> QED BY <1>0, <3>1, <4>1
      <3>2. CASE r + 1 < M
        <4>1. n = r + 1
          BY <1>0, <3>2
        <4> QED BY <1>0, <2>1, <3>2, <4>1
      <3> QED BY <1>0, <2>1, <3>1, <3>2
    <2> HIDE DEF b, n
    <2>6. next_msgID(id, p) = b + n
      BY <2>1, <2>3, <2>4, <2>5, <1>0 DEF b
    <2>7. next_msgID(id, p) # id
      BY <1>0, <2>1, <2>3, <2>5, <2>6 DEF b
    <2> QED BY <2>5, <2>6, <2>7 DEF IdOf, b
  <1> QED BY <1>1, <1>2

-----------------------------------------------------------------------------
(* Three copies.                                                           *)

\* Repair() counts one warning or one error at most; what it repairs is three
\* times one of the copies.
LEMMA RepairIs ==
    ASSUME NEW S, NEW f \in [1 .. 3 -> S]
    PROVE  LET r == Repair(f)
           IN  /\ r.error \in {0, 1} /\ r.warning \in {0, 1}
               /\ r.f[1] \in S
               /\ r.error = 0 => r.f[1] = r.f[2] /\ r.f[2] = r.f[3]
  BY DEF Repair

\* Two copies that agree win.
LEMMA RepairMost ==
    ASSUME NEW S, NEW f \in [1 .. 3 -> S], NEW v, NEW i \in 1 .. 3, NEW j \in 1 .. 3,
           i # j, f[i] = v, f[j] = v
    PROVE  Repair(f).f = <<v, v, v>>
  <1>1. CASE f[1] = f[2] /\ f[2] = f[3]
    <2>1. f[1] = v /\ f[2] = v /\ f[3] = v
      BY <1>1
    <2>2. f = <<v, v, v>>
      BY <2>1
    <2> QED BY <1>1, <2>2 DEF Repair
  <1>2. CASE ~(f[1] = f[2] /\ f[2] = f[3])
    BY <1>2 DEF Repair
  <1> QED BY <1>1, <1>2

\* Three copies that agree are left alone.
LEMMA RepairSame ==
    ASSUME NEW v
    PROVE  Repair(<<v, v, v>>) = [f |-> <<v, v, v>>, warning |-> 0, error |-> 0]
  BY DEF Repair

\* What may come in for a packet of this node.
LEMMA DamagedIs ==
    ASSUME NEW type, NEW id, NEW h, h \in Damaged(Header(type, id))
    PROVE  /\ h.type \in [1 .. 3 -> {type} \cup WrongTypes]
           /\ h.src \in [1 .. 3 -> {pnid} \cup {MAX_NUM_ROUTES}]
           /\ h.msgID \in [1 .. 3 -> {id} \cup {0}]
           /\ h.len \in {<<1, 1>>, <<1, 2>>}
           /\ h = [len |-> h.len, type |-> h.type, src |-> h.src, msgID |-> h.msgID]
  <1> DEFINE s == Header(type, id)
  <1>1. s.type[1] = type /\ s.src[1] = pnid /\ s.msgID[1] = id
    BY DEF Header
  <1> HIDE DEF s
  <1>2. h \in Damaged(s)
    BY DEF s
  <1> QED BY <1>1, <1>2 DEF Damaged, Copies

-----------------------------------------------------------------------------
(* The receiver.                                                           *)

\* What check_hdr() leaves of a header, and what its verdict means.
LEMMA ReceiveIs ==
    ASSUME HdrInv, Receive
    PROVE  LET type == Repair(got.type)
               src == Repair(got.src)
               id == Repair(got.msgID)
           IN  /\ stage = "wire" /\ stage' \in {"up", "drop"}
               /\ got'.type = type.f /\ got'.src = src.f /\ got'.msgID = id.f
               /\ fixes' = type.warning + src.warning + id.warning
               /\ stage' = "up" <=>
                    /\ got.len[1] = got.len[2]
                    /\ type.error = 0 /\ src.error = 0 /\ id.error = 0
                    /\ ~(msgID2pnid(id.f[1]) >= MAX_NUM_ROUTES)
                    /\ ~(src.f[1] >= MAX_NUM_ROUTES)
                    /\ type.f[1] \in CTS .. LAST_ENTRY_DO_NOT_MOVE - 1
                    /\ fixes' > 0 => type.f[1] \in Class2
               /\ UNCHANGED <<pnid, msgID, sent>>
  <1> DEFINE type == Repair(got.type)
             src == Repair(got.src)
             id == Repair(got.msgID)
             checked == check_hdr(got)
             bad == Insane(got, type, src, id)
             hdr == [got EXCEPT !.type = type.f, !.src = src.f, !.msgID = id.f]
  <1>1. stage = "wire"
    BY DEF Receive
  <1>2. PICK t \in Types : sent = Header(t, msgID)
    BY <1>1 DEF HdrInv
  <1>3. got \in Damaged(Header(t, msgID))
    BY <1>1, <1>2 DEF HdrInv
  <1>4. /\ type.error \in {0, 1} /\ src.error \in {0, 1} /\ id.error \in {0, 1}
        /\ type.warning \in {0, 1} /\ src.warning \in {0, 1} /\ id.warning \in {0, 1}
    BY <1>3, DamagedIs, RepairIs, Zenon
  <1>5. got = [len |-> got.len, type |-> got.type, src |-> got.src, msgID |-> got.msgID]
    BY <1>3, DamagedIs
  <1> HIDE DEF type, src, id
  <1>6. /\ bad \in Nat
        /\ bad = 0 <=> /\ ~(msgID2pnid(id.f[1]) >= MAX_NUM_ROUTES)
                       /\ ~(src.f[1] >= MAX_NUM_ROUTES)
                       /\ type.f[1] \in CTS .. LAST_ENTRY_DO_NOT_MOVE - 1
    BY DEF Insane
  <1> HIDE DEF bad
  <1>7. checked = [error |-> (IF got.len[1] # got.len[2] THEN 1 ELSE 0)
                             + type.error + src.error + id.error + bad,
                   warning |-> type.warning + src.warning + id.warning, hdr |-> hdr]
    BY DEF check_hdr, type, src, id, bad
  <1>8. hdr.type = type.f /\ hdr.src = src.f /\ hdr.msgID = id.f
    BY <1>5
  <1> HIDE DEF checked, hdr
  <1>9. checked.hdr = hdr /\ checked.warning = type.warning + src.warning + id.warning
    BY <1>7
  <1>10. checked.error = 0 <=> /\ got.len[1] = got.len[2]
                               /\ type.error = 0 /\ src.error = 0 /\ id.error = 0 /\ bad = 0
    BY <1>4, <1>6, <1>7
  <1>11. /\ got' = checked.hdr /\ fixes' = checked.warning
         /\ stage' = IF Verdict(checked) THEN "up" ELSE "drop"
         /\ UNCHANGED <<pnid, msgID, sent>>
    BY DEF Receive, checked
  <1>12. Verdict(checked) <=> /\ checked.error = 0
                              /\ checked.warning > 0 => type.f[1] \in Class2
    BY <1>8, <1>9 DEF Verdict, do_recovery
  <1> QED BY <1>1, <1>6, <1>8, <1>9, <1>10, <1>11, <1>12 DEF type, src, id

\* A packet that goes up is consistent, and was not repaired if its body matters.
LEMMA ReceiveUp ==
    ASSUME HdrInv, Receive
    PROVE  UpConsistent' /\ BodyTrusted'
  <1> DEFINE type == Repair(got.type)
             src == Repair(got.src)
             id == Repair(got.msgID)
  <1>1. stage = "wire"
    BY DEF Receive
  <1>2. PICK t \in Types : sent = Header(t, msgID)
    BY <1>1 DEF HdrInv
  <1>3. got \in Damaged(Header(t, msgID))
    BY <1>1, <1>2 DEF HdrInv
  <1>4. /\ type.error = 0 => type.f[1] = type.f[2] /\ type.f[2] = type.f[3]
        /\ src.error = 0 => src.f[1] = src.f[2] /\ src.f[2] = src.f[3]
        /\ id.error = 0 => id.f[1] = id.f[2] /\ id.f[2] = id.f[3]
        /\ src.f[1] \in {pnid} \cup {MAX_NUM_ROUTES}
        /\ id.f[1] \in {msgID} \cup {0}
        /\ type.warning \in {0, 1} /\ src.warning \in {0, 1} /\ id.warning \in {0, 1}
    <2>1. /\ got.type \in [1 .. 3 -> {t} \cup WrongTypes]
          /\ got.src \in [1 .. 3 -> {pnid} \cup {MAX_NUM_ROUTES}]
          /\ got.msgID \in [1 .. 3 -> {msgID} \cup {0}]
      BY <1>3, DamagedIs
    <2>2. /\ type.warning \in {0, 1}
          /\ type.error = 0 => type.f[1] = type.f[2] /\ type.f[2] = type.f[3]
      BY <2>1, RepairIs, Zenon
    <2>3. /\ src.warning \in {0, 1} /\ src.f[1] \in {pnid} \cup {MAX_NUM_ROUTES}
          /\ src.error = 0 => src.f[1] = src.f[2] /\ src.f[2] = src.f[3]
      <3> DEFINE S == {pnid} \cup {MAX_NUM_ROUTES}
      <3>1. got.src \in [1 .. 3 -> S]
        BY <2>1
      <3> HIDE DEF S
      <3>2. /\ src.warning \in {0, 1} /\ src.f[1] \in S
            /\ src.error = 0 => src.f[1] = src.f[2] /\ src.f[2] = src.f[3]
        BY <3>1, RepairIs
      <3> QED BY <3>2 DEF S
    <2>4. /\ id.warning \in {0, 1} /\ id.f[1] \in {msgID} \cup {0}
          /\ id.error = 0 => id.f[1] = id.f[2] /\ id.f[2] = id.f[3]
      <3> DEFINE S == {msgID} \cup {0}
      <3>1. got.msgID \in [1 .. 3 -> S]
        BY <2>1
      <3> HIDE DEF S
      <3>2. /\ id.warning \in {0, 1} /\ id.f[1] \in S
            /\ id.error = 0 => id.f[1] = id.f[2] /\ id.f[2] = id.f[3]
        BY <3>1, RepairIs
      <3> QED BY <3>2 DEF S
    <2> QED BY <2>2, <2>3, <2>4
  <1>5. pnid \in Nodes /\ IdOf(msgID, pnid)
    BY <1>1 DEF HdrInv
  <1>6. src.f[1] \in Int /\ MAX_NUM_ROUTES \in Int
    BY <1>4, <1>5, NodeNumbers, HeaderConstants
  <1>7. msgID2pnid(id.f[1]) \in Int
    <2>1. id.f[1] \in Int
      BY <1>4, <1>5, IdNames
    <2>2. MaskSize \in Nat \ {0} /\ Word \in Nat \ {0}
      BY <1>5, NodeNumbers, MaskAssumption
    <2>3. (id.f[1] \div MaskSize) - 1 \in Int
      BY <2>1, <2>2
    <2> QED BY <2>2, <2>3 DEF msgID2pnid
  <1>8. /\ got'.type = type.f /\ got'.src = src.f /\ got'.msgID = id.f
        /\ fixes' = type.warning + src.warning + id.warning
        /\ stage' = "up" =>
             /\ type.error = 0 /\ src.error = 0 /\ id.error = 0
             /\ ~(msgID2pnid(id.f[1]) >= MAX_NUM_ROUTES)
             /\ ~(src.f[1] >= MAX_NUM_ROUTES)
             /\ type.f[1] \in CTS .. LAST_ENTRY_DO_NOT_MOVE - 1
             /\ fixes' > 0 => type.f[1] \in Class2
    BY ReceiveIs
  <1> HIDE DEF type, src, id
  <1>9. BodyTrusted'
    BY <1>4, <1>8 DEF BodyTrusted
  <1>10. ASSUME stage' = "up"
         PROVE  /\ got'.src[1] < MAX_NUM_ROUTES
                /\ msgID2pnid(got'.msgID[1]) < MAX_NUM_ROUTES
                /\ got'.type[1] \in CTS .. LAST_ENTRY_DO_NOT_MOVE - 1
                /\ \A f \in Fields : got'[f][1] = got'[f][2] /\ got'[f][2] = got'[f][3]
    <2>1. /\ got'.src[1] < MAX_NUM_ROUTES
          /\ msgID2pnid(got'.msgID[1]) < MAX_NUM_ROUTES
          /\ got'.type[1] \in CTS .. LAST_ENTRY_DO_NOT_MOVE - 1
      BY <1>6, <1>7, <1>8, <1>10
    <2>2. /\ got'.type[1] = got'.type[2] /\ got'.type[2] = got'.type[3]
          /\ got'.src[1] = got'.src[2] /\ got'.src[2] = got'.src[3]
          /\ got'.msgID[1] = got'.msgID[2] /\ got'.msgID[2] = got'.msgID[3]
      BY <1>4, <1>8, <1>10
    <2> QED BY <2>1, <2>2 DEF Fields
  <1>11. UpConsistent'
    BY <1>10 DEF UpConsistent, msgID2pnid
  <1> QED BY <1>9, <1>11

-----------------------------------------------------------------------------
(* The inductive invariant.                                                *)

\* Every step keeps the invariant.
LEMMA HdrStep == HdrInv /\ [Next]_vars => HdrInv'
  <1> SUFFICES ASSUME HdrInv, [Next]_vars PROVE HdrInv'
    OBVIOUS
  <1>1. CASE Send
    <2>1. /\ pnid' = pnid /\ pnid \in Nodes /\ stage' = "wire"
          /\ msgID' = next_msgID(msgID, pnid) /\ got' \in Damaged(sent')
      BY <1>1 DEF Send, HdrInv
    <2>2. IdOf(msgID', pnid')
      <3>1. msgID = 0 \/ IdOf(msgID, pnid)
        BY DEF HdrInv
      <3> QED BY <2>1, <3>1, NextId
    <2>3. \E type \in Types : sent' = Header(type, msgID)'
      BY <1>1, <2>1 DEF Send, Header
    <2>4. UpConsistent' /\ BodyTrusted'
      BY <2>1 DEF UpConsistent, BodyTrusted
    <2>5. (got \in Damaged(sent))'
      BY <2>1 DEF Damaged, Copies
    <2> QED BY <2>1, <2>2, <2>3, <2>4, <2>5 DEF HdrInv, IdOf
  <1>2. CASE Receive
    <2>1. stage' \in {"up", "drop"} /\ UNCHANGED <<pnid, msgID>>
      BY <1>2, ReceiveIs
    <2>2. UpConsistent' /\ BodyTrusted'
      BY <1>2, ReceiveUp
    <2> QED BY <2>1, <2>2 DEF HdrInv, IdOf
  <1>3. CASE Clear
    BY <1>3 DEF Clear, HdrInv, IdOf, UpConsistent, BodyTrusted
  <1>4. CASE UNCHANGED vars
    BY <1>4 DEF vars, HdrInv, IdOf, UpConsistent, BodyTrusted, Header, Damaged, Copies
  <1> QED BY <1>1, <1>2, <1>3, <1>4 DEF Next

\* The invariant of the sender, the wire and the receiver's header check.
THEOREM Invariant == Spec => []HdrInv
  <1>1. Init => HdrInv
    BY DEF Init, HdrInv, UpConsistent, BodyTrusted
  <1> QED BY <1>1, HdrStep, PTL DEF Spec

\* A packet that check_hdr() lets through names one type, one source and one
\* message, all of them possible, whatever the network did to the copies; and
\* a packet whose body matters was not repaired (do_recovery()).
THEOREM UpSafe == Spec => [](UpConsistent /\ BodyTrusted)
  <1>1. HdrInv => UpConsistent /\ BodyTrusted
    BY DEF HdrInv
  <1> QED BY <1>1, Invariant, PTL

-----------------------------------------------------------------------------
(* What a step may never do.                                               *)

\* Only the receiver takes a packet off the wire.
LEMMA OffTheWire ==
    ASSUME [Next]_vars, stage = "wire", stage' # "wire"
    PROVE  Receive
  BY DEF Next, vars, Send, Clear

\* Two right copies of every field are enough: check_hdr() gives back the header
\* that was sent.
THEOREM Restored == Spec => OneCopyRestored
  <1>1. ASSUME HdrInv, [Next]_vars, stage = "wire", stage' # "wire", Most(got)
        PROVE  [f \in Fields |-> got'[f]] = [f \in Fields |-> sent[f]]
    <2>1. Receive
      BY <1>1, OffTheWire
    <2>2. PICK t \in Types : sent = Header(t, msgID) /\ got \in Damaged(Header(t, msgID))
      BY <1>1 DEF HdrInv
    <2>3. /\ got.type \in [1 .. 3 -> {t} \cup WrongTypes]
          /\ got.src \in [1 .. 3 -> {pnid} \cup {MAX_NUM_ROUTES}]
          /\ got.msgID \in [1 .. 3 -> {msgID} \cup {0}]
      BY <2>2, DamagedIs
    <2>4. /\ got'.type = Repair(got.type).f /\ got'.src = Repair(got.src).f
          /\ got'.msgID = Repair(got.msgID).f
      BY <1>1, <2>1, ReceiveIs
    <2>5. /\ sent.type = <<t, t, t>> /\ sent.src = <<pnid, pnid, pnid>>
          /\ sent.msgID = <<msgID, msgID, msgID>>
      BY <2>2 DEF Header
    <2>6. got'.type = sent.type
      <3>1. PICK i \in 1 .. 3, j \in 1 .. 3 : i # j /\ got.type[i] = t /\ got.type[j] = t
        BY <1>1, <2>5 DEF Most, Right, Fields
      <3> QED BY <2>3, <2>4, <2>5, <3>1, RepairMost, ZenonT(30)
    <2>7. got'.src = sent.src
      <3>1. PICK i \in 1 .. 3, j \in 1 .. 3 : i # j /\ got.src[i] = pnid /\ got.src[j] = pnid
        BY <1>1, <2>5 DEF Most, Right, Fields
      <3> DEFINE S == {pnid} \cup {MAX_NUM_ROUTES}
      <3>2. got.src \in [1 .. 3 -> S]
        BY <2>3
      <3> HIDE DEF S
      <3> QED BY <2>4, <2>5, <3>1, <3>2, RepairMost
    <2>8. got'.msgID = sent.msgID
      <3>1. PICK i \in 1 .. 3, j \in 1 .. 3 :
                i # j /\ got.msgID[i] = msgID /\ got.msgID[j] = msgID
        BY <1>1, <2>5 DEF Most, Right, Fields
      <3> DEFINE S == {msgID} \cup {0}
      <3>2. got.msgID \in [1 .. 3 -> S]
        BY <2>3
      <3> HIDE DEF S
      <3> QED BY <2>4, <2>5, <3>1, <3>2, RepairMost
    <2> QED BY <2>6, <2>7, <2>8 DEF Fields
  <1>2. HdrInv /\ [Next]_vars =>
          [stage = "wire" /\ stage' # "wire" /\ Most(got) /\ got.len[1] = got.len[2]
             => [f \in Fields |-> got'[f]] = [f \in Fields |-> sent[f]]]_vars
    BY <1>1
  <1> QED BY <1>2, Invariant, PTL DEF Spec, OneCopyRestored

\* The check refuses no packet that came in as it was sent.
THEOREM Accepted == Spec => GoodAccepted
  <1>1. ASSUME HdrInv, [Next]_vars, stage = "wire", stage' # "wire", got = sent
        PROVE  stage' = "up"
    <2>1. Receive
      BY <1>1, OffTheWire
    <2>2. PICK t \in Types : sent = Header(t, msgID)
      BY <1>1 DEF HdrInv
    <2>3. /\ got.type = <<t, t, t>> /\ got.src = <<pnid, pnid, pnid>>
          /\ got.msgID = <<msgID, msgID, msgID>> /\ got.len = <<1, 1>>
      BY <1>1, <2>2 DEF Header
    <2>4. /\ Repair(got.type) = [f |-> <<t, t, t>>, warning |-> 0, error |-> 0]
          /\ Repair(got.src) = [f |-> <<pnid, pnid, pnid>>, warning |-> 0, error |-> 0]
          /\ Repair(got.msgID) = [f |-> <<msgID, msgID, msgID>>, warning |-> 0, error |-> 0]
      BY <2>3, RepairSame
    <2>5. pnid \in Nodes /\ IdOf(msgID, pnid)
      BY <1>1 DEF HdrInv
    <2>6. msgID2pnid(msgID) = pnid /\ pnid \in Nat /\ pnid < MAX_NUM_ROUTES
      BY <2>5, IdNames, NodeNumbers
    <2>7. t \in CTS .. LAST_ENTRY_DO_NOT_MOVE - 1
      BY SendersAssumption
    <2>8. fixes' = 0
      BY <1>1, <2>1, <2>4, ReceiveIs
    <2> QED BY <1>1, <2>1, <2>3, <2>4, <2>6, <2>7, <2>8, HeaderConstants, ReceiveIs
  <1>2. HdrInv /\ [Next]_vars =>
          [stage = "wire" /\ stage' # "wire" /\ got = sent => stage' = "up"]_vars
    BY <1>1
  <1> QED BY <1>2, Invariant, PTL DEF Spec, GoodAccepted

\* next_msgID() never draws the same number twice in a row, not even where the
\* counter wraps around, and msgID2pnid() reads the sender from it.
THEOREM IdsApart == Spec => IdsTellApart
  <1>1. ASSUME HdrInv, Next, stage' = "wire"
        PROVE  msgID' # msgID /\ msgID2pnid(msgID') = pnid
    <2>1. CASE Send
      <3>1. /\ pnid \in Nodes
            /\ msgID = 0 \/ IdOf(msgID, pnid)
            /\ msgID' = next_msgID(msgID, pnid)
        BY <1>1, <2>1 DEF Send, HdrInv
      <3> QED BY <3>1, NextId, IdNames
    <2>2. CASE Receive
      BY <1>1, <2>2, ReceiveIs
    <2>3. CASE Clear
      BY <1>1, <2>3 DEF Clear
    <2> QED BY <1>1, <2>1, <2>2, <2>3 DEF Next
  <1>2. HdrInv /\ [Next]_vars =>
          [stage' = "wire" => msgID' # msgID /\ msgID2pnid(msgID') = pnid]_vars
    BY <1>1
  <1> QED BY <1>2, Invariant, PTL DEF Spec, IdsTellApart
=============================================================================
