---------------------------- MODULE PtlLibProofs ----------------------------
(***************************************************************************)
(* What PtlEQGet promises, for queues of every length and any number of    *)
(* events written between any two of its reads, and that it promises the   *)
(* same inside the library: whatever the process calls and the NAL         *)
(* delivers, a step changes the queue only as EventQueue allows.           *)
(*                                                                         *)
(* The properties are not inductive.  Two facts are missing: the number in *)
(* a slot only grows, so that the reads of one call are ordered, and a     *)
(* reader that was not lapped is less than a round behind, so that a write *)
(* cannot hit an event it still has to take.                               *)
(***************************************************************************)
EXTENDS PtlLib, TLAPS

\* The reads of the call in progress are in the order of time: what it looks
\* for, the two halves it copied, and what the slot holds now.
Ordered ==
    /\ get.at # "idle" => get.asked = ueq.sequence
    /\ get.at # "idle" => ueq.sequence <= base[Slot(ueq.sequence)]
    /\ get.at \in {"first", "second", "compare"} => get.rc = "none"
    /\ get.at \in {"second", "compare"} =>
           get.asked <= get.first /\ get.first <= base[Slot(ueq.sequence)]
    /\ get.at = "compare" =>
           get.first <= get.second /\ get.second <= base[Slot(ueq.sequence)]

\* Every number in a slot was given out, and a reader that was not lapped is at
\* most one round behind the library.
Numbered == \A i \in 0 .. eq.size - 1 : base[i] < eq.sequence
Close == eq.inuse /\ ~lapped => eq.sequence - ueq.sequence <= eq.size

EQInv ==
    /\ EQTypeOK /\ Ordered /\ Numbered /\ Close
    /\ OkIsWhole /\ NeverAhead /\ NothingDropped

-----------------------------------------------------------------------------
\* A slot number is within the ring.
LEMMA SlotInRing ==
    ASSUME NEW n \in Nat, NEW s \in Nat \ {0}
    PROVE  n % s \in 0 .. s - 1
  OBVIOUS

\* Two numbers less than a round apart have different slots.
LEMMA SlotsDiffer ==
    ASSUME NEW a \in Nat, NEW b \in Nat, NEW s \in Nat \ {0}, a < b, b - a < s
    PROVE  a % s # b % s
  <1> SUFFICES ASSUME a % s = b % s PROVE FALSE
    OBVIOUS
  <1> DEFINE p == a \div s
             q == b \div s
  <1>1. p \in Int /\ q \in Int /\ a % s \in Int /\ b % s \in Int
    OBVIOUS
  <1>2. a = (s * p) + (a % s) /\ b = (s * q) + (b % s)
    OBVIOUS
  <1> HIDE DEF p, q
  <1>3. b - a = s * (q - p)
    BY <1>1, <1>2
  <1>4. CASE q - p <= 0
    <2>1. s * (q - p) <= 0
      BY <1>1, <1>4
    <2> QED BY <1>3, <2>1
  <1>5. CASE q - p >= 1
    <2>1. s * (q - p) >= s
      BY <1>1, <1>5
    <2> QED BY <1>3, <2>1
  <1> QED BY <1>1, <1>4, <1>5

-----------------------------------------------------------------------------
\* Numbering one more event leaves the rest of the library's queue alone.
LEMMA Numbering ==
    ASSUME NEW r \in [inuse : BOOLEAN, sequence : Nat \ {0}, size : Nat \ {0}],
           NEW n \in Nat \ {0}
    PROVE  /\ [r EXCEPT !.sequence = n] \in [inuse : BOOLEAN, sequence : Nat \ {0},
                                            size : Nat \ {0}]
           /\ [r EXCEPT !.sequence = n].sequence = n
           /\ [r EXCEPT !.sequence = n].size = r.size
           /\ [r EXCEPT !.sequence = n].inuse = r.inuse
  BY Zenon

\* No slot is filled, nothing is asked for, at the start.
LEMMA InitEQInv == EQInit => EQInv
  <1> SUFFICES ASSUME EQInit PROVE EQInv
    OBVIOUS
  <1>1. eq.size = 1 /\ eq.sequence = 1 /\ ueq.sequence = 1 /\ ~eq.inuse
    BY DEF EQInit, NoQueue
  <1>2. base \in [0 .. eq.size - 1 -> Nat] /\ \A i \in 0 .. eq.size - 1 : base[i] = 0
    <2>1. 0 .. eq.size - 1 = {0}
      BY <1>1
    <2> QED BY <2>1 DEF EQInit
  <1>3. EQTypeOK
    <2>1. 1 \in Nat \ {0} /\ 0 \in Nat
      OBVIOUS
    <2> QED BY <1>2, <2>1, Zenon DEF EQInit, EQTypeOK, NoQueue, NoCall, Results
  <1>4. get.at = "idle" /\ get.rc = "none"
    BY DEF EQInit, NoCall
  <1> QED
    BY <1>1, <1>2, <1>3, <1>4
       DEF EQInv, Ordered, Numbered, Close, OkIsWhole, NeverAhead, NothingDropped

\* A new queue is empty.
LEMMA AllocEQInv ==
    ASSUME EQInv, NEW n \in Sizes, EQAlloc(n)
    PROVE  EQInv'
  <1>1. n \in Nat \ {0}
    BY SizesAssumption
  <1>2. /\ eq'.size = n /\ eq'.sequence = 1 /\ ueq'.sequence = 1
        /\ get'.at = "idle" /\ get'.rc = "none"
    BY DEF EQAlloc, NoCall
  <1>3. base' \in [0 .. n - 1 -> Nat] /\ \A i \in 0 .. n - 1 : base'[i] = 0
    BY DEF EQAlloc
  <1>4. EQTypeOK'
    <2>1. 1 \in Nat \ {0} /\ 0 \in Nat
      OBVIOUS
    <2> QED BY <1>1, <1>2, <1>3, <2>1, Zenon DEF EQAlloc, EQTypeOK, NoCall, Results
  <1> QED
    BY <1>1, <1>2, <1>3, <1>4
       DEF EQInv, Ordered, Numbered, Close, OkIsWhole, NeverAhead, NothingDropped

\* Freeing the queue leaves its events and the result of the last call alone.
LEMMA FreeEQInv == EQInv /\ EQFree => EQInv'
  <1> SUFFICES ASSUME EQInv, EQFree PROVE EQInv'
    OBVIOUS
  <1>1. /\ eq'.inuse = FALSE /\ eq'.sequence = eq.sequence /\ eq'.size = eq.size
        /\ ueq'.sequence = ueq.sequence /\ base' = base /\ get' = get /\ lapped' = lapped
    BY Zenon DEF EQFree, EQInv, EQTypeOK
  <1>2. EQTypeOK'
    BY <1>1, Zenon DEF EQFree, EQInv, EQTypeOK
  <1> QED
    BY <1>1, <1>2, Zenon DEF EQInv, Ordered, Numbered, Close, OkIsWhole, NeverAhead,
                             NothingDropped, Slot

\* A number without an event counts as a lap.
LEMMA WriteFailsEQInv == EQInv /\ EQWriteFails => EQInv'
  <1> SUFFICES ASSUME EQInv, EQWriteFails PROVE EQInv'
    OBVIOUS
  <1>1. eq.sequence + 1 \in Nat \ {0} /\ eq.sequence \in Nat
    BY DEF EQInv, EQTypeOK
  <1>2. /\ eq'.sequence = eq.sequence + 1 /\ eq'.size = eq.size
        /\ eq' \in [inuse : BOOLEAN, sequence : Nat \ {0}, size : Nat \ {0}]
        /\ lapped' = TRUE /\ base' = base /\ ueq' = ueq /\ get' = get
    BY <1>1, Numbering, Zenon DEF EQWriteFails, EQInv, EQTypeOK
  <1>3. EQTypeOK'
    BY <1>2, Zenon DEF EQInv, EQTypeOK
  <1>4. Ordered' /\ Close' /\ OkIsWhole' /\ NothingDropped'
    BY <1>2, Zenon DEF EQInv, Ordered, Close, OkIsWhole, NothingDropped, Slot
  <1>5. Numbered' /\ NeverAhead'
    BY <1>1, <1>2 DEF EQInv, EQTypeOK, Numbered, NeverAhead
  <1> QED BY <1>3, <1>4, <1>5 DEF EQInv

\* A write puts a larger number in its slot and leaves the other slots alone; it
\* hits no event the reader still has to take, unless that is counted as a lap.
LEMMA WriteEQInv == EQInv /\ EQWrite => EQInv'
  <1> SUFFICES ASSUME EQInv, EQWrite PROVE EQInv'
    OBVIOUS
  <1> USE DEF EQInv
  <1> DEFINE k == Slot(eq.sequence)
  <1>1. k \in 0 .. eq.size - 1
    BY SlotInRing DEF Slot, EQTypeOK
  <1>2. /\ eq' = [eq EXCEPT !.sequence = @ + 1] /\ base' = [base EXCEPT ![k] = eq.sequence]
        /\ lapped' = (lapped \/ eq.sequence - ueq.sequence >= eq.size)
        /\ ueq' = ueq /\ get' = get
    BY DEF EQWrite
  <1>3. /\ eq'.sequence = eq.sequence + 1 /\ eq'.size = eq.size /\ eq'.inuse = eq.inuse
        /\ eq' \in [inuse : BOOLEAN, sequence : Nat \ {0}, size : Nat \ {0}]
    <2>1. eq.sequence + 1 \in Nat \ {0}
      BY DEF EQTypeOK
    <2> QED BY <1>2, <2>1, Numbering, Zenon DEF EQTypeOK
  <1> HIDE DEF k
  <1>4. EQTypeOK'
    BY <1>1, <1>2, <1>3 DEF EQTypeOK
  <1>5. \A i \in 0 .. eq.size - 1 :
           base'[i] = IF i = k THEN eq.sequence ELSE base[i]
    BY <1>1, <1>2 DEF EQTypeOK
  <1>6. \A i \in 0 .. eq.size - 1 : base[i] <= base'[i]
    BY <1>5 DEF Numbered, EQTypeOK
  <1>7. Slot(ueq.sequence)' = Slot(ueq.sequence) /\ Slot(ueq.sequence) \in 0 .. eq.size - 1
    BY <1>2, <1>3, SlotInRing DEF Slot, EQTypeOK
  <1>8. Numbered'
    BY <1>3, <1>5 DEF Numbered, EQTypeOK
  <1>9. base[Slot(ueq.sequence)] <= base'[Slot(ueq.sequence)]
    BY <1>6, <1>7
  <1>10. base[Slot(ueq.sequence)] \in Nat /\ base'[Slot(ueq.sequence)] \in Nat
    BY <1>3, <1>4, <1>7, SMTT(30) DEF EQTypeOK
  <1>11. Ordered'
    BY <1>2, <1>7, <1>9, <1>10 DEF Ordered, EQTypeOK
  <1>12. Close' /\ OkIsWhole' /\ NeverAhead'
    BY <1>2, <1>3, SMTT(30) DEF Close, OkIsWhole, NeverAhead, EQTypeOK
  <1>13. ASSUME eq.inuse, ~lapped' PROVE (get.rc # "PTL_EQ_DROPPED"
             /\ \A n \in ueq.sequence .. eq.sequence : base'[n % eq.size] = n)
    <2>1. ~lapped /\ eq.sequence - ueq.sequence < eq.size
      BY <1>2, <1>13 DEF EQTypeOK
    <2>2. get.rc # "PTL_EQ_DROPPED"
      BY <1>13, <2>1 DEF NothingDropped
    <2>3. ASSUME NEW n \in ueq.sequence .. eq.sequence, n # eq.sequence
          PROVE  base'[n % eq.size] = n
      <3>1. n \in ueq.sequence .. eq.sequence - 1 /\ n \in Nat
        BY <2>3 DEF EQTypeOK
      <3>2. base[n % eq.size] = n
        BY <1>13, <2>1, <3>1 DEF NothingDropped, Slot
      <3>3. n % eq.size # k
        <4>1. /\ n < eq.sequence /\ eq.sequence - n < eq.size
              /\ eq.sequence \in Nat /\ eq.size \in Nat \ {0}
          BY <2>1, <2>3, <3>1 DEF EQTypeOK
        <4> QED BY <3>1, <4>1, SlotsDiffer, Zenon DEF k, Slot
      <3>4. n % eq.size \in 0 .. eq.size - 1
        BY <3>1, SlotInRing DEF EQTypeOK
      <3> QED BY <1>5, <3>2, <3>3, <3>4
    <2>4. base'[eq.sequence % eq.size] = eq.sequence
      BY <1>1, <1>5, SMTT(30) DEF k, Slot
    <2> QED BY <2>2, <2>3, <2>4
  <1>14. NothingDropped'
    BY <1>2, <1>3, <1>13 DEF NothingDropped, Slot, EQTypeOK
  <1> QED BY <1>4, <1>8, <1>11, <1>12, <1>14

\* The slot PtlEQGet looks at is within the ring and holds a number given out.
LEMMA SlotRead ==
    ASSUME EQInv
    PROVE  /\ Slot(ueq.sequence) \in 0 .. eq.size - 1
           /\ base[Slot(ueq.sequence)] \in Nat
           /\ base[Slot(ueq.sequence)] < eq.sequence
  <1>1. Slot(ueq.sequence) \in 0 .. eq.size - 1
    BY SlotInRing DEF Slot, EQInv, EQTypeOK
  <1> QED BY <1>1 DEF EQInv, EQTypeOK, Numbered

\* A call begins: it goes on only if the slot has the number or a later one.
LEMMA GetEQInv == EQInv /\ EQGet => EQInv'
  <1> SUFFICES ASSUME EQInv, EQGet PROVE EQInv'
    OBVIOUS
  <1>1. eq' = eq /\ base' = base /\ ueq' = ueq /\ lapped' = lapped
    BY DEF EQGet
  <1>2. /\ get'.asked = ueq.sequence /\ get'.first = 0 /\ get'.second = 0
        /\ get'.at \in {"idle", "first"} /\ get'.rc \in {"none", "PTL_EQ_EMPTY"}
        /\ get'.at = "first" =>
             ~(ueq.sequence > base[Slot(ueq.sequence)]) /\ get'.rc = "none"
    BY DEF EQGet, NoCall
  <1>3. get' \in [at : {"idle", "first", "second", "compare", "advance"}, asked : Nat,
                  first : Nat, second : Nat, rc : Results]
    <2>1. ueq.sequence \in Nat /\ 0 \in Nat
      BY DEF EQInv, EQTypeOK
    <2> QED BY <2>1 DEF EQGet, NoCall, Results
  <1>4. EQTypeOK'
    BY <1>1, <1>3, Zenon DEF EQInv, EQTypeOK
  <1>5. Ordered'
    BY <1>1, <1>2, SlotRead, SMTT(30) DEF Ordered, Slot, EQInv, EQTypeOK
  <1> QED
    BY <1>1, <1>2, <1>4, <1>5
       DEF EQInv, Numbered, Close, OkIsWhole, NeverAhead, NothingDropped, Slot

\* Each half of the copy is no earlier than what was read before it.
LEMMA CopyEQInv == EQInv /\ EQCopy => EQInv'
  <1> SUFFICES ASSUME EQInv, EQCopy PROVE EQInv'
    OBVIOUS
  <1>1. eq' = eq /\ base' = base /\ ueq' = ueq /\ lapped' = lapped
    BY DEF EQCopy
  <1> DEFINE b == base[Slot(ueq.sequence)]
  <1>2. b \in Nat
    BY SlotRead
  <1>3. /\ get'.asked = get.asked /\ get'.rc = get.rc
        /\ \/ /\ get.at = "first" /\ get'.at = "second"
              /\ get'.first = b /\ get'.second = get.second
           \/ /\ get.at = "second" /\ get'.at = "compare"
              /\ get'.first = get.first /\ get'.second = b
    BY Zenon DEF EQCopy, EQInv, EQTypeOK
  <1>4. get' \in [at : {"idle", "first", "second", "compare", "advance"}, asked : Nat,
                  first : Nat, second : Nat, rc : Results]
    BY <1>2 DEF EQCopy, EQInv, EQTypeOK
  <1>5. EQTypeOK'
    BY <1>1, <1>4, Zenon DEF EQInv, EQTypeOK
  <1>6. Ordered'
    BY <1>1, <1>2, <1>3, SMTT(30) DEF Ordered, Slot, EQInv, EQTypeOK
  <1>7. get.rc = "none" /\ get'.rc = "none"
    BY <1>3 DEF EQInv, Ordered
  <1> QED
    BY <1>1, <1>5, <1>6, <1>7
       DEF EQInv, Numbered, Close, OkIsWhole, NeverAhead, NothingDropped, Slot

\* If the slot still has the number that was looked for, both halves had it; if
\* it has not, the reader was lapped.
LEMMA CompareEQInv == EQInv /\ EQCompare => EQInv'
  <1> SUFFICES ASSUME EQInv, EQCompare PROVE EQInv'
    OBVIOUS
  <1>1. eq' = eq /\ base' = base /\ ueq' = ueq /\ lapped' = lapped /\ get.at = "compare"
    BY DEF EQCompare
  <1> DEFINE b == base[Slot(ueq.sequence)]
  <1>2. b \in Nat /\ b < eq.sequence
    BY SlotRead
  <1>3. /\ get'.asked = get.asked /\ get'.first = get.first /\ get'.second = get.second
        /\ get'.at = "advance"
        /\ get'.rc = IF ueq.sequence # b THEN "PTL_EQ_DROPPED" ELSE "PTL_OK"
    BY DEF EQCompare, EQInv, EQTypeOK
  <1>4. get' \in [at : {"idle", "first", "second", "compare", "advance"}, asked : Nat,
                  first : Nat, second : Nat, rc : Results]
    BY DEF EQCompare, EQInv, EQTypeOK, Results
  <1>5. EQTypeOK'
    BY <1>1, <1>4, Zenon DEF EQInv, EQTypeOK
  <1>6. /\ get.asked = ueq.sequence /\ ueq.sequence <= b
        /\ get.asked <= get.first /\ get.first <= get.second /\ get.second <= b
    BY <1>1 DEF EQInv, Ordered
  <1>7. Ordered'
    BY <1>1, <1>3, <1>6 DEF Ordered, Slot
  <1>8. OkIsWhole'
    BY <1>2, <1>3, <1>6 DEF OkIsWhole, EQInv, EQTypeOK
  <1>9. ASSUME eq.inuse, ~lapped PROVE b = ueq.sequence
    <2>1. ueq.sequence \in ueq.sequence .. eq.sequence - 1
      BY <1>2, <1>6 DEF EQInv, EQTypeOK
    <2> QED BY <1>9, <2>1 DEF EQInv, NothingDropped
  <1>10. NothingDropped'
    BY <1>1, <1>3, <1>9, SMTT(30) DEF EQInv, NothingDropped, Slot
  <1> QED
    BY <1>1, <1>5, <1>7, <1>8, <1>10 DEF EQInv, Numbered, Close, NeverAhead

\* The reader goes on behind the number in the slot: never back, never past the
\* library, and by one event if it was not lapped.
LEMMA AdvanceStep ==
    ASSUME EQInv, EQAdvance
    PROVE  /\ ueq'.sequence \in Nat /\ ueq'.inuse = ueq.inuse
           /\ ueq.sequence < ueq'.sequence /\ ueq'.sequence <= eq.sequence
           /\ eq.inuse /\ ~lapped => ueq'.sequence = ueq.sequence + 1
  <1> DEFINE b == base[Slot(ueq.sequence)]
  <1>1. b \in Nat /\ b < eq.sequence
    BY SlotRead
  <1>2. ueq' = [ueq EXCEPT !.sequence = b + 1] /\ get.at = "advance"
    BY DEF EQAdvance
  <1>3. ueq'.sequence = b + 1 /\ ueq'.inuse = ueq.inuse
    BY <1>2, Zenon DEF EQInv, EQTypeOK
  <1>4. ueq.sequence <= b
    BY <1>2 DEF EQInv, Ordered
  <1>5. ASSUME eq.inuse, ~lapped PROVE b = ueq.sequence
    <2>1. ueq.sequence \in ueq.sequence .. eq.sequence - 1
      BY <1>1, <1>4 DEF EQInv, EQTypeOK
    <2> QED BY <1>5, <2>1 DEF EQInv, NothingDropped
  <1> QED BY <1>1, <1>3, <1>4, <1>5 DEF EQInv, EQTypeOK

\* The events behind the reader are all there, and its result stays what it was.
LEMMA AdvanceEQInv == EQInv /\ EQAdvance => EQInv'
  <1> SUFFICES ASSUME EQInv, EQAdvance PROVE EQInv'
    OBVIOUS
  <1>1. eq' = eq /\ base' = base /\ lapped' = lapped
    BY DEF EQAdvance
  <1>2. /\ get'.asked = get.asked /\ get'.first = get.first /\ get'.second = get.second
        /\ get'.at = "idle" /\ get'.rc = get.rc
    BY DEF EQAdvance, EQInv, EQTypeOK
  <1>3. get' \in [at : {"idle", "first", "second", "compare", "advance"}, asked : Nat,
                  first : Nat, second : Nat, rc : Results]
    BY DEF EQAdvance, EQInv, EQTypeOK
  <1>4. ueq' \in [inuse : BOOLEAN, sequence : Nat \ {0}]
    <2>1. base[Slot(ueq.sequence)] + 1 \in Nat \ {0}
      BY SlotRead
    <2> QED BY <2>1, Zenon DEF EQAdvance, EQInv, EQTypeOK
  <1>5. EQTypeOK'
    BY <1>1, <1>3, <1>4, Zenon DEF EQInv, EQTypeOK
  <1>6. Ordered' /\ OkIsWhole'
    BY <1>2 DEF Ordered, OkIsWhole, EQInv
  <1>7. Close' /\ NeverAhead' /\ Numbered'
    BY <1>1, AdvanceStep DEF Close, NeverAhead, Numbered, EQInv, EQTypeOK
  <1>8. NothingDropped'
    BY <1>1, <1>2, AdvanceStep DEF NothingDropped, Slot, EQInv, EQTypeOK
  <1> QED BY <1>5, <1>6, <1>7, <1>8 DEF EQInv

-----------------------------------------------------------------------------
\* Every step of the queue and of its reader keeps the invariant.
LEMMA NextEQInv == EQInv /\ [EQNext]_eqVars => EQInv'
  <1> SUFFICES ASSUME EQInv, [EQNext]_eqVars PROVE EQInv'
    OBVIOUS
  <1>1. ASSUME NEW n \in Sizes, EQAlloc(n) PROVE EQInv'
    BY <1>1, AllocEQInv
  <1>2. CASE EQFree \/ EQWrite \/ EQWriteFails
    BY <1>2, FreeEQInv, WriteEQInv, WriteFailsEQInv
  <1>3. CASE EQStep
    BY <1>3, GetEQInv, CopyEQInv, CompareEQInv, AdvanceEQInv DEF EQStep
  <1>4. CASE UNCHANGED eqVars
    BY <1>4, Zenon DEF eqVars, EQInv, EQTypeOK, Ordered, Numbered, Close, OkIsWhole,
                       NeverAhead, NothingDropped, Slot
  <1> QED BY <1>1, <1>2, <1>3, <1>4 DEF EQNext

\* Only PtlEQGet moves the reader while the queue is in use, and only forward; it
\* skips no event unless it was lapped.
LEMMA StepForward == EQInv /\ [EQNext]_eqVars => [Forward]_eqVars
  <1> SUFFICES ASSUME EQInv, [EQNext]_eqVars PROVE [Forward]_eqVars
    OBVIOUS
  <1>1. ueq.sequence \in Nat
    BY DEF EQInv, EQTypeOK
  <1>2. ASSUME NEW n \in Sizes, EQAlloc(n) PROVE Forward
    BY <1>2 DEF EQAlloc, Forward
  <1>3. CASE EQFree
    <2>1. eq'.inuse = FALSE
      BY <1>3 DEF EQFree, EQInv, EQTypeOK
    <2> QED BY <2>1 DEF Forward
  <1>4. CASE EQWrite \/ EQWriteFails \/ EQGet \/ EQCopy \/ EQCompare
    <2>1. ueq' = ueq
      BY <1>4 DEF EQWrite, EQWriteFails, EQGet, EQCopy, EQCompare
    <2> QED BY <1>1, <2>1 DEF Forward
  <1>5. CASE EQAdvance
    BY <1>1, <1>5, AdvanceStep DEF Forward
  <1>6. CASE UNCHANGED eqVars
    BY <1>6
  <1> QED BY <1>2, <1>3, <1>4, <1>5, <1>6 DEF EQNext, EQStep

\* For a queue of any length: what PtlEQGet returns with PTL_OK is one event and
\* the right one, it never passes the library, and it gets every event unless it
\* is lapped.
THEOREM EventsWhole == EQSpec => [](EQTypeOK /\ OkIsWhole /\ NeverAhead /\ NothingDropped)
  <1>1. EQInv => EQTypeOK /\ OkIsWhole /\ NeverAhead /\ NothingDropped
    BY DEF EQInv
  <1> QED BY <1>1, InitEQInv, NextEQInv, PTL DEF EQSpec

\* For a queue of any length PtlEQGet only goes forward, by one event unless it
\* is lapped.
THEOREM EventsForward == EQSpec => AlwaysForward
  <1> QED BY InitEQInv, NextEQInv, StepForward, PTL DEF EQSpec, AlwaysForward

-----------------------------------------------------------------------------
(* The library implements the queue.                                       *)

\* The scenario is chosen once.
LEMMA SceneStays ==
    ASSUME Next
    PROVE  scene' = scene
  <1>1. CASE Process
    BY <1>1, Zenon
       DEF Process, Refused, PtlEQAlloc, PtlEQFree, PtlEQGet, PtlMEAttach, PtlMEInsert, NewME,
           PtlMEUnlink, PtlMDAttach, PtlMDInsert, PtlMDBind, NewMD, PtlMDUnlink, PtlMDUpdate,
           PtlPut, PtlGet, Send
  <1>2. CASE lib_parse
    BY <1>2, Zenon DEF lib_parse, DropRequest, parse_put, parse_get, parse_answer
  <1>3. CASE lib_fini \/ \E m \in Msgs : lib_finalize(m) \/ lib_finalize_Fails(m)
    BY <1>3, Zenon DEF lib_fini, lib_finalize, lib_finalize_Fails
  <1> QED BY <1>1, <1>2, <1>3 DEF Next

\* A call of the process makes a step of the queue or leaves it alone.
LEMMA ProcessQueue ==
    ASSUME scene \in Scenarios, Process
    PROVE  [EQNext]_eqVars
  <1>1. CASE PtlEQAlloc
    <2>1. Call.count \in Sizes /\ EQAlloc(Call.count)
      BY <1>1, QueuesAssumption DEF PtlEQAlloc, Calls, Running, Call
    <2> QED BY <2>1, Zenon DEF EQNext
  <1>2. CASE PtlEQFree \/ PtlEQGet
    BY <1>2, Zenon DEF PtlEQFree, PtlEQGet, EQNext, EQStep
  <1>3. CASE Refused \/ PtlMEAttach \/ PtlMEInsert \/ PtlMEUnlink
    BY <1>3, Zenon DEF Refused, PtlMEAttach, PtlMEInsert, NewME, PtlMEUnlink
  <1>4. CASE PtlMDAttach \/ PtlMDInsert \/ PtlMDBind \/ PtlMDUnlink \/ PtlMDUpdate
    BY <1>4, Zenon DEF PtlMDAttach, PtlMDInsert, PtlMDBind, NewMD, PtlMDUnlink, PtlMDUpdate
  <1>5. CASE PtlPut \/ PtlGet
    BY <1>5, Zenon DEF PtlPut, PtlGet, Send
  <1> QED BY <1>1, <1>2, <1>3, <1>4, <1>5, Zenon DEF Process

\* An interrupt writes one event or uses up one number, or leaves the queue alone.
LEMMA InterruptQueue ==
    ASSUME lib_parse \/ lib_fini \/ \E m \in Msgs : lib_finalize(m) \/ lib_finalize_Fails(m)
    PROVE  [EQNext]_eqVars
  <1>1. CASE lib_parse \/ lib_fini
    BY <1>1, Zenon DEF lib_parse, lib_fini, DropRequest, parse_put, parse_get, parse_answer
  <1>2. ASSUME NEW m \in Msgs, lib_finalize(m) PROVE [EQNext]_eqVars
    BY <1>2, Zenon DEF lib_finalize, EQNext
  <1>3. ASSUME NEW m \in Msgs, lib_finalize_Fails(m) PROVE [EQNext]_eqVars
    BY <1>3, Zenon DEF lib_finalize_Fails, EQNext
  <1> QED BY <1>1, <1>2, <1>3

\* The queue inside the library, with its process and the NAL, behaves as the
\* queue alone: lib_finalize() and the calls of the process are its only steps.
THEOREM ImplementsQueue == Spec => EQSpec
  <1>1. Init => EQInit /\ scene \in Scenarios
    BY DEF Init
  <1>2. scene \in Scenarios /\ [Next]_vars => (scene \in Scenarios)'
    <2>1. CASE UNCHANGED vars
      BY <2>1 DEF vars
    <2> QED BY <2>1, SceneStays
  <1>3. scene \in Scenarios /\ [Next]_vars => [EQNext]_eqVars
    <2>1. CASE UNCHANGED vars
      BY <2>1 DEF vars
    <2> QED BY <2>1, ProcessQueue, InterruptQueue DEF Next
  <1> QED BY <1>1, <1>2, <1>3, PTL DEF Spec, EQSpec

\* In the library, for every program and every length of the queue: an event that
\* PtlEQGet returns with PTL_OK is one event and the right one, and a process that
\* is not lapped gets every event lib_finalize() writes.
THEOREM LibEventsWhole == Spec => [](OkIsWhole /\ NeverAhead /\ NothingDropped)
  BY ImplementsQueue, EventsWhole, PTL

\* In the library PtlEQGet only goes forward, by one event unless it is lapped.
THEOREM LibEventsForward == Spec => AlwaysForward
  BY ImplementsQueue, EventsForward, PTL
=============================================================================
