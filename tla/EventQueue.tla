----------------------------- MODULE EventQueue -----------------------------
(***************************************************************************)
(* One event queue of the Portals library: a ring of events in the memory  *)
(* of the process, which the library writes in interrupts (lib_finalize in *)
(* lib-p30/msg.c) and PtlEQGet in api-p30/eq.c reads without a lock.       *)
(*                                                                         *)
(* An event is written whole, as far as the process can see.  PtlEQGet is  *)
(* a sequence of reads between which any number of events may be written;  *)
(* an event is several words, so that its copy is two reads here.  Of an   *)
(* event only its sequence number is kept: it tells the events apart.      *)
(* The numbers are 32 bits wide in the code and do not wrap here.          *)
(***************************************************************************)
EXTENDS Integers

CONSTANT Sizes   \* lengths a process asks for in PtlEQAlloc

ASSUME SizesAssumption == Sizes \subseteq Nat \ {0}

VARIABLES
    eq,     \* the library's lib_eq_t: inuse, sequence, size
    base,   \* the slots: the number of the event in each, 0 for none
    ueq,    \* the API's ptl_eq_t: inuse, sequence
    get,    \* the call of PtlEQGet: the number it looks for, how far it is,
            \* the halves of the event it copied, and its result
    lapped  \* history: a number was used without an event, or an event was
            \* overwritten before PtlEQGet had done with it

eqVars == <<eq, base, ueq, get, lapped>>

Slot(n) == n % eq.size
NoQueue == [inuse |-> FALSE, sequence |-> 1, size |-> 1]
NoCall == [at |-> "idle", asked |-> 0, first |-> 0, second |-> 0, rc |-> "none"]

EQInit ==
    /\ eq = NoQueue /\ base = [i \in {0} |-> 0]
    /\ ueq = [inuse |-> FALSE, sequence |-> 1]
    /\ get = NoCall /\ lapped = FALSE

\* PtlEQAlloc clears the numbers of all slots before the library may know them.
EQAlloc(n) ==
    /\ ~eq.inuse /\ get.at = "idle"
    /\ eq' = [inuse |-> TRUE, sequence |-> 1, size |-> n]
    /\ base' = [i \in 0 .. n - 1 |-> 0]
    /\ ueq' = [inuse |-> TRUE, sequence |-> 1]
    /\ get' = NoCall /\ lapped' = FALSE

EQFree ==
    /\ eq.inuse /\ get.at = "idle"
    /\ eq' = [eq EXCEPT !.inuse = FALSE] /\ ueq' = [ueq EXCEPT !.inuse = FALSE]
    /\ UNCHANGED <<base, get, lapped>>

\* lib_finalize numbers an event and writes it over the oldest one.
EQWrite_Next ==
    /\ eq.inuse
    /\ base' = [base EXCEPT ![Slot(eq.sequence + 1)] = eq.sequence]
    /\ eq' = [eq EXCEPT !.sequence = @ + 1]
    /\ lapped' = (lapped \/ eq.sequence - ueq.sequence >= eq.size)
    /\ UNCHANGED <<ueq, get>>
EQWrite ==
    /\ eq.inuse
    /\ base' = [base EXCEPT ![Slot(eq.sequence)] = eq.sequence]
    /\ eq' = [eq EXCEPT !.sequence = @ + 1]
    /\ lapped' = (lapped \/ eq.sequence - ueq.sequence >= eq.size)
    /\ UNCHANGED <<ueq, get>>

\* cb_write fails: the number is used up.
EQWriteFails ==
    /\ eq.inuse
    /\ eq' = [eq EXCEPT !.sequence = @ + 1] /\ lapped' = TRUE
    /\ UNCHANGED <<base, ueq, get>>

-----------------------------------------------------------------------------
(* PtlEQGet.                                                               *)

EQGet_Always ==
    /\ ueq.inuse /\ get.at = "idle"
    /\ get' = [NoCall EXCEPT !.asked = ueq.sequence, !.at = "first"]
    /\ UNCHANGED <<eq, base, ueq, lapped>>
EQGet ==
    /\ ueq.inuse /\ get.at = "idle"
    /\ get' = [NoCall EXCEPT
                 !.asked = ueq.sequence,
                 !.at = IF ueq.sequence > base[Slot(ueq.sequence)] THEN "idle" ELSE "first",
                 !.rc = IF ueq.sequence > base[Slot(ueq.sequence)] THEN "PTL_EQ_EMPTY" ELSE "none"]
    /\ UNCHANGED <<eq, base, ueq, lapped>>

EQCopy ==
    /\ \/ get.at = "first"
          /\ get' = [get EXCEPT !.at = "second", !.first = base[Slot(ueq.sequence)]]
       \/ get.at = "second"
          /\ get' = [get EXCEPT !.at = "compare", !.second = base[Slot(ueq.sequence)]]
    /\ UNCHANGED <<eq, base, ueq, lapped>>

EQCompare_Trusting ==
    /\ get.at = "compare"
    /\ get' = [get EXCEPT !.at = "advance", !.rc = "PTL_OK"]
    /\ UNCHANGED <<eq, base, ueq, lapped>>
EQCompare ==
    /\ get.at = "compare"
    /\ get' = [get EXCEPT !.at = "advance",
                          !.rc = IF ueq.sequence # base[Slot(ueq.sequence)]
                                 THEN "PTL_EQ_DROPPED" ELSE "PTL_OK"]
    /\ UNCHANGED <<eq, base, ueq, lapped>>

EQAdvance ==
    /\ get.at = "advance"
    /\ ueq' = [ueq EXCEPT !.sequence = base[Slot(@)] + 1]
    /\ get' = [get EXCEPT !.at = "idle"]
    /\ UNCHANGED <<eq, base, lapped>>

EQStep == EQGet \/ EQCopy \/ EQCompare \/ EQAdvance

EQNext ==
    \/ \E n \in Sizes : EQAlloc(n)
    \/ EQFree \/ EQWrite \/ EQWriteFails \/ EQStep

EQSpec == EQInit /\ [][EQNext]_eqVars

-----------------------------------------------------------------------------
(* What the queue promises.                                                *)

Results == {"none", "PTL_OK", "PTL_EQ_DROPPED", "PTL_EQ_EMPTY"}

\* The types of the two views of the queue and of the call in progress.
EQTypeOK ==
    /\ eq \in [inuse : BOOLEAN, sequence : Nat \ {0}, size : Nat \ {0}]
    /\ base \in [0 .. eq.size - 1 -> Nat]
    /\ ueq \in [inuse : BOOLEAN, sequence : Nat \ {0}]
    /\ get \in [at : {"idle", "first", "second", "compare", "advance"}, asked : Nat,
                first : Nat, second : Nat, rc : Results]
    /\ lapped \in BOOLEAN

\* However many events the library writes while PtlEQGet copies one, an event
\* returned with PTL_OK is one event, not parts of two, and it is the one with
\* the number the API looked for.
OkIsWhole == get.rc = "PTL_OK" => get.first = get.asked /\ get.second = get.asked

\* The reader never gets ahead of the library, whatever it finds in the slot:
\* every number it has passed belongs to an event the library has numbered.
NeverAhead == ueq.sequence <= eq.sequence

\* A reader that is never lapped gets every event: as long as no slot was
\* overwritten too early and no write failed, each event not yet taken is in
\* its slot, and the result is never PTL_EQ_DROPPED.
NothingDropped ==
    eq.inuse /\ ~lapped =>
        /\ get.rc # "PTL_EQ_DROPPED"
        /\ \A n \in ueq.sequence .. eq.sequence - 1 : base[Slot(n)] = n

\* PtlEQGet never goes back to an event it has passed, and without a lap it
\* passes exactly one event at a time.
Forward ==
    eq.inuse /\ eq'.inuse =>
        /\ ueq'.sequence >= ueq.sequence
        /\ ~lapped /\ ueq' # ueq => ueq'.sequence = ueq.sequence + 1
AlwaysForward == [][Forward]_eqVars
=============================================================================
