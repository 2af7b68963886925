----------------------------- MODULE MCRcvRing ------------------------------
(* Instances of RcvRing for TLC.  Bytes: a header of 8, a page of 24, a    *)
(* buffer of 40.                                                           *)
EXTENDS RcvRing

Hdr(type, len) == [len |-> <<len, len>>, type |-> <<type, type, type>>,
                   src |-> <<0, 0, 0>>, msgID |-> <<4, 4, 4>>]
Whole(type, len) ==
    [wanted |-> TRUE, len |-> len, size |-> len, crc |-> TRUE, hdr |-> Hdr(type, len)]
\* A packet as it should be: a class 2 and a class 1 packet, which fill a
\* different number of words.
Control == Whole(CTS, 8)
Data == Whole(DATA, 24)
\* A class 1 packet in the same number of words as Data.
Data21 == Whole(DATA, 21)
BadData == [Data EXCEPT !.crc = FALSE]
LostEnd == [Data EXCEPT !.crc = FALSE, !.size = 21]
Truncated == [Data EXCEPT !.crc = FALSE, !.size = 8]
\* Damage the CRC does not notice.
FixedHdr == [Data EXCEPT !.hdr.type = <<DATA, DATA, CTS>>]
FixedClass == [Data EXCEPT !.hdr.type = <<DATA, CTS, CTS>>]
\* The end of the packet got lost in a switch and the next one follows on.
Merged == [Data EXCEPT !.crc = FALSE, !.size = 32]
\* Not for the packet module.
LongMapping == [Control EXCEPT !.wanted = FALSE, !.size = 56]

\* Each kind of packet among good short ones, three in a ring of two pages; two
\* lengths in the same number of words, of whole packets and of one that lost its
\* end; and two turns of the ring with a new MCP.
Kinds == {Data, BadData, Truncated, FixedHdr, FixedClass, Merged, LongMapping}
Cases == {[shapes |-> {Control, k}, arrivals |-> 3, loads |-> 0] : k \in Kinds}
           \cup {[shapes |-> {Data21, d}, arrivals |-> 3, loads |-> 0] : d \in {Data, LostEnd}}
           \cup {[shapes |-> {Control}, arrivals |-> 4, loads |-> 1]}
=============================================================================
