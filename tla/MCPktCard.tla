------------------------------ MODULE MCPktCard -----------------------------
(* Instances of PktCard for TLC: one kind of packet comes in (a CTS of 8   *)
(* bytes), sent by node 0.                                                 *)
EXTENDS PktCard

Control == [wanted |-> TRUE, len |-> 8, size |-> 8, crc |-> TRUE,
            hdr |-> [len |-> <<8, 8>>, type |-> <<2, 2, 2>>, src |-> <<0, 0, 0>>,
                     msgID |-> <<4, 4, 4>>]]
OneShape == {Control}
\* As many packets to send as there are pages, and one that comes in.
SomeTraffic == {[packets |-> 2, arrivals |-> 1]}
=============================================================================
