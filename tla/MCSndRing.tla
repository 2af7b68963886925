----------------------------- MODULE MCSndRing ------------------------------
(* Instances of SndRing for TLC. *)
EXTENDS SndRing

Scene(packets, nioctls, nloads, late) ==
    [packets |-> packets, ioctls |-> nioctls, loads |-> nloads, sendWhileLoading |-> late]

\* Senders that run with interrupts off and stop for a load; a route ioctl; and
\* senders that do not stop.
Cases == {Scene(6, 0, 1, FALSE), Scene(3, 1, 0, FALSE), Scene(3, 0, 1, TRUE)}
=============================================================================
