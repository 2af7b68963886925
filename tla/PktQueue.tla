------------------------------ MODULE PktQueue ------------------------------
(***************************************************************************)
(* What the packet module promises its callers on the send side: a queue.  *)
(* A packet that was accepted leaves after those accepted before it, once, *)
(* with its own bytes and to its own destination.  Loading an MCP empties  *)
(* the queue.                                                              *)
(***************************************************************************)
EXTENDS Naturals, Sequences

CONSTANT Packets

VARIABLES queue, out

Init == queue = <<>> /\ out = <<>>

Submit == \E p \in Packets : queue' = Append(queue, p) /\ UNCHANGED out

Transmit ==
    /\ queue # <<>>
    /\ out' = Append(out, [dest |-> Head(queue), data |-> Head(queue)])
    /\ queue' = Tail(queue)

Reset == queue' = <<>> /\ out' = <<>>

Spec == Init /\ [][Submit \/ Transmit \/ Reset]_<<queue, out>>
=============================================================================
