---------------------------- MODULE MCNodeAlloc ----------------------------
(***************************************************************************)
(* Instances of NodeAlloc for TLC: two nodes, up to four yods.            *)
(***************************************************************************)
EXTENDS NodeAllocInvariant, TLC

CONSTANTS n1, n2, y1, y2, y3, y4, s1, s2, u1, u2

Ask(k, s, limit, u) == [nnodes |-> k, nodes |-> Node, any |-> TRUE, session |-> s,
                        nnodes_limit |-> limit, euid |-> u]

\* A job for both nodes and one for a single node, and two jobs of another
\* session, which is limited to one node.
Jobs == y1 :> Ask(2, s1, 2, u1) @@ y2 :> Ask(1, s2, 1, u2) @@ y3 :> Ask(1, s2, 1, u2)
          @@ y4 :> Ask(1, s1, 2, u1)

\* What may go wrong, each once or twice at most.
NoFaults == [boot |-> 0, exit |-> 0, crash |-> 0, sick |-> 0, nosend |-> 0, tmout |-> 0, ping |-> 0,
             operator |-> 0, restart |-> 0, giveup |-> 0, initfail |-> 0, initrace |-> 0]
Late == [NoFaults EXCEPT !.tmout = 1, !.giveup = 1]
Losses == [NoFaults EXCEPT !.boot = 2, !.crash = 1, !.nosend = 1, !.initrace = 1, !.tmout = 1]
Operators == [NoFaults EXCEPT !.operator = 1, !.exit = 1]
Exits == [NoFaults EXCEPT !.boot = 1, !.exit = 1]
Pings == [NoFaults EXCEPT !.ping = 1, !.sick = 1]
Early == [NoFaults EXCEPT !.initfail = 1, !.giveup = 1]
Crash == [NoFaults EXCEPT !.crash = 1]
Restart == [NoFaults EXCEPT !.restart = 1]

Case(up, yods, b) == [up |-> up, yods |-> yods, budget |-> b]

SafeCases == {Case({n1, n2}, {y1, y2}, Late), Case({n1}, {y1}, Losses),
              Case({n1}, {y2, y4}, Operators), Case({n1}, {y2, y4}, Exits),
              Case({n1, n2}, {y1}, Pings), Case({n1, n2}, {y2, y3}, NoFaults)}
LiveCases == {Case({n1, n2}, {y1, y2}, Early), Case({n1, n2}, {y1}, Crash),
              Case({n1, n2}, {y1}, Restart)}
=============================================================================
