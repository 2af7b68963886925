------------------------------ MODULE MCRtsCts ------------------------------
(* Small instances of RtsCts for TLC.                                      *)
EXTENDS RtsCts, TLC

CONSTANTS a, b

TwoNodes == {a, b}

\* From a to b: messages of 1, 5 and 1 units (of the second the target takes 4)
\* and one of 3.  From b to a: one of 3.
Msgs  == 1 .. 5
Srcs  == [m \in Msgs |-> IF m = 5 THEN b ELSE a]
Dsts  == [m \in Msgs |-> IF m = 5 THEN a ELSE b]
Sizes == 1 :> 1 @@ 2 :> 5 @@ 3 :> 1 @@ 4 :> 3 @@ 5 :> 3
Mlens == [Sizes EXCEPT ![2] = 4]

Case(msgs, kinds, faults) == [msgs |-> msgs, kinds |-> kinds, faults |-> faults]

\* Lost packets, timers that fire too early and an MCP that refuses; processes
\* that exit; everything that may happen to a node; traffic both ways.
SafeCases == {Case({1, 2, 3}, {"loss", "early", "xmit"}, 2),
              Case({2, 4}, {"loss", "exit", "copy", "junk", "parse"}, 2),
              Case({2, 3}, {"loss", "xmit", "page", "nomem", "cut", "reboot", "exit"}, 2),
              Case({2, 5}, {"loss", "parse"}, 2)}
LiveCases == {Case({1, 2, 3}, {"loss", "xmit", "parse", "page"}, 3),
              Case({2, 5}, {"loss"}, 2)}
\* Two nodes that begin to talk to each other.
Crossing == {Case({1, 3, 5}, {"loss"}, 1)}
=============================================================================
