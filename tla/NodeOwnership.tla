--------------------------- MODULE NodeOwnership ---------------------------
(***************************************************************************)
(* What the node allocation promises the jobs, without saying how: a job   *)
(* number is handed out once, with a set of nodes; a node of that set can  *)
(* be taken by the job once, when it hosts nothing; and a node can be      *)
(* given back at any time.  Job numbers are never shared and no node       *)
(* serves two jobs, or a job it was not granted to.                        *)
(***************************************************************************)
CONSTANTS Nodes, Jobs, None

VARIABLES
  given,   \* the grants: [job, nodes]
  taken,   \* pairs <<node, job>>: the job has taken the node
  host     \* the job on each node

ownership == <<given, taken, host>>

OwnInit ==
  /\ given = {}
  /\ taken = {}
  /\ host = [n \in Nodes |-> None]

\* A new job number is handed out with a set of nodes.
Give(j, L) ==
  /\ \A g \in given : g.job # j
  /\ given' = given \cup {[job |-> j, nodes |-> L]}
  /\ UNCHANGED <<taken, host>>

\* A job takes one of its nodes.
Take(n, g) ==
  /\ g \in given /\ n \in g.nodes
  /\ host[n] = None /\ <<n, g.job>> \notin taken
  /\ host' = [host EXCEPT ![n] = g.job]
  /\ taken' = taken \cup {<<n, g.job>>}
  /\ UNCHANGED given

\* A node is given back.
GiveBack(n) ==
  /\ host[n] # None
  /\ host' = [host EXCEPT ![n] = None]
  /\ UNCHANGED <<given, taken>>

OwnNext ==
  \/ \E j \in Jobs, L \in SUBSET Nodes : Give(j, L)
  \/ \E n \in Nodes : \E g \in given : Take(n, g)
  \/ \E n \in Nodes : GiveBack(n)

OwnSpec == OwnInit /\ [][OwnNext]_ownership
=============================================================================
