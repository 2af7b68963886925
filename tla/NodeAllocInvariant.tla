------------------------ MODULE NodeAllocInvariant ------------------------
(***************************************************************************)
(* The inductive invariant behind the safety properties of NodeAlloc, for  *)
(* a bebopd that is not restarted.                                         *)
(*                                                                         *)
(* The properties speak of nodes and grants; what keeps them true is       *)
(* spread over the messages on their way.  A job number is fresh when it   *)
(* is handed out (NumberInv, QueueInv: each yod is served once, so numbers *)
(* do not wrap); yod then sends one INIT_LOAD per node, which a node can   *)
(* accept once (MsgInv, YodInv); so a node hosts a job only through a      *)
(* grant (HostInv), and the number alone tells the jobs apart.             *)
(***************************************************************************)
EXTENDS NodeAlloc

PctFields == {"status", "pending_jid", "pending_sid", "clock", "job_id", "session_id", "yod_id",
              "phase", "reserved", "acked"}

\* A PCT is BUSY exactly while it hosts a job, and a BUSY PCT has no hold.
PctOK(p) ==
  /\ DOMAIN p = PctFields
  /\ p.status = "BUSY" <=> p.phase # "idle"
  /\ p.status = "BUSY" => p.clock = "off"

PctInv == pct = [n \in Node |-> pct[n]] /\ \A n \in Node : PctOK(pct[n])

YodRec == [pc : {"start", "asked", "granted", "init", "load", "run", "over"}, job : JobIDs,
           list : SUBSET Node, pulled : SUBSET Node, ready : SUBSET Node, done : SUBSET Node]
BebopdRec == [pc : {"idle", "solicit"}, prevJobID : Nat, jobID : JobIDs, yod : Yod \cup {INVAL},
              list : SUBSET Node, wait_for : SUBSET Node]
Grant == [job : Nat, yod : Yod, nodes : SUBSET Node]
YodMsg == [type : {"INIT_LOAD", "GO_MAIN", "ABORT_RESET"}, yod : Yod, job : Nat, node : Node]

ShapeInv ==
  /\ yod \in [Yod -> YodRec] /\ bebopd \in BebopdRec /\ req \in Seq(Yod)
  /\ grants \subseteq Grant /\ loads \subseteq Node \X Nat /\ fromYod \subseteq YodMsg

\* A yod that was answered has a grant; before that it knows of no node.  Only
\* after it sent INIT_LOAD does a node host its job.
YodInv == \A y \in Yod :
  /\ yod[y].pc \in {"start", "asked"} => yod[y].job = INVAL
  /\ yod[y].pc \in {"granted", "init", "load", "run"} => yod[y].job # INVAL
  /\ yod[y].job = INVAL => yod[y].pulled = {} /\ yod[y].ready = {}
  /\ yod[y].job # INVAL => [job |-> yod[y].job, yod |-> y, nodes |-> yod[y].list] \in grants
  /\ yod[y].pc = "granted" => \A n \in Node : <<n, yod[y].job>> \notin loads
  /\ yod[y].ready \subseteq yod[y].pulled
  /\ \A n \in yod[y].pulled : <<n, yod[y].job>> \in loads

\* A message on its way names its yod's job and one of its nodes; an INIT_LOAD
\* is for a node that has not accepted this job, a GO_MAIN for a ready job.
MsgInv == \A m \in fromYod :
  /\ m.job = yod[m.yod].job /\ m.node \in yod[m.yod].list
  /\ yod[m.yod].pc # "granted"
  /\ m.type = "INIT_LOAD" => <<m.node, m.job>> \notin loads
  /\ m.type = "GO_MAIN" => yod[m.yod].ready = yod[m.yod].list

\* A node hosts the job of a yod that was granted the node.
HostInv == \A n \in Node : pct[n].phase # "idle" =>
  /\ pct[n].yod_id \in Yod /\ pct[n].job_id \in Nat /\ pct[n].job_id = yod[pct[n].yod_id].job
  /\ n \in yod[pct[n].yod_id].list /\ yod[pct[n].yod_id].pc # "granted"
  /\ pct[n].phase \in {"running", "exiting"} => yod[pct[n].yod_id].ready = yod[pct[n].yod_id].list

Served == {g.yod : g \in grants}

\* No number above prevJobID has been used; the next one is not above the last.
NumberInv ==
  /\ \A g \in grants : FIRSTJOBID <= g.job /\ g.job <= bebopd.prevJobID
  /\ \A l \in loads : l[2] <= bebopd.prevJobID
  /\ \A g, h \in grants : g.job = h.job => g = h
  /\ bebopd.prevJobID = FIRSTJOBID + Cardinality(Served)
  /\ bebopd.pc = "solicit" /\ bebopd.yod # INVAL => bebopd.jobID = bebopd.prevJobID + 1

\* Each yod is served at most once: it is in one place at a time.
QueueInv ==
  /\ \A i, j \in 1..Len(req) : req[i] = req[j] => i = j
  /\ \A i \in 1..Len(req) : /\ yod[req[i]].pc # "start" /\ req[i] \notin Served
                            /\ bebopd.pc = "solicit" => req[i] # bebopd.yod
  /\ bebopd.pc = "solicit" /\ bebopd.yod # INVAL =>
       yod[bebopd.yod].pc # "start" /\ bebopd.yod \notin Served
  /\ \A y \in Served : yod[y].pc # "start"

IInv == PctInv /\ ShapeInv /\ YodInv /\ MsgInv /\ HostInv /\ NumberInv /\ QueueInv
=============================================================================
