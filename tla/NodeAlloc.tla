------------------------------ MODULE NodeAlloc ------------------------------
(***************************************************************************)
(* How a parallel job gets its compute nodes.  Three kinds of daemon take  *)
(* part:                                                                   *)
(*                                                                         *)
(*   - the PCT, one per compute node (compute/util/pct), owns the node: it *)
(*     is FREE, held for a job (ALLOCATED) or BUSY with one;               *)
(*   - bebopd (service/util/bebopd) keeps a table with the last status     *)
(*     every PCT reported, and picks nodes from it;                        *)
(*   - yod (service/util/yod), one per job, asks bebopd for nodes and then *)
(*     loads the program through the PCTs it was given.                    *)
(*                                                                         *)
(* The build modelled is the one of Makefile-common: RELIABLE and          *)
(* STRIPDOWN are defined.  In it a PCT that is asked for its status on     *)
(* behalf of a yod holds itself for that job, for PENDING_STATE_TIME_OUT   *)
(* seconds; nothing cancels the hold but yod's MSG_INIT_LOAD, the timeout  *)
(* or a reset.  Everything travels in messages: the table is always a      *)
(* picture of the past.                                                    *)
(*                                                                         *)
(* Messages between a PCT and bebopd are delivered in order; the messages  *)
(* of different senders overtake each other freely.                        *)
(***************************************************************************)
EXTENDS Integers, Sequences, FiniteSets

CONSTANTS
  Node,         \* compute nodes
  Yod,          \* yod processes; each makes one request
  Request,      \* [Yod -> [nnodes, nodes, any, session, nnodes_limit, euid]], as in yod_request
  FIRSTJOBID, LASTJOBID,
  health_check, \* the PCT's -H option, on unless turned off
  Scenarios,    \* [up, yods, budget]: the nodes whose PCT bebopd knows when we start to look,
                \* the yods that will ask, how often each fault or operator action may happen
  INVAL         \* no job, session or user

ASSUME JobIdAssumption ==
  FIRSTJOBID \in Nat /\ LASTJOBID \in Nat /\ INVAL \notin Nat /\ INVAL \notin Yod

\* The jobs of a behaviour do not use up the job numbers.
ASSUME EnoughNumbers == IsFiniteSet(Yod) /\ FIRSTJOBID + Cardinality(Yod) <= LASTJOBID

VARIABLES
  pct,      \* the State, pending clock and job phase of each PCT
  tab,      \* bebopd's larray: the last report of each PCT
  bebopd,   \* what bebopd is doing, and prevJobID
  yod,      \* the progress of each yod
  toPct,    \* messages from bebopd to each PCT, in order
  toBeb,    \* messages from each PCT to bebopd, in order
  fromYod,  \* messages from yods to PCTs
  req,      \* requests in bebopd's yod portal, in order
  budget,   \* faults and operator actions still allowed
  grants,   \* history: the node lists bebopd handed out
  loads     \* history: the pairs <<node, job>> a PCT accepted

vars == <<pct, tab, bebopd, yod, toPct, toBeb, fromYod, req, budget, grants, loads>>
history == <<grants, loads>>

(***************************************************************************)
(* State                                                                   *)
(***************************************************************************)
\* What a PCT puts in a message to bebopd (pct_ID).
Report(p) == [status |-> p.status, job_id |-> p.job_id, session_id |-> p.session_id,
              pending_sid |-> p.pending_sid, reserved |-> p.reserved]

\* A PCT that is not running ("OFF"), and one that has just started.
Off == [status |-> "OFF", pending_jid |-> INVAL, pending_sid |-> INVAL, clock |-> "off",
        job_id |-> INVAL, session_id |-> INVAL, yod_id |-> INVAL, phase |-> "idle",
        reserved |-> INVAL, acked |-> FALSE]
Booted == [Off EXCEPT !.status = "FREE"]
Registered == [Booted EXCEPT !.acked = TRUE]

NoEntry == [Report(Off) EXCEPT !.status = "NO_STATUS"]
DownMsg == [type |-> "UPDATE", state |-> [NoEntry EXCEPT !.status = "DOWN"]]
Idle(prev) == [pc |-> "idle", prevJobID |-> prev, jobID |-> INVAL, yod |-> INVAL,
               list |-> {}, wait_for |-> {}]

Start(s) ==
  /\ pct = [n \in Node |-> IF n \in s.up THEN Registered ELSE Off]
  /\ tab = [n \in Node |-> IF n \in s.up THEN Report(Registered) ELSE NoEntry]
  /\ bebopd = Idle(FIRSTJOBID)
  /\ yod = [y \in Yod |-> [pc |-> IF y \in s.yods THEN "start" ELSE "over", job |-> INVAL, list |-> {},
                           pulled |-> {}, ready |-> {}, done |-> {}]]
  /\ toPct = [n \in Node |-> <<>>]
  /\ toBeb = [n \in Node |-> <<>>]
  /\ fromYod = {}
  /\ req = <<>>
  /\ budget = s.budget
  /\ grants = {}
  /\ loads = {}

Init == \E s \in Scenarios : Start(s)

STATUS_TALKING(s) == s \notin {"NO_STATUS", "DOWN", "UNREPORTED"}

\* One of the bounded events happens.
Spend(f) == budget[f] > 0 /\ budget' = [budget EXCEPT ![f] = @ - 1]

(***************************************************************************)
(* The PCT                                                                 *)
(*                                                                         *)
(* The main loop first looks whether a hold has expired, then handles at   *)
(* most one message of yod, the application and one message of bebopd.     *)
(* The clock of a hold is "on", "late" when it expired after this          *)
(* iteration's test, "due" when the next thing the loop does is to see it. *)
(* It is "new" while bebopd still waits for the answers to the request     *)
(* that made the hold: that wait (solicitPctsTmout, 10 seconds) is shorter *)
(* than the hold (PENDING_STATE_TIME_OUT, 30 seconds).                     *)
(***************************************************************************)
\* The PCT is in the body of its loop.  Inside initialize_pct_group, and
\* while it reports the end of a process, it handles no message.
InLoop(n) ==
  /\ pct[n].status # "OFF"
  /\ pct[n].clock # "due"
  /\ pct[n].phase \notin {"group", "exiting"}

stop_pending_for(p) == [p EXCEPT !.pending_jid = INVAL, !.pending_sid = INVAL, !.clock = "off"]
start_pending_for(p, j, s, c) == [p EXCEPT !.pending_jid = j, !.pending_sid = s, !.clock = c]

\* reset_pct: the job is dropped and the node is FREE.  A hold and its clock
\* stay as they are.
reset_pct(p) == [p EXCEPT !.status = "FREE", !.job_id = INVAL, !.session_id = INVAL,
                          !.yod_id = INVAL, !.phase = "idle"]

SetAndReport(n, p, k) ==
  /\ pct' = [pct EXCEPT ![n] = p]
  /\ toBeb' = [toBeb EXCEPT ![n] = @ \o [i \in 1..k |-> [type |-> "UPDATE", state |-> Report(p)]]]

\* The process of PCT n is gone, with every message that waited for it.
Gone(n) ==
  /\ pct' = [pct EXCEPT ![n] = Off]
  /\ toPct' = [toPct EXCEPT ![n] = <<>>]
  /\ fromYod' = {m \in fromYod : m.node # n}

\* A PCT starts on node n.
PctBoot(n) ==
  /\ pct[n].status = "OFF" /\ Spend("boot")
  /\ pct' = [pct EXCEPT ![n] = Booted]
  /\ UNCHANGED <<tab, bebopd, yod, toPct, toBeb, fromYod, req, history>>

\* Until bebopd has sent something, the PCT announces itself again and again.
\* (BEBOPD_INTERVAL is long: no announcement or answer is on its way.)
PctInitialMsg(n) ==
  /\ InLoop(n) /\ ~pct[n].acked /\ toPct[n] = <<>>
  /\ \A i \in DOMAIN toBeb[n] : toBeb[n][i].type # "INITIAL"
  /\ toBeb' = [toBeb EXCEPT ![n] = Append(@, [type |-> "INITIAL", state |-> Report(pct[n])])]
  /\ UNCHANGED <<pct, tab, bebopd, yod, toPct, fromYod, req, budget, history>>

\* PENDING_STATE_TIME_OUT seconds have passed since the node was held.
ClockExpires(n) ==
  /\ pct[n].clock = "on"
  /\ \E c \in {"late", "due"} : pct' = [pct EXCEPT ![n].clock = c]
  /\ UNCHANGED <<tab, bebopd, yod, toPct, toBeb, fromYod, req, budget, history>>

\* An iteration without a message of bebopd ends.
NextIteration(n) ==
  /\ InLoop(n) /\ pct[n].clock = "late"
  /\ pct' = [pct EXCEPT ![n].clock = "due"]
  /\ UNCHANGED <<tab, bebopd, yod, toPct, toBeb, fromYod, req, budget, history>>

\* The test at the top of the loop finds the hold expired.
PendingTimeout(n) ==
  /\ pct[n].clock = "due"
  /\ SetAndReport(n, [stop_pending_for(pct[n]) EXCEPT !.status = "FREE"], 1)
  /\ UNCHANGED <<tab, bebopd, yod, toPct, fromYod, req, budget, history>>

\* MSG_INIT_LOAD is ignored unless the node is held for that very job.
Expected_Anyone(p, m) == TRUE
Expected(p, m) == m.job = p.pending_jid /\ p.status = "ALLOCATED"

\* Otherwise the PCT is BUSY and pulls the load data from yod; when that fails
\* it resets itself, goes on, and resets itself a second time because there is
\* no load data.
InitLoad(n, m) ==
  LET expected == Expected(pct[n], m)
      busy == [stop_pending_for(pct[n]) EXCEPT !.status = "BUSY", !.job_id = m.job,
                  !.session_id = Request[m.yod].session, !.yod_id = m.yod, !.phase = "group"]
  IN
  /\ InLoop(n) /\ m \in fromYod /\ m.node = n /\ m.type = "INIT_LOAD"
  /\ fromYod' = fromYod \ {m}
  /\ \/ /\ ~expected
        /\ UNCHANGED <<pct, toBeb, yod, loads>>
     \/ /\ expected /\ yod[m.yod].pc = "init"
        /\ pct' = [pct EXCEPT ![n] = busy]
        /\ yod' = [yod EXCEPT ![m.yod].pulled = @ \cup {n}]
        /\ loads' = loads \cup {<<n, m.job>>}
        /\ UNCHANGED toBeb
     \/ /\ expected /\ yod[m.yod].pc # "init"
        /\ SetAndReport(n, reset_pct(busy), 2)
        /\ UNCHANGED <<yod, loads>>
  /\ UNCHANGED <<tab, bebopd, toPct, req, budget, grants>>

\* The PCT of rank 0 in the job of yod y.
Root(y) == CHOOSE r \in yod[y].list : TRUE

\* initialize_pct_group succeeds once every node of the job takes part.  The
\* root PCT then tells yod to go on; if yod is gone that send may fail, which
\* is fatal to the PCT.  Every PCT goes on to wait for the program and, in the
\* end, reports to yod that its process is ready.
GroupOk(n) ==
  LET y == pct[n].yod_id
      alive == yod[y].pc \in {"init", "load"}
  IN
  /\ pct[n].phase = "group" /\ yod[y].pulled = yod[y].list
  /\ \/ /\ pct' = [pct EXCEPT ![n].phase = "loading"]
        /\ yod' = [yod EXCEPT ![y].ready = IF alive THEN @ \cup {n} ELSE @]
        /\ UNCHANGED <<toPct, toBeb, fromYod>>
     \/ /\ n = Root(y) /\ ~alive
        /\ Gone(n)
        /\ toBeb' = [toBeb EXCEPT ![n] = Append(@, DownMsg)]
        /\ UNCHANGED yod
  /\ UNCHANGED <<tab, bebopd, req, budget, history>>

\* The group does not form in time.
GroupFail(n) ==
  /\ pct[n].phase = "group"
  /\ SetAndReport(n, reset_pct(pct[n]), 1)
  /\ UNCHANGED <<tab, bebopd, yod, toPct, fromYod, req, budget, history>>

\* Every message of yod but MSG_INIT_LOAD is ignored when it names another job
\* than the node's (YOD_CONTROL_MSG_START).
ForThisJob_Any(p, m) == p.phase # "idle"
ForThisJob(p, m) == p.phase # "idle" /\ p.job_id = m.job

\* The remaining load messages, up to MSG_GO_MAIN, in one.  It goes to the root
\* PCT, which passes it on to the others of its group (the tree of
\* fanout_control_message is flat here) and lets the process run.  When a send
\* fails, which it may if that PCT is gone, the PCT resets itself instead.
GoMain(n, m) ==
  LET y == pct[n].yod_id
      others == IF n = Root(y) THEN yod[y].list \ {n} ELSE {}
      up == {k \in others : pct[k].status # "OFF"}
      Pass(S) == (fromYod \ {m}) \cup {[m EXCEPT !.node = k] : k \in S}
  IN
  /\ InLoop(n) /\ m \in fromYod /\ m.node = n /\ m.type = "GO_MAIN"
  /\ \/ /\ ~ForThisJob(pct[n], m)
        /\ fromYod' = fromYod \ {m}
        /\ UNCHANGED <<pct, toBeb>>
     \/ /\ ForThisJob(pct[n], m)
        /\ fromYod' = Pass(up)
        /\ pct' = [pct EXCEPT ![n].phase = "running"]
        /\ UNCHANGED toBeb
     \/ /\ ForThisJob(pct[n], m) /\ up # others
        /\ \E S \in SUBSET up : fromYod' = Pass(S)
        /\ SetAndReport(n, reset_pct(pct[n]), 1)
  /\ UNCHANGED <<tab, bebopd, yod, toPct, req, budget, history>>

\* MSG_ABORT_RESET.
AbortReset(n, m) ==
  /\ InLoop(n) /\ m \in fromYod /\ m.node = n /\ m.type = "ABORT_RESET"
  /\ fromYod' = fromYod \ {m}
  /\ IF ForThisJob(pct[n], m)
     THEN SetAndReport(n, reset_pct(pct[n]), 1)
     ELSE UNCHANGED <<pct, toBeb>>
  /\ UNCHANGED <<tab, bebopd, yod, toPct, req, budget, history>>

\* The process on node n ends.  The PCT first reports it to yod ...
ReportDone(n) ==
  /\ InLoop(n) /\ pct[n].phase = "running"
  /\ pct' = [pct EXCEPT ![n].phase = "exiting"]
  /\ yod' = [yod EXCEPT ![pct[n].yod_id].done = @ \cup {n}]
  /\ UNCHANGED <<tab, bebopd, toPct, toBeb, fromYod, req, budget, history>>

\* ... and then resets itself, which tells bebopd.
ExitReset(n) ==
  /\ pct[n].phase = "exiting"
  /\ SetAndReport(n, reset_pct(pct[n]), 1)
  /\ UNCHANGED <<tab, bebopd, yod, toPct, fromYod, req, budget, history>>

\* The PCT meets a fatal error and exits; cleanup_pct tells bebopd.
PctExit(n) ==
  /\ InLoop(n) /\ Spend("exit")
  /\ Gone(n)
  /\ toBeb' = [toBeb EXCEPT ![n] = Append(@, DownMsg)]
  /\ UNCHANGED <<tab, bebopd, yod, req, history>>

\* The node crashes; nobody is told.
PctCrash(n) ==
  /\ pct[n].status # "OFF" /\ Spend("crash")
  /\ Gone(n)
  /\ UNCHANGED <<tab, bebopd, yod, toBeb, req, history>>

\* The next message of bebopd at PCT n is m; handling it ends the iteration,
\* and whatever it is it counts as bebopd's acknowledgement.
FromBebopd(n, m) ==
  /\ InLoop(n) /\ toPct[n] # <<>> /\ Head(toPct[n]) = m
  /\ toPct' = [toPct EXCEPT ![n] = Tail(@)]

EndIteration(p) == [p EXCEPT !.acked = TRUE, !.clock = IF @ = "late" THEN "due" ELSE @]

PctGotcha(n) ==
  /\ FromBebopd(n, [type |-> "GOTCHA"])
  /\ pct' = [pct EXCEPT ![n] = EndIteration(@)]
  /\ UNCHANGED <<tab, bebopd, yod, toBeb, fromYod, req, budget, history>>

\* pct_pending forgets a hold that has expired.
pct_pending(p) == IF p.clock = "late" THEN stop_pending_for(p) ELSE p

\* The host health check, made unless the node is BUSY or held, finds the
\* host sick or well.
HealthCheck(p, sick) ==
  LET q == pct_pending(p) IN
  IF ~health_check \/ p.status = "BUSY" THEN p
  ELSE IF q.pending_jid # INVAL \/ (~sick /\ q.status # "TROUBLE") THEN q
  ELSE [q EXCEPT !.status = IF sick THEN "TROUBLE" ELSE "FREE"]

\* PCT_STATUS_REQUEST.  Asked on behalf of yod, a FREE node answers FREE and
\* then holds itself for the job.
PctStatusRequest(n) ==
  toPct[n] # <<>> /\ \E m \in {Head(toPct[n])} :
  /\ FromBebopd(n, m) /\ m.type = "STATUS_REQUEST"
  /\ \E sick \in BOOLEAN :
       LET p == HealthCheck(pct[n], sick)
           clock == IF bebopd.pc = "solicit" /\ bebopd.jobID = m.jobID /\ n \in bebopd.wait_for
                    THEN "new" ELSE "on"
           held == start_pending_for(p, m.jobID, m.sessionID, clock)
           hold == m.opsrc = "YOD" /\ p.status = "FREE"
       IN
       /\ IF sick THEN health_check /\ Spend("sick") ELSE UNCHANGED budget
       /\ toBeb' = [toBeb EXCEPT ![n] =
                      Append(@, [type |-> "UPDATE", state |-> Report(IF hold THEN held ELSE p)])]
       /\ pct' = [pct EXCEPT ![n] = EndIteration(IF hold THEN [held EXCEPT !.status = "ALLOCATED"]
                                                          ELSE p)]
  /\ UNCHANGED <<tab, bebopd, yod, fromYod, req, history>>

\* PCT_RESET_REQUEST, from an operator through pingd.
PctResetRequest(n) ==
  /\ FromBebopd(n, [type |-> "RESET_REQUEST"])
  /\ SetAndReport(n, EndIteration(reset_pct(pct[n])), 1)
  /\ yod' = IF pct[n].phase = "running" THEN [yod EXCEPT ![pct[n].yod_id].done = @ \cup {n}] ELSE yod
  /\ UNCHANGED <<tab, bebopd, fromYod, req, budget, history>>

\* PCT_RESERVE_REQUEST for user m.uid and (uid INVAL) PCT_UNRESERVE_REQUEST.
PctReserveRequest(n) ==
  toPct[n] # <<>> /\ \E m \in {Head(toPct[n])} :
  /\ FromBebopd(n, m) /\ m.type = "RESERVE_REQUEST"
  /\ pct' = [pct EXCEPT ![n] =
               EndIteration([@ EXCEPT !.reserved = IF @ = INVAL \/ m.uid = INVAL THEN m.uid ELSE @])]
  /\ UNCHANGED <<tab, bebopd, yod, toBeb, fromYod, req, budget, history>>

(***************************************************************************)
(* bebopd                                                                  *)
(*                                                                         *)
(* bebopd is one thread: it takes updates, answers a yod or pingd, and     *)
(* while it waits for the answers of PCTs it takes only updates.           *)
(***************************************************************************)
\* update_pct_pid_array: one update replaces the node's table entry.  A first
\* message is acknowledged; when that send fails the message is dropped.
BebopdUpdate(n) ==
  /\ toBeb[n] # <<>>
  /\ toBeb' = [toBeb EXCEPT ![n] = Tail(@)]
  /\ \/ /\ tab' = [tab EXCEPT ![n] = Head(toBeb[n]).state]
        /\ toPct' = IF Head(toBeb[n]).type = "INITIAL" /\ pct[n].status # "OFF"
                    THEN [toPct EXCEPT ![n] = Append(@, [type |-> "GOTCHA"])] ELSE toPct
        /\ UNCHANGED budget
     \/ /\ Head(toBeb[n]).type = "INITIAL" /\ Spend("nosend")
        /\ UNCHANGED <<tab, toPct>>
  /\ UNCHANGED <<pct, bebopd, yod, fromYod, req, history>>

\* Message m goes to every node of S.  Messages to a PCT that is gone are lost.
SendAll(S, m) ==
  [n \in Node |-> IF n \in S /\ pct[n].status # "OFF" THEN Append(toPct[n], m) ELSE toPct[n]]

\* solicit_pct_updates: the status of every node asked becomes UNREPORTED,
\* DOWN where the send fails.
Solicit(targets, failed, opsrc, y, j) ==
  LET sent == targets \ failed
      m == [type |-> "STATUS_REQUEST", opsrc |-> opsrc, jobID |-> j,
            sessionID |-> IF y = INVAL THEN INVAL ELSE Request[y].session]
  IN
  /\ tab' = [n \in Node |->
               IF n \in failed THEN [tab[n] EXCEPT !.status = "DOWN"]
               ELSE IF n \in sent THEN [tab[n] EXCEPT !.status = "UNREPORTED"] ELSE tab[n]]
  /\ toPct' = SendAll(sent, m)
  /\ bebopd' = [bebopd EXCEPT !.pc = "solicit", !.yod = y, !.jobID = j, !.list = targets,
                              !.wait_for = sent]

\* The wait is over: everyone asked has reported something since, or
\* solicitPctsTmout has passed.  (Only timeouts that race with a late message
\* are bounded.)
SolicitOver_Wait ==
  (\A n \in bebopd.wait_for : tab[n].status # "UNREPORTED") /\ UNCHANGED budget
SolicitOver ==
  IF \E n \in bebopd.wait_for : tab[n].status = "UNREPORTED" /\ (toBeb[n] # <<>> \/ toPct[n] # <<>>)
  THEN Spend("tmout") ELSE UNCHANGED budget

\* A yod that gets an answer it no longer waits for does not notice.
Answer(y, r) == IF yod[y].pc = "asked" THEN [yod EXCEPT ![y] = r] ELSE yod

NextJobID_Same == bebopd.prevJobID
NextJobID == IF bebopd.prevJobID > LASTJOBID THEN FIRSTJOBID ELSE bebopd.prevJobID + 1

\* allocate_nodes_for_pbs: nodes the session already uses, as far as the table
\* knows, and make_pct_list_pbs: the node lists that would do.  Only a request
\* for any nodes (not for a list or range) looks at reservations.
SessionNodes(s) == {n \in Node : tab[n].session_id = s \/ tab[n].pending_sid = s}
Choices(y) ==
  LET r == Request[y]
      free == {n \in Node : tab[n].status = "FREE"}
      usable == {n \in free \cap r.nodes : r.any => tab[n].reserved \in {INVAL, r.euid}}
  IN  IF Cardinality(SessionNodes(r.session)) + r.nnodes > r.nnodes_limit THEN {}
      ELSE {L \in SUBSET usable : Cardinality(L) = r.nnodes}

\* answer_yod_requests, up to the wait for the PCTs: the request is refused, or
\* the chosen nodes are asked for their status on behalf of yod.
BebopdRequest ==
  /\ bebopd.pc = "idle" /\ req # <<>>
  /\ req' = Tail(req)
  /\ LET y == Head(req) IN
     \/ /\ Choices(y) = {}
        /\ yod' = Answer(y, [yod[y] EXCEPT !.pc = "over"])
        /\ UNCHANGED <<tab, bebopd, toPct, budget>>
     \/ \E L \in Choices(y) : \E failed \in SUBSET L :
        /\ IF failed = {} THEN UNCHANGED budget ELSE Spend("nosend")
        /\ Solicit(L, failed, "YOD", y, NextJobID)
        /\ UNCHANGED yod
  /\ UNCHANGED <<pct, toBeb, fromYod, history>>

\* answer_yod_requests, after the wait.  When every send worked the table
\* entries that say FREE become ALLOCATED; if all did, the job number is used
\* up and yod gets the list.  Otherwise yod gets an error and the number is
\* given to the next request.
BebopdAllocate ==
  LET L == bebopd.list
      y == bebopd.yod
      marked == {n \in L : bebopd.wait_for = L /\ tab[n].status = "FREE"}
  IN
  /\ bebopd.pc = "solicit" /\ y # INVAL /\ SolicitOver
  /\ pct' = [n \in Node |-> IF pct[n].clock = "new" THEN [pct[n] EXCEPT !.clock = "on"] ELSE pct[n]]
  /\ tab' = [n \in Node |-> IF n \in marked THEN [tab[n] EXCEPT !.status = "ALLOCATED"] ELSE tab[n]]
  /\ IF marked = L
     THEN /\ bebopd' = Idle(bebopd.jobID)
          /\ yod' = Answer(y, [yod[y] EXCEPT !.pc = "granted", !.job = bebopd.jobID, !.list = L])
          /\ grants' = grants \cup {[job |-> bebopd.jobID, yod |-> y, nodes |-> L]}
     ELSE /\ bebopd' = Idle(bebopd.prevJobID)
          /\ yod' = Answer(y, [yod[y] EXCEPT !.pc = "over"])
          /\ UNCHANGED grants
  /\ UNCHANGED <<toPct, toBeb, fromYod, req, loads>>

\* pingd asks for the status of all nodes: of those bebopd hears from, or (a
\* scan) of all that ever reported.
BebopdPing ==
  /\ bebopd.pc = "idle" /\ Spend("ping")
  /\ \E scan \in BOOLEAN :
       LET targets == {n \in Node : IF scan THEN tab[n].status # "NO_STATUS"
                                            ELSE STATUS_TALKING(tab[n].status)}
       IN  \E failed \in SUBSET targets :
             failed # targets /\ Solicit(targets, failed, "PING", INVAL, INVAL)
  /\ UNCHANGED <<pct, yod, toBeb, fromYod, req, history>>

BebopdPingDone ==
  /\ bebopd.pc = "solicit" /\ bebopd.yod = INVAL /\ SolicitOver
  /\ bebopd' = Idle(bebopd.prevJobID)
  /\ UNCHANGED <<pct, tab, yod, toPct, toBeb, fromYod, req, history>>

\* An operator's request to one node: reset it, reserve it or lift that.
BebopdOperator(n) ==
  /\ bebopd.pc = "idle" /\ STATUS_TALKING(tab[n].status) /\ Spend("operator")
  /\ \E m \in [type : {"RESET_REQUEST"}] \cup
              [type : {"RESERVE_REQUEST"}, uid : {INVAL} \cup {Request[y].euid : y \in Yod}] :
       toPct' = IF pct[n].status = "OFF" THEN toPct ELSE [toPct EXCEPT ![n] = Append(@, m)]
  /\ UNCHANGED <<pct, tab, bebopd, yod, toBeb, fromYod, req, history>>

\* An operator tells bebopd that a node is gone.
BebopdGone(n) ==
  /\ bebopd.pc = "idle" /\ tab[n].status # "NO_STATUS" /\ Spend("operator")
  /\ tab' = [tab EXCEPT ![n] = [NoEntry EXCEPT !.status = "DOWN"]]
  /\ UNCHANGED <<pct, bebopd, yod, toPct, toBeb, fromYod, req, history>>

\* bebopd is stopped, saving its table, and started again with -r.  Messages
\* that waited for it are lost.  The table starts with the saved nodes, asked
\* for their status (DOWN where the send fails); the job numbers go on after the largest saved one.
BebopdRestart ==
  LET saved == {n \in Node : tab[n].status # "NO_STATUS"}
      ids == {tab[n].job_id : n \in saved} \cap (FIRSTJOBID..LASTJOBID)
      max == CHOOSE j \in ids : \A k \in ids : k <= j
  IN
  /\ bebopd.pc = "idle" /\ Spend("restart")
  /\ \E failed \in SUBSET saved :
       /\ tab' = [n \in Node |->
                    IF n \notin saved THEN NoEntry
                    ELSE [NoEntry EXCEPT !.status = IF n \in failed THEN "DOWN" ELSE "UNREPORTED"]]
       /\ bebopd' = [Idle(IF ids = {} THEN FIRSTJOBID ELSE max + 1) EXCEPT !.pc = "solicit",
                      !.list = saved, !.wait_for = saved \ failed]
       /\ toPct' = SendAll(saved \ failed, [type |-> "STATUS_REQUEST", opsrc |-> "BEBOPD",
                                            jobID |-> INVAL, sessionID |-> INVAL])
  /\ toBeb' = [n \in Node |-> <<>>]
  /\ req' = <<>>
  /\ UNCHANGED <<pct, yod, fromYod, history>>

(***************************************************************************)
(* yod                                                                     *)
(***************************************************************************)
YodTo(y, type) == {[type |-> type, yod |-> y, job |-> yod[y].job, node |-> n] :
                     n \in {k \in yod[y].list : pct[k].status # "OFF"}}

\* yod asks bebopd for nodes.
YodRequest(y) ==
  /\ yod[y].pc = "start"
  /\ yod' = [yod EXCEPT ![y].pc = "asked"]
  /\ req' = Append(req, y)
  /\ UNCHANGED <<pct, tab, bebopd, toPct, toBeb, fromYod, budget, history>>

\* It sends MSG_INIT_LOAD to all its PCTs ...
YodInitLoad(y) ==
  /\ yod[y].pc = "granted"
  /\ yod' = [yod EXCEPT ![y].pc = "init"]
  /\ fromYod' = fromYod \cup YodTo(y, "INIT_LOAD")
  /\ UNCHANGED <<pct, tab, bebopd, toPct, toBeb, req, budget, history>>

\* ... and enters prog_phase 1 when all have pulled the load data.
YodLoading(y) ==
  /\ yod[y].pc = "init" /\ yod[y].pulled = yod[y].list
  /\ yod' = [yod EXCEPT ![y].pc = "load"]
  /\ UNCHANGED <<pct, tab, bebopd, toPct, toBeb, fromYod, req, budget, history>>

\* All processes are ready: the job starts (prog_phase 2).
YodGoMain_Early(y) ==
  /\ yod[y].pc = "load"
  /\ yod' = [yod EXCEPT ![y].pc = "run"]
  /\ fromYod' = fromYod \cup {m \in YodTo(y, "GO_MAIN") : m.node = Root(y)}
  /\ UNCHANGED <<pct, tab, bebopd, toPct, toBeb, req, budget, history>>
YodGoMain(y) ==
  /\ yod[y].pc = "load" /\ yod[y].ready = yod[y].list
  /\ yod' = [yod EXCEPT ![y].pc = "run"]
  /\ fromYod' = fromYod \cup {m \in YodTo(y, "GO_MAIN") : m.node = Root(y)}
  /\ UNCHANGED <<pct, tab, bebopd, toPct, toBeb, req, budget, history>>

\* All PCTs have reported the end of their process.
YodFinish(y) ==
  /\ yod[y].pc = "run" /\ yod[y].done = yod[y].list
  /\ yod' = [yod EXCEPT ![y].pc = "over"]
  /\ UNCHANGED <<pct, tab, bebopd, toPct, toBeb, fromYod, req, budget, history>>

\* yod waited too long, got a failure message or was interrupted while it
\* loaded or ran the job: force_kill resets every PCT.
YodForceKill(y) ==
  /\ yod[y].pc \in {"load", "run"}
  /\ yod' = [yod EXCEPT ![y].pc = "over"]
  /\ fromYod' = fromYod \cup YodTo(y, "ABORT_RESET")
  /\ UNCHANGED <<pct, tab, bebopd, toPct, toBeb, req, budget, history>>

\* In prog_phase 0 force_kill sends nothing: yod gives up waiting for bebopd,
\* or gives up after it was granted nodes and before it asked them to load.
YodGiveUp(y) ==
  /\ yod[y].pc \in {"asked", "granted"} /\ Spend("giveup")
  /\ yod' = [yod EXCEPT ![y].pc = "over"]
  /\ UNCHANGED <<pct, tab, bebopd, toPct, toBeb, fromYod, req, history>>

\* Still prog_phase 0: not all PCTs have pulled the load data in time, or the
\* last of them did after yod looked for the last time.
YodInitTimeout(y) ==
  /\ yod[y].pc = "init" /\ Spend(IF yod[y].pulled = yod[y].list THEN "initrace" ELSE "initfail")
  /\ yod' = [yod EXCEPT ![y].pc = "over"]
  /\ UNCHANGED <<pct, tab, bebopd, toPct, toBeb, fromYod, req, history>>

(***************************************************************************)
(* The system                                                              *)
(***************************************************************************)
PctStep(n) ==
  \/ PctInitialMsg(n)
  \/ ClockExpires(n) \/ NextIteration(n) \/ PendingTimeout(n)
  \/ \E m \in fromYod : InitLoad(n, m) \/ GoMain(n, m) \/ AbortReset(n, m)
  \/ GroupOk(n) \/ GroupFail(n)
  \/ ExitReset(n)
  \/ PctGotcha(n) \/ PctStatusRequest(n) \/ PctResetRequest(n) \/ PctReserveRequest(n)

BebopdStep ==
  \/ \E n \in Node : BebopdUpdate(n)
  \/ BebopdRequest \/ BebopdAllocate \/ BebopdPingDone

YodStep(y) == YodInitLoad(y) \/ YodLoading(y) \/ YodGoMain(y) \/ YodFinish(y)

\* What the daemons need not do: the start of a PCT, the end of a process, the
\* users' and operators' doings, and faults.
Environment ==
  \/ \E n \in Node :
       \/ PctBoot(n) \/ ReportDone(n) \/ PctExit(n) \/ PctCrash(n)
       \/ BebopdOperator(n) \/ BebopdGone(n)
  \/ \E y \in Yod : YodRequest(y) \/ YodForceKill(y) \/ YodGiveUp(y) \/ YodInitTimeout(y)
  \/ BebopdPing

Next == (\E n \in Node : PctStep(n)) \/ BebopdStep \/ (\E y \in Yod : YodStep(y)) \/ Environment

Spec == Init /\ [][Next]_vars

\* The same system when bebopd may be restarted.
NextRestart == Next \/ BebopdRestart
\* Each daemon's loop goes on, which includes that its clocks advance; the
\* waits of a loading yod are bounded.
Fairness ==
  /\ \A n \in Node : WF_vars(PctStep(n))
  /\ WF_vars(BebopdStep)
  /\ \A y \in Yod : WF_vars(YodStep(y)) /\ WF_vars(yod[y].pc = "load" /\ YodForceKill(y))

SpecRestart == Init /\ [][NextRestart]_vars
LiveSpecRestart == SpecRestart /\ Fairness

(***************************************************************************)
(* Properties                                                              *)
(***************************************************************************)
JobIDs == Nat \cup {INVAL}
Reports == [status : {"NO_STATUS", "FREE", "ALLOCATED", "BUSY", "DOWN", "UNREPORTED", "TROUBLE"},
            job_id : JobIDs, session_id : {INVAL} \cup {Request[y].session : y \in Yod},
            pending_sid : {INVAL} \cup {Request[y].session : y \in Yod},
            reserved : {INVAL} \cup {Request[y].euid : y \in Yod}]

\* Types: every PCT is in a state pct_comm.c knows, every table entry is a
\* report, and a PCT is BUSY exactly while it hosts a job (init_new_job to
\* reset_pct).
TypeOK ==
  /\ \A n \in Node :
       /\ pct[n].status \in {"OFF", "FREE", "ALLOCATED", "BUSY", "TROUBLE"}
       /\ pct[n].pending_jid \in JobIDs /\ pct[n].job_id \in JobIDs
       /\ pct[n].clock \in {"off", "new", "on", "late", "due"}
       /\ pct[n].phase \in {"idle", "group", "loading", "running", "exiting"}
       /\ (pct[n].status = "BUSY") = (pct[n].phase # "idle")
       /\ (pct[n].clock = "off") = (pct[n].pending_jid = INVAL)
  /\ tab \in [Node -> Reports]
  /\ bebopd.prevJobID \in Nat /\ bebopd.list \subseteq Node /\ bebopd.wait_for \subseteq bebopd.list
  /\ \A y \in Yod :
       /\ yod[y].pc \in {"start", "asked", "granted", "init", "load", "run", "over"}
       /\ (yod[y].pulled \cup yod[y].ready \cup yod[y].done) \subseteq yod[y].list
  /\ \A i \in DOMAIN req : req[i] \in Yod

\* The number of a job that is loaded on a node is not above prevJobID, so that
\* the next number bebopd hands out is that of no job a node still hosts (the
\* comment in restart_bebopd asks for this across a restart).
JobNumberAhead == \A n \in Node : pct[n].phase # "idle" => pct[n].job_id <= bebopd.prevJobID

\* What the jobs see of the system (NodeOwnership): the lists handed out, the
\* loads accepted, and the job on each node.
given == {[job |-> g.job, nodes |-> g.nodes] : g \in grants}
host == [n \in Node |-> IF pct[n].phase = "idle" THEN INVAL ELSE pct[n].job_id]
Own == INSTANCE NodeOwnership WITH Nodes <- Node, Jobs <- FIRSTJOBID..(LASTJOBID + 1),
                             None <- INVAL, taken <- loads

\* The daemons implement exclusive ownership of nodes: what process_yod_message
\* accepts is backed by a list of answer_yod_requests, once.
Ownership == Own!OwnSpec

\* A job number is given to one yod only (answer_yod_requests advances
\* prevJobID exactly when it hands out a list).
JobIdsUnique == \A g, h \in grants : g.job = h.job => g = h

\* A process runs on a node only if every node of its job's list accepted the
\* load of that job and then reported its process ready (yod sends MSG_GO_MAIN
\* after the last of these reports).
AllNodesLoaded ==
  \A n \in Node : pct[n].phase \in {"running", "exiting"} =>
    \E g \in grants : /\ g.job = pct[n].job_id /\ g.yod = pct[n].yod_id
                      /\ n \in g.nodes
                      /\ \A m \in g.nodes : <<m, g.job>> \in loads /\ m \in yod[g.yod].ready

\* Only the yod of the job on a node can reset the node with MSG_ABORT_RESET,
\* although the PCT compares nothing but the job number.
KilledByOwner ==
  [][\A m \in fromYod \ fromYod' :
       m.type = "ABORT_RESET" /\ pct[m.node].phase # "idle" /\ pct'[m.node].status = "FREE"
         => pct[m.node].yod_id = m.yod]_vars




\* bebopd answers every request it has or works on, whatever the PCTs do.  Only
\* a restart can lose one.
RequestAnswered ==
  \A y \in Yod : (y \in {bebopd.yod} \cup {req[i] : i \in DOMAIN req} /\ budget.restart = 0) ~> yod[y].pc # "asked"
=============================================================================
