------------------------ MODULE NodeAllocStepProofs ------------------------
(***************************************************************************)
(* The steps of the PCTs and of yod preserve the invariant of              *)
(* NodeAllocInvariant, for any number of nodes and yods, any requests and  *)
(* any number of faults.                                                   *)
(*                                                                         *)
(* Most steps are quiet: they change at most one PCT, which keeps the job  *)
(* it hosts or drops it, and no record of grants.  They are treated alike. *)
(* The exceptions on the side of the PCTs are the steps that accept a job  *)
(* (Accepts), join its group (Joins) and start it (Starts).                *)
(***************************************************************************)
EXTENDS NodeAllocInvariant, FiniteSetTheorems, SequenceTheorems, TLAPS

\* From state p to state q a PCT keeps the job it hosts, or drops it.
Kept(p, q) ==
  q.phase # "idle" => /\ p.phase # "idle" /\ q.job_id = p.job_id /\ q.yod_id = p.yod_id
                      /\ q.phase \in {"running", "exiting"} => p.phase \in {"running", "exiting"}

PctQuiet ==
  /\ PctInv'
  /\ \A k \in Node : Kept(pct[k], pct'[k])
  /\ \A j, k \in Node : pct'[j] # pct[j] /\ pct'[k] # pct[k] => j = k

SameYod(r, s) == s.pc = r.pc /\ s.job = r.job /\ s.list = r.list /\ s.pulled = r.pulled /\ s.ready = r.ready

Quiet ==
  /\ PctQuiet
  /\ yod' \in [Yod -> YodRec] /\ \A y \in Yod : SameYod(yod[y], yod'[y])
  /\ fromYod' \subseteq fromYod
  /\ UNCHANGED <<bebopd, req, grants, loads>>

(***************************************************************************)
(* Operations on the state of one PCT                                      *)
(***************************************************************************)
\* A PCT that is off or has just started hosts nothing (clear_pct_state).
LEMMA OffOK == PctOK(Off) /\ Off.phase = "idle" /\ PctOK(Booted) /\ Booted.phase = "idle"
               /\ PctOK(Registered) /\ Registered.phase = "idle"
  BY DEF Off, Booted, Registered, PctOK, PctFields

\* reset_pct leaves a well-formed PCT that hosts nothing.
LEMMA ResetOK ==
  ASSUME NEW p, DOMAIN p = PctFields
  PROVE  PctOK(reset_pct(p)) /\ reset_pct(p).phase = "idle"
  BY DEF reset_pct, PctOK, PctFields

\* The end of an iteration of the PCT's loop changes no job.
LEMMA EndIterationOK ==
  ASSUME NEW p, PctOK(p)
  PROVE  PctOK(EndIteration(p)) /\ Kept(p, EndIteration(p))
         /\ EndIteration(p).phase = p.phase
  BY DEF EndIteration, PctOK, PctFields, Kept

\* The health check, made on an idle PCT only, changes no job.
LEMMA HealthCheckOK ==
  ASSUME NEW p, NEW sick, PctOK(p)
  PROVE  PctOK(HealthCheck(p, sick)) /\ Kept(p, HealthCheck(p, sick))
         /\ HealthCheck(p, sick).phase = p.phase
  BY DEF HealthCheck, PctOK, PctFields, Kept, pct_pending, stop_pending_for

\* A FREE PCT may be held (start_pending_for).
LEMMA HoldOK ==
  ASSUME NEW p, NEW j, NEW s, NEW c, PctOK(p), p.status = "FREE"
  PROVE  LET h == [start_pending_for(p, j, s, c) EXCEPT !.status = "ALLOCATED"]
         IN  PctOK(h) /\ h.phase = "idle"
  BY DEF start_pending_for, PctOK, PctFields

\* A hold that expires leaves a FREE PCT (the test in the PCT's main loop).
LEMMA ExpireOK ==
  ASSUME NEW p, PctOK(p), p.clock # "off"
  PROVE  LET h == [stop_pending_for(p) EXCEPT !.status = "FREE"]
         IN  PctOK(h) /\ h.phase = "idle"
  BY DEF stop_pending_for, PctOK, PctFields

\* A PCT that hosts nothing after a step has dropped its job or had none.
LEMMA IdleKept == ASSUME NEW p, NEW q, q.phase = "idle" PROVE Kept(p, q)
  BY DEF Kept

\* Two operations that keep or drop a job, one after the other, do so too.
LEMMA KeptTrans == ASSUME NEW p, NEW q, NEW r, Kept(p, q), Kept(q, r) PROVE Kept(p, r)
  BY DEF Kept

\* The state of one PCT is replaced.
LEMMA OneNode ==
  ASSUME PctInv, NEW n \in Node, NEW q, PctOK(q), Kept(pct[n], q), pct' = [pct EXCEPT ![n] = q]
  PROVE  PctQuiet
<1>1. \A k \in Node : pct'[k] = IF k = n THEN q ELSE pct[k]
  BY DEF PctInv
<1>2. pct' = [k \in Node |-> pct'[k]]
  BY DEF PctInv
<1>3. \A k \in Node : Kept(pct[k], pct[k])
  BY DEF Kept
<1> QED BY <1>1, <1>2, <1>3 DEF PctQuiet, PctInv

\* A step that changes no PCT is quiet.
LEMMA NoNode == ASSUME PctInv, pct' = pct PROVE PctQuiet
  BY DEF PctInv, PctQuiet, Kept

\* The yods are left alone.
LEMMA YodsAlone == ASSUME ShapeInv, yod' = yod
                   PROVE  yod' \in [Yod -> YodRec] /\ \A y \in Yod : SameYod(yod[y], yod'[y])
  BY DEF ShapeInv, SameYod

(***************************************************************************)
(* The quiet steps                                                         *)
(***************************************************************************)
\* The steps of a PCT that neither accept a load nor go on with one keep or drop
\* the job of that PCT.
LEMMA PctQuietSteps ==
  ASSUME IInv, NEW n \in Node,
         \/ PctBoot(n) \/ PctInitialMsg(n) \/ ClockExpires(n) \/ NextIteration(n)
         \/ PendingTimeout(n) \/ GroupFail(n) \/ ExitReset(n) \/ PctExit(n) \/ PctCrash(n)
         \/ PctGotcha(n) \/ PctStatusRequest(n) \/ PctReserveRequest(n)
         \/ \E m \in fromYod : AbortReset(n, m)
  PROVE  Quiet
<1> USE DEF IInv
<1>p. PctInv /\ ShapeInv /\ PctOK(pct[n]) /\ DOMAIN pct[n] = PctFields
  BY DEF PctInv, PctOK
<1>q. ASSUME PctQuiet, yod' = yod, fromYod' \subseteq fromYod,
             UNCHANGED <<bebopd, req, grants, loads>>
      PROVE  Quiet
  BY <1>p, <1>q, YodsAlone DEF Quiet
<1>r. Kept(pct[n], reset_pct(pct[n])) /\ PctOK(reset_pct(pct[n]))
  BY <1>p, ResetOK, IdleKept
<1>1. CASE PctBoot(n)
  <2>1. PctQuiet BY <1>1, <1>p, OffOK, IdleKept, OneNode DEF PctBoot
  <2> QED BY <1>1, <1>q, <2>1 DEF PctBoot, history
<1>2. CASE PctInitialMsg(n)
  BY <1>2, <1>p, <1>q, NoNode DEF PctInitialMsg, history
<1>3. CASE ClockExpires(n)
  <2>1. PICK c \in {"late", "due"} : pct' = [pct EXCEPT ![n] = [pct[n] EXCEPT !.clock = c]]
    BY <1>3 DEF ClockExpires
  <2> DEFINE q == [pct[n] EXCEPT !.clock = c]
  <2>2. PctOK(q) /\ Kept(pct[n], q)
    BY <1>3, <1>p DEF ClockExpires, PctOK, PctFields, Kept
  <2>3. PctQuiet BY <2>1, <2>2, <1>p, OneNode
  <2> QED BY <1>3, <1>q, <2>3 DEF ClockExpires, history
<1>4. CASE NextIteration(n)
  <2> DEFINE q == [pct[n] EXCEPT !.clock = "due"]
  <2>1. pct' = [pct EXCEPT ![n] = q] BY <1>4 DEF NextIteration
  <2>2. PctOK(q) /\ Kept(pct[n], q)
    BY <1>4, <1>p DEF NextIteration, PctOK, PctFields, Kept
  <2>3. PctQuiet BY <2>1, <2>2, <1>p, OneNode
  <2> QED BY <1>4, <1>q, <2>3 DEF NextIteration, history
<1>5. CASE PendingTimeout(n)
  <2> DEFINE q == [stop_pending_for(pct[n]) EXCEPT !.status = "FREE"]
  <2>1. pct' = [pct EXCEPT ![n] = q] BY <1>5 DEF PendingTimeout, SetAndReport
  <2>2. PctOK(q) /\ Kept(pct[n], q) BY <1>5, <1>p, ExpireOK, IdleKept DEF PendingTimeout
  <2> HIDE DEF q
  <2>3. PctQuiet BY <2>1, <2>2, <1>p, OneNode
  <2> QED BY <1>5, <1>q, <2>3 DEF PendingTimeout, history
<1>6. CASE GroupFail(n)
  <2>1. PctQuiet BY <1>6, <1>p, <1>r, OneNode DEF GroupFail, SetAndReport
  <2> QED BY <1>6, <1>q, <2>1 DEF GroupFail, history
<1>7. CASE ExitReset(n)
  <2>1. PctQuiet BY <1>7, <1>p, <1>r, OneNode DEF ExitReset, SetAndReport
  <2> QED BY <1>7, <1>q, <2>1 DEF ExitReset, history
<1>8. CASE PctExit(n)
  <2>1. PctQuiet BY <1>8, <1>p, OffOK, IdleKept, OneNode DEF PctExit, Gone
  <2> QED BY <1>8, <1>q, <2>1 DEF PctExit, Gone, history
<1>9. CASE PctCrash(n)
  <2>1. PctQuiet BY <1>9, <1>p, OffOK, IdleKept, OneNode DEF PctCrash, Gone
  <2> QED BY <1>9, <1>q, <2>1 DEF PctCrash, Gone, history
<1>10. CASE PctGotcha(n)
  <2>1. PctQuiet BY <1>10, <1>p, EndIterationOK, OneNode DEF PctGotcha
  <2> QED BY <1>10, <1>q, <2>1 DEF PctGotcha, history
<1>11. CASE PctStatusRequest(n)
  <2> DEFINE m == Head(toPct[n])
             c == IF bebopd.pc = "solicit" /\ bebopd.jobID = m.jobID /\ n \in bebopd.wait_for
                  THEN "new" ELSE "on"
  <2>1. PICK sick \in BOOLEAN :
          LET p == HealthCheck(pct[n], sick)
              held == start_pending_for(p, m.jobID, m.sessionID, c)
              hold == m.opsrc = "YOD" /\ p.status = "FREE"
          IN  pct' = [pct EXCEPT ![n] = EndIteration(IF hold THEN [held EXCEPT !.status = "ALLOCATED"]
                                                              ELSE p)]
    BY <1>11, ZenonT(60) DEF PctStatusRequest
  <2> HIDE DEF m, c
  <2> DEFINE p == HealthCheck(pct[n], sick)
             h == [start_pending_for(p, m.jobID, m.sessionID, c) EXCEPT !.status = "ALLOCATED"]
             q == IF m.opsrc = "YOD" /\ p.status = "FREE" THEN h ELSE p
  <2>2. PctOK(p) /\ Kept(pct[n], p) BY <1>p, HealthCheckOK
  <2>3. p.status = "FREE" => PctOK(h) /\ h.phase = "idle" BY <2>2, HoldOK
  <2>4. PctOK(q) /\ Kept(pct[n], q) BY <2>2, <2>3, IdleKept
  <2>5. pct' = [pct EXCEPT ![n] = EndIteration(q)] BY <2>1
  <2> HIDE DEF p, h, q
  <2>6. PctOK(EndIteration(q)) /\ Kept(pct[n], EndIteration(q))
    BY <2>4, EndIterationOK, KeptTrans
  <2>7. PctQuiet BY <2>5, <2>6, <1>p, OneNode
  <2> QED BY <1>11, <1>q, <2>7 DEF PctStatusRequest, history
<1>12. CASE PctReserveRequest(n)
  <2>1. PICK u : pct' = [pct EXCEPT ![n] = EndIteration([pct[n] EXCEPT !.reserved = u])]
    BY <1>12 DEF PctReserveRequest
  <2> DEFINE q == [pct[n] EXCEPT !.reserved = u]
  <2>2. PctOK(q) /\ Kept(pct[n], q) BY <1>p DEF PctOK, PctFields, Kept
  <2> HIDE DEF q
  <2>3. PctOK(EndIteration(q)) /\ Kept(pct[n], EndIteration(q))
    BY <2>2, EndIterationOK, KeptTrans
  <2>4. PctQuiet BY <2>1, <2>3, <1>p, OneNode DEF q
  <2> QED BY <1>12, <1>q, <2>4 DEF PctReserveRequest, history
<1>13. CASE \E m \in fromYod : AbortReset(n, m)
  <2>1. PICK m \in fromYod : AbortReset(n, m) BY <1>13
  <2>2. CASE ForThisJob(pct[n], m)
    <3>1. PctQuiet BY <2>1, <2>2, <1>p, <1>r, OneNode DEF AbortReset, SetAndReport
    <3> QED BY <2>1, <1>q, <3>1 DEF AbortReset, history
  <2>3. CASE ~ForThisJob(pct[n], m)
    BY <2>1, <2>3, <1>p, <1>q, NoNode DEF AbortReset, history
  <2> QED BY <2>2, <2>3
<1> QED BY <1>1, <1>2, <1>3, <1>4, <1>5, <1>6, <1>7, <1>8, <1>9, <1>10, <1>11, <1>12, <1>13

\* bebopd's handling of an update or an operator's request touches no PCT and no
\* grant.
LEMMA BebopdQuietSteps ==
  ASSUME IInv, NEW n \in Node, BebopdUpdate(n) \/ BebopdOperator(n) \/ BebopdGone(n)
  PROVE  Quiet
<1>1. pct' = pct /\ yod' = yod /\ fromYod' = fromYod /\ UNCHANGED <<bebopd, req, grants, loads>>
  BY DEF BebopdUpdate, BebopdOperator, BebopdGone, history
<1> QED BY <1>1, NoNode, YodsAlone DEF IInv, Quiet

\* The end of a process, and an operator's reset, tell yod that the process is
\* done and change nothing else yod relies on.
LEMMA DoneQuiet ==
  ASSUME IInv, NEW n \in Node, ReportDone(n) \/ PctResetRequest(n)
  PROVE  Quiet
<1>p. PctInv /\ ShapeInv /\ HostInv /\ PctOK(pct[n]) /\ DOMAIN pct[n] = PctFields
  BY DEF IInv, PctInv, PctOK
<1>d. ASSUME yod' = [yod EXCEPT ![pct[n].yod_id].done = @ \cup {n}], pct[n].phase # "idle"
      PROVE  yod' \in [Yod -> YodRec] /\ \A y \in Yod : SameYod(yod[y], yod'[y])
  <2>1. pct[n].yod_id \in Yod BY <1>p, <1>d DEF HostInv
  <2>2. yod \in [Yod -> YodRec] BY <1>p DEF ShapeInv
  <2>3. ASSUME NEW y \in Yod PROVE yod'[y] \in YodRec /\ SameYod(yod[y], yod'[y])
    BY <1>d, <2>1, <2>2 DEF YodRec, SameYod
  <2> QED BY <1>d, <2>2, <2>3
<1>1. CASE ReportDone(n)
  <2> DEFINE q == [pct[n] EXCEPT !.phase = "exiting"]
  <2>1. pct' = [pct EXCEPT ![n] = q] BY <1>1 DEF ReportDone
  <2>2. PctOK(q) /\ Kept(pct[n], q)
    BY <1>1, <1>p DEF ReportDone, PctOK, PctFields, Kept
  <2>3. PctQuiet BY <2>1, <2>2, <1>p, OneNode
  <2> QED BY <1>1, <1>d, <2>3 DEF ReportDone, history, Quiet
<1>2. CASE PctResetRequest(n)
  <2> DEFINE q == EndIteration(reset_pct(pct[n]))
  <2>1. pct' = [pct EXCEPT ![n] = q] BY <1>2 DEF PctResetRequest, SetAndReport
  <2>2. PctOK(q) /\ Kept(pct[n], q)
    BY <1>p, ResetOK, EndIterationOK, IdleKept
  <2> HIDE DEF q
  <2>3. PctQuiet BY <2>1, <2>2, <1>p, OneNode
  <2>4. CASE pct[n].phase = "running"
    BY <1>2, <1>d, <2>3, <2>4 DEF PctResetRequest, history, Quiet
  <2>5. CASE pct[n].phase # "running"
    BY <1>2, <1>p, <2>3, <2>5, YodsAlone DEF PctResetRequest, history, Quiet
  <2> QED BY <2>4, <2>5
<1> QED BY <1>1, <1>2

(***************************************************************************)
(* The steps of a load.  Each is quiet or does what its predicate says.    *)
(***************************************************************************)
\* PCT n accepts the load of message m.
Accepts(n, m) ==
  /\ m \in fromYod /\ m.node = n /\ m.type = "INIT_LOAD"
  /\ pct[n].phase = "idle" /\ yod[m.yod].pc = "init"
  /\ \E q : /\ pct' = [pct EXCEPT ![n] = q] /\ PctOK(q)
            /\ q.phase = "group" /\ q.job_id = m.job /\ q.yod_id = m.yod
  /\ yod' = [yod EXCEPT ![m.yod].pulled = @ \cup {n}]
  /\ loads' = loads \cup {<<n, m.job>>}
  /\ fromYod' = fromYod \ {m}
  /\ UNCHANGED <<bebopd, req, grants>>

\* PCT n has joined its group and tells yod.
Joins(n) ==
  /\ pct[n].phase = "group" /\ yod[pct[n].yod_id].pulled = yod[pct[n].yod_id].list
  /\ PctQuiet
  /\ \E R \in {{}, {n}} : yod' = [yod EXCEPT ![pct[n].yod_id].ready = @ \cup R]
  /\ UNCHANGED <<bebopd, req, grants, loads, fromYod>>

\* PCT n takes message m and passes it on to other nodes of its job.
Starts(n, m) ==
  /\ m \in fromYod /\ m.node = n /\ m.type = "GO_MAIN" /\ ForThisJob(pct[n], m)
  /\ \E q : /\ pct' = [pct EXCEPT ![n] = q] /\ PctOK(q)
            /\ q.phase = "idle" \/ (q.job_id = pct[n].job_id /\ q.yod_id = pct[n].yod_id)
  /\ fromYod' \subseteq fromYod \cup {[m EXCEPT !.node = k] : k \in yod[pct[n].yod_id].list}
  /\ UNCHANGED <<yod, bebopd, req, grants, loads>>

\* MSG_INIT_LOAD is ignored, accepted, or fails and leaves the node FREE.
LEMMA InitLoadCases ==
  ASSUME IInv, NEW n \in Node, NEW m \in fromYod, InitLoad(n, m)
  PROVE  Quiet \/ Accepts(n, m)
<1> DEFINE busy == [stop_pending_for(pct[n]) EXCEPT !.status = "BUSY", !.job_id = m.job,
                      !.session_id = Request[m.yod].session, !.yod_id = m.yod, !.phase = "group"]
<1>p. PctInv /\ ShapeInv /\ PctOK(pct[n]) BY DEF IInv, PctInv
<1>b. /\ PctOK(busy) /\ DOMAIN busy = PctFields
      /\ busy.phase = "group" /\ busy.job_id = m.job /\ busy.yod_id = m.yod
  BY <1>p DEF stop_pending_for, PctOK, PctFields
<1>1. CASE UNCHANGED <<pct, toBeb, yod, loads>>
  <2>1. PctQuiet BY <1>1, <1>p, NoNode
  <2> QED BY <1>1, <1>p, <2>1, YodsAlone DEF InitLoad, history, Quiet
<1>2. CASE /\ Expected(pct[n], m) /\ yod[m.yod].pc = "init"
           /\ pct' = [pct EXCEPT ![n] = busy]
           /\ yod' = [yod EXCEPT ![m.yod].pulled = @ \cup {n}]
           /\ loads' = loads \cup {<<n, m.job>>}
  <2>1. pct[n].phase = "idle" BY <1>2, <1>p DEF Expected, PctOK
  <2> HIDE DEF busy
  <2>2. \E q : /\ pct' = [pct EXCEPT ![n] = q] /\ PctOK(q)
               /\ q.phase = "group" /\ q.job_id = m.job /\ q.yod_id = m.yod
    BY <1>2, <1>b
  <2>3. Accepts(n, m) BY <1>2, <2>1, <2>2, Zenon DEF InitLoad, Accepts
  <2> QED BY <2>3
<1>3. CASE pct' = [pct EXCEPT ![n] = reset_pct(busy)] /\ UNCHANGED <<yod, loads>>
  <2>1. PctOK(reset_pct(busy)) /\ Kept(pct[n], reset_pct(busy))
    BY <1>b, ResetOK, IdleKept
  <2> HIDE DEF busy
  <2>2. PctQuiet BY <1>3, <1>p, <2>1, OneNode
  <2> QED BY <1>3, <1>p, <2>2, YodsAlone DEF InitLoad, Quiet
<1>4. \/ UNCHANGED <<pct, toBeb, yod, loads>>
      \/ /\ Expected(pct[n], m) /\ yod[m.yod].pc = "init"
         /\ pct' = [pct EXCEPT ![n] = busy]
         /\ yod' = [yod EXCEPT ![m.yod].pulled = @ \cup {n}]
         /\ loads' = loads \cup {<<n, m.job>>}
      \/ pct' = [pct EXCEPT ![n] = reset_pct(busy)] /\ UNCHANGED <<yod, loads>>
  BY Zenon DEF InitLoad, SetAndReport
<1> QED BY <1>1, <1>2, <1>3, <1>4, Zenon

\* A PCT whose group has formed goes on, or exits because yod is gone.
LEMMA GroupOkCases ==
  ASSUME IInv, NEW n \in Node, GroupOk(n)
  PROVE  Quiet \/ Joins(n)
<1>p. PctInv /\ ShapeInv /\ PctOK(pct[n]) BY DEF IInv, PctInv
<1>1. CASE Gone(n) /\ yod' = yod
  <2>1. PctQuiet BY <1>1, <1>p, OffOK, IdleKept, OneNode DEF Gone
  <2> QED BY <1>1, <1>p, <2>1, YodsAlone DEF GroupOk, Gone, history, Quiet
<1>2. CASE /\ pct' = [pct EXCEPT ![n].phase = "loading"] /\ fromYod' = fromYod
           /\ \E R \in {{}, {n}} : yod' = [yod EXCEPT ![pct[n].yod_id].ready = @ \cup R]
  <2> DEFINE q == [pct[n] EXCEPT !.phase = "loading"]
  <2>1. PctOK(q) /\ Kept(pct[n], q)
    BY <1>p DEF GroupOk, PctOK, PctFields, Kept
  <2>2. PctQuiet BY <1>2, <2>1, <1>p, OneNode
  <2>3. Joins(n) BY <1>2, <2>2 DEF GroupOk, Joins, history
  <2> QED BY <2>3
<1>3. ASSUME NEW A, yod' = [yod EXCEPT ![pct[n].yod_id].ready = IF A THEN @ \cup {n} ELSE @]
      PROVE  \E R \in {{}, {n}} : yod' = [yod EXCEPT ![pct[n].yod_id].ready = @ \cup R]
  <2>1. CASE A BY <1>3, <2>1
  <2>2. CASE ~A
    <3> DEFINE S == yod[pct[n].yod_id].ready
    <3>1. S = S \cup {} OBVIOUS
    <3>2. yod' = [yod EXCEPT ![pct[n].yod_id].ready = S \cup {}] BY <1>3, <2>2, <3>1
    <3> QED BY <3>2
  <2> QED BY <2>1, <2>2
<1>4. \/ Gone(n) /\ yod' = yod
      \/ /\ pct' = [pct EXCEPT ![n].phase = "loading"] /\ fromYod' = fromYod
         /\ \E A : yod' = [yod EXCEPT ![pct[n].yod_id].ready = IF A THEN @ \cup {n} ELSE @]
  BY Zenon DEF GroupOk
<1> QED BY <1>1, <1>2, <1>3, <1>4

\* MSG_GO_MAIN is ignored, or passed on by the PCT that takes it.
LEMMA GoMainCases ==
  ASSUME IInv, NEW n \in Node, NEW m \in fromYod, GoMain(n, m)
  PROVE  Quiet \/ Starts(n, m)
<1>p. PctInv /\ ShapeInv /\ PctOK(pct[n]) /\ DOMAIN pct[n] = PctFields BY DEF IInv, PctInv, PctOK
<1> DEFINE y == pct[n].yod_id
           others == IF n = Root(y) THEN yod[y].list \ {n} ELSE {}
           up == {k \in others : pct[k].status # "OFF"}
<1>o. ASSUME NEW S \in SUBSET up, fromYod' = (fromYod \ {m}) \cup {[m EXCEPT !.node = k] : k \in S}
      PROVE  fromYod' \subseteq fromYod \cup {[m EXCEPT !.node = k] : k \in yod[y].list}
  <2>1. S \subseteq yod[y].list BY <1>o
  <2> QED BY <1>o, <2>1
<1>1. CASE UNCHANGED <<pct, toBeb>> /\ fromYod' = fromYod \ {m}
  <2>1. PctQuiet BY <1>1, <1>p, NoNode
  <2> QED BY <1>1, <1>p, <2>1, YodsAlone DEF GoMain, history, Quiet
<1>2. CASE /\ ForThisJob(pct[n], m) /\ pct' = [pct EXCEPT ![n].phase = "running"]
           /\ \E S \in SUBSET up : fromYod' = (fromYod \ {m}) \cup {[m EXCEPT !.node = k] : k \in S}
  <2> DEFINE q == [pct[n] EXCEPT !.phase = "running"]
  <2>1. PctOK(q) /\ q.job_id = pct[n].job_id /\ q.yod_id = pct[n].yod_id
    BY <1>2, <1>p DEF ForThisJob, PctOK, PctFields
  <2>2. fromYod' \subseteq fromYod \cup {[m EXCEPT !.node = k] : k \in yod[y].list}
    BY <1>2, <1>o
  <2>3. \E r : /\ pct' = [pct EXCEPT ![n] = r] /\ PctOK(r)
               /\ r.phase = "idle" \/ (r.job_id = pct[n].job_id /\ r.yod_id = pct[n].yod_id)
    BY <1>2, <2>1
  <2>4. Starts(n, m) BY <1>2, <2>2, <2>3, Zenon DEF GoMain, history, Starts
  <2> QED BY <2>4
<1>3. CASE /\ ForThisJob(pct[n], m) /\ pct' = [pct EXCEPT ![n] = reset_pct(pct[n])]
           /\ \E S \in SUBSET up : fromYod' = (fromYod \ {m}) \cup {[m EXCEPT !.node = k] : k \in S}
  <2>1. PctOK(reset_pct(pct[n])) /\ reset_pct(pct[n]).phase = "idle" BY <1>p, ResetOK
  <2>2. fromYod' \subseteq fromYod \cup {[m EXCEPT !.node = k] : k \in yod[y].list}
    BY <1>3, <1>o
  <2>3. \E r : /\ pct' = [pct EXCEPT ![n] = r] /\ PctOK(r)
               /\ r.phase = "idle" \/ (r.job_id = pct[n].job_id /\ r.yod_id = pct[n].yod_id)
    BY <1>3, <2>1
  <2>4. Starts(n, m) BY <1>3, <2>2, <2>3, Zenon DEF GoMain, history, Starts
  <2> QED BY <2>4
<1>4. \/ UNCHANGED <<pct, toBeb>> /\ fromYod' = fromYod \ {m}
      \/ /\ ForThisJob(pct[n], m) /\ pct' = [pct EXCEPT ![n].phase = "running"]
         /\ fromYod' = (fromYod \ {m}) \cup {[m EXCEPT !.node = k] : k \in up}
      \/ /\ ForThisJob(pct[n], m) /\ pct' = [pct EXCEPT ![n] = reset_pct(pct[n])]
         /\ \E S \in SUBSET up : fromYod' = (fromYod \ {m}) \cup {[m EXCEPT !.node = k] : k \in S}
  BY Zenon DEF GoMain, SetAndReport
<1>5. up \in SUBSET up OBVIOUS
<1> QED BY <1>1, <1>2, <1>3, <1>4, <1>5, Zenon

(***************************************************************************)
(* The invariant is preserved                                              *)
(***************************************************************************)
\* A quiet step preserves the invariant.
LEMMA QuietInv == ASSUME IInv, Quiet PROVE IInv'
<1> USE DEF IInv
<1>s. ShapeInv /\ ShapeInv' BY DEF ShapeInv, Quiet
<1>1. PctInv' BY DEF Quiet, PctQuiet
<1>2. YodInv' BY <1>s DEF Quiet, SameYod, YodInv, ShapeInv
<1>3. MsgInv'
  <2> SUFFICES ASSUME NEW x \in fromYod' PROVE MsgInv!(x)' BY DEF MsgInv
  <2>1. x \in fromYod /\ x.yod \in Yod BY <1>s DEF Quiet, ShapeInv, YodMsg
  <2>2. MsgInv!(x) BY <2>1 DEF MsgInv
  <2>3. SameYod(yod[x.yod], yod'[x.yod]) /\ loads' = loads BY <2>1 DEF Quiet
  <2> QED BY <2>2, <2>3, Zenon DEF SameYod
<1>4. HostInv' BY <1>s DEF Quiet, PctQuiet, Kept, SameYod, HostInv
<1>5. NumberInv' BY DEF Quiet, NumberInv, Served
<1>6. QueueInv'
  <2>1. \A y \in Yod : yod'[y].pc = yod[y].pc BY DEF Quiet, SameYod
  <2>2. \A i \in 1..Len(req) : req[i] \in Yod BY <1>s DEF ShapeInv
  <2>3. Served \subseteq Yod BY <1>s DEF ShapeInv, Served, Grant
  <2>4. bebopd.yod \in Yod \cup {INVAL} BY <1>s DEF ShapeInv, BebopdRec
  <2>5. Served' = Served BY DEF Quiet, Served
  <2>6. UNCHANGED <<req, bebopd>> BY DEF Quiet
  <2> QED BY <2>1, <2>2, <2>3, <2>4, <2>5, <2>6 DEF QueueInv
<1> QED BY <1>s, <1>1, <1>2, <1>3, <1>4, <1>5, <1>6

\* Two yods never have the same job: their grants are the same grant.
LEMMA OneYod ==
  ASSUME IInv, NEW y \in Yod, NEW z \in Yod, yod[y].job = yod[z].job, yod[y].job # INVAL
  PROVE  y = z
<1> DEFINE g(x) == [job |-> yod[x].job, yod |-> x, nodes |-> yod[x].list]
<1>1. g(y) \in grants /\ g(z) \in grants BY DEF IInv, YodInv
<1>2. g(y).job = g(z).job OBVIOUS
<1>3. g(y) = g(z) BY <1>1, <1>2 DEF IInv, NumberInv
<1>4. g(y).yod = g(z).yod BY <1>3
<1> QED BY <1>4

\* One yod changes.
LEMMA YodUpdate ==
  ASSUME ShapeInv, NEW y \in Yod, NEW r \in YodRec, yod' = [yod EXCEPT ![y] = r]
  PROVE  yod' \in [Yod -> YodRec] /\ yod'[y] = r /\ \A z \in Yod : z # y => yod'[z] = yod[z]
  BY DEF ShapeInv

\* One PCT changes.
LEMMA PctUpdate ==
  ASSUME PctInv, NEW n \in Node, NEW q, PctOK(q), pct' = [pct EXCEPT ![n] = q]
  PROVE  PctInv' /\ pct'[n] = q /\ \A k \in Node : k # n => pct'[k] = pct[k]
  BY DEF PctInv

\* Requests stay in order when no yod goes back to the start.
LEMMA QueueKept ==
  ASSUME IInv, \A y \in Yod : yod[y].pc # "start" => yod'[y].pc # "start",
         UNCHANGED <<req, bebopd, grants>>
  PROVE  QueueInv'
<1>1. \A i \in 1..Len(req) : req[i] \in Yod BY DEF IInv, ShapeInv
<1>2. Served \subseteq Yod BY DEF IInv, ShapeInv, Served, Grant
<1>3. bebopd.yod \in Yod \cup {INVAL} BY DEF IInv, ShapeInv, BebopdRec
<1>4. Served' = Served BY DEF Served
<1> QED BY <1>1, <1>2, <1>3, <1>4 DEF QueueInv, IInv

\* A message is its fields.
LEMMA SameMsg ==
  ASSUME NEW m \in YodMsg, NEW x \in YodMsg,
         x.type = m.type, x.yod = m.yod, x.job = m.job, x.node = m.node
  PROVE  x = m
  BY DEF YodMsg

\* The node that accepts INIT_LOAD was granted to the job and hosted nothing.
LEMMA AcceptsInv == ASSUME IInv, NEW n \in Node, NEW m, Accepts(n, m) PROVE IInv'
<1> DEFINE y == m.yod
           r == [yod[y] EXCEPT !.pulled = @ \cup {n}]
<1>a. PctInv /\ ShapeInv /\ YodInv /\ MsgInv /\ HostInv /\ NumberInv BY DEF IInv
<1>m. m \in fromYod /\ m \in YodMsg /\ y \in Yod /\ m.job \in Nat /\ m.node = n
  BY <1>a DEF Accepts, ShapeInv, YodMsg
<1>y. /\ yod[y] \in YodRec /\ r \in YodRec /\ r.pc = "init" /\ yod[y].pc = "init" /\ r.job = yod[y].job
      /\ r.list = yod[y].list /\ r.ready = yod[y].ready /\ r.pulled = yod[y].pulled \cup {n}
  BY <1>a, <1>m DEF ShapeInv, YodRec, Accepts
<1>j. m.job = yod[y].job /\ n \in yod[y].list /\ m.job # INVAL
  BY <1>a, <1>m, JobIdAssumption DEF MsgInv
<1>u. yod' = [yod EXCEPT ![y] = r] BY DEF Accepts
<1>v. yod' \in [Yod -> YodRec] /\ yod'[y] = r /\ \A z \in Yod : z # y => yod'[z] = yod[z]
  BY <1>a, <1>m, <1>y, <1>u, YodUpdate
<1>p. PICK q : /\ pct' = [pct EXCEPT ![n] = q] /\ PctOK(q)
               /\ q.phase = "group" /\ q.job_id = m.job /\ q.yod_id = m.yod
  BY DEF Accepts
<1>q. PctInv' /\ pct'[n] = q /\ \A k \in Node : k # n => pct'[k] = pct[k]
  BY <1>a, <1>p, PctUpdate
<1>l. loads' = loads \cup {<<n, m.job>>} /\ fromYod' = fromYod \ {m} /\ UNCHANGED <<bebopd, req, grants>>
  BY DEF Accepts
<1>o. \A z \in Yod : z # y => yod[z].job # m.job BY <1>j, <1>m, OneYod
<1> HIDE DEF r, y
<1>1. ShapeInv' BY <1>a, <1>v, <1>l, <1>m DEF ShapeInv
<1>2. YodInv'
  <2> SUFFICES ASSUME NEW z \in Yod PROVE YodInv!(z)' BY DEF YodInv
  <2>0. YodInv!(z) BY <1>a DEF YodInv
  <2>1. CASE z = y BY <2>0, <2>1, <1>v, <1>y, <1>l, <1>j
  <2>2. CASE z # y BY <2>0, <2>2, <1>v, <1>l, <1>o
  <2> QED BY <2>1, <2>2
<1>3. MsgInv'
  <2> SUFFICES ASSUME NEW x \in fromYod, x # m PROVE MsgInv!(x)' BY <1>l DEF MsgInv
  <2>0. MsgInv!(x) /\ x \in YodMsg /\ x.yod \in Yod BY <1>a DEF MsgInv, ShapeInv, YodMsg
  <2>1. yod'[x.yod].job = yod[x.yod].job /\ yod'[x.yod].list = yod[x.yod].list
        /\ yod'[x.yod].pc = yod[x.yod].pc /\ yod'[x.yod].ready = yod[x.yod].ready
    BY <2>0, <1>v, <1>y
  <2>2. ASSUME x.type = "INIT_LOAD", x.node = n, x.job = m.job PROVE FALSE
    <3>1. x.yod = y BY <2>0, <2>2, <1>o
    <3>2. m.type = "INIT_LOAD" BY DEF Accepts
    <3> QED BY <3>1, <3>2, <2>2, <2>0, <1>m, SameMsg DEF y
  <2> QED BY <2>0, <2>1, <2>2, <1>l
<1>4. HostInv'
  <2> SUFFICES ASSUME NEW k \in Node PROVE HostInv!(k)' BY DEF HostInv
  <2>0. HostInv!(k) BY <1>a DEF HostInv
  <2>1. CASE k = n
    <3>1. pct'[k] = q /\ q.yod_id = y /\ yod'[y] = r BY <2>1, <1>p, <1>q, <1>v DEF y
    <3> QED BY <2>1, <3>1, <1>p, <1>y, <1>j, <1>m
  <2>2. CASE k # n
    <3>1. pct'[k] = pct[k] BY <2>2, <1>q
    <3>2. \A z \in Yod : /\ yod'[z].job = yod[z].job /\ yod'[z].list = yod[z].list
                         /\ yod'[z].pc = yod[z].pc /\ yod'[z].ready = yod[z].ready
      BY <1>v, <1>y
    <3> QED BY <2>0, <3>1, <3>2, Zenon
  <2> QED BY <2>1, <2>2
<1>5. NumberInv'
  <2>1. m.job <= bebopd.prevJobID
    <3>1. [job |-> yod[y].job, yod |-> y, nodes |-> yod[y].list] \in grants BY <1>a, <1>j, <1>m DEF YodInv
    <3> QED BY <3>1, <1>a, <1>j DEF NumberInv
  <2> QED BY <2>1, <1>a, <1>l DEF NumberInv, Served
<1>6. QueueInv' BY <1>l, <1>v, <1>y, QueueKept
<1> QED BY <1>q, <1>1, <1>2, <1>3, <1>4, <1>5, <1>6 DEF IInv

\* A PCT that joined its group is ready after it pulled the load data.
LEMMA JoinsInv == ASSUME IInv, NEW n \in Node, Joins(n) PROVE IInv'
<1> DEFINE y == pct[n].yod_id
<1>a. PctInv /\ ShapeInv /\ YodInv /\ MsgInv /\ HostInv /\ NumberInv BY DEF IInv
<1>p. PICK R \in {{}, {n}} : yod' = [yod EXCEPT ![y].ready = @ \cup R] BY DEF Joins
<1>j. y \in Yod /\ yod[y].job # INVAL /\ n \in yod[y].list /\ yod[y].pulled = yod[y].list
  BY <1>a, JobIdAssumption DEF HostInv, Joins
<1> DEFINE r == [yod[y] EXCEPT !.ready = @ \cup R]
<1>y. /\ yod[y] \in YodRec /\ r \in YodRec /\ r.pc = yod[y].pc /\ r.job = yod[y].job
      /\ r.list = yod[y].list /\ r.ready = yod[y].ready \cup R /\ r.pulled = yod[y].pulled
  BY <1>a, <1>j, <1>p DEF ShapeInv, YodRec
<1>u. yod' = [yod EXCEPT ![y] = r] BY <1>p
<1>v. yod' \in [Yod -> YodRec] /\ yod'[y] = r /\ \A z \in Yod : z # y => yod'[z] = yod[z]
  BY <1>a, <1>j, <1>y, <1>u, YodUpdate
<1>l. UNCHANGED <<bebopd, req, grants, loads, fromYod>> /\ PctQuiet BY DEF Joins
<1> HIDE DEF r, y
<1>f. yod[y].ready = yod[y].list => r.ready = r.list BY <1>y, <1>j, <1>p
<1>s. R \subseteq yod[y].pulled BY <1>j, <1>p
<1>1. ShapeInv' BY <1>a, <1>v, <1>l DEF ShapeInv
<1>2. YodInv'
  <2> SUFFICES ASSUME NEW z \in Yod PROVE YodInv!(z)' BY DEF YodInv
  <2>0. YodInv!(z) BY <1>a DEF YodInv
  <2>1. CASE z = y BY <2>0, <2>1, <1>v, <1>y, <1>l, <1>j, <1>s
  <2>2. CASE z # y BY <2>0, <2>2, <1>v, <1>l
  <2> QED BY <2>1, <2>2
<1>3. MsgInv'
  <2> SUFFICES ASSUME NEW x \in fromYod PROVE MsgInv!(x)' BY <1>l DEF MsgInv
  <2>0. MsgInv!(x) /\ x.yod \in Yod BY <1>a DEF MsgInv, ShapeInv, YodMsg
  <2>1. CASE x.yod = y BY <2>0, <2>1, <1>v, <1>y, <1>l, <1>f
  <2>2. CASE x.yod # y BY <2>0, <2>2, <1>v, <1>l
  <2> QED BY <2>1, <2>2
<1>4. HostInv'
  <2> SUFFICES ASSUME NEW k \in Node, pct'[k].phase # "idle" PROVE HostInv!(k)' BY DEF HostInv
  <2>0. HostInv!(k) BY <1>a DEF HostInv
  <2>1. Kept(pct[k], pct'[k]) BY <1>l DEF PctQuiet
  <2>3. CASE pct[k].yod_id = y BY <2>0, <2>1, <2>3, <1>v, <1>y, <1>f DEF Kept
  <2>4. CASE pct[k].yod_id # y BY <2>0, <2>1, <2>4, <1>v DEF Kept
  <2> QED BY <2>3, <2>4
<1>5. NumberInv' BY <1>a, <1>l DEF NumberInv, Served
<1>6. QueueInv' BY <1>l, <1>v, <1>y, QueueKept
<1>7. PctInv' BY <1>l DEF PctQuiet
<1> QED BY <1>1, <1>2, <1>3, <1>4, <1>5, <1>6, <1>7 DEF IInv

\* MSG_GO_MAIN is passed on within the job it belongs to.
LEMMA StartsInv == ASSUME IInv, NEW n \in Node, NEW m, Starts(n, m) PROVE IInv'
<1> DEFINE y == m.yod
<1>a. PctInv /\ ShapeInv /\ YodInv /\ MsgInv /\ HostInv /\ NumberInv BY DEF IInv
<1>m. m \in fromYod /\ m \in YodMsg /\ y \in Yod /\ m.job \in Nat /\ m.type = "GO_MAIN"
  BY <1>a DEF Starts, ShapeInv, YodMsg
<1>j. m.job = yod[y].job /\ m.job # INVAL /\ yod[y].ready = yod[y].list /\ yod[y].pc # "granted"
  BY <1>a, <1>m, JobIdAssumption DEF MsgInv
<1>h. pct[n].phase # "idle" /\ pct[n].job_id = m.job /\ pct[n].yod_id \in Yod
      /\ n \in yod[pct[n].yod_id].list
  BY <1>a DEF Starts, ForThisJob, HostInv
<1>i. pct[n].yod_id = y BY <1>a, <1>h, <1>j, <1>m, OneYod DEF HostInv
<1>p. PICK q : /\ pct' = [pct EXCEPT ![n] = q] /\ PctOK(q)
               /\ q.phase = "idle" \/ (q.job_id = pct[n].job_id /\ q.yod_id = pct[n].yod_id)
  BY DEF Starts
<1>q. PctInv' /\ pct'[n] = q /\ \A k \in Node : k # n => pct'[k] = pct[k]
  BY <1>a, <1>p, PctUpdate
<1>l. UNCHANGED <<yod, bebopd, req, grants, loads>> BY DEF Starts
<1>x. \A x \in fromYod' : x \in fromYod \/ \E k \in yod[y].list : x = [m EXCEPT !.node = k]
  BY <1>i DEF Starts
<1>g. \A k \in yod[y].list : LET x == [m EXCEPT !.node = k] IN
        x \in YodMsg /\ x.yod = y /\ x.job = m.job /\ x.type = "GO_MAIN" /\ x.node = k
  <2>1. yod[y].list \subseteq Node BY <1>a, <1>m DEF ShapeInv, YodRec
  <2> QED BY <2>1, <1>m DEF YodMsg
<1>1. ShapeInv' BY <1>a, <1>l, <1>x, <1>g DEF ShapeInv
<1>2. YodInv' BY <1>a, <1>l DEF YodInv
<1>3. MsgInv'
  <2> SUFFICES ASSUME NEW x \in fromYod' PROVE MsgInv!(x)' BY DEF MsgInv
  <2>1. CASE x \in fromYod BY <2>1, <1>a, <1>l DEF MsgInv
  <2>2. CASE \E k \in yod[y].list : x = [m EXCEPT !.node = k] BY <2>2, <1>g, <1>j, <1>l
  <2> QED BY <2>1, <2>2, <1>x
<1>4. HostInv'
  <2> SUFFICES ASSUME NEW k \in Node, pct'[k].phase # "idle" PROVE HostInv!(k)' BY DEF HostInv
  <2>1. CASE k = n
    <3>1. q.phase # "idle" /\ q.job_id = m.job /\ q.yod_id = y BY <2>1, <1>p, <1>q, <1>h, <1>i
    <3>2. pct'[k] = q /\ yod' = yod BY <2>1, <1>q, <1>l
    <3> QED BY <2>1, <3>1, <3>2, <1>h, <1>i, <1>j, <1>m
  <2>2. CASE k # n BY <2>2, <1>a, <1>q, <1>l DEF HostInv
  <2> QED BY <2>1, <2>2
<1>5. NumberInv' BY <1>a, <1>l DEF NumberInv, Served
<1>6. QueueInv' BY <1>l, QueueKept
<1> QED BY <1>q, <1>1, <1>2, <1>3, <1>4, <1>5, <1>6 DEF IInv

\* A yod goes on, or gives up, and sends messages to its nodes.
LEMMA YodGoesOn ==
  ASSUME IInv, NEW y \in Yod, NEW c \in {"init", "load", "run", "over"}, NEW M,
         c # "over" \/ M # {} => yod[y].job # INVAL,
         yod' = [yod EXCEPT ![y].pc = c], UNCHANGED <<pct, bebopd, req, grants, loads>>,
         fromYod' = fromYod \cup M,
         \A x \in M : /\ x \in [type : {"INIT_LOAD", "GO_MAIN", "ABORT_RESET"}, yod : {y},
                                job : {yod[y].job}, node : yod[y].list]
                      /\ x.type = "INIT_LOAD" => yod[y].pc = "granted"
                      /\ x.type = "GO_MAIN" => yod[y].ready = yod[y].list
  PROVE  IInv'
<1> DEFINE r == [yod[y] EXCEPT !.pc = c]
<1>a. PctInv /\ ShapeInv /\ YodInv /\ MsgInv /\ HostInv /\ NumberInv BY DEF IInv
<1>y. /\ yod[y] \in YodRec /\ r \in YodRec /\ r.pc = c /\ r.job = yod[y].job
      /\ r.list = yod[y].list /\ r.ready = yod[y].ready /\ r.pulled = yod[y].pulled
  BY <1>a DEF ShapeInv, YodRec
<1>v. yod' \in [Yod -> YodRec] /\ yod'[y] = r /\ \A z \in Yod : z # y => yod'[z] = yod[z]
  <2>1. yod' = [yod EXCEPT ![y] = r] OBVIOUS
  <2> QED BY <1>a, <1>y, <2>1, YodUpdate
<1> HIDE DEF r
<1>m. \A x \in M : x \in YodMsg /\ x.yod = y /\ x.job = yod[y].job /\ x.node \in yod[y].list
  BY <1>y DEF YodMsg, YodRec, JobIDs
<1>1. ShapeInv' BY <1>a, <1>v, <1>m DEF ShapeInv
<1>2. YodInv'
  <2> SUFFICES ASSUME NEW z \in Yod PROVE YodInv!(z)' BY DEF YodInv
  <2>0. YodInv!(z) BY <1>a DEF YodInv
  <2>1. CASE z = y BY <2>0, <2>1, <1>v, <1>y
  <2>2. CASE z # y BY <2>0, <2>2, <1>v
  <2> QED BY <2>1, <2>2
<1>3. MsgInv'
  <2> SUFFICES ASSUME NEW x \in fromYod \cup M PROVE MsgInv!(x)' BY DEF MsgInv
  <2>1. CASE x \in fromYod
    <3>0. MsgInv!(x) /\ x.yod \in Yod BY <2>1, <1>a DEF MsgInv, ShapeInv, YodMsg
    <3> QED BY <3>0, <1>v, <1>y
  <2>2. CASE x \in M
    <3>1. x.type = "INIT_LOAD" => <<x.node, x.job>> \notin loads
      <4>1. yod[y].list \subseteq Node BY <1>y DEF YodRec
      <4> QED BY <4>1, <2>2, <1>m, <1>a DEF YodInv
    <3> QED BY <3>1, <2>2, <1>m, <1>v, <1>y
  <2> QED BY <2>1, <2>2
<1>4. HostInv'
  <2> SUFFICES ASSUME NEW k \in Node, pct[k].phase # "idle" PROVE HostInv!(k)' BY DEF HostInv
  <2>0. HostInv!(k) BY <1>a DEF HostInv
  <2> QED BY <2>0, <1>v, <1>y
<1>5. NumberInv' BY <1>a DEF NumberInv, Served
<1>6. QueueInv' BY <1>v, <1>y, QueueKept
<1>7. PctInv' BY <1>a DEF PctInv
<1> QED BY <1>1, <1>2, <1>3, <1>4, <1>5, <1>6, <1>7 DEF IInv

\* The same without messages.
LEMMA YodMoves ==
  ASSUME IInv, NEW y \in Yod, NEW c \in {"init", "load", "run", "over"},
         c # "over" => yod[y].job # INVAL,
         yod' = [yod EXCEPT ![y].pc = c], UNCHANGED <<pct, bebopd, req, grants, loads, fromYod>>
  PROVE  IInv'
<1> DEFINE M == {}
<1>1. fromYod' = fromYod \cup M /\ M = {} /\ \A x \in M : FALSE OBVIOUS
<1> HIDE DEF M
<1> QED BY <1>1, YodGoesOn

\* The messages of yod name their node and job.
LEMMA YodToShape ==
  ASSUME NEW y \in Yod, NEW t \in {"INIT_LOAD", "GO_MAIN", "ABORT_RESET"}, NEW x \in YodTo(y, t)
  PROVE  /\ x \in [type : {"INIT_LOAD", "GO_MAIN", "ABORT_RESET"}, yod : {y},
                   job : {yod[y].job}, node : yod[y].list]
         /\ x.type = t
  BY DEF YodTo

\* Every step of yod after its request preserves the invariant.
LEMMA YodStepsInv ==
  ASSUME IInv, NEW y \in Yod,
         \/ YodInitLoad(y) \/ YodLoading(y) \/ YodGoMain(y) \/ YodFinish(y)
         \/ YodForceKill(y) \/ YodGiveUp(y) \/ YodInitTimeout(y)
  PROVE  IInv'
<1>j. yod[y].pc \in {"granted", "init", "load", "run"} => yod[y].job # INVAL BY DEF IInv, YodInv
<1>1. CASE YodInitLoad(y)
  <2> DEFINE M == YodTo(y, "INIT_LOAD")
  <2>1. \A x \in M : x \in [type : {"INIT_LOAD", "GO_MAIN", "ABORT_RESET"}, yod : {y},
                            job : {yod[y].job}, node : yod[y].list] /\ x.type = "INIT_LOAD"
    BY YodToShape
  <2> HIDE DEF M
  <2>2. yod[y].pc = "granted" /\ yod' = [yod EXCEPT ![y].pc = "init"] /\ fromYod' = fromYod \cup M
        /\ UNCHANGED <<pct, bebopd, req, grants, loads>>
    BY <1>1 DEF YodInitLoad, history, M
  <2> QED BY <2>1, <2>2, <1>j, YodGoesOn
<1>2. CASE YodLoading(y) BY <1>2, <1>j, YodMoves DEF YodLoading, history
<1>3. CASE YodGoMain(y)
  <2> DEFINE M == {x \in YodTo(y, "GO_MAIN") : x.node = Root(y)}
  <2>1. \A x \in M : x \in [type : {"INIT_LOAD", "GO_MAIN", "ABORT_RESET"}, yod : {y},
                            job : {yod[y].job}, node : yod[y].list] /\ x.type = "GO_MAIN"
    BY YodToShape
  <2> HIDE DEF M
  <2>2. yod[y].pc = "load" /\ yod' = [yod EXCEPT ![y].pc = "run"] /\ fromYod' = fromYod \cup M
        /\ yod[y].ready = yod[y].list /\ UNCHANGED <<pct, bebopd, req, grants, loads>>
    BY <1>3 DEF YodGoMain, history, M
  <2> QED BY <2>1, <2>2, <1>j, YodGoesOn
<1>4. CASE YodForceKill(y)
  <2> DEFINE M == YodTo(y, "ABORT_RESET")
  <2>1. \A x \in M : x \in [type : {"INIT_LOAD", "GO_MAIN", "ABORT_RESET"}, yod : {y},
                            job : {yod[y].job}, node : yod[y].list] /\ x.type = "ABORT_RESET"
    BY YodToShape
  <2> HIDE DEF M
  <2>2. yod[y].pc \in {"load", "run"} /\ yod' = [yod EXCEPT ![y].pc = "over"]
        /\ fromYod' = fromYod \cup M /\ UNCHANGED <<pct, bebopd, req, grants, loads>>
    BY <1>4 DEF YodForceKill, history, M
  <2> QED BY <2>1, <2>2, <1>j, YodGoesOn
<1>5. CASE YodFinish(y) BY <1>5, YodMoves DEF YodFinish, history
<1>6. CASE YodGiveUp(y) BY <1>6, YodMoves DEF YodGiveUp, history
<1>7. CASE YodInitTimeout(y) BY <1>7, YodMoves DEF YodInitTimeout, history
<1> QED BY <1>1, <1>2, <1>3, <1>4, <1>5, <1>6, <1>7
=============================================================================
