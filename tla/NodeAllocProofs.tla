-------------------------- MODULE NodeAllocProofs ---------------------------
(***************************************************************************)
(* Theorems about node allocation, for any number of nodes and yods, any   *)
(* requests and any number of faults, while bebopd is not restarted: IInv  *)
(* is an inductive invariant of Spec; job numbers are unique, the next one *)
(* is in use nowhere, and a process runs only in a fully loaded job; a job *)
(* is reset only by its own yod; and the PCTs, bebopd and the yods         *)
(* implement the exclusive ownership of nodes of NodeOwnership.            *)
(***************************************************************************)
EXTENDS NodeAllocStepProofs

(***************************************************************************)
(* The steps of bebopd                                                     *)
(***************************************************************************)
\* There are at most as many yods to serve as job numbers left.
LEMMA NumbersLeft ==
  ASSUME IInv
  PROVE  /\ IsFiniteSet(Served) /\ Served \subseteq Yod /\ Cardinality(Served) \in Nat
         /\ bebopd.prevJobID \in Nat /\ bebopd.prevJobID <= LASTJOBID
<1>1. Served \subseteq Yod BY DEF IInv, ShapeInv, Served, Grant
<1>2. IsFiniteSet(Yod) BY EnoughNumbers
<1>3. /\ IsFiniteSet(Served) /\ Cardinality(Served) <= Cardinality(Yod)
      /\ Cardinality(Served) \in Nat /\ Cardinality(Yod) \in Nat
  BY <1>1, <1>2, FS_Subset, FS_CardinalityType
<1>4. bebopd.prevJobID = FIRSTJOBID + Cardinality(Served) BY DEF IInv, NumberInv
<1> QED BY <1>1, <1>3, <1>4, JobIdAssumption, EnoughNumbers

\* What the answer "no" changes in a yod (answer_yod_requests).
LEMMA RefusedOK ==
  ASSUME NEW q \in YodRec
  PROVE  LET r == [q EXCEPT !.pc = "over"]
         IN  /\ r \in YodRec /\ r.pc = "over" /\ r.job = q.job
             /\ r.list = q.list /\ r.ready = q.ready /\ r.pulled = q.pulled
BY DEF YodRec

\* A request leaves the queue, and the answer is "no" or is put off.
LEMMA BebopdRequestInv == ASSUME IInv, BebopdRequest PROVE IInv'
<1> DEFINE y == Head(req)
<1>a. PctInv /\ ShapeInv /\ YodInv /\ MsgInv /\ HostInv /\ NumberInv /\ QueueInv BY DEF IInv
<1>r. /\ req \in Seq(Yod) /\ req # <<>> /\ req' = Tail(req) /\ bebopd.pc = "idle"
      /\ UNCHANGED <<pct, fromYod, grants, loads>>
  BY <1>a DEF ShapeInv, BebopdRequest, history
<1>q. /\ y \in Yod /\ req' \in Seq(Yod) /\ y = req[1] /\ Len(req) \in Nat /\ Len(req) >= 1
      /\ Len(req') = Len(req) - 1 /\ \A i \in 1..Len(req') : req'[i] = req[i + 1]
  BY <1>r, HeadTailProperties
<1>t. /\ \A i \in 1..Len(req') : req'[i] \in Yod /\ yod[req'[i]].pc # "start" /\ req'[i] \notin Served
      /\ \A i \in 1..Len(req') : req'[i] # y
      /\ \A i, j \in 1..Len(req') : req'[i] = req'[j] => i = j
      /\ yod[y].pc # "start" /\ y \notin Served
  BY <1>a, <1>r, <1>q DEF QueueInv
<1>s. Served' = Served /\ \A z \in Served : z \in Yod BY <1>r, NumbersLeft DEF Served
<1> HIDE DEF y
<1>1. CASE yod' = Answer(y, [yod[y] EXCEPT !.pc = "over"]) /\ UNCHANGED bebopd
  <2> DEFINE c == "over"
  <2>1. \/ yod' = yod
        \/ yod' = [yod EXCEPT ![y] = [yod[y] EXCEPT !.pc = c]] /\ yod[y].pc = "asked"
    BY <1>1, Zenon DEF Answer
  <2>2. /\ YodInv' /\ MsgInv' /\ HostInv' /\ yod' \in [Yod -> YodRec]
        /\ \A z \in Yod : yod[z].pc # "start" => yod'[z].pc # "start"
    <3>1. CASE yod' = yod BY <3>1, <1>a, <1>r DEF YodInv, MsgInv, HostInv, ShapeInv
    <3>2. CASE yod' = [yod EXCEPT ![y] = [yod[y] EXCEPT !.pc = c]] /\ yod[y].pc = "asked"
      <4> DEFINE r == [yod[y] EXCEPT !.pc = c]
      <4>y. /\ yod[y] \in YodRec /\ r \in YodRec /\ r.pc = c /\ r.job = yod[y].job
            /\ r.list = yod[y].list /\ r.ready = yod[y].ready /\ r.pulled = yod[y].pulled
        <5>1. yod[y] \in YodRec BY <1>a, <1>q DEF ShapeInv
        <5> QED BY <5>1, RefusedOK, Zenon
      <4>v. yod' \in [Yod -> YodRec] /\ yod'[y] = r /\ \A z \in Yod : z # y => yod'[z] = yod[z]
        <5>1. yod' = [yod EXCEPT ![y] = r] BY <3>2
        <5> QED BY <1>a, <1>q, <4>y, <5>1, YodUpdate
      <4> HIDE DEF r
      <4>1. YodInv'
        <5> SUFFICES ASSUME NEW z \in Yod PROVE YodInv!(z)' BY DEF YodInv
        <5>0. YodInv!(z) BY <1>a DEF YodInv
        <5> QED BY <5>0, <4>v, <4>y, <1>r
      <4>2. MsgInv'
        <5> SUFFICES ASSUME NEW x \in fromYod PROVE MsgInv!(x)' BY <1>r DEF MsgInv
        <5>0. MsgInv!(x) /\ x.yod \in Yod BY <1>a DEF MsgInv, ShapeInv, YodMsg
        <5> QED BY <5>0, <4>v, <4>y, <1>r
      <4>3. HostInv'
        <5> SUFFICES ASSUME NEW k \in Node, pct[k].phase # "idle" PROVE HostInv!(k)' BY <1>r DEF HostInv
        <5>0. HostInv!(k) BY <1>a DEF HostInv
        <5> QED BY <5>0, <4>v, <4>y, <1>r
      <4> QED BY <4>1, <4>2, <4>3, <4>v, <4>y
    <3> QED BY <2>1, <3>1, <3>2
  <2>3. QueueInv' BY <2>2, <1>1, <1>t, <1>s, <1>r, <1>a DEF QueueInv
  <2> QED BY <2>2, <2>3, <1>1, <1>a, <1>r, <1>q, <1>s
      DEF IInv, PctInv, ShapeInv, NumberInv
<1>2. ASSUME NEW L \in Choices(y), NEW failed \in SUBSET L, UNCHANGED yod,
             Solicit(L, failed, "YOD", y, NextJobID)
      PROVE  IInv'
  <2>1. L \subseteq Node BY DEF Choices
  <2>2. NextJobID = bebopd.prevJobID + 1 /\ bebopd.prevJobID \in Nat /\ NextJobID \in JobIDs
    BY NumbersLeft, JobIdAssumption DEF NextJobID, JobIDs
  <2>3. /\ bebopd' \in BebopdRec /\ bebopd'.pc = "solicit" /\ bebopd'.yod = y
        /\ bebopd'.jobID = bebopd.prevJobID + 1 /\ bebopd'.prevJobID = bebopd.prevJobID
    BY <1>2, <2>1, <2>2, <1>a, <1>q DEF Solicit, ShapeInv, BebopdRec
  <2>4. QueueInv'
    <3>1. \A z \in Served : yod[z].pc # "start" BY <1>a DEF QueueInv
    <3> QED BY <2>3, <3>1, <1>2, <1>t, <1>s DEF QueueInv
  <2>5. NumberInv' BY <2>3, <1>a, <1>r, <1>s DEF NumberInv
  <2> QED BY <2>3, <2>4, <2>5, <1>2, <1>a, <1>r, <1>q
      DEF IInv, PctInv, ShapeInv, YodInv, MsgInv, HostInv
<1> QED BY <1>1, <1>2, Zenon DEF BebopdRequest, y

\* bebopd has waited for the PCTs and answers yod: the number it hands out is
\* new, and so is the yod.
LEMMA BebopdAllocateInv == ASSUME IInv, BebopdAllocate PROVE IInv'
<1> DEFINE y == bebopd.yod
           j == bebopd.jobID
           L == bebopd.list
           g == [job |-> j, yod |-> y, nodes |-> L]
<1>a. PctInv /\ ShapeInv /\ YodInv /\ MsgInv /\ HostInv /\ NumberInv /\ QueueInv BY DEF IInv
<1>b. /\ bebopd \in BebopdRec /\ bebopd.pc = "solicit" /\ y # INVAL /\ y \in Yod /\ L \subseteq Node
      /\ bebopd.prevJobID \in Nat /\ j = bebopd.prevJobID + 1 /\ j \in Nat /\ j # INVAL
  BY <1>a, JobIdAssumption DEF BebopdAllocate, ShapeInv, BebopdRec, NumberInv
<1>u. UNCHANGED <<fromYod, req, loads>> BY DEF BebopdAllocate
<1>y. yod[y] \in YodRec /\ y \notin Served /\ yod[y].pc # "start"
  BY <1>a, <1>b DEF ShapeInv, QueueInv
<1>p. /\ PctInv'
      /\ \A k \in Node : /\ pct'[k].phase = pct[k].phase /\ pct'[k].job_id = pct[k].job_id
                         /\ pct'[k].yod_id = pct[k].yod_id
  <2>1. pct' = [n \in Node |-> IF pct[n].clock = "new" THEN [pct[n] EXCEPT !.clock = "on"] ELSE pct[n]]
    BY DEF BebopdAllocate
  <2>2. ASSUME NEW k \in Node
        PROVE  /\ PctOK(pct'[k]) /\ pct'[k].phase = pct[k].phase /\ pct'[k].job_id = pct[k].job_id
               /\ pct'[k].yod_id = pct[k].yod_id
    <3>1. PctOK(pct[k]) BY <1>a DEF PctInv
    <3> QED BY <2>1, <3>1 DEF PctOK, PctFields
  <2> QED BY <2>1, <2>2 DEF PctInv
<1>q. \A i \in 1..Len(req) : req[i] \in Yod /\ req[i] # y BY <1>a, <1>b DEF QueueInv, ShapeInv
<1>s. Served \subseteq Yod /\ IsFiniteSet(Served) /\ Cardinality(Served) \in Nat BY NumbersLeft
<1>1. CASE /\ bebopd' = Idle(j)
           /\ yod' = Answer(y, [yod[y] EXCEPT !.pc = "granted", !.job = j, !.list = L])
           /\ grants' = grants \cup {g}
  <2> DEFINE r == [yod[y] EXCEPT !.pc = "granted", !.job = j, !.list = L]
  <2>b. bebopd' \in BebopdRec /\ bebopd'.pc = "idle" /\ bebopd'.prevJobID = j
    BY <1>1, <1>b DEF Idle, BebopdRec, JobIDs
  <2>g. g \in Grant /\ g.job = j /\ g.yod = y BY <1>b DEF Grant
  <2>v. /\ yod' \in [Yod -> YodRec] /\ \A z \in Yod : z # y => yod'[z] = yod[z]
        /\ yod'[y] = yod[y] \/ /\ yod[y].pc = "asked" /\ yod'[y].pc = "granted" /\ yod'[y].job = j
                               /\ yod'[y].list = L /\ yod'[y].pulled = yod[y].pulled
                               /\ yod'[y].ready = yod[y].ready
    <3>1. r \in YodRec /\ r.pc = "granted" /\ r.job = j /\ r.list = L /\ r.pulled = yod[y].pulled
          /\ r.ready = yod[y].ready
      BY <1>y, <1>b DEF YodRec, JobIDs
    <3> HIDE DEF r, y
    <3>2. CASE yod' = yod BY <3>2, <1>a DEF ShapeInv
    <3>3. CASE yod[y].pc = "asked" /\ yod' = [yod EXCEPT ![y] = r]
      <4>1. yod' \in [Yod -> YodRec] /\ yod'[y] = r /\ \A z \in Yod : z # y => yod'[z] = yod[z]
        BY <3>1, <3>3, <1>a, <1>b, YodUpdate
      <4> QED BY <4>1, <3>1, <3>3
    <3> QED BY <3>2, <3>3, <1>1 DEF Answer, r
  <2>s. Served' = Served \cup {y} BY <1>1, <2>g DEF Served
  <2> HIDE DEF g, r, y, j, L
  <2>h. g = [job |-> j, yod |-> y, nodes |-> L] BY DEF g
  <2>1. ShapeInv' BY <1>a, <1>1, <2>b, <2>v, <2>g, <1>u DEF ShapeInv
  <2>2. YodInv'
    <3> SUFFICES ASSUME NEW z \in Yod PROVE YodInv!(z)' BY DEF YodInv
    <3>0. YodInv!(z) BY <1>a DEF YodInv
    <3>1. CASE yod'[z] = yod[z] BY <3>0, <3>1, <1>1, <1>u
    <3>2. CASE yod'[z] # yod[z]
      <4>1. z = y BY <3>2, <2>v
      <4>2. \A n \in Node : <<n, j>> \notin loads
        <5>1. \A l \in loads : l[2] <= bebopd.prevJobID BY <1>a DEF NumberInv
        <5> QED BY <5>1, <1>b
      <4> QED BY <4>1, <4>2, <3>2, <3>0, <2>v, <2>h, <1>1, <1>u, <1>b
    <3> QED BY <3>1, <3>2
  <2>3. MsgInv'
    <3> SUFFICES ASSUME NEW x \in fromYod PROVE MsgInv!(x)' BY <1>u DEF MsgInv
    <3>0. MsgInv!(x) /\ x.yod \in Yod /\ x.job \in Nat BY <1>a DEF MsgInv, ShapeInv, YodMsg
    <3>1. yod'[x.yod] = yod[x.yod]
      <4>1. yod[x.yod].pc # "asked" BY <3>0, <1>a, JobIdAssumption DEF YodInv
      <4> QED BY <4>1, <3>0, <2>v
    <3> QED BY <3>0, <3>1, <1>u
  <2>4. HostInv'
    <3> SUFFICES ASSUME NEW k \in Node, pct[k].phase # "idle" PROVE HostInv!(k)' BY <1>p DEF HostInv
    <3>0. HostInv!(k) BY <1>a DEF HostInv
    <3>1. yod'[pct[k].yod_id] = yod[pct[k].yod_id]
      <4>1. yod[pct[k].yod_id].pc # "asked" BY <3>0, <1>a, JobIdAssumption DEF YodInv
      <4> QED BY <4>1, <3>0, <2>v
    <3> QED BY <3>0, <3>1, <1>p
  <2>5. NumberInv'
    <3>1. Cardinality(Served') = Cardinality(Served) + 1 BY <2>s, <1>s, <1>y, FS_AddElement DEF y
    <3>2. \A h \in grants : h.job \in Nat /\ FIRSTJOBID <= h.job /\ h.job <= bebopd.prevJobID
      BY <1>a DEF NumberInv, ShapeInv, Grant
    <3>3. bebopd.prevJobID = FIRSTJOBID + Cardinality(Served) BY <1>a DEF NumberInv
    <3>4. \A h \in grants' : FIRSTJOBID <= h.job /\ h.job <= bebopd'.prevJobID
      BY <3>2, <3>3, <1>1, <1>b, <1>s, <2>b, <2>g, JobIdAssumption
    <3>5. \A l \in loads' : l[2] <= bebopd'.prevJobID
      <4>1. \A l \in loads : l[2] \in Nat /\ l[2] <= bebopd.prevJobID BY <1>a DEF NumberInv, ShapeInv
      <4> QED BY <4>1, <1>u, <1>b, <2>b
    <3>6. \A f, h \in grants' : f.job = h.job => f = h
      <4>1. \A f, h \in grants : f.job = h.job => f = h BY <1>a DEF NumberInv
      <4>2. \A h \in grants : h.job # g.job BY <3>2, <1>b, <2>g
      <4> QED BY <4>1, <4>2, <1>1
    <3>7. bebopd'.prevJobID = FIRSTJOBID + Cardinality(Served')
      BY <3>1, <3>3, <1>b, <1>s, <2>b, JobIdAssumption
    <3> QED BY <3>4, <3>5, <3>6, <3>7, <2>b DEF NumberInv
  <2>6. QueueInv'
    <3>1. \A z \in Yod : yod[z].pc # "start" => yod'[z].pc # "start" BY <2>v
    <3>2. \A z \in Served' : z \in Yod /\ yod[z].pc # "start"
      BY <2>s, <1>s, <1>y, <1>b, <1>a DEF QueueInv, y
    <3>3. \A i \in 1..Len(req) : req[i] \in Yod /\ yod[req[i]].pc # "start" /\ req[i] \notin Served'
      BY <1>q, <2>s, <1>a DEF QueueInv
    <3>4. \A i, k \in 1..Len(req) : req[i] = req[k] => i = k BY <1>a DEF QueueInv
    <3> QED BY <3>1, <3>2, <3>3, <3>4, <2>b, <1>u DEF QueueInv
  <2> QED BY <2>1, <2>2, <2>3, <2>4, <2>5, <2>6, <1>p DEF IInv
<1>2. CASE /\ bebopd' = Idle(bebopd.prevJobID)
           /\ yod' = Answer(y, [yod[y] EXCEPT !.pc = "over"])
           /\ UNCHANGED grants
  <2> DEFINE r == [yod[y] EXCEPT !.pc = "over"]
  <2>b. bebopd' \in BebopdRec /\ bebopd'.pc = "idle" /\ bebopd'.prevJobID = bebopd.prevJobID
    BY <1>2, <1>b DEF Idle, BebopdRec, JobIDs
  <2>v. /\ yod' \in [Yod -> YodRec]
        /\ \A z \in Yod : /\ yod'[z].job = yod[z].job /\ yod'[z].list = yod[z].list
                          /\ yod'[z].pulled = yod[z].pulled /\ yod'[z].ready = yod[z].ready
                          /\ yod'[z].pc = yod[z].pc \/ yod'[z].pc = "over"
    <3>1. /\ r \in YodRec /\ r.pc = "over" /\ r.job = yod[y].job /\ r.list = yod[y].list
          /\ r.pulled = yod[y].pulled /\ r.ready = yod[y].ready
      BY <1>y DEF YodRec
    <3> HIDE DEF r, y
    <3>2. CASE yod' = yod BY <3>2, <1>a DEF ShapeInv
    <3>3. CASE yod' = [yod EXCEPT ![y] = r]
      <4>1. yod' \in [Yod -> YodRec] /\ yod'[y] = r /\ \A z \in Yod : z # y => yod'[z] = yod[z]
        BY <3>1, <3>3, <1>a, <1>b, YodUpdate
      <4> QED BY <4>1, <3>1
    <3> QED BY <3>2, <3>3, <1>2 DEF Answer, r
  <2> HIDE DEF r, y
  <2>1. ShapeInv' BY <1>a, <1>2, <2>b, <2>v, <1>u DEF ShapeInv
  <2>2. YodInv'
    <3> SUFFICES ASSUME NEW z \in Yod PROVE YodInv!(z)' BY DEF YodInv
    <3>0. YodInv!(z) BY <1>a DEF YodInv
    <3> QED BY <3>0, <2>v, <1>2, <1>u
  <2>3. MsgInv'
    <3> SUFFICES ASSUME NEW x \in fromYod PROVE MsgInv!(x)' BY <1>u DEF MsgInv
    <3>0. MsgInv!(x) /\ x.yod \in Yod BY <1>a DEF MsgInv, ShapeInv, YodMsg
    <3> QED BY <3>0, <2>v, <1>u
  <2>4. HostInv'
    <3> SUFFICES ASSUME NEW k \in Node, pct[k].phase # "idle" PROVE HostInv!(k)' BY <1>p DEF HostInv
    <3>0. HostInv!(k) BY <1>a DEF HostInv
    <3> QED BY <3>0, <2>v, <1>p
  <2>5. NumberInv' BY <1>a, <2>b, <1>2, <1>u DEF NumberInv, Served
  <2>6. QueueInv'
    <3>1. \A z \in Yod : yod[z].pc # "start" => yod'[z].pc # "start" BY <2>v
    <3>2. Served' = Served BY <1>2 DEF Served
    <3> QED BY <3>1, <3>2, <2>b, <1>q, <1>s, <1>u, <1>a DEF QueueInv
  <2> QED BY <2>1, <2>2, <2>3, <2>4, <2>5, <2>6, <1>p DEF IInv
<1> QED BY <1>1, <1>2, Zenon DEF BebopdAllocate

\* bebopd starts or ends a round of pings.
LEMMA BebopdPingInv == ASSUME IInv, BebopdPing \/ BebopdPingDone PROVE IInv'
<1>a. PctInv /\ ShapeInv /\ YodInv /\ MsgInv /\ HostInv /\ NumberInv /\ QueueInv BY DEF IInv
<1>u. UNCHANGED <<pct, yod, fromYod, req, grants, loads>> BY DEF BebopdPing, BebopdPingDone, history
<1>b. /\ bebopd' \in BebopdRec /\ bebopd'.prevJobID = bebopd.prevJobID
      /\ bebopd'.pc = "idle" \/ bebopd'.yod = INVAL
  <2>1. ASSUME NEW targets \in SUBSET Node, NEW failed \in SUBSET targets,
               Solicit(targets, failed, "PING", INVAL, INVAL)
        PROVE  /\ bebopd' \in BebopdRec /\ bebopd'.prevJobID = bebopd.prevJobID
               /\ bebopd'.pc = "idle" \/ bebopd'.yod = INVAL
    BY <2>1, <1>a DEF Solicit, ShapeInv, BebopdRec, JobIDs
  <2>2. CASE BebopdPing
    <3> DEFINE T(scan) == {n \in Node : IF scan THEN tab[n].status # "NO_STATUS"
                                              ELSE STATUS_TALKING(tab[n].status)}
    <3>1. \E scan \in BOOLEAN : \E failed \in SUBSET T(scan) :
            Solicit(T(scan), failed, "PING", INVAL, INVAL)
      BY <2>2, Zenon DEF BebopdPing
    <3>2. \A scan : T(scan) \in SUBSET Node OBVIOUS
    <3> HIDE DEF T
    <3> QED BY <3>1, <3>2, <2>1
  <2>3. CASE BebopdPingDone BY <2>3, <1>a DEF BebopdPingDone, Idle, ShapeInv, BebopdRec, JobIDs
  <2> QED BY <2>2, <2>3
<1>1. NumberInv' BY <1>a, <1>u, <1>b DEF NumberInv, Served
<1>2. QueueInv'
  <2>1. \A i \in 1..Len(req) : req[i] \in Yod BY <1>a DEF ShapeInv
  <2>2. Served' = Served BY <1>u DEF Served
  <2> QED BY <2>1, <2>2, <1>a, <1>u, <1>b, JobIdAssumption DEF QueueInv
<1> QED BY <1>1, <1>2, <1>a, <1>u, <1>b DEF IInv, PctInv, ShapeInv, YodInv, MsgInv, HostInv

\* yod asks for nodes: it is in no other queue.
LEMMA YodRequestInv == ASSUME IInv, NEW y \in Yod, YodRequest(y) PROVE IInv'
<1> DEFINE r == [yod[y] EXCEPT !.pc = "asked"]
<1>a. PctInv /\ ShapeInv /\ YodInv /\ MsgInv /\ HostInv /\ NumberInv /\ QueueInv BY DEF IInv
<1>u. /\ UNCHANGED <<pct, bebopd, fromYod, grants, loads>> /\ req' = Append(req, y)
      /\ yod[y].pc = "start"
  BY DEF YodRequest, history
<1>y. /\ yod[y] \in YodRec /\ r \in YodRec /\ r.pc = "asked" /\ r.job = yod[y].job
      /\ r.list = yod[y].list /\ r.ready = yod[y].ready /\ r.pulled = yod[y].pulled
  BY <1>a DEF ShapeInv, YodRec
<1>v. yod' \in [Yod -> YodRec] /\ yod'[y] = r /\ \A z \in Yod : z # y => yod'[z] = yod[z]
  <2>1. yod' = [yod EXCEPT ![y] = r] BY DEF YodRequest
  <2> QED BY <1>a, <1>y, <2>1, YodUpdate
<1> HIDE DEF r
<1>q. /\ req \in Seq(Yod) /\ req' \in Seq(Yod) /\ Len(req) \in Nat /\ Len(req') = Len(req) + 1
      /\ \A i \in 1..Len(req) : req'[i] = req[i]
      /\ req'[Len(req) + 1] = y
  BY <1>a, <1>u, AppendProperties DEF ShapeInv
<1>1. ShapeInv' BY <1>a, <1>u, <1>v, <1>q DEF ShapeInv
<1>2. YodInv'
  <2> SUFFICES ASSUME NEW z \in Yod PROVE YodInv!(z)' BY DEF YodInv
  <2>0. YodInv!(z) BY <1>a DEF YodInv
  <2> QED BY <2>0, <1>v, <1>y, <1>u
<1>3. MsgInv'
  <2> SUFFICES ASSUME NEW x \in fromYod PROVE MsgInv!(x)' BY <1>u DEF MsgInv
  <2>0. MsgInv!(x) /\ x.yod \in Yod BY <1>a DEF MsgInv, ShapeInv, YodMsg
  <2> QED BY <2>0, <1>v, <1>y, <1>u
<1>4. HostInv'
  <2> SUFFICES ASSUME NEW k \in Node, pct[k].phase # "idle" PROVE HostInv!(k)' BY <1>u DEF HostInv
  <2>0. HostInv!(k) BY <1>a DEF HostInv
  <2> QED BY <2>0, <1>v, <1>y, <1>u
<1>5. NumberInv' BY <1>a, <1>u DEF NumberInv, Served
<1>6. QueueInv'
  <2>1. \A z \in Yod : yod'[z].pc # "start" <=> (yod[z].pc # "start" \/ z = y) BY <1>v, <1>y, <1>u
  <2>2. Served' = Served /\ Served \subseteq Yod BY <1>u, NumbersLeft DEF Served
  <2>3. \A i \in 1..Len(req) : req[i] \in Yod /\ req[i] # y BY <1>a, <1>u, <1>q DEF QueueInv
  <2>4. y \notin Served /\ (bebopd.pc = "solicit" => bebopd.yod # y)
    BY <1>a, <1>u, JobIdAssumption DEF QueueInv
  <2>5. \A i \in 1..Len(req') : i \in 1..Len(req) \/ i = Len(req) + 1 BY <1>q
  <2>6. \A i, j \in 1..Len(req') : req'[i] = req'[j] => i = j
    BY <2>3, <2>5, <1>q, <1>a DEF QueueInv
  <2>7. \A i \in 1..Len(req') : /\ yod'[req'[i]].pc # "start" /\ req'[i] \notin Served'
                                /\ bebopd'.pc = "solicit" => req'[i] # bebopd'.yod
    BY <2>1, <2>2, <2>3, <2>4, <2>5, <1>q, <1>u, <1>a DEF QueueInv
  <2>8. bebopd.yod \in Yod \cup {INVAL} BY <1>a DEF ShapeInv, BebopdRec
  <2> QED BY <2>1, <2>2, <2>6, <2>7, <2>8, <1>u, <1>a DEF QueueInv
<1> QED BY <1>1, <1>2, <1>3, <1>4, <1>5, <1>6, <1>a, <1>u DEF IInv, PctInv

(***************************************************************************)
(* The inductive invariant                                                 *)
(***************************************************************************)
\* It holds when the daemons have started and no yod has asked for anything.
LEMMA InitInv == ASSUME Init PROVE IInv
<1>0. PICK s : Start(s) BY Zenon DEF Init
<1> USE <1>0
<1>1. PctInv
  <2>1. \A n \in Node : pct[n] = Registered \/ pct[n] = Off BY DEF Start
  <2>2. pct = [n \in Node |-> pct[n]] BY DEF Start
  <2> QED BY <2>1, <2>2, OffOK DEF PctInv
<1>2. \A n \in Node : pct[n].phase = "idle" BY OffOK DEF Start
<1>3. ShapeInv /\ YodInv
  <2>0. grants = {} /\ loads = {} /\ fromYod = {} /\ req = <<>> BY DEF Start
  <2>1. \A y \in Yod : /\ yod[y].pc \in {"start", "over"} /\ yod[y].job = INVAL
                       /\ yod[y].pulled = {} /\ yod[y].ready = {}
    BY DEF Start
  <2>2. yod \in [Yod -> YodRec] BY DEF Start, YodRec, JobIDs
  <2>3. bebopd \in BebopdRec BY JobIdAssumption DEF Start, Idle, BebopdRec, JobIDs
  <2>4. ShapeInv BY <2>0, <2>2, <2>3 DEF ShapeInv
  <2>5. YodInv BY <2>0, <2>1 DEF YodInv
  <2> QED BY <2>4, <2>5
<1>4. MsgInv /\ HostInv BY <1>2 DEF Start, MsgInv, HostInv
<1>5. Served = {} BY DEF Start, Served
<1>6. Cardinality(Served) = 0 BY <1>5, FS_EmptySet
<1>b. /\ bebopd.pc = "idle" /\ bebopd.prevJobID = FIRSTJOBID /\ grants = {} /\ loads = {}
      /\ req = <<>>
  BY DEF Start, Idle
<1>7. NumberInv BY <1>b, <1>6, JobIdAssumption DEF NumberInv
<1>8. QueueInv BY <1>b, <1>5 DEF QueueInv
<1> QED BY <1>1, <1>3, <1>4, <1>7, <1>8 DEF IInv

\* What a step can be, as far as the invariant is concerned.
LEMMA StepCases ==
  ASSUME IInv, [Next]_vars
  PROVE  \/ Quiet
         \/ \E n \in Node, m \in fromYod : Accepts(n, m) \/ Starts(n, m)
         \/ \E n \in Node : Joins(n)
         \/ BebopdRequest \/ BebopdAllocate \/ BebopdPing \/ BebopdPingDone
         \/ \E y \in Yod : \/ YodRequest(y) \/ YodInitLoad(y) \/ YodLoading(y) \/ YodGoMain(y)
                           \/ YodFinish(y) \/ YodForceKill(y) \/ YodGiveUp(y) \/ YodInitTimeout(y)
<1>1. CASE UNCHANGED vars
  <2>1. PctInv /\ ShapeInv BY DEF IInv
  <2>2. pct' = pct /\ yod' = yod /\ fromYod' = fromYod /\ UNCHANGED <<bebopd, req, grants, loads>>
    BY <1>1 DEF vars, history
  <2>3. PctQuiet BY <2>1, <2>2, NoNode
  <2> QED BY <2>1, <2>2, <2>3, YodsAlone DEF Quiet
<1>2. ASSUME NEW n \in Node, PctStep(n)
      PROVE  Quiet \/ Joins(n) \/ \E m \in fromYod : Accepts(n, m) \/ Starts(n, m)
  <2>1. CASE \E m \in fromYod : InitLoad(n, m) \/ GoMain(n, m)
    BY <2>1, InitLoadCases, GoMainCases
  <2>2. CASE GroupOk(n) BY <2>2, GroupOkCases
  <2>3. CASE PctResetRequest(n) BY <2>3, DoneQuiet
  <2>4. CASE \E m \in fromYod : AbortReset(n, m) BY <2>4, PctQuietSteps
  <2>5. CASE \/ PctInitialMsg(n) \/ ClockExpires(n) \/ NextIteration(n) \/ PendingTimeout(n)
             \/ GroupFail(n) \/ ExitReset(n) \/ PctGotcha(n) \/ PctStatusRequest(n)
             \/ PctReserveRequest(n)
    BY <2>5, PctQuietSteps
  <2> QED BY <1>2, <2>1, <2>2, <2>3, <2>4, <2>5, Zenon DEF PctStep
<1>3. ASSUME NEW n \in Node, \/ PctBoot(n) \/ ReportDone(n) \/ PctExit(n) \/ PctCrash(n)
                             \/ BebopdOperator(n) \/ BebopdGone(n) \/ BebopdUpdate(n)
      PROVE  Quiet
  BY <1>3, PctQuietSteps, BebopdQuietSteps, DoneQuiet
<1>4. CASE Next
  <2>1. CASE \E n \in Node : PctStep(n) BY <2>1, <1>2
  <2>2. CASE BebopdStep BY <2>2, <1>3, Zenon DEF BebopdStep
  <2>3. CASE \E y \in Yod : YodStep(y) BY <2>3, Zenon DEF YodStep
  <2>4. CASE Environment BY <2>4, <1>3, Zenon DEF Environment
  <2> QED BY <1>4, <2>1, <2>2, <2>3, <2>4 DEF Next
<1> QED BY <1>1, <1>4

\* Every step preserves the invariant.
LEMMA NextInv == ASSUME IInv, [Next]_vars PROVE IInv'
  BY StepCases, QuietInv, AcceptsInv, StartsInv, JoinsInv, BebopdRequestInv, BebopdAllocateInv,
     BebopdPingInv, YodRequestInv, YodStepsInv, Zenon

\* The invariant holds in every state, whatever the daemons, users and faults do.
THEOREM Invariant == Spec => []IInv
  BY InitInv, NextInv, PTL DEF Spec

(***************************************************************************)
(* What follows                                                            *)
(***************************************************************************)
\* A job number is given to one yod only.
THEOREM NumbersUnique == Spec => []JobIdsUnique
<1>1. ASSUME IInv PROVE JobIdsUnique BY <1>1 DEF IInv, NumberInv, JobIdsUnique
<1> QED BY <1>1, Invariant, PTL

\* The next number bebopd hands out is that of no job a node hosts.
THEOREM NumberAhead == Spec => []JobNumberAhead
<1>1. ASSUME IInv, NEW n \in Node, pct[n].phase # "idle" PROVE pct[n].job_id <= bebopd.prevJobID
  <2> DEFINE y == pct[n].yod_id
  <2>1. y \in Yod /\ pct[n].job_id = yod[y].job /\ yod[y].job # INVAL
    BY <1>1, JobIdAssumption DEF IInv, HostInv
  <2> HIDE DEF y
  <2>2. [job |-> yod[y].job, yod |-> y, nodes |-> yod[y].list] \in grants BY <1>1, <2>1 DEF IInv, YodInv
  <2> QED BY <1>1, <2>1, <2>2 DEF IInv, NumberInv
<1>2. ASSUME IInv PROVE JobNumberAhead BY <1>1, <1>2 DEF JobNumberAhead
<1> QED BY <1>2, Invariant, PTL

\* A process runs only when every node of its job's list has loaded the program
\* and said that it is ready.
THEOREM RunsWhenLoaded == Spec => []AllNodesLoaded
<1>1. ASSUME IInv, NEW n \in Node, pct[n].phase \in {"running", "exiting"}
      PROVE  \E g \in grants : /\ g.job = pct[n].job_id /\ g.yod = pct[n].yod_id /\ n \in g.nodes
                               /\ \A m \in g.nodes : <<m, g.job>> \in loads /\ m \in yod[g.yod].ready
  <2> DEFINE y == pct[n].yod_id
             g == [job |-> yod[y].job, yod |-> y, nodes |-> yod[y].list]
  <2>1. y \in Yod /\ pct[n].job_id = yod[y].job /\ yod[y].job # INVAL /\ n \in yod[y].list
        /\ yod[y].ready = yod[y].list
    BY <1>1, JobIdAssumption DEF IInv, HostInv
  <2>2. g \in grants BY <1>1, <2>1 DEF IInv, YodInv
  <2>3. \A m \in yod[y].list : <<m, yod[y].job>> \in loads /\ m \in yod[y].ready
    BY <1>1, <2>1 DEF IInv, YodInv
  <2>4. g.job = pct[n].job_id /\ g.yod = y /\ g.nodes = yod[y].list BY <2>1
  <2> QED BY <2>1, <2>2, <2>3, <2>4
<1>2. ASSUME IInv PROVE AllNodesLoaded BY <1>1, <1>2 DEF AllNodesLoaded
<1> QED BY <1>2, Invariant, PTL

(***************************************************************************)
(* A job is killed by its own yod                                          *)
(***************************************************************************)
\* The messages a step takes away without a trace: those of a PCT that is gone,
\* and the one a PCT handles.
LEMMA MessagesKept ==
  ASSUME IInv, [Next]_vars, NEW m \in fromYod, m \notin fromYod'
  PROVE  \/ m.node \in Node /\ pct'[m.node].status = "OFF"
         \/ m.type # "ABORT_RESET"
         \/ \E n \in Node : AbortReset(n, m)
<1>a. PctInv /\ ShapeInv /\ m.node \in Node BY DEF IInv, ShapeInv, YodMsg
<1>g. ASSUME NEW n \in Node, Gone(n) PROVE m.node \in Node /\ pct'[m.node].status = "OFF"
  <2>1. m.node = n BY <1>g DEF Gone
  <2>2. pct'[n] = Off BY <1>g, <1>a DEF Gone, PctInv
  <2> QED BY <2>1, <2>2 DEF Off
<1>1. CASE UNCHANGED vars BY <1>1 DEF vars
<1>2. ASSUME NEW n \in Node, PctStep(n)
      PROVE  \/ m.node \in Node /\ pct'[m.node].status = "OFF"
             \/ m.type # "ABORT_RESET"
             \/ AbortReset(n, m)
  <2>1. ASSUME NEW x \in fromYod, InitLoad(n, x) PROVE m.type # "ABORT_RESET"
    <3>1. fromYod' = fromYod \ {x} /\ x.type = "INIT_LOAD" BY <2>1, Zenon DEF InitLoad
    <3> QED BY <3>1
  <2>2. ASSUME NEW x \in fromYod, GoMain(n, x) PROVE m.type # "ABORT_RESET"
    <3>1. fromYod \ {x} \subseteq fromYod' /\ x.type = "GO_MAIN"
      BY <2>2, Zenon DEF GoMain
    <3> QED BY <3>1
  <2>3. ASSUME NEW x \in fromYod, AbortReset(n, x) PROVE AbortReset(n, m)
    <3>1. fromYod' = fromYod \ {x} BY <2>3, Zenon DEF AbortReset
    <3>2. m = x BY <3>1
    <3> QED BY <3>2, <2>3
  <2>4. CASE GroupOk(n)
    <3>1. fromYod' = fromYod \/ Gone(n) BY <2>4, Zenon DEF GroupOk
    <3> QED BY <3>1, <1>g
  <2>5. CASE \/ PctInitialMsg(n) \/ ClockExpires(n) \/ NextIteration(n) \/ PendingTimeout(n)
             \/ GroupFail(n) \/ ExitReset(n) \/ PctGotcha(n) \/ PctStatusRequest(n)
             \/ PctReserveRequest(n) \/ PctResetRequest(n)
    <3>1. fromYod' = fromYod
      BY <2>5, Zenon DEF PctInitialMsg, ClockExpires, NextIteration, PendingTimeout, GroupFail,
           ExitReset, PctGotcha, PctStatusRequest, PctReserveRequest, PctResetRequest
    <3> QED BY <3>1
  <2> QED BY <1>2, <2>1, <2>2, <2>3, <2>4, <2>5, Zenon DEF PctStep
<1>3. CASE BebopdStep
  <2>1. fromYod' = fromYod
    BY <1>3, Zenon DEF BebopdStep, BebopdUpdate, BebopdRequest, BebopdAllocate, BebopdPingDone
  <2> QED BY <2>1
<1>4. CASE \E y \in Yod : YodStep(y)
  <2>1. fromYod \subseteq fromYod'
    BY <1>4, Zenon DEF YodStep, YodInitLoad, YodLoading, YodGoMain, YodFinish
  <2> QED BY <2>1
<1>5. CASE Environment
  <2>1. (\E n \in Node : Gone(n)) \/ fromYod \subseteq fromYod'
    BY <1>5, Zenon DEF Environment, PctBoot, ReportDone, PctExit, PctCrash, BebopdOperator, BebopdGone,
         YodRequest, YodForceKill, YodGiveUp, YodInitTimeout, BebopdPing
  <2> QED BY <2>1, <1>g
<1> QED BY <1>1, <1>2, <1>3, <1>4, <1>5, Zenon DEF Next

\* A PCT that MSG_ABORT_RESET sets FREE hosted the job of the yod that sent it.
THEOREM OwnKill == Spec => KilledByOwner
<1>1. ASSUME IInv, [Next]_vars, NEW m \in fromYod \ fromYod',
             m.type = "ABORT_RESET", pct[m.node].phase # "idle", pct'[m.node].status = "FREE"
      PROVE  pct[m.node].yod_id = m.yod
  <2>1. PICK n \in Node : AbortReset(n, m) BY <1>1, MessagesKept
  <2>2. m.node = n /\ (ForThisJob(pct[n], m) \/ pct' = pct) BY <2>1, Zenon DEF AbortReset
  <2>3. pct[n].status = "BUSY" BY <1>1, <2>2 DEF IInv, PctInv, PctOK
  <2>4. ForThisJob(pct[n], m) BY <1>1, <2>2, <2>3
  <2>5. /\ m.yod \in Yod /\ m.job \in Nat /\ m.job = yod[m.yod].job /\ m.job = pct[n].job_id
        /\ pct[n].yod_id \in Yod /\ pct[n].job_id = yod[pct[n].yod_id].job
    BY <1>1, <2>2, <2>4 DEF IInv, ShapeInv, YodMsg, MsgInv, HostInv, ForThisJob
  <2> QED BY <1>1, <2>2, <2>5, OneYod, JobIdAssumption
<1>2. IInv /\ [Next]_vars =>
        [\A m \in fromYod \ fromYod' :
           m.type = "ABORT_RESET" /\ pct[m.node].phase # "idle" /\ pct'[m.node].status = "FREE"
             => pct[m.node].yod_id = m.yod]_vars
  BY <1>1
<1> QED BY <1>2, Invariant, PTL DEF Spec, KilledByOwner

(***************************************************************************)
(* The daemons implement exclusive ownership                               *)
(***************************************************************************)
\* A step that keeps or drops the job of at most one PCT is a GiveBack or no
\* step of NodeOwnership.
LEMMA QuietOwns ==
  ASSUME IInv, PctQuiet, UNCHANGED <<grants, loads>>
  PROVE  [Own!OwnNext]_(Own!ownership)
<1>1. given' = given BY DEF given
<1>2. \A k \in Node : host'[k] = host[k] \/ (host'[k] = INVAL /\ pct'[k] # pct[k])
  BY DEF PctQuiet, Kept, host
<1>3. host = [k \in Node |-> host[k]] /\ host' = [k \in Node |-> host'[k]] BY DEF host
<1>4. CASE \A k \in Node : host'[k] = host[k]
  <2>1. host' = host BY <1>3, <1>4
  <2> QED BY <2>1, <1>1 DEF Own!ownership
<1>5. CASE \E n \in Node : host'[n] # host[n]
  <2>1. PICK n \in Node : host'[n] # host[n] BY <1>5
  <2>2. host'[n] = INVAL /\ host[n] # INVAL BY <2>1, <1>2
  <2>3. \A k \in Node : k # n => host'[k] = host[k]
    <3>1. pct'[n] # pct[n] BY <2>1, <1>2
    <3> QED BY <3>1, <1>2 DEF PctQuiet
  <2>4. host' = [host EXCEPT ![n] = INVAL] BY <2>2, <2>3, <1>3
  <2>5. Own!GiveBack(n) BY <2>2, <2>4, <1>1 DEF Own!GiveBack
  <2> QED BY <2>5 DEF Own!OwnNext
<1> QED BY <1>4, <1>5

\* Accepting a load is taking a node that was given to the job.
LEMMA AcceptsOwns ==
  ASSUME IInv, NEW n \in Node, NEW m, Accepts(n, m)
  PROVE  [Own!OwnNext]_(Own!ownership)
<1> DEFINE y == m.yod
           h == [job |-> m.job, nodes |-> yod[y].list]
<1>1. /\ m \in fromYod /\ m.node = n /\ m.type = "INIT_LOAD" /\ y \in Yod /\ m.job \in Nat
      /\ m.job = yod[y].job /\ n \in yod[y].list /\ <<n, m.job>> \notin loads
  BY DEF Accepts, IInv, ShapeInv, YodMsg, MsgInv
<1>2. h \in given
  <2> DEFINE g == [job |-> yod[y].job, yod |-> y, nodes |-> yod[y].list]
  <2>1. g \in grants BY <1>1, JobIdAssumption DEF IInv, YodInv
  <2>2. g.job = m.job /\ g.nodes = yod[y].list BY <1>1
  <2> HIDE DEF g
  <2>3. h = [job |-> g.job, nodes |-> g.nodes] BY <2>2
  <2>4. [job |-> g.job, nodes |-> g.nodes] \in given BY <2>1, Zenon DEF given
  <2> QED BY <2>3, <2>4, Zenon
<1>3. h.job = m.job /\ h.nodes = yod[y].list OBVIOUS
<1>4. given' = given /\ loads' = loads \cup {<<n, m.job>>} BY DEF Accepts, given
<1>5. host[n] = INVAL BY DEF Accepts, host
<1>6. host' = [host EXCEPT ![n] = m.job]
  <2>1. PICK q : /\ pct' = [pct EXCEPT ![n] = q] /\ PctOK(q)
                 /\ q.phase = "group" /\ q.job_id = m.job
    BY DEF Accepts
  <2>2. pct'[n] = q /\ \A k \in Node : k # n => pct'[k] = pct[k] BY <2>1, PctUpdate DEF IInv
  <2>3. host'[n] = m.job BY <2>1, <2>2 DEF host
  <2>4. \A k \in Node : k # n => host'[k] = host[k] BY <2>2 DEF host
  <2>5. host = [k \in Node |-> host[k]] /\ host' = [k \in Node |-> host'[k]] BY DEF host
  <2> QED BY <2>3, <2>4, <2>5
<1> HIDE DEF h, y
<1>7. Own!Take(n, h) BY <1>1, <1>2, <1>3, <1>4, <1>5, <1>6 DEF Own!Take
<1> QED BY <1>2, <1>7 DEF Own!OwnNext

\* Starting a job changes no owner; a PCT that resets itself gives its node back.
LEMMA StartsOwns ==
  ASSUME IInv, NEW n \in Node, NEW m, Starts(n, m)
  PROVE  [Own!OwnNext]_(Own!ownership)
<1>1. PICK q : /\ pct' = [pct EXCEPT ![n] = q] /\ PctOK(q)
               /\ q.phase = "idle" \/ (q.job_id = pct[n].job_id /\ q.yod_id = pct[n].yod_id)
  BY DEF Starts
<1>2. pct'[n] = q /\ \A k \in Node : k # n => pct'[k] = pct[k] BY <1>1, PctUpdate DEF IInv
<1>3. given' = given /\ loads' = loads BY DEF Starts, given
<1>4. host[n] = pct[n].job_id /\ host[n] # INVAL
  BY JobIdAssumption DEF host, Starts, ForThisJob, IInv, HostInv
<1>5. CASE q.phase = "idle"
  <2>1. host' = [host EXCEPT ![n] = INVAL] BY <1>2, <1>5 DEF host
  <2>2. Own!GiveBack(n) BY <2>1, <1>3, <1>4 DEF Own!GiveBack
  <2> QED BY <2>2 DEF Own!OwnNext
<1>6. CASE q.phase # "idle"
  <2>1. \A k \in Node : host'[k] = host[k] BY <1>1, <1>2, <1>4, <1>6 DEF host
  <2>2. host' = host BY <2>1 DEF host
  <2> QED BY <2>2, <1>3 DEF Own!ownership
<1> QED BY <1>5, <1>6

\* Answering a yod is giving a new job number with a list of nodes, or nothing.
LEMMA AllocateOwns ==
  ASSUME IInv, BebopdAllocate
  PROVE  [Own!OwnNext]_(Own!ownership)
<1> DEFINE j == bebopd.jobID
           L == bebopd.list
           g == [job |-> j, yod |-> bebopd.yod, nodes |-> L]
<1>1. host' = host
  <2>1. pct' = [n \in Node |-> IF pct[n].clock = "new" THEN [pct[n] EXCEPT !.clock = "on"] ELSE pct[n]]
    BY DEF BebopdAllocate
  <2>2. ASSUME NEW k \in Node PROVE pct'[k].phase = pct[k].phase /\ pct'[k].job_id = pct[k].job_id
    <3>1. DOMAIN pct[k] = PctFields BY DEF IInv, PctInv, PctOK
    <3> QED BY <2>1, <3>1 DEF PctFields
  <2> QED BY <2>2 DEF host
<1>2. loads' = loads BY DEF BebopdAllocate
<1>3. CASE UNCHANGED grants BY <1>1, <1>2, <1>3 DEF given, Own!ownership
<1>4. CASE grants' = grants \cup {g}
  <2>1. /\ bebopd.prevJobID \in Nat /\ j = bebopd.prevJobID + 1 /\ L \subseteq Node
        /\ FIRSTJOBID <= bebopd.prevJobID /\ bebopd.prevJobID <= LASTJOBID
    <3>1. bebopd.pc = "solicit" /\ bebopd.yod # INVAL BY DEF BebopdAllocate
    <3>2. bebopd.prevJobID = FIRSTJOBID + Cardinality(Served) BY DEF IInv, NumberInv
    <3> QED BY <3>1, <3>2, NumbersLeft, JobIdAssumption DEF IInv, NumberInv, ShapeInv, BebopdRec
  <2>2. j \in FIRSTJOBID..(LASTJOBID + 1) BY <2>1, JobIdAssumption
  <2>3. \A h \in given : h.job # j
    <3>1. \A f \in grants : f.job \in Nat /\ f.job <= bebopd.prevJobID
      BY DEF IInv, NumberInv, ShapeInv, Grant
    <3>2. \A f \in grants : f.job # j BY <3>1, <2>1
    <3> HIDE DEF j
    <3> QED BY <3>2 DEF given
  <2>4. given' = given \cup {[job |-> j, nodes |-> L]}
    <3>1. g.job = j /\ g.nodes = L OBVIOUS
    <3> HIDE DEF g, j, L
    <3> QED BY <3>1, <1>4 DEF given
  <2> HIDE DEF j, L, g
  <2>5. Own!Give(j, L) BY <1>1, <1>2, <2>3, <2>4 DEF Own!Give
  <2> QED BY <2>1, <2>2, <2>5 DEF Own!OwnNext
<1> QED BY <1>3, <1>4, Zenon DEF BebopdAllocate

\* The daemons implement NodeOwnership: a job number is handed out once, with a
\* list; a node of the list is taken by that job once, when it hosts nothing.
THEOREM ExclusiveNodes == Spec => Ownership
<1>1. ASSUME Init PROVE Own!OwnInit
  <2>0. PICK s : Start(s) BY <1>1, Zenon DEF Init
  <2>1. \A n \in Node : pct[n].phase = "idle" BY <2>0, OffOK DEF Start
  <2>2. host = [n \in Node |-> INVAL] BY <2>1 DEF host
  <2> QED BY <2>0, <2>2 DEF Start, Own!OwnInit, given
<1>2. ASSUME IInv, [Next]_vars PROVE [Own!OwnNext]_(Own!ownership)
  <2>1. ASSUME UNCHANGED <<pct, grants, loads>> PROVE [Own!OwnNext]_(Own!ownership)
    <3>1. host' = host /\ given' = given BY <2>1 DEF host, given
    <3> QED BY <3>1, <2>1 DEF Own!ownership
  <2>2. CASE BebopdRequest \/ BebopdPing \/ BebopdPingDone
    <3>1. UNCHANGED <<pct, grants, loads>>
      BY <2>2, Zenon DEF BebopdRequest, BebopdPing, BebopdPingDone, history
    <3> QED BY <3>1, <2>1
  <2>3. CASE \E y \in Yod : \/ YodRequest(y) \/ YodInitLoad(y) \/ YodLoading(y) \/ YodGoMain(y)
                           \/ YodFinish(y) \/ YodForceKill(y) \/ YodGiveUp(y) \/ YodInitTimeout(y)
    <3>1. UNCHANGED <<pct, grants, loads>>
      BY <2>3, Zenon DEF YodRequest, YodInitLoad, YodLoading, YodGoMain, YodFinish, YodForceKill,
           YodGiveUp, YodInitTimeout, history
    <3> QED BY <3>1, <2>1
  <2>4. CASE Quiet BY <1>2, <2>4, QuietOwns DEF Quiet
  <2>5. CASE \E n \in Node : Joins(n)
    <3>1. PctQuiet /\ UNCHANGED <<grants, loads>> BY <2>5, Zenon DEF Joins
    <3> QED BY <1>2, <3>1, QuietOwns
  <2>6. CASE \E n \in Node, m \in fromYod : Accepts(n, m) \/ Starts(n, m)
    BY <1>2, <2>6, AcceptsOwns, StartsOwns
  <2>7. CASE BebopdAllocate BY <1>2, <2>7, AllocateOwns
  <2> QED BY <1>2, <2>2, <2>3, <2>4, <2>5, <2>6, <2>7, StepCases
<1> QED BY <1>1, <1>2, Invariant, PTL DEF Spec, Ownership, Own!OwnSpec
=============================================================================
