----------------------------- MODULE Collectives ----------------------------
(***************************************************************************)
(* The collective operations of the server library                         *)
(* (lib/comm/srvr_coll_comm.c): a barrier that gathers a message from      *)
(* every member and answers it, a broadcast and a gather that use a        *)
(* barrier to make sure that the receivers are ready, and the vote made of *)
(* the two.  The PCTs of a job load it and agree on its end this way.      *)
(*                                                                         *)
(* A call is a script of steps that the member computes from its place in  *)
(* the list; a script ends early when a step times out.  The member's      *)
(* caller then gives up its group and rebuilds the library                 *)
(* (srvr_reset_coll), as reset_pct() does.  A vote is the number of the    *)
(* call it was cast in, so that an old one can be told.                    *)
(***************************************************************************)
EXTENDS Integers, SequencesExt

CONSTANTS
    N,          \* members, ranks 0 .. N - 1
    Scenarios   \* the calls the members make, in order; who is dead; whether
                \* calls have a timeout
ASSUME MembersAssumption == N \in Nat \ {0}

VARIABLES
    call, phase,  \* the last call a member began; "in" it, "idle" or "leaving" the group
    script,       \* the steps it has still to take
    got,          \* await_senders(): the senders it has heard of, or Not
    eventq,       \* the event queue of each type of operation
    desc,         \* the descriptors of setup_gather() and setup_bcast()
    saved,        \* barrier events of senders nobody waited for
    collInit,     \* the portal is set up
    wire,         \* the message a member is sending, or None
    ballot,       \* the blocks of the buffer
    failed,       \* history: <<member, group>> given up
    entered, passed, done,   \* history: barriers entered and passed, calls that were OK
    late,                    \* history: a message reached a member that had given
                             \* up the group it is of
    scene
vars == <<call, phase, script, got, eventq, desc, saved, collInit, wire, ballot, failed, entered,
          passed, done, late, scene>>

P == 0 .. N - 1
Types == {"barrier", "bcast", "gather"}
None == [type |-> "none"]
Not == {-1}
NoDesc == [n |-> 0, from |-> {}, tag |-> 0]
NoneSaved == [list |-> <<>>, size |-> 0]
Alive == P \ scene.dead

-----------------------------------------------------------------------------
(* Trees.  Ranks in a list are places from 0.                              *)

Elt(list, p) == (CHOOSE i \in DOMAIN list : list[i] = p) - 1
Powers(n) == SelectSeq([i \in 1 .. n |-> 2 ^ (i - 1)], LAMBDA i : i < n)

\* dsrvr_calc_fan_in(): the places that differ in one bit, up to the lowest bit
\* that is set: that one is the target, the others are sources.
Lowest(e, list) == SelectInSeq(Powers(Len(list)), LAMBDA i : (e \div i) % 2 = 1)
Sources(e, list) ==
    LET bits == Powers(Len(list))
        mine == IF Lowest(e, list) = 0 THEN bits ELSE SubSeq(bits, 1, Lowest(e, list) - 1)
        near == SelectSeq(mine, LAMBDA i : e + i < Len(list))
    IN  [k \in DOMAIN near |-> list[e + near[k] + 1]]
Target(e, list) == list[e - Powers(Len(list))[Lowest(e, list)] + 1]

\* dsrvr_gather(): the segment left .. right is halved until it is the member
\* alone; the root of a half sends its half to the root of the segment.
RECURSIVE Halves(_, _, _, _)
Halves(e, root, left, right) ==
    IF left = right THEN [recv |-> <<>>, send |-> <<>>]
    ELSE LET mid == (left + right) \div 2
             src == IF root <= mid THEN (IF root = left THEN mid + 1 ELSE right)
                    ELSE (IF root = right THEN mid ELSE left)
             block == IF src <= mid THEN left .. mid ELSE mid + 1 .. right
             rest == IF e <= mid THEN Halves(e, IF root > mid THEN src ELSE root, left, mid)
                     ELSE Halves(e, IF root <= mid THEN src ELSE root, mid + 1, right)
         IN  [recv |-> (IF e = root THEN <<src>> ELSE <<>>) \o rest.recv,
              send |-> (IF e = src THEN <<[to |-> root, block |-> block]>> ELSE <<>>) \o rest.send]
Gathering(e, list) == Halves(e, 0, 0, Len(list) - 1)

-----------------------------------------------------------------------------
(* Scripts.                                                                *)

Enter(k) == <<[do |-> "enter", k |-> k]>>
Leave(k) == <<[do |-> "leave", k |-> k]>>
Await(type, from) == IF from = <<>> THEN <<>> ELSE <<[do |-> "await", type |-> type, from |-> from]>>
Send(type, to, block) == <<[do |-> "send", type |-> type, to |-> to, block |-> block]>>
SendAll(type, tos, block) == FlattenSeq([i \in DOMAIN tos |-> Send(type, tos[i], block)])

\* dsrvr_barrier(), the k-th of the call: fan in and fan out.
Barrier_Eager(list, p, k) ==
    LET e == Elt(list, p)
        src == Sources(e, list)
        to == IF Lowest(e, list) = 0 THEN <<>> ELSE <<Target(e, list)>>
    IN  Enter(k) \o SendAll("barrier", to, {}) \o Await("barrier", src)
          \o Await("barrier", to) \o SendAll("barrier", Reverse(src), {}) \o Leave(k)
Barrier_NoAnswer(list, p, k) ==
    LET e == Elt(list, p)
        src == Sources(e, list)
        to == IF Lowest(e, list) = 0 THEN <<>> ELSE <<Target(e, list)>>
    IN  Enter(k) \o Await("barrier", src) \o SendAll("barrier", to, {})
          \o Await("barrier", to) \o Leave(k)
Barrier(list, p, k) ==
    LET e == Elt(list, p)
        src == Sources(e, list)
        to == IF Lowest(e, list) = 0 THEN <<>> ELSE <<Target(e, list)>>
    IN  Enter(k) \o Await("barrier", src) \o SendAll("barrier", to, {})
          \o Await("barrier", to) \o SendAll("barrier", Reverse(src), {}) \o Leave(k)

Setup(type, n, from) == <<[do |-> "setup", type |-> type, n |-> n, from |-> from]>>

\* dsrvr_bcast(): the fan in tree backwards, once the receivers are ready.
Bcast(list, p, k) ==
    LET e == Elt(list, p)
        from == IF Lowest(e, list) = 0 THEN <<>> ELSE <<Target(e, list)>>
    IN  (IF from = <<>> THEN <<>> ELSE Setup("bcast", 1, ToSet(from)))
          \o Barrier(list, p, k) \o Await("bcast", from)
          \o SendAll("bcast", Reverse(Sources(e, list)), 0 .. Len(list) - 1)

Gather(list, p, k) ==
    LET g == Gathering(Elt(list, p), list)
        from == [i \in DOMAIN g.recv |-> list[g.recv[i] + 1]]
    IN  (IF from = <<>> THEN <<>> ELSE Setup("gather", Len(from), P))
          \o Barrier(list, p, k) \o Await("gather", from)
          \o FlattenSeq([i \in DOMAIN g.send |->
                           Send("gather", list[g.send[i].to + 1], g.send[i].block)])

\* dsrvr_barrier(), dsrvr_bcast() and dsrvr_vote() of a list.
Script(c, p) ==
    CASE c.op = "barrier" -> Barrier(c.list, p, 1)
      [] c.op = "bcast" -> Bcast(c.list, p, 1)
      [] c.op = "vote" -> Gather(c.list, p, 1) \o Bcast(c.list, p, 2)
Scripts == [s \in Scenarios |-> [c \in DOMAIN s.calls |->
              [p \in ToSet(s.calls[c].list) |-> Script(s.calls[c], p)]]]

-----------------------------------------------------------------------------
(* Where a member is.                                                      *)

Calls == scene.calls
Members(c) == ToSet(Calls[c].list)
Group(c) == Calls[c].group
At(p) == Head(script[p])
Doing(p, do) == phase[p] = "in" /\ At(p).do = do

\* The next call of p: not of a group it gave up.  A member that is not in the
\* list returns at once.
NextCall(p) ==
    LET todo == {c \in DOMAIN Calls : /\ c > call[p]
                                      /\ p \in Members(c)
                                      /\ <<p, Group(c)>> \notin failed}
    IN  IF todo = {} THEN 0 ELSE Min(todo)
Over(p, g) == NextCall(p) = 0 \/ Group(NextCall(p)) # g

\* The member goes on to its next step; it returns from the call after the last
\* and leaves the group after its last call.
Advance(p) ==
    LET last == Len(script[p]) = 1
    IN  /\ script' = [script EXCEPT ![p] = Tail(@)]
        /\ phase' = [phase EXCEPT ![p] = IF ~ last THEN "in"
                                         ELSE IF Over(p, Group(call[p])) THEN "leaving" ELSE "idle"]
        /\ done' = IF last THEN done \union {<<p, call[p]>>} ELSE done

\* DSRVR_EXTERNAL_ERROR: the caller gives up the group.
GiveUp(p) ==
    /\ phase' = [phase EXCEPT ![p] = "leaving"]
    /\ script' = [script EXCEPT ![p] = <<>>]
    /\ failed' = failed \union {<<p, Group(call[p])>>}

-----------------------------------------------------------------------------
(* The saved list: its size counts the first event only.                   *)

addEventList(s, p) ==
    IF s.size = 0 THEN [list |-> <<p>>, size |-> 1]
    ELSE [s EXCEPT !.list = Append(@, p)]

\* searchEventList(): the place of an event of p among the first size ones, or 0.
Found(s, p) == SelectInSeq(SubSeq(s.list, 1, s.size), LAMBDA q : q = p)

\* await_senders(): take the senders' events from the list, in their order.
searchEventList(s, from) ==
    FoldLeft(LAMBDA r, p : LET i == Found(r.s, p)
                           IN  IF i = 0 THEN r
                               ELSE [s |-> [list |-> RemoveAt(r.s.list, i), size |-> r.s.size - 1],
                                     got |-> r.got \union {p}],
             [s |-> s, got |-> {}], from)

-----------------------------------------------------------------------------
(* The steps of a member.                                                  *)

\* A member calls the library.  A group is formed of members whose last group
\* is over: nodes are allocated only when they are free again.
Call(p) ==
    /\ phase[p] = "idle" /\ NextCall(p) # 0
    /\ LET c == NextCall(p)
           me == Elt(Calls[c].list, p)
       IN  /\ \A q \in Alive :
                IF phase[q] = "idle" THEN NextCall(q) # 0 => Group(NextCall(q)) >= Group(c)
                ELSE Group(call[q]) = Group(c)
           /\ call' = [call EXCEPT ![p] = c]
           /\ phase' = [phase EXCEPT ![p] = "in"]
           /\ script' = [script EXCEPT ![p] = Scripts[scene][c][p]]
           /\ ballot' = [ballot EXCEPT ![p] = [i \in P |->
                 IF (Calls[c].op = "vote" /\ i = me) \/ (Calls[c].op = "bcast" /\ me = 0)
                 THEN <<c, p>> ELSE @[i]]]
    /\ UNCHANGED <<got, eventq, desc, saved, collInit, wire, failed, entered, passed, done,
                   late, scene>>

EnterBarrier(p) ==
    /\ Doing(p, "enter")
    /\ entered' = entered \union {<<call[p], At(p).k, p>>}
    /\ Advance(p)
    /\ UNCHANGED <<call, got, eventq, desc, saved, collInit, wire, ballot, failed, passed,
                   late, scene>>

LeaveBarrier(p) ==
    /\ Doing(p, "leave")
    /\ passed' = passed \union {<<call[p], At(p).k, p>>}
    /\ Advance(p)
    /\ UNCHANGED <<call, got, eventq, desc, saved, collInit, wire, ballot, failed, entered,
                   late, scene>>

\* setup_gather(), setup_bcast(): the new descriptor takes the place of the old.
SetUp(p) ==
    /\ Doing(p, "setup")
    /\ desc' = [desc EXCEPT ![p][At(p).type] =
                  [n |-> At(p).n, from |-> At(p).from, tag |-> Calls[call[p]].tag]]
    /\ Advance(p)
    /\ UNCHANGED <<call, got, eventq, saved, collInit, wire, ballot, failed, entered, passed,
                   late, scene>>

\* await_senders(): the senders in g have been heard of.
Heard(p, g) ==
    IF ToSet(At(p).from) \subseteq g
    THEN got' = [got EXCEPT ![p] = Not] /\ Advance(p)
    ELSE got' = [got EXCEPT ![p] = g] /\ UNCHANGED <<phase, script, done>>

\* It looks at the saved events first,
AwaitBegin(p) ==
    /\ Doing(p, "await") /\ got[p] = Not
    /\ LET r == IF At(p).type = "barrier" THEN searchEventList(saved[p], At(p).from)
                ELSE [s |-> saved[p], got |-> {}]
       IN  saved' = [saved EXCEPT ![p] = r.s] /\ Heard(p, r.got)
    /\ UNCHANGED <<call, eventq, desc, collInit, wire, ballot, failed, entered, passed,
                   late, scene>>

\* then at the queue; it saves a barrier event of anybody else.
GetEvent(p) ==
    /\ Doing(p, "await") /\ got[p] # Not
    /\ LET type == At(p).type
           ev == Head(eventq[p][type])
           due == ev \in ToSet(At(p).from) \ got[p]
       IN  /\ eventq[p][type] # <<>>
           /\ eventq' = [eventq EXCEPT ![p][type] = Tail(@)]
           /\ saved' = IF due \/ type # "barrier" THEN saved
                       ELSE [saved EXCEPT ![p] = addEventList(@, ev)]
           /\ Heard(p, IF due THEN got[p] \union {ev} ELSE got[p])
    /\ UNCHANGED <<call, desc, collInit, wire, ballot, failed, entered, passed, late,
                   scene>>

\* coll_send(): the message, with what the buffer holds now, and the wait for
\* PTL_EVENT_SENT.
Sent == [type |-> "sent"]
Put(p) ==
    /\ Doing(p, "send") /\ wire[p] = None
    /\ wire' = [wire EXCEPT ![p] =
         [type |-> At(p).type, to |-> At(p).to, tag |-> Calls[call[p]].tag,
          data |-> [i \in At(p).block |-> ballot[p][i]], group |-> Group(call[p])]]
    /\ UNCHANGED <<call, phase, script, got, eventq, desc, saved, collInit, ballot, failed, entered,
                   passed, done, late, scene>>

CollSend(p) ==
    /\ Doing(p, "send") /\ wire[p] = Sent
    /\ wire' = [wire EXCEPT ![p] = None]
    /\ Advance(p)
    /\ UNCHANGED <<call, got, eventq, desc, saved, collInit, ballot, failed, entered, passed,
                   late, scene>>

\* The portal of q: the barrier descriptor takes what comes, the others what they
\* were set up for.
Takes(q, p) ==
    LET m == wire[p]
        d == desc[q][m.type]
    IN  /\ collInit[q]
        /\ m.type # "barrier" => d.n > 0 /\ p \in d.from /\ m.tag = d.tag

\* The message of p arrives.
Arrive(p) ==
    /\ wire[p] \notin {None, Sent}
    /\ LET m == wire[p]
           q == m.to
       IN  /\ q \in Alive
           /\ IF Takes(q, p)
              THEN /\ eventq' = [eventq EXCEPT ![q][m.type] = Append(@, p)]
                   /\ desc' = IF m.type = "barrier" THEN desc
                              ELSE [desc EXCEPT ![q][m.type].n = @ - 1]
                   /\ ballot' = [ballot EXCEPT ![q] = m.data @@ @]
              ELSE UNCHANGED <<eventq, desc, ballot>>
           /\ late' = (late \/ (collInit[q] /\ phase[q] = "idle" /\ Over(q, m.group)))
           /\ wire' = [wire EXCEPT ![p] = Sent]
    /\ UNCHANGED <<call, phase, script, got, saved, collInit, failed, entered, passed, done, scene>>

\* await_senders() gives up and resets the queue of the operation.
RecvTimeout(p) ==
    /\ scene.slow /\ Doing(p, "await") /\ got[p] # Not
    /\ eventq' = [eventq EXCEPT ![p][At(p).type] = <<>>]
    /\ saved' = IF At(p).type = "barrier" THEN [saved EXCEPT ![p] = NoneSaved] ELSE saved
    /\ got' = [got EXCEPT ![p] = Not]
    /\ GiveUp(p)
    /\ UNCHANGED <<call, desc, collInit, wire, ballot, entered, passed, done, late,
                   scene>>

\* coll_send() gives up: the message, if it is still here, is cancelled.
SendTimeout(p) ==
    /\ scene.slow /\ Doing(p, "send") /\ wire[p] # None
    /\ wire' = [wire EXCEPT ![p] = None]
    /\ GiveUp(p)
    /\ UNCHANGED <<call, got, eventq, desc, saved, collInit, ballot, entered, passed, done,
                   late, scene>>

\* srvr_reset_coll() at the end of the group: the portal is gone
server_coll_done(p) ==
    /\ phase[p] = "leaving" /\ collInit[p]
    /\ eventq' = [eventq EXCEPT ![p] = [t \in Types |-> <<>>]]
    /\ desc' = [desc EXCEPT ![p] = [t \in Types |-> NoDesc]]
    /\ collInit' = [collInit EXCEPT ![p] = FALSE]
    /\ UNCHANGED <<call, phase, script, got, saved, wire, ballot, failed, entered, passed, done,
                   late, scene>>

\* and built again.
server_coll_init(p) ==
    /\ phase[p] = "leaving" /\ ~ collInit[p]
    /\ saved' = [saved EXCEPT ![p] = NoneSaved]
    /\ collInit' = [collInit EXCEPT ![p] = TRUE]
    /\ phase' = [phase EXCEPT ![p] = "idle"]
    /\ UNCHANGED <<call, script, got, eventq, desc, wire, ballot, failed, entered, passed, done,
                   late, scene>>

Init ==
    /\ scene \in Scenarios
    /\ call = [p \in P |-> 0] /\ phase = [p \in P |-> "idle"]
    /\ script = [p \in P |-> <<>>]
    /\ got = [p \in P |-> Not]
    /\ eventq = [p \in P |-> [t \in Types |-> <<>>]]
    /\ desc = [p \in P |-> [t \in Types |-> NoDesc]]
    /\ saved = [p \in P |-> NoneSaved]
    /\ collInit = [p \in P |-> TRUE]
    /\ wire = [p \in P |-> None]
    /\ ballot = [p \in P |-> [i \in P |-> <<0, p>>]]
    /\ failed = {} /\ entered = {} /\ passed = {} /\ done = {}
    /\ late = FALSE

\* What a member does by itself, one thing at a time.
Run(p) ==
    \/ Call(p) \/ EnterBarrier(p) \/ LeaveBarrier(p) \/ SetUp(p)
    \/ AwaitBegin(p) \/ GetEvent(p) \/ Put(p) \/ CollSend(p)
    \/ server_coll_done(p) \/ server_coll_init(p)

Next == \E p \in Alive : Run(p) \/ Arrive(p) \/ RecvTimeout(p) \/ SendTimeout(p)

Spec == Init /\ [][Next]_vars

\* Members, network and clocks do not all stop while something can be done.
FairSpec == Spec /\ WF_vars(Next)

-----------------------------------------------------------------------------
(* Properties.                                                             *)

\* Every variable has its type.
TypeOK ==
    /\ \A p \in P : /\ call[p] \in 0 .. Len(Calls) /\ phase[p] \in {"in", "idle", "leaving"}
                    /\ got[p] \subseteq P \/ got[p] = Not
                    /\ \A t \in Types : ToSet(eventq[p][t]) \subseteq P /\ desc[p][t].n \in 0 .. N
                    /\ saved[p].size \in 0 .. N /\ ToSet(saved[p].list) \subseteq P
                    /\ ballot[p] \in [P -> (0 .. Len(Calls)) \X P]
    /\ failed \subseteq P \X Nat /\ done \subseteq P \X DOMAIN Calls
    /\ late \in BOOLEAN

\* dsrvr_barrier() returns DSRVR_OK to a member only when every member of the
\* list has entered the same barrier, whatever other barriers of other lists
\* are under way and whatever was saved; dsrvr_membership_commit() rests on it.
\* The exception is a message that came for a group this member had left and
\* found its portal built again: it counts in the barrier of the next group.
BarrierSafe ==
    late \/ \A b \in passed : \A q \in Members(b[1]) : <<b[1], b[2], q>> \in entered


\* Every member gets through its calls: to their ends when nobody is late, and by
\* a timeout and a reset when somebody is late or dead.
AllReturn == <>[](\A p \in Alive : phase[p] = "idle" /\ NextCall(p) = 0)

=============================================================================
