------------------------------- MODULE PtlLib -------------------------------
(***************************************************************************)
(* The Portals 3.0 library of one process (lib/p30/lib-p30): match         *)
(* entries, memory descriptors, message objects and the event queue of     *)
(* EventQueue.                                                             *)
(*                                                                         *)
(* The process runs a program of API calls; each is one step because       *)
(* lib_dispatch() holds off interrupts, except PtlEQGet, which runs in the *)
(* process and has the steps of EventQueue.  The NAL calls lib_parse() for *)
(* messages that come in and lib_finalize() when one has been transferred, *)
(* in any order.  Match ids and match bits are a tag, the portal table has *)
(* one index and there is one event queue.                                 *)
(***************************************************************************)
EXTENDS EventQueue, SequencesExt

CONSTANTS
    MAX_MES, MAX_MDS, MAX_MSGS,   \* sizes of the library's arrays
    MaxOffset,                    \* bound: how far attempts that fail move an offset
    Scenarios                     \* a program, the requests that come in once it is
                                  \* at its call "ready", whether a write of an event
                                  \* fails, and whether each wait has its event

\* The process asks for queues that have slots; neither PtlEQAlloc nor the library
\* checks this.
ASSUME QueuesAssumption ==
    \A s \in Scenarios : \A i \in DOMAIN s.prog :
        s.prog[i].op = "EQAlloc" => s.prog[i].count \in Sizes

PTL_MD_THRESH_INF == -1
None == -1

VARIABLES
    me, free_me,       \* match entries, their free list
    md, free_md,       \* memory descriptors, their free list
    msg, free_msg,     \* message objects, their free list
    tbl,               \* the match list, first entry first
    eq_pending,        \* the event queue's count of operations under way
    up,                \* ni.up
    incoming,          \* requests on their way here, in order
    answers,           \* acks and replies on their way here
    pc, handle,        \* the program: its next call, the handles it was given
    signalled,         \* SIGPIPE was sent to the process
    parsed,            \* what the last lib_parse() did
    life,              \* history: descriptors made so far
    placed,            \* history: what was accepted into which descriptor
    careless,          \* history: the process took a descriptor away, or changed
                       \* it, under an operation
    scene

libVars == <<me, free_me, md, free_md, msg, free_msg, tbl, eq_pending, up>>
progVars == <<pc, handle, careless>>
netVars == <<incoming, answers, signalled, parsed>>
history == <<life, placed>>
vars == <<eqVars, libVars, progVars, netVars, history, scene>>

MEs == 0 .. MAX_MES - 1
MDs == 0 .. MAX_MDS - 1
Msgs == 0 .. MAX_MSGS - 1

NoME == [inuse |-> FALSE, tags |-> {}, unlink |-> FALSE, md |-> <<>>]
NoMD == [inuse |-> FALSE, me |-> None, offset |-> 0, length |-> 0, threshold |-> 0,
         max_offset |-> 0, pending |-> 0, unlink |-> FALSE, options |-> {},
         eq |-> FALSE, do_unlink |-> FALSE, life |-> 0]
NoMsg == [inuse |-> FALSE, md |-> None, return_md |-> None, life |-> 0]
\* lib_init() links each array into a free list, last element first.
FreeList(n) == [i \in 1 .. n |-> n - i]

Handles(prog) == {prog[i].as : i \in {j \in DOMAIN prog : "as" \in DOMAIN prog[j]}}

Init ==
    /\ EQInit
    /\ me = [i \in MEs |-> NoME] /\ free_me = FreeList(MAX_MES)
    /\ md = [i \in MDs |-> NoMD] /\ free_md = FreeList(MAX_MDS)
    /\ msg = [i \in Msgs |-> NoMsg] /\ free_msg = FreeList(MAX_MSGS)
    /\ tbl = <<>> /\ eq_pending = 0 /\ up = TRUE
    /\ scene \in Scenarios
    /\ incoming = scene.incoming /\ answers = {} /\ signalled = FALSE
    /\ parsed = [rc |-> 0, recv |-> TRUE]
    /\ pc = 1 /\ handle = [h \in Handles(scene.prog) |-> None]
    /\ life = 0 /\ placed = {} /\ careless = FALSE

-----------------------------------------------------------------------------
(* Operations on a descriptor.                                             *)

\* The threshold is counted, the operation becomes pending, and the last one
\* the descriptor takes marks it: by its threshold or, where the library
\* manages the offset of requests, by its offset.
Doomed(r, request) ==
    r.unlink /\ \/ r.threshold = 0
                \/ request /\ "remote" \notin r.options /\ r.offset > r.max_offset
Started(r, request) ==
    LET n == [r EXCEPT !.threshold = IF @ = PTL_MD_THRESH_INF THEN @ ELSE @ - 1,
                       !.pending = @ + 1]
    IN  [n EXCEPT !.do_unlink = @ \/ Doomed(n, request)]

\* lib_md_unlink() of the descriptors ds, in order; lib_md_free() complains about
\* a free one and leaves the list alone.
MdUnlinked(ds) ==
    [d \in MDs |-> IF d \in ToSet(ds) THEN [md[d] EXCEPT !.inuse = FALSE, !.me = None]
                                      ELSE md[d]]
MdFreed(ds) == Reverse(SelectSeq(ds, LAMBDA d : md[d].inuse)) \o free_md
Without(s, x) == SelectSeq(s, LAMBDA y : y # x)

\* The first entry that matches and whose first descriptor takes the request.
Offset(r, h) == IF "remote" \in r.options THEN h.offset ELSE r.offset
MLength(r, h) ==
    IF "truncate" \in r.options /\ Offset(r, h) <= r.length
    THEN Min({r.length - Offset(r, h), h.length}) ELSE h.length
Accepts(r, h) ==
    /\ h.type \in r.options /\ r.threshold # 0
    /\ "remote" \in r.options \/ r.offset <= r.max_offset
    /\ \/ "truncate" \in r.options /\ Offset(r, h) <= r.length
       \/ Offset(r, h) + h.length <= r.length
lib_find_md(h) ==
    LET fit == {i \in DOMAIN tbl :
                  /\ h.tag \in me[tbl[i]].tags /\ me[tbl[i]].md # <<>>
                  /\ Accepts(md[Head(me[tbl[i]].md)], h)}
    IN  IF fit = {} THEN None ELSE Head(me[tbl[Min(fit)]].md)

\* A message object for an operation on descriptor d, now n.
Begin(d, n, ret) ==
    /\ free_msg # <<>>
    /\ msg' = [msg EXCEPT ![Head(free_msg)] =
                 [inuse |-> TRUE, md |-> d, return_md |-> ret, life |-> n.life]]
    /\ free_msg' = Tail(free_msg)
    /\ md' = [md EXCEPT ![d] = n]
    /\ eq_pending' = IF n.eq THEN eq_pending + 1 ELSE eq_pending

\* lib_msg_alloc() fails: what lib_find_md() did to the offset stays.
NoCookie(d, n) ==
    /\ free_msg = <<>> /\ n.offset <= MaxOffset
    /\ md' = [md EXCEPT ![d] = n]
    /\ UNCHANGED <<msg, free_msg, eq_pending>>

Place(d, type, from, len) ==
    placed' = placed \cup {[life |-> md[d].life, type |-> type,
                           from |-> from, to |-> from + len]}

-----------------------------------------------------------------------------
(* lib_parse().  A result of 1 makes the NAL forget the message, so that   *)
(* its sender sends it again; with any other it is done.                   *)

Requested == up /\ incoming # <<>> /\ pc >= scene.ready

\* parse_put() and parse_get(): the request finds no descriptor.
DropRequest ==
    /\ Requested /\ lib_find_md(Head(incoming)) = None
    /\ incoming' = Tail(incoming) /\ parsed' = [rc |-> -1, recv |-> TRUE]
    /\ UNCHANGED <<eqVars, libVars, progVars, answers, signalled, history, scene>>

Moved(d, h) == [md[d] EXCEPT !.offset = @ + MLength(md[d], h)]

parse_put_Fixed ==
    /\ Requested
    /\ LET h == Head(incoming)
           d == lib_find_md(h)
       IN  /\ h.type = "put" /\ d # None
           /\ \/ /\ Begin(d, Started(md[d], TRUE),
                          IF h.ack /\ "noack" \notin md[d].options THEN 0 ELSE None)
                 /\ Place(d, "put", Offset(md[d], h), MLength(md[d], h))
                 /\ incoming' = Tail(incoming) /\ parsed' = [rc |-> 0, recv |-> TRUE]
              \/ /\ NoCookie(d, md[d])
                 /\ parsed' = [rc |-> 1, recv |-> FALSE]
                 /\ UNCHANGED <<incoming, placed>>
    /\ UNCHANGED <<eqVars, me, free_me, free_md, tbl, up, progVars, answers, signalled,
                   life, scene>>
parse_put ==
    /\ Requested
    /\ LET h == Head(incoming)
           d == lib_find_md(h)
       IN  /\ h.type = "put" /\ d # None
           /\ \/ /\ Begin(d, Started(Moved(d, h), TRUE),
                          IF h.ack /\ "noack" \notin md[d].options THEN 0 ELSE None)
                 /\ Place(d, "put", Offset(md[d], h), MLength(md[d], h))
                 /\ incoming' = Tail(incoming) /\ parsed' = [rc |-> 0, recv |-> TRUE]
              \/ /\ NoCookie(d, Moved(d, h))
                 /\ parsed' = [rc |-> 1, recv |-> FALSE]
                 /\ UNCHANGED <<incoming, placed>>
    /\ UNCHANGED <<eqVars, me, free_me, free_md, tbl, up, progVars, answers, signalled,
                   life, scene>>

\* The request itself is received, and thereby acknowledged, before the library
\* looks for a descriptor: it does not come again.
parse_get ==
    /\ Requested
    /\ LET h == Head(incoming)
           d == lib_find_md(h)
       IN  /\ h.type = "get" /\ d # None
           /\ incoming' = Tail(incoming)
           /\ \/ /\ Begin(d, Started(Moved(d, h), TRUE), None)
                 /\ Place(d, "get", Offset(md[d], h), MLength(md[d], h))
                 /\ parsed' = [rc |-> 0, recv |-> TRUE]
              \/ /\ NoCookie(d, Moved(d, h))
                 /\ parsed' = [rc |-> 1, recv |-> TRUE] /\ UNCHANGED placed
    /\ UNCHANGED <<eqVars, me, free_me, free_md, tbl, up, progVars, answers, signalled,
                   life, scene>>

\* Where a reply goes: the descriptor's own offset is not advanced.
Answered(a, r) ==
    /\ r.inuse /\ r.threshold # 0
    /\ a.type = "reply" =>
         "truncate" \in r.options \/ a.length + Offset(r, a) <= r.length
AcceptAnswer(a, d) ==
    /\ Begin(d, Started(md[d], FALSE), None)
    /\ placed' = placed \cup
         {[life |-> md[d].life, type |-> a.type,
           from |-> Offset(md[d], a),
           to |-> Offset(md[d], a) + Min({a.length, md[d].length - Offset(md[d], a)})]}

\* parse_ack() and parse_reply().
parse_answer ==
    /\ up
    /\ \E a \in answers :
         \/ /\ ~Answered(a, md[a.dst_md])
            /\ answers' = answers \ {a} /\ parsed' = [rc |-> -1, recv |-> TRUE]
            /\ UNCHANGED <<md, msg, free_msg, eq_pending, placed>>
         \/ /\ Answered(a, md[a.dst_md]) /\ AcceptAnswer(a, a.dst_md)
            /\ answers' = answers \ {a} /\ parsed' = [rc |-> 0, recv |-> TRUE]
         \/ /\ Answered(a, md[a.dst_md]) /\ NoCookie(a.dst_md, md[a.dst_md])
            /\ parsed' = [rc |-> 1, recv |-> FALSE] /\ UNCHANGED <<answers, placed>>
    /\ UNCHANGED <<eqVars, me, free_me, free_md, tbl, up, progVars, incoming, signalled,
                   life, scene>>

-----------------------------------------------------------------------------
(* lib_finalize().                                                         *)

\* The last pending operation of a marked descriptor takes it away, and with it
\* an entry that is left empty and was to be unlinked.
Retire(d) ==
    LET e == md[d].me
        goes == e # None /\ me[e].unlink /\ Without(me[e].md, d) = <<>>
    IN  /\ md' = [MdUnlinked(<<d>>) EXCEPT ![d].pending = @ - 1]
        /\ free_md' = MdFreed(<<d>>)
        /\ me' = IF e = None THEN me
                 ELSE [me EXCEPT ![e].md = Without(@, d), ![e].inuse = ~goes]
        /\ free_me' = IF goes THEN <<e>> \o free_me ELSE free_me
        /\ tbl' = IF goes THEN Without(tbl, e) ELSE tbl

\* --md->pending of the message's descriptor.
EndOperation_Eager(d) ==
    IF md[d].do_unlink THEN Retire(d)
    ELSE /\ md' = [md EXCEPT ![d].pending = @ - 1]
         /\ UNCHANGED <<me, free_me, free_md, tbl>>
EndOperation_Kept(d) ==
    /\ md' = [md EXCEPT ![d].pending = @ - 1]
    /\ UNCHANGED <<me, free_me, free_md, tbl>>
EndOperation(d) ==
    IF md[d].pending = 1 /\ md[d].do_unlink THEN Retire(d)
    ELSE /\ md' = [md EXCEPT ![d].pending = @ - 1]
         /\ UNCHANGED <<me, free_me, free_md, tbl>>

lib_finalize(m) ==
    /\ up /\ msg[m].inuse
    /\ IF md[msg[m].md].eq
       THEN EQWrite /\ eq_pending' = Max({0, eq_pending - 1})
       ELSE UNCHANGED <<eqVars, eq_pending>>
    /\ EndOperation(msg[m].md)
    /\ msg' = [msg EXCEPT ![m].inuse = FALSE]
    /\ free_msg' = <<m>> \o free_msg
    /\ UNCHANGED <<up, progVars, netVars, history, scene>>

\* cb_write() fails: lib_finalize() returns before it counts anything, the object
\* is never freed (the NAL forgets it), and the NAL sends the process a signal.
lib_finalize_Fails(m) ==
    /\ up /\ msg[m].inuse /\ md[msg[m].md].eq
    /\ scene.writefails /\ ~signalled
    /\ EQWriteFails /\ signalled' = TRUE
    /\ msg' = [msg EXCEPT ![m].inuse = FALSE]
    /\ UNCHANGED <<me, free_me, md, free_md, free_msg, tbl, eq_pending, up, progVars,
                   incoming, answers, parsed, history, scene>>

-----------------------------------------------------------------------------
(* The API calls.                                                          *)

Running == up /\ ~signalled /\ get.at = "idle" /\ pc \in DOMAIN scene.prog
Call == scene.prog[pc]
Calls(op) == Running /\ Call.op = op
\* The object a handle names now, if there is one.
Valid(h, objects) == handle[h] # None /\ objects[handle[h]].inuse
Return == pc' = pc + 1
Give(i) == handle' = [handle EXCEPT ![Call.as] = i]

\* A call that changes nothing: an invalid handle, no space left, an entry that
\* has a descriptor, a table index that has a list.
Refused ==
    /\ Running
    /\ \/ Call.op = "MEAttach" /\ (tbl # <<>> \/ free_me = <<>>)
       \/ Call.op = "MEInsert" /\ (~Valid(Call.at, me) \/ free_me = <<>>)
       \/ Call.op = "MEUnlink" /\ ~Valid(Call.of, me)
       \/ Call.op = "MDAttach" /\ (\/ ~Valid(Call.to, me) \/ me[handle[Call.to]].md # <<>>
                                  \/ free_md = <<>>)
       \/ Call.op = "MDInsert" /\ (~Valid(Call.at, md) \/ free_md = <<>>)
       \/ Call.op = "MDBind" /\ free_md = <<>>
       \/ Call.op \in {"MDUnlink", "MDUpdate"} /\ ~Valid(Call.of, md)
       \/ Call.op \in {"Put", "Get"}
          /\ \/ ~Valid(Call.of, md) \/ md[handle[Call.of]].threshold = 0
             \/ free_msg = <<>>
    /\ Return
    /\ UNCHANGED <<eqVars, libVars, handle, careless, netVars, history, scene>>

PtlEQAlloc ==
    /\ Calls("EQAlloc") /\ EQAlloc(Call.count) /\ Return
    /\ eq_pending' = 0
    /\ UNCHANGED <<me, free_me, md, free_md, msg, free_msg, tbl, up, handle, careless,
                   netVars, history, scene>>

\* The process has to see to it that no descriptor uses the queue any more.
PtlEQFree ==
    /\ Calls("EQFree") /\ ~\E d \in MDs : md[d].inuse /\ md[d].eq
    /\ EQFree /\ Return
    /\ UNCHANGED <<libVars, handle, careless, netVars, history, scene>>

\* PtlEQGet, and PtlEQWait, which calls it until it finds an event.
PtlEQGet ==
    \/ /\ Calls("EQGet") \/ Calls("EQWait")
       /\ EQGet
       /\ pc' = IF get'.rc = "PTL_EQ_EMPTY" /\ Call.op = "EQGet" THEN pc + 1 ELSE pc
       /\ UNCHANGED <<libVars, handle, careless, netVars, history, scene>>
    \/ /\ up /\ ~signalled /\ (EQCopy \/ EQCompare)
       /\ UNCHANGED <<libVars, progVars, netVars, history, scene>>
    \/ /\ up /\ ~signalled /\ EQAdvance /\ Return
       /\ UNCHANGED <<libVars, handle, careless, netVars, history, scene>>

\* PtlMEAttach starts a list, PtlMEInsert puts an entry before or after another.
NewME(list) ==
    /\ free_me # <<>>
    /\ LET i == Head(free_me)
       IN  /\ me' = [me EXCEPT ![i] = [inuse |-> TRUE, tags |-> Call.tags,
                                       unlink |-> Call.unlink, md |-> <<>>]]
           /\ tbl' = list
           /\ free_me' = Tail(free_me) /\ Give(i)
    /\ Return
    /\ UNCHANGED <<eqVars, md, free_md, msg, free_msg, eq_pending, up, careless, netVars,
                   history, scene>>
\* s with i before or after x, as lib_insert does.
Inserted(s, x, i, after) ==
    InsertAt(s, (CHOOSE k \in DOMAIN s : s[k] = x) + IF after THEN 1 ELSE 0, i)
PtlMEAttach == Calls("MEAttach") /\ tbl = <<>> /\ NewME(<<Head(free_me)>>)
PtlMEInsert ==
    /\ Calls("MEInsert") /\ Valid(Call.at, me) /\ free_me # <<>>
    /\ NewME(Inserted(tbl, handle[Call.at], Head(free_me), Call.after))

\* An entry goes with all its descriptors, whether or not they are in use.
PtlMEUnlink ==
    /\ Calls("MEUnlink") /\ Valid(Call.of, me)
    /\ LET i == handle[Call.of]
           ds == me[i].md
       IN  /\ tbl' = Without(tbl, i)
           /\ md' = MdUnlinked(ds) /\ free_md' = MdFreed(ds)
           /\ me' = [me EXCEPT ![i].inuse = FALSE, ![i].md = <<>>]
           /\ free_me' = <<i>> \o free_me
           /\ careless' = (careless \/ \E d \in ToSet(ds) : md[d].pending > 0)
    /\ Return
    /\ UNCHANGED <<eqVars, msg, free_msg, eq_pending, up, handle, netVars, history, scene>>

\* lib_md_build() for the descriptor the call describes.
NewMD(e, unlink) ==
    /\ free_md # <<>>
    /\ LET i == Head(free_md)
       IN  /\ md' = [md EXCEPT ![i] =
                 [inuse |-> TRUE, me |-> e, offset |-> 0, length |-> Call.md.length,
                  threshold |-> Call.md.threshold, max_offset |-> Call.md.max_offset,
                  pending |-> 0, unlink |-> unlink, options |-> Call.md.options,
                  eq |-> Call.md.eq, do_unlink |-> FALSE, life |-> life + 1]]
           /\ free_md' = Tail(free_md) /\ Give(i)
    /\ life' = life + 1
    /\ Return
    /\ UNCHANGED <<eqVars, free_me, msg, free_msg, tbl, eq_pending, up, careless, netVars,
                   placed, scene>>
PtlMDAttach ==
    /\ Calls("MDAttach") /\ Valid(Call.to, me) /\ me[handle[Call.to]].md = <<>>
    /\ NewMD(handle[Call.to], Call.unlink)
    /\ me' = [me EXCEPT ![handle[Call.to]].md = <<Head(free_md)>>]
PtlMDInsert ==
    /\ Calls("MDInsert") /\ Valid(Call.at, md) /\ free_md # <<>>
    /\ LET e == md[handle[Call.at]].me
       IN  /\ NewMD(e, Call.unlink)
           /\ me' = IF e = None THEN me
                    ELSE [me EXCEPT ![e].md = Inserted(@, handle[Call.at], Head(free_md),
                                                       Call.after)]
PtlMDBind == Calls("MDBind") /\ NewMD(None, TRUE) /\ UNCHANGED me

\* A descriptor goes whether or not operations on it are pending; its entry stays.
PtlMDUnlink ==
    /\ Calls("MDUnlink") /\ Valid(Call.of, md)
    /\ LET d == handle[Call.of]
       IN  /\ md' = MdUnlinked(<<d>>) /\ free_md' = MdFreed(<<d>>)
           /\ me' = IF md[d].me = None THEN me
                    ELSE [me EXCEPT ![md[d].me].md = Without(@, d)]
           /\ careless' = (careless \/ md[d].pending > 0)
    /\ Return
    /\ UNCHANGED <<eqVars, free_me, msg, free_msg, tbl, eq_pending, up, handle, netVars,
                   history, scene>>

\* The update is made if the queue it is made conditional on is empty and no
\* operation that will write to it is under way; otherwise the program goes back
\* to an earlier call.
QueueEmpty_Unread == eq.sequence = ueq.sequence
QueueEmpty == eq_pending = 0 /\ eq.sequence = ueq.sequence
PtlMDUpdate ==
    /\ Calls("MDUpdate") /\ Valid(Call.of, md)
    /\ LET d == handle[Call.of]
       IN  \/ /\ Call.testq => QueueEmpty
              /\ md' = [md EXCEPT ![d].length = Call.md.length,
                                  ![d].threshold = Call.md.threshold,
                                  ![d].max_offset = Call.md.max_offset,
                                  ![d].options = Call.md.options, ![d].eq = Call.md.eq]
              /\ careless' = (careless \/ md[d].pending > 0)
              /\ Return
           \/ /\ Call.testq /\ ~QueueEmpty
              /\ pc' = Call.back /\ UNCHANGED <<md, careless>>
    /\ UNCHANGED <<eqVars, me, free_me, free_md, msg, free_msg, tbl, eq_pending, up, handle,
                   netVars, history, scene>>

\* Operations a descriptor will still count for answers that are on their way.
Owed(d) == Cardinality({a \in answers : a.dst_md = d /\ a.life = md[d].life})
Short(d) == md[d].threshold # PTL_MD_THRESH_INF /\ md[d].threshold - 1 < Owed(d) + 1

\* do_PtlPut() and do_PtlGet(): the operation is counted and the message handed to
\* the NAL.  A put may ask for an ack, a get is answered by a reply.
Send(d, a) ==
    /\ Begin(d, Started(md[d], FALSE), None)
    /\ answers' = answers \cup a
    /\ careless' = (careless \/ (a # {} /\ Short(d)))
    /\ Return
    /\ UNCHANGED <<eqVars, me, free_me, free_md, tbl, up, handle, incoming, signalled, parsed,
                   life, placed, scene>>
Answer(d, type, length) ==
    [type |-> type, dst_md |-> d, length |-> length, offset |-> md[d].offset,
     life |-> md[d].life, call |-> pc]
PtlPut ==
    /\ Calls("Put") /\ Valid(Call.of, md) /\ md[handle[Call.of]].threshold # 0
    /\ LET d == handle[Call.of]
       IN  Send(d, IF Call.ack THEN {Answer(d, "ack", 0)} ELSE {})
PtlGet ==
    /\ Calls("Get") /\ Valid(Call.of, md) /\ md[handle[Call.of]].threshold # 0
    /\ LET d == handle[Call.of] IN Send(d, {Answer(d, "reply", Call.reply)})

\* The process ends: lib_fini() gives the arrays back, and from then on neither
\* lib_parse() nor lib_finalize() looks at them.
lib_fini ==
    /\ up /\ (signalled \/ pc \notin DOMAIN scene.prog)
    /\ up' = FALSE
    /\ UNCHANGED <<eqVars, me, free_me, md, free_md, msg, free_msg, tbl, eq_pending,
                   progVars, netVars, history, scene>>

Process ==
    \/ Refused \/ PtlEQAlloc \/ PtlEQFree \/ PtlEQGet \/ PtlMEAttach \/ PtlMEInsert
    \/ PtlMEUnlink \/ PtlMDAttach \/ PtlMDInsert \/ PtlMDBind \/ PtlMDUnlink
    \/ PtlMDUpdate \/ PtlPut \/ PtlGet

lib_parse == DropRequest \/ parse_put \/ parse_get \/ parse_answer

Next ==
    \/ Process \/ lib_parse \/ lib_fini
    \/ \E m \in Msgs : lib_finalize(m) \/ lib_finalize_Fails(m)

Spec == Init /\ [][Next]_vars

\* The process goes on, the NAL delivers what is sent and completes every
\* transfer it has begun, and a signal is acted upon.
Fairness ==
    /\ WF_vars(Process) /\ WF_vars(lib_parse)
    /\ \A m \in Msgs : WF_vars(lib_finalize(m))
    /\ WF_vars(signalled /\ lib_fini)
FairSpec == Spec /\ Fairness

-----------------------------------------------------------------------------
(* Properties.                                                             *)

\* The arrays, the free lists, the match list and the handles have their types.
TypeOK ==
    /\ EQTypeOK
    /\ \A i \in MEs : me[i].md \in Seq(MDs) /\ me[i].inuse \in BOOLEAN
    /\ \A d \in MDs :
         /\ md[d].me \in MEs \cup {None} /\ md[d].pending \in Int
         /\ md[d].threshold \in Nat \cup {PTL_MD_THRESH_INF}
         /\ md[d].offset \in Nat /\ md[d].do_unlink \in BOOLEAN
    /\ \A m \in Msgs : msg[m].md \in MDs \cup {None} /\ msg[m].inuse \in BOOLEAN
    /\ tbl \in Seq(MEs) /\ free_me \in Seq(MEs) /\ free_md \in Seq(MDs)
    /\ free_msg \in Seq(Msgs) /\ eq_pending \in Nat /\ up \in BOOLEAN
    /\ \A h \in DOMAIN handle : handle[h] \in MEs \cup MDs \cup {None}

UnderWay(d) == {m \in Msgs : msg[m].inuse /\ msg[m].md = d}

\* A descriptor is taken away only when the last operation on it is finished,
\* although it reaches its threshold when that operation begins: every message
\* under way belongs to the descriptor it was accepted for, and the descriptor
\* and the event queue count it as pending.  Only a process that takes a
\* descriptor away under an operation, or a write that fails, upsets this.
PendingExact ==
    up /\ ~careless /\ ~signalled =>
        /\ \A m \in Msgs : msg[m].inuse => /\ md[msg[m].md].inuse
                                          /\ md[msg[m].md].life = msg[m].life
        /\ \A d \in MDs : md[d].inuse => md[d].pending = Cardinality(UnderWay(d))
        /\ eq_pending = Cardinality({m \in Msgs : msg[m].inuse /\ md[msg[m].md].eq})

\* Requests the library places itself never overlap: two puts or gets accepted
\* by the same descriptor have parts of its memory of their own, also if a
\* request comes again because there was no message object for it.
Requests(l) == {p \in placed : p.life = l /\ p.type \in {"put", "get"}}
DepositsApart ==
    \A d \in MDs : "remote" \notin md[d].options =>
        \A p, q \in Requests(md[d].life) : p = q \/ p.to <= q.from \/ q.to <= p.from

\* A conditional update is made only if the process has taken every event of the
\* queue and no operation that will add one is under way, so that what it saw
\* when it looked is still true.
UpdateSafe ==
    [][Calls("MDUpdate") /\ pc' = pc + 1 /\ md' # md /\ Call.testq /\ ~careless =>
         /\ ueq.sequence = eq.sequence
         /\ ~\E m \in Msgs : msg[m].inuse /\ md[msg[m].md].eq]_vars

\* A descriptor that has taken its last operation is unlinked in the end, unless
\* the process upset the counts of pending operations.
Retired ==
    \A d \in MDs : md[d].inuse /\ md[d].do_unlink ~> ~md[d].inuse \/ ~up \/ careless


=============================================================================
