------------------------------ MODULE MCPtlLib ------------------------------
(* Programs and requests for PtlLib.                                       *)
EXTENDS PtlLib

INF == PTL_MD_THRESH_INF
MD(length, threshold, max_offset, options, queue) ==
    [length |-> length, threshold |-> threshold, max_offset |-> max_offset,
     options |-> options, eq |-> queue]
Put(tag, length, ack) ==
    [type |-> "put", tag |-> tag, length |-> length, offset |-> 1, ack |-> ack]
GetOf(tag, length) ==
    [type |-> "get", tag |-> tag, length |-> length, offset |-> 1, ack |-> FALSE]

eqAlloc(n) == [op |-> "EQAlloc", count |-> n]
eqGet == [op |-> "EQGet"]
eqWait == [op |-> "EQWait"]
eqFree == [op |-> "EQFree"]
meAttach(h, tags, u) == [op |-> "MEAttach", as |-> h, tags |-> tags, unlink |-> u]
meInsert(h, at, after, tags) ==
    [op |-> "MEInsert", as |-> h, at |-> at, after |-> after, tags |-> tags, unlink |-> TRUE]
meUnlink(h) == [op |-> "MEUnlink", of |-> h]
mdAttach(h, to, m, u) == [op |-> "MDAttach", as |-> h, to |-> to, md |-> m, unlink |-> u]
mdInsert(h, at, after, m) ==
    [op |-> "MDInsert", as |-> h, at |-> at, after |-> after, md |-> m, unlink |-> TRUE]
mdBind(h, m) == [op |-> "MDBind", as |-> h, md |-> m]
mdUnlink(h) == [op |-> "MDUnlink", of |-> h]
mdUpdate(h, m, testq, back) ==
    [op |-> "MDUpdate", of |-> h, md |-> m, testq |-> testq, back |-> back]
put(h, ack) == [op |-> "Put", of |-> h, ack |-> ack]
get_(h, reply) == [op |-> "Get", of |-> h, reply |-> reply]

\* A receiver with room for two messages by threshold, then by offset.
Receive(m) ==
    <<eqAlloc(2), meAttach("e", {"a"}, TRUE), mdAttach("d", "e", m, TRUE), eqWait, eqWait>>
\* Three at once, with two message objects for them.
Receive3 ==
    <<eqAlloc(3), meAttach("e", {"a"}, TRUE),
      mdAttach("d", "e", MD(3, 3, 3, {"put", "remote"}, TRUE), TRUE), eqWait, eqWait, eqWait>>
\* More events than the queue holds, read at leisure.
Lag ==
    <<eqAlloc(2), meAttach("e", {"a"}, FALSE),
      mdAttach("d", "e", MD(9, INF, 9, {"put"}, TRUE), FALSE), eqGet, eqWait, eqGet, eqGet>>
\* A sender that waits for its data to be sent, gets data while the ack is on its
\* way, and has a new queue in the end.
Sender ==
    <<eqAlloc(3), mdBind("d", MD(2, 2, 2, {}, TRUE)), put("d", TRUE), eqWait,
      mdBind("g", MD(2, 2, 2, {"truncate"}, TRUE)), get_("g", 3), eqWait, eqWait, eqWait,
      eqFree, eqAlloc(2), eqGet>>
\* The threshold does not cover the ack, and the place is used again.
Hasty ==
    <<eqAlloc(3), mdBind("d", MD(2, 1, 2, {}, TRUE)), put("d", TRUE), eqWait,
      mdBind("f", MD(2, 2, 2, {}, TRUE)), put("f", FALSE), put("f", FALSE), put("d", FALSE)>>
\* A descriptor for what nobody waits for, and a receive that is posted only if
\* nothing has come in unseen.
Post ==
    <<eqAlloc(3), meAttach("x", {"a", "b"}, FALSE),
      mdAttach("dx", "x", MD(9, INF, 9, {"put"}, TRUE), FALSE),
      meInsert("r", "x", FALSE, {"a"}), mdAttach("dr", "r", MD(2, 0, 2, {"put"}, TRUE), TRUE),
      eqGet, mdUpdate("dr", MD(2, 1, 2, {"put"}, TRUE), TRUE, 6)>>
\* Lists of entries and descriptors, taken away while messages come in.
Lists ==
    <<meAttach("x", {"a"}, TRUE), meAttach("y", {"a"}, TRUE), meInsert("y", "x", TRUE, {"a", "b"}),
      mdAttach("d1", "x", MD(2, 1, 2, {"put"}, FALSE), TRUE),
      mdAttach("d2", "x", MD(2, 1, 2, {"put"}, FALSE), TRUE),
      mdInsert("d2", "d1", TRUE, MD(2, 1, 2, {"put", "remote"}, FALSE)),
      mdInsert("d3", "d2", FALSE, MD(2, 1, 2, {"put"}, FALSE)),
      mdUnlink("d1"), meUnlink("y"), meUnlink("x"), mdUnlink("d2")>>
\* A queue is taken from a descriptor whatever is under way.
Switch ==
    <<eqAlloc(2), meAttach("e", {"a"}, TRUE),
      mdAttach("d", "e", MD(4, 2, 4, {"put"}, TRUE), TRUE), eqGet,
      mdUpdate("d", MD(4, 1, 4, {"put"}, FALSE), FALSE, 1), mdUnlink("d")>>
\* Gets of a descriptor the other side manages.
Serve ==
    <<eqAlloc(2), meAttach("e", {"a"}, FALSE),
      mdAttach("d", "e", MD(4, INF, 4, {"get", "remote", "truncate"}, TRUE), FALSE),
      mdBind("o", MD(2, INF, 2, {}, FALSE)), put("o", FALSE), put("o", FALSE), put("o", FALSE)>>
\* A descriptor is taken away while its message is sent, and its place used again.
Reuse ==
    <<eqAlloc(3), mdBind("d", MD(2, 2, 2, {}, TRUE)), put("d", FALSE), mdUnlink("d"),
      mdBind("d", MD(2, 1, 2, {}, TRUE)), put("d", FALSE), mdBind("f", MD(2, 1, 2, {}, TRUE)),
      eqGet>>
\* Descriptors and entries run out.
Crowd ==
    <<mdBind("a", MD(1, 1, 1, {}, FALSE)), mdBind("b", MD(1, 1, 1, {}, FALSE)),
      mdBind("c", MD(1, 1, 1, {}, FALSE)), mdBind("f", MD(1, 1, 1, {}, FALSE)),
      put("a", FALSE), mdInsert("g", "b", TRUE, MD(1, 1, 1, {}, FALSE))>>

Case(prog, ready, in, returns, writefails) ==
    [prog |-> prog, ready |-> ready, incoming |-> in, returns |-> returns,
     writefails |-> writefails]

Cases ==
    {Case(Receive(MD(9, 2, 9, {"put"}, TRUE)), 4,
          <<Put("a", 2, TRUE), Put("a", 2, FALSE), Put("a", 2, FALSE)>>, TRUE, FALSE),
     Case(Receive(MD(5, INF, 3, {"put", "truncate", "noack"}, TRUE)), 4,
          <<Put("a", 2, TRUE), Put("a", 4, FALSE), Put("a", 2, FALSE)>>, TRUE, FALSE),
     Case(Receive3, 4, <<Put("a", 2, TRUE), Put("a", 2, FALSE), Put("a", 2, FALSE)>>, TRUE, FALSE),
     Case(Lag, 4, <<Put("a", 2, FALSE), Put("a", 1, FALSE), Put("b", 1, FALSE),
                    Put("a", 2, FALSE), Put("a", 1, FALSE)>>, FALSE, FALSE),
     Case(Lag, 4, <<Put("a", 2, FALSE), Put("a", 1, FALSE)>>, FALSE, TRUE),
     Case(Sender, 1, <<>>, TRUE, FALSE), Case(Hasty, 1, <<>>, TRUE, FALSE),
     Case(Post, 3, <<Put("a", 1, FALSE), Put("b", 1, FALSE), Put("a", 1, FALSE)>>, TRUE, FALSE),
     Case(Lists, 4, <<Put("a", 1, FALSE), Put("a", 1, FALSE), Put("b", 1, FALSE)>>, TRUE, FALSE),
     Case(Switch, 4, <<Put("a", 1, FALSE), Put("a", 1, FALSE)>>, TRUE, FALSE),
     Case(Serve, 4, <<GetOf("a", 2), GetOf("a", 5), GetOf("a", 2)>>, TRUE, FALSE),
     Case(Reuse, 1, <<>>, TRUE, FALSE), Case(Crowd, 1, <<>>, TRUE, FALSE)}

=============================================================================
