---------------------------- MODULE MCCollectives ----------------------------
(* Small groups for the collective operations.                             *)
EXTENDS Collectives

Op(op, list, tag, group) == [op |-> op, list |-> list, tag |-> tag, group |-> group]
Scene(calls, slow, dead) == [calls |-> calls, slow |-> slow, dead |-> dead]
All == <<0, 1, 2, 3>>
Three == <<0, 1, 2>>

\* A load as the PCTs do it: membership, data to a subgroup, data to all.
Load == Scene(<<Op("barrier", All, 0, 1), Op("bcast", <<0, 2>>, 0, 1),
                Op("bcast", All, 0, 1)>>, FALSE, {})
\* A vote of four, whose tree has an inner member, and one in another order.
Votes == Scene(<<Op("vote", All, 1, 1), Op("vote", <<2, 0, 1>>, 1, 1)>>, FALSE, {})
\* Subgroups, then more: one event at a time has to be saved.
Sub == Scene(<<Op("barrier", <<0, 1>>, 0, 1), Op("barrier", <<2, 1>>, 0, 1),
               Op("barrier", <<0, 2>>, 0, 1), Op("barrier", Three, 0, 1)>>, FALSE, {})
\* Groups one after the other, with timeouts.
Again == Scene(<<Op("barrier", Three, 0, 1), Op("barrier", Three, 0, 2)>>, TRUE, {})
VoteAgain == Scene(<<Op("vote", <<0, 1>>, 1, 1), Op("vote", <<0, 1>>, 1, 2)>>, TRUE, {})
CommitVote == Scene(<<Op("barrier", <<0, 2>>, 0, 1), Op("vote", <<2, 0>>, 1, 2)>>, TRUE, {})
SlowVote == Scene(<<Op("vote", Three, 1, 1)>>, TRUE, {})
SlowLoad == Scene(<<Op("bcast", <<0, 2>>, 0, 1), Op("bcast", Three, 0, 1)>>, TRUE, {})
\* A member that is not there.
Dead == Scene(<<Op("barrier", All, 0, 1), Op("vote", All, 1, 1)>>, TRUE, {1})
MCScenarios == {Load, Votes, Sub, Again, VoteAgain, CommitVote, SlowVote, SlowLoad, Dead}

\* Pairs around member 0: two events have to be saved at once.
Pairs == {Scene(<<Op("barrier", <<0, 1>>, 0, 1), Op("barrier", <<0, 2>>, 0, 1),
                  Op("barrier", <<0, 3>>, 0, 1)>>, FALSE, {})}

=============================================================================
