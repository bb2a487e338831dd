------------------------------- MODULE MCPolls -------------------------------
(* Polls with edits that allow more options, fewer or other ones, and      *)
(* responses with no options, too many, one twice, or one the poll lacks.  *)
EXTENDS Polls, TLC

Start(m, os) == [max |-> m, options |-> os]

MCStarts == {Start(1, {"a", "b"}), Start(2, {"b", "c"})}

MCAnswers == {<<>>, <<"a", "b">>, <<"c", "c", "b">>}

Symmetry == Permutations(Voters)

(* An edit can replace it by either of them.                               *)
MCInit == PollInit /\ start = Start(1, {"a", "b"})

MCSpec == MCInit /\ [][PollNext]_pollVars
=============================================================================
