----------------------------- MODULE MCVotePoll -----------------------------
(* Two questions with one option: a vote for another option is no other     *)
(* case, one for another question is.                                       *)
EXTENDS VotePoll

CONSTANTS q1, q2, tabs

MCQuestions == {q1, q2}
MCOptions == {tabs}
MCMaxVotes == [q \in MCQuestions |-> IF q = q1 THEN 2 ELSE 1]
=============================================================================
