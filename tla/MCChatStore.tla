---------------------------- MODULE MCChatStore ----------------------------
(***************************************************************************)
(* An instance of ChatStore: two turns of two users, one pool thread.      *)
(***************************************************************************)
EXTENDS ChatStore, TLC

CONSTANTS alice, bob, nobody, p1, p2, t1

TwoUsers == {alice, bob}
TwoTurns == {p1, p2}
OneThread == {t1}
GivenTitle == {"given"}
MadeTitle == {"made"}

\* Users are interchangeable, also for the fairness conditions, which are stated
\* for each turn and each thread and name no user.
UserSymmetry == Permutations(Users)
=============================================================================
