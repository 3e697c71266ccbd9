---------------------------- MODULE MCAccounts ----------------------------
EXTENDS Accounts, TLC

CONSTANTS ada, bea, cyd, one, two, none, w1, w2

Is(role) == [role |-> role, active |-> TRUE, password |-> one]

\* Two administrators, and an e-mail that is free.
TwoAdmins == (ada :> Is("admin")) @@ (bea :> Is("admin")) @@ (cyd :> Absent)

TwoWorkers == {w1, w2}
AccountSymmetry == Permutations(Workers)
=============================================================================
