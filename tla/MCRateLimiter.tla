--------------------------- MODULE MCRateLimiter ---------------------------
(***************************************************************************)
(* An instance of RateLimiter: one key, a window of two seconds of two     *)
(* ticks.                                                                  *)
(***************************************************************************)
EXTENDS RateLimiter, TLC

CONSTANTS t1, t2, alice, other

TwoThreads == {t1, t2}
OneKey == {alice}

LimiterSymmetry == Permutations(Threads) \cup Permutations(Keys)
=============================================================================
