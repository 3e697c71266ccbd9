---------------------------- MODULE RateLimiter ----------------------------
(***************************************************************************)
(* One bucket of backend/utils/ratelimit.py: a fixed-window counter per    *)
(* key, shared by the threads of the server process.  Every request first  *)
(* counts itself in the counter shared by all buckets (_maybe_prune), which *)
(* makes every PruneEvery-th request sweep the expired windows; then it    *)
(* reads the clock, and only after that takes the lock of the bucket: the  *)
(* time a request is judged by may be older than the window it finds.      *)
(***************************************************************************)
EXTENDS Integers, FiniteSets

CONSTANTS
    Threads,     \* threads that serve requests
    Keys,        \* login:<ip>, register:<ip> or llm:<user id>
    Elsewhere,   \* a request that is limited by another bucket
    Window,      \* window_seconds, in ticks of the clock
    Second,      \* ticks of the clock in a second
    MaxHits,     \* max_hits
    PruneEvery,  \* _PRUNE_EVERY
    MaxClock,    \* bound: the last tick
    MaxRequests  \* bound: requests ever made

ASSUME LimiterAssumption ==
    /\ Window \in Nat \ {0} /\ Second \in Nat \ {0} /\ MaxHits \in Nat \ {0}
    /\ PruneEvery \in Nat \ {0} /\ MaxClock \in Nat /\ MaxRequests \in Nat
    /\ Elsewhere \notin Keys /\ IsFiniteSet(Threads)

VARIABLES
    clock,    \* time.monotonic()
    counter,  \* _counter, modulo PruneEvery
    hits,     \* _hits: key -> window; count 0 is a key that is not in the dict
    pc,       \* where each thread is in _enforce
    key,      \* the key of its request
    stamp,    \* the time it has read
    made,     \* number of requests made so far
    served,   \* history: the admissions, with the time they were made at
    verdict   \* the answer of the last step, NoVerdict if it gave none

vars == <<clock, counter, hits, pc, key, stamp, made, served, verdict>>

Times     == 0 .. MaxClock
NoWindow  == [start |-> 0, count |-> 0]
NoVerdict == [key |-> Elsewhere, allowed |-> TRUE, retry |-> 0, at |-> 0, start |-> 0]

Init ==
    /\ clock = 0
    /\ counter = 0
    /\ hits = [k \in Keys |-> NoWindow]
    /\ pc = [t \in Threads |-> "idle"]
    /\ key = [t \in Threads |-> Elsewhere]
    /\ stamp = [t \in Threads |-> 0]
    /\ made = 0
    /\ served = {}
    /\ verdict = NoVerdict

Tick ==
    /\ clock < MaxClock                                            \* bound
    /\ clock' = clock + 1
    /\ UNCHANGED <<counter, hits, pc, key, stamp, made, served, verdict>>

-----------------------------------------------------------------------------
(* _enforce                                                                *)

\* _maybe_prune, up to its decision: only one thread finds the sweep due.
Enter(t, k) ==
    /\ pc[t] = "idle"
    /\ made < MaxRequests                                          \* bound
    /\ made' = made + 1
    /\ counter' = (counter + 1) % PruneEvery
    /\ key' = [key EXCEPT ![t] = k]
    /\ pc' = [pc EXCEPT ![t] = IF counter' = 0 THEN "sweep"
                               ELSE IF k = Elsewhere THEN "idle" ELSE "arrived"]
    /\ verdict' = NoVerdict
    /\ UNCHANGED <<clock, hits, stamp, served>>

ReadForPrune(t) ==
    /\ pc[t] = "sweep"
    /\ stamp' = [stamp EXCEPT ![t] = clock]
    /\ pc' = [pc EXCEPT ![t] = "prune"]
    /\ verdict' = NoVerdict
    /\ UNCHANGED <<clock, counter, hits, key, made, served>>

\* Whoever read the time now takes the window to be over.
LateExpiry(window, now) == now - window.start > Window             \* mutant: > for >=
Expired(window, now) == now - window.start >= Window

SweptAll(now) == [k \in Keys |-> NoWindow]      \* mutant: reset() instead of _prune
Swept(now) == [k \in Keys |-> IF Expired(hits[k], now) THEN NoWindow ELSE hits[k]]

Prune(t) ==
    /\ pc[t] = "prune"
    /\ hits' = Swept(stamp[t])
    /\ pc' = [pc EXCEPT ![t] = IF key[t] = Elsewhere THEN "idle" ELSE "arrived"]
    /\ verdict' = NoVerdict
    /\ UNCHANGED <<clock, counter, key, stamp, made, served>>

ReadClock(t) ==
    /\ pc[t] = "arrived"
    /\ stamp' = [stamp EXCEPT ![t] = clock]
    /\ pc' = [pc EXCEPT ![t] = "check"]
    /\ verdict' = NoVerdict
    /\ UNCHANGED <<clock, counter, hits, key, made, served>>

Full(window) == window.count >= MaxHits

\* int(window_seconds - (now - start)) + 1, in seconds; Window is a whole
\* number of seconds, now - start need not be, and may be negative.
RetryFloor(start, now) == (Window - (now - start)) \div Second     \* mutant: no + 1
RetryAfter(start, now) == (Window - (now - start)) \div Second + 1

Answer(t, window, allowed, retry) ==
    /\ hits' = [hits EXCEPT ![key[t]] = window]
    /\ served' = IF allowed
                 THEN served \cup {[key |-> key[t], at |-> clock, nr |-> Cardinality(served) + 1]}
                 ELSE served
    /\ verdict' = [key |-> key[t], allowed |-> allowed, retry |-> retry,
                   at |-> stamp[t], start |-> window.start]

\* _Bucket.check under the lock.
Check(t) ==
    LET now    == stamp[t]
        found  == hits[key[t]]
        window == IF found.count = 0 THEN [start |-> now, count |-> 0] ELSE found
    IN  /\ pc[t] = "check"
        /\ \/ /\ Expired(window, now)
              /\ Answer(t, [start |-> now, count |-> 1], TRUE, Window \div Second)
           \/ /\ ~Expired(window, now)
              /\ Full(window)
              /\ Answer(t, window, FALSE, RetryAfter(window.start, now))
           \/ /\ ~Expired(window, now)
              /\ ~Full(window)
              /\ Answer(t, [window EXCEPT !.count = @ + 1], TRUE, RetryAfter(window.start, now))
        /\ pc' = [pc EXCEPT ![t] = "idle"]
        /\ UNCHANGED <<clock, counter, key, stamp, made>>

Next ==
    \/ Tick
    \/ \E t \in Threads :
          \/ \E k \in Keys \cup {Elsewhere} : Enter(t, k)
          \/ ReadForPrune(t) \/ Prune(t) \/ ReadClock(t) \/ Check(t)

Spec == Init /\ [][Next]_vars

-----------------------------------------------------------------------------
Windows == [start: Times, count: 0 .. MaxHits]
Admissions == [key: Keys, at: Times, nr: Nat]

TypeOK ==
    /\ clock \in Times /\ counter \in 0 .. PruneEvery - 1 /\ made \in 0 .. MaxRequests
    /\ hits \in [Keys -> Windows]
    /\ pc \in [Threads -> {"idle", "sweep", "prune", "arrived", "check"}]
    /\ key \in [Threads -> Keys \cup {Elsewhere}]
    /\ stamp \in [Threads -> 0 .. clock]
    /\ \A t \in Threads : pc[t] \in {"arrived", "check"} => key[t] \in Keys
    /\ served \subseteq Admissions /\ IsFiniteSet(served)
    /\ verdict \in [key: Keys \cup {Elsewhere}, allowed: BOOLEAN, retry: Int, at: Times, start: Times]

\* Admissions of k in the ticks from .. to.
Admitted(k, from, to) == { a \in served : a.key = k /\ a.at >= from /\ a.at <= to }

\* A request is refused only if its own key, and no other, has had MaxHits
\* admissions since less than a window before it read the clock.
RefusedOnlyWhenFull ==
    ~verdict.allowed => Cardinality(Admitted(verdict.key, verdict.at - Window + 1, clock)) >= MaxHits

\* A client that waits for Retry-After is out of the window that refused it,
\* and waits at most a second too long, also when the window it was refused by
\* began after the time it was judged by.
RetryHonest ==
    ~verdict.allowed =>
        LET again == verdict.at + verdict.retry * Second
        IN  again >= verdict.start + Window /\ again <= verdict.start + Window + Second

\* However the threads interleave, any stretch of one window length sees at most
\* two quotas of a key, and one more for each thread but one: a thread delayed
\* between reading the clock and taking the lock can open a window whose start is
\* already past, after the one it would have been refused by was swept.
SlidingBound ==
    \A k \in Keys, from \in Times :
        Cardinality(Admitted(k, from, from + Window - 1)) <= MaxHits * (Cardinality(Threads) + 1)
=============================================================================
