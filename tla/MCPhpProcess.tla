---------------------------- MODULE MCPhpProcess ----------------------------
(* Instances of PhpProcess for TLC. *)
EXTENDS PhpProcess

CONSTANTS t1, t2, k1, k2, b1, b2

\* Two threads share, evict and close the handles of two fingerprints, on
\* one broker.
Claims == [brokers |-> <<b1>>, ops |-> {"consumer"}, polls |-> {FALSE}, pools |-> 2, handles |-> 2,
           connections |-> 1, sets |-> 1, composites |-> 1, forks |-> 0]

\* The profile of one pool spans two brokers, one of which is lost and comes
\* back: its consumer is dropped and fetched again ...
Refetch == [brokers |-> <<b1, b2>>, ops |-> {"consumer"}, polls |-> {}, pools |-> 2, handles |-> 1,
            connections |-> 3, sets |-> 3, composites |-> 2, forks |-> 0]

\* ... or polled through the recovery.
Polled == [Refetch EXCEPT !.polls = BOOLEAN, !.composites = 1, !.pools = 1]

\* Publishers and admin channels, through a loss.
Other == [brokers |-> <<b1>>, ops |-> {"publisher", "admin"}, polls |-> {}, pools |-> 2, handles |-> 1,
          connections |-> 2, sets |-> 0, composites |-> 0, forks |-> 0]

\* A pool with a consumer is inherited by a forked child.
Forked == [Claims EXCEPT !.pools = 1, !.forks = 1]

Everything == {Claims, Refetch, Polled, Other, Forked}

Symmetry == Permutations(Threads) \union Permutations(Keys)
=============================================================================
