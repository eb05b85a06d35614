---------------------------- MODULE MCH1Connection ----------------------------
EXTENDS H1Connection

Request(i, n, expects) ==
    <<[head |-> TRUE, of |-> i, size |-> n, expects_continue |-> expects]>>
        \o [j \in 1..n |-> [head |-> FALSE, of |-> i, at |-> j]]

\* Bodies longer than the body buffer, with another request behind, and one that
\* is cut short.
TwoPosts == {Request(1, 3, TRUE) \o Request(2, 2, FALSE),
             Request(1, 0, FALSE) \o Request(2, 3, TRUE) \o Request(3, 1, FALSE),
             Request(1, 4, FALSE) \o Request(2, 1, FALSE),
             SubSeq(Request(1, 4, TRUE), 1, 3)}
===============================================================================
