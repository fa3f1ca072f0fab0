---------------------------- MODULE MCRepoIndex -----------------------------
EXTENDS RepoIndex, TLC

CONSTANTS n1, n2, p, q, s

\* A chunk of the file p that clients send in two oversized versions, and once as a
\* small one of the file q; p and q import each other.  The client that sends Long
\* keeps the id it knows, not that of the second segment.  Other is a second chunk of p.
Big == [id |-> <<n1, 0>>, path |-> p, text |-> 3, big |-> TRUE, imports |-> {q}, symbol |-> s]
Long == [Big EXCEPT !.text = 2, !.imports = {}, !.symbol = None]
Moved == [Big EXCEPT !.path = q, !.text = 1, !.big = FALSE, !.imports = {p}, !.symbol = None]
Other == [Big EXCEPT !.id = <<n2, 0>>, !.text = 1, !.big = FALSE]

Ask(delete, upsert, keep) == [delete |-> delete, upsert |-> upsert, keep |-> keep]

MCRequests ==
    { Ask({}, <<Moved>>, {}),
      Ask({}, <<Long>>, {<<n1, 0>>}),
      Ask({}, <<Big>>, {}),
      Ask({<<n1, 0>>}, <<Other>>, {}) }

\* The calls are alike.
CallSymmetry == Permutations(Syncs)

=============================================================================
