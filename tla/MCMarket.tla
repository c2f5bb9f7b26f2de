------------------------------ MODULE MCMarket ------------------------------
EXTENDS Market

CONSTANTS a1, a2, a3, k

\* Two publications with one key, and one without.
MCKeyOf == [a \in Apps |-> IF a = a3 THEN NoKey ELSE k]

\* All deletions are of the first app.
MCTarget == [d \in Deleters |-> a1]

\* The owner of the first app gives up its key and names the file of the third, and that
\* of the third takes the key over.
MCEdits == {<<a1, [key |-> NoKey, name |-> a3]>>, <<a3, [key |-> k, name |-> a3]>>}
=============================================================================
