------------------------------ MODULE MCJSAtoms ------------------------------
EXTENDS JSAtoms, TLC

CONSTANTS c1, c2, c3, a, b, length

\* Three clients: two share an atom while a third frees and re-interns.
MCClients == {c1, c2, c3}

\* Two dynamic texts and one predefined one.
MCNames == {a, b, length}
MCPredefined == {length}

\* An ordinary index, the largest index atom (2^31 - 1) and the first
\* uint32 that has none (2^31).
MCNums == {W(0, 5), W(0, MaxI32), W(1, 0)}

ClientSym == Permutations(MCClients)
=============================================================================
