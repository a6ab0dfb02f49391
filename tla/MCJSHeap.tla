------------------------------ MODULE MCJSHeap ------------------------------
EXTENDS JSHeap, TLC

CONSTANTS o1, o2, o3, r1, r2

MCObjs == {o1, o2, o3}
MCRoots == {r1, r2}
MCFields == {1, 2}

\* Objects and root slots are interchangeable: nothing in the heap orders them.
Symmetry == Permutations(MCObjs) \cup Permutations(MCRoots)
=============================================================================
