----------------------------- MODULE MCJSRuntime -----------------------------
EXTENDS JSRuntime, TLC

CONSTANTS o1, o2, o3, g1, g2, r1, r2, c1, c2, f1, f2

MCObjs == {o1, o2, o3}
MCRoots == {g1, g2, r1, r2}
MCGlobal == [c \in {c1, c2} |-> IF c = c1 THEN g1 ELSE g2]

\* Heap objects are interchangeable; roots and contexts are tied by Global.
Symmetry == Permutations(MCObjs)
=============================================================================
