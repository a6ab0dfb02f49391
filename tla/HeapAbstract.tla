---------------------------- MODULE HeapAbstract ----------------------------
(***************************************************************************)
(* What the memory manager promises its users, without reference counts:  *)
(* the mutator allocates objects, copies and drops the handles it holds   *)
(* in root slots, and moves handles in and out of object fields; the      *)
(* memory manager may reclaim an object only when no chain of fields leads *)
(* to it from a root slot.                                                 *)
(***************************************************************************)
EXTENDS FiniteSets, Naturals

CONSTANTS
    Objs,       \* heap object slots
    Roots,      \* handles held outside the heap (C variables, VM stack)
    Fields,     \* the field slots of an object
    NULL        \* a non-heap value in a slot

VARIABLES alive, root, field

avars == <<alive, root, field>>

\* The objects a chain of fields leads to from the objects in S.
RECURSIVE Closure(_, _)
Closure(S, fld) ==
    LET next == S \cup ({fld[p][f] : p \in S, f \in Fields} \ {NULL})
    IN  IF next = S THEN S ELSE Closure(next, fld)

Reachable == Closure({root[r] : r \in Roots} \ {NULL}, field)

NoFields == [f \in Fields |-> NULL]

AInit ==
    /\ alive = {}
    /\ root = [r \in Roots |-> NULL]
    /\ field = [o \in Objs |-> NoFields]

\* Allocate o into slot r; a handle r held before is dropped.
Alloc(r, o) ==
    /\ o \notin alive
    /\ alive' = alive \cup {o}
    /\ root' = [root EXCEPT ![r] = o]
    /\ UNCHANGED field

(* Allocate o holding, in its field f, the object root rv holds; the     *)
(* handle in rv is kept (a borrowed argument) or moved (an owned one).    *)
AllocHolding(r, o, rv, keep, f) ==
    /\ o \notin alive /\ root[r] = NULL /\ root[rv] # NULL /\ r # rv
    /\ alive' = alive \cup {o}
    /\ field' = [field EXCEPT ![o] = [NoFields EXCEPT ![f] = root[rv]]]
    /\ root' = [root EXCEPT ![r] = o, ![rv] = IF keep THEN root[rv] ELSE NULL]

CopyRoot(r1, r2) ==
    /\ root[r1] # NULL /\ root[r2] = NULL
    /\ root' = [root EXCEPT ![r2] = root[r1]]
    /\ UNCHANGED <<alive, field>>

\* The handles in the slots S are dropped together.
DropRoots(S) ==
    /\ S # {}
    /\ root' = [r \in Roots |-> IF r \in S THEN NULL ELSE root[r]]
    /\ UNCHANGED <<alive, field>>

\* The handle in r1 moves to r2; a handle r2 held before is dropped.
MoveRoot(r1, r2) ==
    /\ root[r1] # NULL /\ r1 # r2
    /\ root' = [root EXCEPT ![r2] = root[r1], ![r1] = NULL]
    /\ UNCHANGED <<alive, field>>

\* The handle in rv moves into field f of the object ro holds.
Store(ro, f, rv) ==
    /\ root[ro] # NULL /\ ro # rv
    /\ field' = [field EXCEPT ![root[ro]][f] = root[rv]]
    /\ root' = [root EXCEPT ![rv] = NULL]
    /\ UNCHANGED alive

\* Field f of the object ro holds is emptied.
Clear(ro, f) ==
    /\ root[ro] # NULL
    /\ field' = [field EXCEPT ![root[ro]][f] = NULL]
    /\ UNCHANGED <<alive, root>>

(* The objects ra and rb hold may each take a copy of the other's handle *)
(* in field f, in one step that also drops the handles in the slots S.   *)
Link(ra, rb, f, a, b, S) ==
    /\ root[ra] # NULL /\ root[rb] # NULL
    /\ field' = [field EXCEPT ![root[ra]][f] = IF a THEN root[rb] ELSE @,
                              ![root[rb]][f] = IF b THEN root[ra] ELSE @]
    /\ root' = [r \in Roots |-> IF r \in S THEN NULL ELSE root[r]]
    /\ UNCHANGED alive

Load(ro, f, rd) ==
    /\ root[ro] # NULL /\ root[rd] = NULL
    /\ root' = [root EXCEPT ![rd] = field[root[ro]][f]]
    /\ UNCHANGED <<alive, field>>

\* Reclaim an object nothing reachable points to.
Collect(o) ==
    /\ o \in alive \ Reachable
    /\ alive' = alive \ {o}
    /\ field' = [field EXCEPT ![o] = NoFields]
    /\ UNCHANGED root

ANext ==
    \/ \E r \in Roots, o \in Objs : Alloc(r, o)
    \/ \E r, rv \in Roots, o \in Objs, keep \in BOOLEAN, f \in Fields :
           AllocHolding(r, o, rv, keep, f)
    \/ \E r1, r2 \in Roots : CopyRoot(r1, r2)
    \/ \E S \in SUBSET Roots : DropRoots(S)
    \/ \E r1, r2 \in Roots : MoveRoot(r1, r2)
    \/ \E ro, rv \in Roots, f \in Fields : Store(ro, f, rv)
    \/ \E ro, rd \in Roots, f \in Fields : Load(ro, f, rd)
    \/ \E ra, rb \in Roots, f \in Fields, a, b \in BOOLEAN, S \in SUBSET Roots :
          Link(ra, rb, f, a, b, S)
    \/ \E ro \in Roots, f \in Fields : Clear(ro, f)
    \/ \E o \in Objs : Collect(o)

ASpec == AInit /\ [][ANext]_avars
=============================================================================
