------------------------------- MODULE JSHeap -------------------------------
(***************************************************************************)
(* The reference-counted heap of one runtime: object headers (count and   *)
(* collector state), the owning handles the mutator holds, the iterative  *)
(* release of objects whose count drops to zero, and the cycle collector. *)
(* One mutator thread: every API call runs to completion, and the loops   *)
(* inside a release or a collection are steps no API call interleaves.    *)
(*                                                                         *)
(* The calls follow the ownership rules of quickjs.h: JS_NewObject and    *)
(* JS_GetProperty return an owning handle, JS_DupValue makes one from a   *)
(* borrowed one, JS_FreeValue consumes one, and JS_SetProperty consumes   *)
(* the value it stores. The pending exception is one more owning slot:  *)
(* JS_Throw fills it, JS_GetException empties it into the caller's hands. *)
(***************************************************************************)
EXTENDS Integers, FiniteSets, Sequences

CONSTANTS
    Objs,       \* heap object slots (an arena of headers)
    Roots,      \* owning handles held outside the heap
    Fields,     \* the property slots of an object
    NULL,       \* a slot holding no heap value (JS_UNDEFINED)
    Limits,         \* the limits the embedder may set, counted in objects
    MallocMayFail,  \* the injected js_malloc may return NULL
    ErrValue        \* a pending exception that is no heap object

ASSUME Limits \subseteq 0 .. Cardinality(Objs) /\ MallocMayFail \in BOOLEAN

VARIABLES
    mem,        \* "free" | "live" | "dead": finalized, memory not yet released
    rc,         \* the header's ref_count
    field,      \* the owning handles an object holds
    root,       \* the owning handles the mutator holds
    zeroList,   \* objects whose count reached zero, not yet freed
    phase,      \* the collector phase: "none" or "remove_cycles"
    garbage,    \* the objects the running collection will finalize
    exc,        \* the pending exception: NULL (JS_UNINITIALIZED), an object or ErrValue
    finCount,   \* finalizer runs since the slot was last allocated
    memLimit    \* malloc_limit: 0 for none

vars == <<mem, rc, field, root, zeroList, phase, garbage, exc, finCount, memLimit>>

\* The pending exception is a root of the abstract heap.
ExcSlot == "current_exception"
AbsRoot == [r \in Roots \cup {ExcSlot} |->
              IF r = ExcSlot THEN (IF exc \in Objs THEN exc ELSE NULL) ELSE root[r]]

Abs == INSTANCE HeapAbstract
         WITH alive <- {o \in Objs : mem[o] = "live"},
              Roots <- Roots \cup {ExcSlot}, root <- AbsRoot

Closure(S, fld) == Abs!Closure(S, fld)
NoFields == Abs!NoFields
Live == {o \in Objs : mem[o] = "live"}

\* JS_IsLiveObject: the object has not been finalized.
JS_IsLiveObject(o) == mem[o] = "live"

\* How many field slots of object p hold a handle on c.
Holds(p, c) == Cardinality({f \in Fields : field[p][f] = c})

\* Mutant: gc_decref counting holders instead of handles.
InternalRefsByHolder(o) == Cardinality({p \in Live : \E f \in Fields : field[p][f] = o})

\* The handles on o that live objects hold (what gc_decref subtracts).
InternalRefs(o) == Cardinality({<<p, f>> \in Live \X Fields : field[p][f] = o})

\* No API call runs while a release or a collection is in progress.
Idle == zeroList = {} /\ phase = "none"

\* Mutant: the zero test made on the count before it was decremented.
ReleaseStaleTest(o) ==
    /\ rc' = [rc EXCEPT ![o] = @ - 1]
    /\ zeroList' = IF rc[o] = 0 THEN {o} ELSE {}

(* Drop one owning handle on o: the count goes down and, at zero, o joins *)
(* the list the release loop frees from.                                  *)
Release(o) ==
    /\ rc' = [rc EXCEPT ![o] = @ - 1]
    /\ zeroList' = IF rc[o] = 1 THEN {o} ELSE {}

Init ==
    /\ mem = [o \in Objs |-> "free"]
    /\ rc = [o \in Objs |-> 0]
    /\ field = [o \in Objs |-> NoFields]
    /\ root = [r \in Roots |-> NULL]
    /\ zeroList = {}
    /\ phase = "none"
    /\ garbage = {}
    /\ exc = NULL
    /\ finCount = [o \in Objs |-> 0]
    /\ memLimit = 0

(* js_malloc refuses a block when the bytes in use would pass malloc_limit; *)
(* a limit of 0 disables the check.                                        *)
CanAllocate == memLimit = 0 \/ Cardinality({o \in Objs : mem[o] # "free"}) < memLimit

\* An allocation fails over the limit, or when js_malloc returns NULL.
AllocFails == ~CanAllocate \/ MallocMayFail

(* Release the owning handles vs (a tuple of values; non-heap ones are    *)
(* ignored) against the counts rc1: the objects whose count reaches zero   *)
(* are queued for the release loop.                                        *)
ReleaseAll(rc1, vs) ==
    LET n == [o \in Objs |-> Cardinality({i \in DOMAIN vs : vs[i] = o})]
    IN  /\ rc' = [o \in Objs |-> rc1[o] - n[o]]
        /\ zeroList' = {o \in Objs : n[o] > 0 /\ rc1[o] = n[o]}

(* JS_ThrowOutOfMemory: the out-of-memory error becomes the pending        *)
(* exception; the exception it replaces and the handles vs the failing     *)
(* call had taken over are released.                                       *)
ThrowOutOfMemory(vs) ==
    /\ exc' = ErrValue
    /\ ReleaseAll(rc, Append(vs, exc))

AllocObject(r) ==
    \E o \in Objs :
        /\ mem[o] = "free"
        /\ mem' = [mem EXCEPT ![o] = "live"]
        /\ rc' = [rc EXCEPT ![o] = 1]
        /\ root' = [root EXCEPT ![r] = o]
        /\ finCount' = [finCount EXCEPT ![o] = 0]

(* JS_NewObject into an empty handle r: a header with count 1, or, over   *)
(* the memory limit, JS_EXCEPTION and a pending out-of-memory error.      *)
JS_NewObject(r) ==
    /\ Idle /\ root[r] = NULL
    /\ \/ CanAllocate /\ AllocObject(r) /\ UNCHANGED <<exc, zeroList, memLimit>>
       \/ AllocFails /\ ThrowOutOfMemory(<< >>) /\ UNCHANGED <<mem, root, finCount, memLimit>>
    /\ UNCHANGED <<field, phase, garbage, memLimit>>

\* The slot of an object that holds its prototype.
ProtoField == CHOOSE f \in Fields : \A g \in Fields : f <= g

\* The property slot of JS_SetConstructor's links, an array's element and a
\* C function's data.
PropField == CHOOSE f \in Fields : \A g \in Fields : f >= g

(* A fresh object with count 1 and fields fs goes into the empty slot r,  *)
(* over the counts rc1 and the handles root1 the caller has computed.      *)
AllocObjectWith(r, fs, rc1, root1) ==
    \E o \in Objs :
        /\ mem[o] = "free"
        /\ mem' = [mem EXCEPT ![o] = "live"]
        /\ rc' = [rc1 EXCEPT ![o] = 1]
        /\ field' = [field EXCEPT ![o] = fs]
        /\ root' = [root1 EXCEPT ![r] = o]
        /\ finCount' = [finCount EXCEPT ![o] = 0]

(* A constructor with a borrowed argument, as JS_NewObjectProto(ctx,      *)
(* proto): the new object keeps its own counted handle on it in field f.  *)
(* Out of memory leaves the argument untouched.                            *)
NewObjectBorrowing(r, rp, f) ==
    LET p == root[rp]
    IN  /\ Idle /\ root[r] = NULL /\ p # NULL
        /\ \/ /\ CanAllocate /\ UNCHANGED <<exc, zeroList, memLimit>>
              /\ AllocObjectWith(r, [NoFields EXCEPT ![f] = p], [rc EXCEPT ![p] = @ + 1], root)
           \/ AllocFails /\ ThrowOutOfMemory(<< >>) /\ UNCHANGED <<mem, field, root, finCount, memLimit>>
        /\ UNCHANGED <<phase, garbage, memLimit>>

JS_NewObjectProto(r, rp) == NewObjectBorrowing(r, rp, ProtoField)

\* Mutant: the data value stored without a duplicate of its own.
NewCFunctionDataNoDup(r, rd) ==
    /\ Idle /\ root[r] = NULL /\ root[rd] # NULL
    /\ \/ /\ CanAllocate /\ UNCHANGED <<exc, zeroList, memLimit>>
          /\ AllocObjectWith(r, [NoFields EXCEPT ![PropField] = root[rd]], rc, root)
       \/ AllocFails /\ ThrowOutOfMemory(<< >>) /\ UNCHANGED <<mem, field, root, finCount, memLimit>>
    /\ UNCHANGED <<phase, garbage, memLimit>>

(* JS_NewCFunctionData(ctx, func, length, magic, data_len, data): the data *)
(* values are JSValueConst, borrowed; the function object keeps a counted  *)
(* handle on each in its data slots.                                       *)
JS_NewCFunctionData(r, rd) == NewObjectBorrowing(r, rd, PropField)

(* Mutant: on out of memory the values are neither stored nor freed.       *)
NewObjectFromLeak(r, rv) ==
    /\ Idle /\ root[r] = NULL /\ root[rv] # NULL /\ r # rv
    /\ \/ /\ CanAllocate /\ UNCHANGED <<exc, zeroList, memLimit>>
          /\ AllocObjectWith(r, [NoFields EXCEPT ![ProtoField] = root[rv]], rc,
                             [root EXCEPT ![rv] = NULL])
       \/ /\ AllocFails /\ ThrowOutOfMemory(<< >>)
          /\ root' = [root EXCEPT ![rv] = NULL]
          /\ UNCHANGED <<mem, field, finCount, memLimit>>
    /\ UNCHANGED <<phase, garbage, memLimit>>

(* A constructor that "takes ownership of the values", as                *)
(* JS_NewObjectFrom(ctx, count, props, values): the value in rv moves into *)
(* field f of the new object, and on out of memory it is released, never   *)
(* handed back to the caller.                                              *)
NewObjectTakingOver(r, rv, f) ==
    /\ Idle /\ root[r] = NULL /\ root[rv] # NULL /\ r # rv
    /\ \/ /\ CanAllocate /\ UNCHANGED <<exc, zeroList, memLimit>>
          /\ AllocObjectWith(r, [NoFields EXCEPT ![f] = root[rv]], rc,
                             [root EXCEPT ![rv] = NULL])
       \/ /\ AllocFails /\ ThrowOutOfMemory(<<root[rv]>>)
          /\ root' = [root EXCEPT ![rv] = NULL]
          /\ UNCHANGED <<mem, field, finCount, memLimit>>
    /\ UNCHANGED <<phase, garbage, memLimit>>

JS_NewObjectFrom(r, rv) == NewObjectTakingOver(r, rv, ProtoField)

(* JS_NewArrayFrom(ctx, count, values) "takes ownership of the values":    *)
(* the value in rv becomes the array's element, and is released when the  *)
(* allocation fails.                                                       *)
JS_NewArrayFrom(r, rv) == NewObjectTakingOver(r, rv, PropField)

\* Mutant: the duplicate shares the handle without an increment.
DupValueNoIncrement(r1, r2) ==
    /\ Idle /\ root[r1] # NULL /\ root[r2] = NULL
    /\ root' = [root EXCEPT ![r2] = root[r1]]
    /\ UNCHANGED <<rc, mem, field, zeroList, phase, garbage, exc, finCount, memLimit>>

\* JS_DupValue(ctx, v) stored into the empty handle r2.
JS_DupValue(r1, r2) ==
    /\ Idle /\ root[r1] # NULL /\ root[r2] = NULL
    /\ rc' = [rc EXCEPT ![root[r1]] = @ + 1]
    /\ root' = [root EXCEPT ![r2] = root[r1]]
    /\ UNCHANGED <<mem, field, zeroList, phase, garbage, exc, finCount, memLimit>>

JS_FreeValue(r) ==
    /\ Idle /\ root[r] # NULL
    /\ Release(root[r])
    /\ root' = [root EXCEPT ![r] = NULL]
    /\ UNCHANGED <<mem, field, phase, garbage, exc, finCount, memLimit>>

(* JS_DeleteProperty: the property goes and the value it held is released. *)
JS_DeleteProperty(ro, f) ==
    LET o   == root[ro]
        old == field[root[ro]][f]
    IN  /\ Idle /\ o # NULL /\ old # NULL
        /\ field' = [field EXCEPT ![o][f] = NULL]
        /\ Release(old)
        /\ UNCHANGED <<mem, root, phase, garbage, exc, finCount, memLimit>>

(* JS_SetProperty(ctx, obj, prop, val): val is consumed and stored in the *)
(* slot, then the value it replaces is released.                          *)
JS_SetProperty(ro, f, rv) ==
    LET o   == root[ro]
        old == field[root[ro]][f]
    IN  /\ Idle /\ o # NULL /\ ro # rv
        /\ field' = [field EXCEPT ![o][f] = root[rv]]
        /\ root' = [root EXCEPT ![rv] = NULL]
        /\ IF old # NULL THEN Release(old) ELSE UNCHANGED <<rc, zeroList, memLimit>>
        /\ UNCHANGED <<mem, phase, garbage, exc, finCount, memLimit>>

\* Mutant: the property value returned without a duplicate.
GetPropertyNoDup(ro, f, rd) ==
    /\ Idle /\ root[ro] # NULL /\ root[rd] = NULL
    /\ root' = [root EXCEPT ![rd] = field[root[ro]][f]]
    /\ UNCHANGED <<rc, mem, field, zeroList, phase, garbage, exc, finCount, memLimit>>

\* JS_GetProperty returns an owning handle: the value is duplicated.
JS_GetProperty(ro, f, rd) ==
    LET v == field[root[ro]][f]
    IN  /\ Idle /\ root[ro] # NULL /\ root[rd] = NULL
        /\ root' = [root EXCEPT ![rd] = v]
        /\ rc' = IF v # NULL THEN [rc EXCEPT ![v] = @ + 1] ELSE rc
        /\ UNCHANGED <<mem, field, zeroList, phase, garbage, exc, finCount, memLimit>>

\* JS_GetPrototype returns a JSValue: the caller owns the prototype it gets.
JS_GetPrototype(ro, rd) == JS_GetProperty(ro, ProtoField, rd)

\* Mutant: a rejected prototype is dropped without being released.
SetPrototypeFailLeaks(ro, rv) ==
    LET o == root[ro]
    IN  /\ Idle /\ o # NULL /\ ro # rv
        /\ root' = [root EXCEPT ![rv] = NULL]
        /\ \/ /\ field' = [field EXCEPT ![o][ProtoField] = root[rv]]
              /\ ReleaseAll(rc, <<field[o][ProtoField]>>) /\ UNCHANGED exc
           \/ exc' = ErrValue /\ ReleaseAll(rc, <<exc>>) /\ UNCHANGED field
        /\ UNCHANGED <<mem, phase, garbage, finCount, memLimit>>

(* JS_SetPrototype(ctx, obj, proto_val): obj is borrowed, proto_val a     *)
(* JSValue the call takes over. It becomes obj's prototype, the old one   *)
(* released; or the call fails (-1: obj not extensible, a prototype cycle, *)
(* out of memory), an error is pending and proto_val is released.          *)
JS_SetPrototype(ro, rv) ==
    LET o == root[ro]
    IN  /\ Idle /\ o # NULL /\ ro # rv
        /\ root' = [root EXCEPT ![rv] = NULL]
        /\ \/ /\ field' = [field EXCEPT ![o][ProtoField] = root[rv]]
              /\ ReleaseAll(rc, <<field[o][ProtoField]>>) /\ UNCHANGED exc
           \/ exc' = ErrValue /\ ReleaseAll(rc, <<root[rv], exc>>) /\ UNCHANGED field
        /\ UNCHANGED <<mem, phase, garbage, finCount, memLimit>>

\* Mutant: a define that fails keeps its duplicate instead of freeing it.
SetConstructorFailLeaks(rf, rp) ==
    LET fo == root[rf]
        p  == root[rp]
    IN  /\ Idle /\ fo # NULL /\ p # NULL /\ fo # p
        /\ \E okF, okP \in BOOLEAN :
             /\ MallocMayFail \/ (okF /\ okP)
             /\ field' = [field EXCEPT ![fo][PropField] = IF okF THEN p ELSE @,
                                       ![p][PropField] = IF okP THEN fo ELSE @]
             /\ exc' = IF okF /\ okP THEN exc ELSE ErrValue
             /\ ReleaseAll([rc EXCEPT ![p] = @ + 1, ![fo] = @ + 1],
                           << IF okF THEN field[fo][PropField] ELSE NULL,
                              IF okP THEN field[p][PropField] ELSE NULL >>
                           \o (IF okF /\ okP THEN << >> ELSE <<exc>>))
        /\ UNCHANGED <<mem, root, phase, garbage, finCount, memLimit>>

(* JS_SetConstructor(ctx, func_obj, proto), both borrowed: func_obj's     *)
(* "prototype" gets a dup of proto, then proto's "constructor" a dup of   *)
(* func_obj (JS_DefinePropertyValue, which consumes the value it defines  *)
(* and releases the one it replaces); the two objects now hold each other. *)
(* The call returns void: a define that fails on out of memory frees its  *)
(* dup and leaves the error pending, and the other link stays.            *)
JS_SetConstructor(rf, rp) ==
    LET fo == root[rf]
        p  == root[rp]
    IN  /\ Idle /\ fo # NULL /\ p # NULL /\ fo # p
        /\ \E okF, okP \in BOOLEAN :
             /\ MallocMayFail \/ (okF /\ okP)
             /\ field' = [field EXCEPT ![fo][PropField] = IF okF THEN p ELSE @,
                                       ![p][PropField] = IF okP THEN fo ELSE @]
             /\ exc' = IF okF /\ okP THEN exc ELSE ErrValue
             /\ ReleaseAll([rc EXCEPT ![p] = @ + 1, ![fo] = @ + 1],
                           << IF okF THEN field[fo][PropField] ELSE p,
                              IF okP THEN field[p][PropField] ELSE fo >>
                           \o (IF okF /\ okP THEN << >> ELSE <<exc>>))
        /\ UNCHANGED <<mem, root, phase, garbage, finCount, memLimit>>

\* JS_HasException: an exception is pending.
JS_HasException == exc # NULL

\* Mutant: the thrown value is stored but the replaced exception is kept.
ThrowKeepsOld(r) ==
    /\ Idle
    /\ exc' = IF root[r] = NULL THEN ErrValue ELSE root[r]
    /\ root' = [root EXCEPT ![r] = NULL]
    /\ UNCHANGED <<rc, zeroList, mem, field, phase, garbage, finCount, memLimit>>

(* JS_Throw(ctx, obj) consumes obj: it becomes the pending exception, and  *)
(* the exception it replaces is released.                                  *)
JS_Throw(r) ==
    /\ Idle
    /\ exc' = IF root[r] = NULL THEN ErrValue ELSE root[r]
    /\ root' = [root EXCEPT ![r] = NULL]
    /\ ReleaseAll(rc, <<exc>>)
    /\ UNCHANGED <<mem, field, phase, garbage, finCount, memLimit>>

(* JS_ThrowTypeError and the other JS_Throw*Error: a new error object      *)
(* becomes the pending exception and the one it replaces is released; when *)
(* the error cannot be allocated, the out-of-memory error is thrown.       *)
JS_ThrowError ==
    /\ Idle
    /\ \/ /\ CanAllocate
          /\ \E o \in Objs :
                /\ mem[o] = "free"
                /\ mem' = [mem EXCEPT ![o] = "live"]
                /\ finCount' = [finCount EXCEPT ![o] = 0]
                /\ exc' = o
                /\ ReleaseAll([rc EXCEPT ![o] = 1], <<exc>>)
       \/ AllocFails /\ ThrowOutOfMemory(<< >>) /\ UNCHANGED <<mem, finCount, memLimit>>
    /\ UNCHANGED <<field, root, phase, garbage, memLimit>>

\* Mutant: the exception is handed out but stays pending.
GetExceptionKeepsSlot(r) ==
    /\ Idle /\ JS_HasException /\ root[r] = NULL
    /\ root' = [root EXCEPT ![r] = IF exc \in Objs THEN exc ELSE NULL]
    /\ UNCHANGED <<exc, mem, rc, field, zeroList, phase, garbage, finCount, memLimit>>

(* JS_GetException hands the pending exception to the caller, who now     *)
(* owns it; no exception is pending afterwards.                            *)
JS_GetException(r) ==
    /\ Idle /\ JS_HasException /\ root[r] = NULL
    /\ root' = [root EXCEPT ![r] = IF exc \in Objs THEN exc ELSE NULL]
    /\ exc' = NULL
    /\ UNCHANGED <<mem, rc, field, zeroList, phase, garbage, finCount, memLimit>>

(* The class finalizer of o runs (JSClassDef.finalizer) and the handles  *)
(* o holds on other objects, the ones its gc_mark reports, are released.  *)
Finalize(o) ==
    /\ rc' = [c \in Objs |-> rc[c] - Holds(o, c)]
    /\ field' = [field EXCEPT ![o] = NoFields]
    /\ finCount' = [finCount EXCEPT ![o] = @ + 1]

\* Mutant: children whose count reaches zero are not queued.
FreeZeroNoCascade ==
    /\ phase = "none"
    /\ \E o \in zeroList :
         /\ Finalize(o)
         /\ zeroList' = zeroList \ {o}
         /\ mem' = [mem EXCEPT ![o] = "free"]
    /\ UNCHANGED <<root, phase, garbage, exc, memLimit>>

(* One turn of the release loop: finalize an object of the zero list,     *)
(* release every handle it holds (children reaching zero join the list,   *)
(* they are not freed recursively) and free its memory.                   *)
FreeZeroRefCount ==
    /\ phase = "none"
    /\ \E o \in zeroList :
         LET reachesZero == {c \in Objs : Holds(o, c) > 0 /\ rc[c] = Holds(o, c)}
         IN  /\ Finalize(o)
             /\ zeroList' = (zeroList \ {o}) \cup reachesZero
             /\ mem' = [mem EXCEPT ![o] = "free"]
    /\ UNCHANGED <<root, phase, garbage, exc, memLimit>>

\* Mutant: the scan pass does not follow the fields of restored objects.
RunGCNoScan ==
    /\ Idle
    /\ garbage' = {o \in Live : rc[o] <= InternalRefs(o)}
    /\ phase' = "remove_cycles"
    /\ UNCHANGED <<mem, rc, field, root, zeroList, exc, finCount, memLimit>>

(* JS_RunGC, decref and scan passes: subtract from every count the handles *)
(* live objects hold (gc_decref), then restore everything reachable from  *)
(* an object that still has a handle from outside the heap (gc_scan). The *)
(* rest is garbage: the remove-cycles phase begins.                        *)
JS_RunGC ==
    /\ Idle
    /\ garbage' = Live \ Closure({o \in Live : rc[o] > InternalRefs(o)}, field)
    /\ phase' = "remove_cycles"
    /\ UNCHANGED <<mem, rc, field, root, zeroList, exc, finCount, memLimit>>

\* Mutant: a finalized garbage object's memory released at once.
GCFreeObjectEager ==
    /\ phase = "remove_cycles"
    /\ \E g \in garbage :
         /\ Finalize(g)
         /\ mem' = [mem EXCEPT ![g] = "free"]
         /\ garbage' = garbage \ {g}
    /\ UNCHANGED <<root, zeroList, phase, exc, memLimit>>

\* Mutant: counts reaching zero during the phase queued for the release loop.
GCFreeObjectQueues ==
    /\ phase = "remove_cycles"
    /\ \E g \in garbage :
         LET rcAfter == [c \in Objs |-> rc[c] - Holds(g, c)]
         IN  /\ Finalize(g)
             /\ zeroList' = zeroList \cup {c \in Objs : Holds(g, c) > 0 /\ rcAfter[c] = 0}
             /\ mem' = [mem EXCEPT ![g] = IF rcAfter[g] = 0 THEN "free" ELSE "dead"]
             /\ garbage' = garbage \ {g}
    /\ UNCHANGED <<root, phase, exc, memLimit>>

(* One turn of free_cycles: finalize a garbage object and release what it  *)
(* holds. In this phase a count reaching zero queues nothing; the memory   *)
(* is released now if no other handle remains, else kept until the phase   *)
(* ends, since the header may still be decremented by later finalizers.    *)
GCFreeObject ==
    /\ phase = "remove_cycles"
    /\ \E g \in garbage :
         LET rcAfter == [c \in Objs |-> rc[c] - Holds(g, c)]
         IN  /\ Finalize(g)
             /\ mem' = [mem EXCEPT ![g] = IF rcAfter[g] = 0 THEN "free" ELSE "dead"]
             /\ garbage' = garbage \ {g}
    /\ UNCHANGED <<root, zeroList, phase, exc, memLimit>>

\* End of free_cycles: the headers kept alive by the phase are released.
GCEnd ==
    /\ phase = "remove_cycles" /\ garbage = {}
    /\ mem' = [o \in Objs |-> IF mem[o] = "dead" THEN "free" ELSE mem[o]]
    /\ phase' = "none"
    /\ UNCHANGED <<rc, field, root, zeroList, garbage, exc, finCount, memLimit>>

(* JS_SetMemoryLimit: the embedder sets a new limit, 0 for none; a limit   *)
(* below what is in use only makes the next allocations fail.              *)
JS_SetMemoryLimit(l) ==
    /\ Idle
    /\ memLimit' = l
    /\ UNCHANGED <<mem, rc, field, root, zeroList, phase, garbage, exc, finCount>>

Next ==
    \/ \E l \in Limits : JS_SetMemoryLimit(l)
    \/ \E r \in Roots : JS_NewObject(r)
    \/ \E r, rp \in Roots : JS_NewObjectProto(r, rp)
    \/ \E r, rv \in Roots : JS_NewObjectFrom(r, rv)
    \/ \E r, rv \in Roots : JS_NewArrayFrom(r, rv)
    \/ \E r, rd \in Roots : JS_NewCFunctionData(r, rd)
    \/ \E r1, r2 \in Roots : JS_DupValue(r1, r2)
    \/ \E r \in Roots : JS_FreeValue(r)
    \/ \E ro, rv \in Roots, f \in Fields : JS_SetProperty(ro, f, rv)
    \/ \E ro, rd \in Roots, f \in Fields : JS_GetProperty(ro, f, rd)
    \/ \E ro \in Roots, f \in Fields : JS_DeleteProperty(ro, f)
    \/ \E ro, rv \in Roots : JS_SetPrototype(ro, rv)
    \/ \E ro, rd \in Roots : JS_GetPrototype(ro, rd)
    \/ \E rf, rp \in Roots : JS_SetConstructor(rf, rp)
    \/ \E r \in Roots : JS_Throw(r)
    \/ JS_ThrowError
    \/ \E r \in Roots : JS_GetException(r)
    \/ FreeZeroRefCount
    \/ JS_RunGC
    \/ GCFreeObject
    \/ GCEnd

(* The release loop and the collector's loop run inside one call, which   *)
(* returns only when they are done: they are weakly fair. The mutator's   *)
(* calls and JS_RunGC happen only when the embedder makes them.           *)
Spec ==
    /\ Init /\ [][Next]_vars
    /\ WF_vars(FreeZeroRefCount) /\ WF_vars(GCFreeObject) /\ WF_vars(GCEnd)

-----------------------------------------------------------------------------
\* The most handles one object can have: every root, every field and the
\* pending exception.
MaxRc == Cardinality(Roots) + Cardinality(Objs) * Cardinality(Fields) + 1

HeapTypeOK(maxRc) ==
    /\ mem \in [Objs -> {"free", "live", "dead"}]
    /\ rc \in [Objs -> 0 .. maxRc]
    /\ field \in [Objs -> [Fields -> Objs \cup {NULL}]]
    /\ root \in [Roots -> Objs \cup {NULL}]
    /\ zeroList \subseteq Objs /\ garbage \subseteq Objs
    /\ phase \in {"none", "remove_cycles"}
    /\ exc \in Objs \cup {NULL, ErrValue}
    /\ finCount \in [Objs -> Nat]
    /\ memLimit \in Limits \cup {0}

TypeOK == HeapTypeOK(MaxRc)

\* The owning handles on o: the mutator's, the pending exception's and
\* those of heap objects.
Handles(o) ==
    Cardinality({r \in Roots : root[r] = o}) + (IF exc = o THEN 1 ELSE 0)
    + Cardinality({<<p, f>> \in Objs \X Fields : field[p][f] = o})

(* Every header's count equals the owning handles on it, through every    *)
(* interleaving of dup, free, property moves, the release loop and the    *)
(* collector: no leaked and no missing increment (the ownership rules of  *)
(* quickjs.h 114-130 kept by every call).                                 *)
RefCountExact == \A o \in Objs : rc[o] = Handles(o)

(* No handle leads to released memory, and no handle of the mutator or of *)
(* a surviving object leads to a finalized one: JS_FreeValue, the release  *)
(* loop and the collector never free what is still in use.                *)
NoDanglingRef ==
    /\ \A r \in Roots : root[r] \in Live \cup {NULL}
    /\ exc \in Live \cup {NULL, ErrValue}
    /\ \A p \in Live \ garbage, f \in Fields : field[p][f] \in Live \cup {NULL}
    /\ \A p \in Objs, f \in Fields :
          mem[p] # "free" /\ field[p][f] # NULL => mem[field[p][f]] # "free"

(* Each allocation's finalizer runs exactly once: not yet while the object *)
(* is live, once it is finalized, and never twice even when the release   *)
(* loop and the collector both see the object's count reach zero.         *)
FinalizedOnce ==
    \A o \in Objs : /\ finCount[o] <= 1
                    /\ mem[o] = "live" => finCount[o] = 0

\* o is garbage held by a cycle: reachable from an unreachable object that
\* reaches itself through its fields.
Succ(c) == {field[c][f] : f \in Fields} \ {NULL}
CycleGarbage(o) ==
    \E c \in Live \ Abs!Reachable :
        /\ c \in Closure(Succ(c), field)
        /\ o \in Closure({c}, field)

(* Reference counting alone reclaims everything acyclic: between calls,  *)
(* an unreachable live object is always held by a cycle of unreachable    *)
(* objects (the 1000-object chain of the spec is freed without the        *)
(* collector).                                                             *)
OnlyCyclicGarbage ==
    Idle => \A o \in Live \ Abs!Reachable : CycleGarbage(o)

(* When a JS_RunGC call ends, every object still live is reachable from a *)
(* handle the mutator holds: the collector has reclaimed every cycle.     *)
GCReclaimsAll ==
    [][phase = "remove_cycles" /\ phase' = "none" => Live' \subseteq Abs!Reachable']_vars

(* An unreachable object that no cycle holds is eventually finalized: the *)
(* iterative release of a chain runs to its end.                          *)
AcyclicGarbageFreed ==
    \A o \in Objs :
        (JS_IsLiveObject(o) /\ o \notin Abs!Reachable /\ ~CycleGarbage(o)) ~> ~JS_IsLiveObject(o)

\* The heap implements the abstract memory manager.
AbsSpec == Abs!ASpec
=============================================================================
