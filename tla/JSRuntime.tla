------------------------------ MODULE JSRuntime ------------------------------
(***************************************************************************)
(* A runtime with its contexts over the heap of JSHeap: a context is made *)
(* with a global object it owns, is shared with JS_DupContext and gives   *)
(* the global object up when its last reference is freed. JS_FreeRuntime  *)
(* releases the runtime's pending exception, runs a collection, checks    *)
(* that no object is left, and then runs the runtime finalizers the       *)
(* embedder registered, in LIFO order, "at the very end" (quickjs.h 429). *)
(***************************************************************************)
EXTENDS JSHeap, Sequences

CONSTANTS
    Ctxs,       \* contexts
    Global,     \* Global[c]: the root slot holding c's global object
    Fins,       \* runtime finalizers the embedder may register
    MaxCtxRef,  \* bound on the references to one context
    MaxJobs     \* bound on the pending jobs

UserRoots == Roots \ {Global[c] : c \in Ctxs}

ASSUME Global \in [Ctxs -> Roots] /\ MaxCtxRef \in Nat \ {0} /\ MaxJobs \in Nat

VARIABLES
    rtState,    \* "live" | "releasing" | "collecting" | "finalizing" | "freed" | "aborted"
    ctxRef,     \* a context's reference count (0: not made, or freed)
    finStack,   \* rt->finalizers: the most recently added first
    finReg,     \* the order the finalizers were registered in
    finRun,     \* the order they have run in
    cleanAtFree,\* the embedder had released everything when it called JS_FreeRuntime
    jobs        \* rt->job_list: the argument values each pending job owns

rtVars == <<rtState, ctxRef, finStack, finReg, finRun, cleanAtFree, jobs>>
allVars == <<vars, rtVars>>

SE == INSTANCE SequencesExt

RTInit ==
    /\ Init
    /\ rtState = "live"
    /\ ctxRef = [c \in Ctxs |-> 0]
    /\ finStack = << >> /\ finReg = << >> /\ finRun = << >>
    /\ cleanAtFree = FALSE
    /\ jobs = << >>

\* An API call of the mutator, made while the runtime is usable.
Call(A) == rtState = "live" /\ A /\ UNCHANGED rtVars

\* JS_NewContext: a context with a fresh global object, or NULL (no state
\* change) when the allocation fails.
JS_NewContext(c) ==
    /\ rtState = "live" /\ Idle /\ ctxRef[c] = 0 /\ root[Global[c]] = NULL
    /\ CanAllocate /\ AllocObject(Global[c])
    /\ ctxRef' = [ctxRef EXCEPT ![c] = 1]
    /\ UNCHANGED <<field, zeroList, phase, garbage, exc, memLimit>>
    /\ UNCHANGED <<rtState, finStack, finReg, finRun, cleanAtFree, jobs>>

JS_DupContext(c) ==
    /\ rtState = "live" /\ Idle /\ ctxRef[c] > 0 /\ ctxRef[c] < MaxCtxRef
    /\ ctxRef' = [ctxRef EXCEPT ![c] = @ + 1]
    /\ UNCHANGED vars
    /\ UNCHANGED <<rtState, finStack, finReg, finRun, cleanAtFree, jobs>>

\* Mutant: every JS_FreeContext gives up the global object.
FreeContextAlwaysRelease(c) ==
    /\ rtState = "live" /\ Idle /\ ctxRef[c] > 0
    /\ ctxRef' = [ctxRef EXCEPT ![c] = @ - 1]
    /\ Release(root[Global[c]])
    /\ root' = [root EXCEPT ![Global[c]] = NULL]
    /\ UNCHANGED <<mem, field, phase, garbage, exc, finCount, memLimit>>
    /\ UNCHANGED <<rtState, finStack, finReg, finRun, cleanAtFree, jobs>>

\* JS_FreeContext: the last reference frees the context and its global object.
JS_FreeContext(c) ==
    /\ rtState = "live" /\ Idle /\ ctxRef[c] > 0
    /\ ctxRef' = [ctxRef EXCEPT ![c] = @ - 1]
    /\ IF ctxRef[c] = 1
       THEN /\ Release(root[Global[c]])
            /\ root' = [root EXCEPT ![Global[c]] = NULL]
            /\ UNCHANGED <<mem, field, phase, garbage, exc, finCount, memLimit>>
       ELSE UNCHANGED vars
    /\ UNCHANGED <<rtState, finStack, finReg, finRun, cleanAtFree, jobs>>

\* JS_GetGlobalObject(ctx): an owning handle on c's global object.
JS_GetGlobalObject(c, rd) ==
    /\ ctxRef[c] > 0
    /\ Call(JS_DupValue(Global[c], rd))

\* JS_AddRuntimeFinalizer pushes on the head of the runtime's list.
JS_AddRuntimeFinalizer(f) ==
    /\ rtState = "live" /\ Idle
    /\ f \notin SE!ToSet(finReg)
    /\ finStack' = <<f>> \o finStack
    /\ finReg' = Append(finReg, f)
    /\ UNCHANGED vars
    /\ UNCHANGED <<rtState, ctxRef, finRun, cleanAtFree, jobs>>

Clean == (\A c \in Ctxs : ctxRef[c] = 0) /\ (\A r \in UserRoots : root[r] = NULL)

\* The argument values every pending job owns, in queue order.
JobArgs == SE!FlattenSeq(jobs)

JS_IsJobPending == jobs # << >>

\* Take one owning handle on each object among the values vs.
DupAll(vs) ==
    rc' = [o \in Objs |-> rc[o] + Cardinality({i \in DOMAIN vs : vs[i] = o})]

\* Mutant: the queue keeps the caller's borrowed argv without a dup.
EnqueueJobNoDup(c, argv) ==
    /\ rtState = "live" /\ Idle /\ ctxRef[c] > 0 /\ Len(jobs) < MaxJobs
    /\ jobs' = Append(jobs, argv)
    /\ UNCHANGED vars
    /\ UNCHANGED <<rtState, ctxRef, finStack, finReg, finRun, cleanAtFree>>

(* JS_EnqueueJob(ctx, job_func, argc, argv): argv is JSValueConst, so the *)
(* job entry takes its own reference on each argument; when the entry     *)
(* cannot be allocated (js_malloc), out of memory is thrown and nothing   *)
(* is queued.                                                              *)
JS_EnqueueJob(c, argv) ==
    /\ rtState = "live" /\ Idle /\ ctxRef[c] > 0 /\ Len(jobs) < MaxJobs
    /\ \/ /\ jobs' = Append(jobs, argv)
          /\ DupAll(argv)
          /\ UNCHANGED <<mem, field, root, zeroList, phase, garbage, exc, finCount, memLimit>>
       \/ /\ MallocMayFail /\ ThrowOutOfMemory(<< >>)
          /\ UNCHANGED <<mem, field, root, phase, garbage, finCount, jobs, memLimit>>
    /\ UNCHANGED <<rtState, ctxRef, finStack, finReg, finRun, cleanAtFree>>

(* JS_ExecutePendingJob: the oldest job is unlinked and its function runs *)
(* on the borrowed argv. It returns normally (a value that is not an      *)
(* object here, freed at once), or throws: a dup of one of its arguments, *)
(* or an error, becomes the pending exception and the one it replaces is  *)
(* released. Then the job's arguments are freed. With no job pending it   *)
(* returns 0 and changes nothing.                                          *)
JS_ExecutePendingJob ==
    /\ rtState = "live" /\ Idle /\ JS_IsJobPending
    /\ jobs' = Tail(jobs)
    /\ LET argv == Head(jobs) IN
       \/ ReleaseAll(rc, argv) /\ UNCHANGED exc
       \/ \E e \in (SE!ToSet(argv) \ {NULL}) \cup {ErrValue} :
             /\ exc' = e
             /\ ReleaseAll([o \in Objs |-> rc[o] + (IF o = e THEN 1 ELSE 0)],
                           argv \o <<exc>>)
    /\ UNCHANGED <<mem, field, root, phase, garbage, finCount, memLimit>>
    /\ UNCHANGED <<rtState, ctxRef, finStack, finReg, finRun, cleanAtFree>>

\* Mutant: JS_FreeRuntime leaves the pending exception where it is.
FreeRuntimeKeepException ==
    /\ rtState = "live" /\ Idle
    /\ rtState' = "releasing"
    /\ cleanAtFree' = Clean
    /\ jobs' = << >>
    /\ ReleaseAll(rc, JobArgs)
    /\ UNCHANGED <<mem, field, root, phase, garbage, exc, finCount, memLimit>>
    /\ UNCHANGED <<ctxRef, finStack, finReg, finRun>>

(* JS_FreeRuntime, first part: the pending exception is released          *)
(* (JS_FreeValueRT on current_exception), then every job still queued is  *)
(* unlinked and its arguments freed; the release loops included.          *)
FreeRuntimeBegin ==
    /\ rtState = "live" /\ Idle
    /\ rtState' = "releasing"
    /\ cleanAtFree' = Clean
    /\ exc' = NULL
    /\ jobs' = << >>
    /\ ReleaseAll(rc, <<exc>> \o JobArgs)
    /\ UNCHANGED <<mem, field, root, phase, garbage, finCount, memLimit>>
    /\ UNCHANGED <<ctxRef, finStack, finReg, finRun>>

\* Mutant: JS_FreeRuntime goes to its leak check without a collection.
FreeRuntimeNoGC ==
    /\ rtState = "releasing" /\ Idle
    /\ rtState' = "collecting"
    /\ UNCHANGED vars
    /\ UNCHANGED <<ctxRef, finStack, finReg, finRun, cleanAtFree, jobs>>

\* Then the collection JS_RunGC runs starts.
FreeRuntimeGC ==
    /\ rtState = "releasing"
    /\ JS_RunGC
    /\ rtState' = "collecting"
    /\ UNCHANGED <<ctxRef, finStack, finReg, finRun, cleanAtFree, jobs>>

(* After the collection: the leak check, an assert on an empty object    *)
(* list, then the release of the runtime's own tables.  With objects left, *)
(* a build with assertions aborts; one without (NDEBUG, with or without   *)
(* the JS_DUMP_LEAKS report) goes on, and what leaked stays allocated.    *)
FreeRuntimeCheck ==
    /\ rtState = "collecting" /\ Idle
    /\ rtState' \in IF \A o \in Objs : mem[o] = "free"
                     THEN {"finalizing"} ELSE {"finalizing", "aborted"}
    /\ UNCHANGED vars
    /\ UNCHANGED <<ctxRef, finStack, finReg, finRun, cleanAtFree, jobs>>

\* One runtime finalizer: the head of the list is unlinked and run.
RunRuntimeFinalizer ==
    /\ rtState = "finalizing" /\ finStack # << >>
    /\ finRun' = Append(finRun, Head(finStack))
    /\ finStack' = Tail(finStack)
    /\ UNCHANGED vars
    /\ UNCHANGED <<rtState, ctxRef, finReg, cleanAtFree, jobs>>

FreeRuntimeEnd ==
    /\ rtState = "finalizing" /\ finStack = << >>
    /\ rtState' = "freed"
    /\ UNCHANGED vars
    /\ UNCHANGED <<ctxRef, finStack, finReg, finRun, cleanAtFree, jobs>>


RTNext ==
    \/ \E r \in UserRoots : Call(JS_NewObject(r))
    \/ \E r1, r2 \in UserRoots : Call(JS_DupValue(r1, r2))
    \/ \E r \in UserRoots : Call(JS_FreeValue(r))
    \/ \E ro, rv \in UserRoots, f \in Fields : Call(JS_SetProperty(ro, f, rv))
    \/ \E ro, rd \in UserRoots, f \in Fields : Call(JS_GetProperty(ro, f, rd))
    \/ \E r \in UserRoots : Call(JS_Throw(r)) \/ Call(JS_GetException(r))
    \/ Call(JS_ThrowError)
    \/ \E c \in Ctxs, r \in UserRoots : JS_EnqueueJob(c, <<root[r]>>)
    \/ JS_ExecutePendingJob
    \/ Call(JS_RunGC)
    \/ \E l \in Limits : Call(JS_SetMemoryLimit(l))
    \/ \E c \in Ctxs : JS_NewContext(c) \/ JS_DupContext(c) \/ JS_FreeContext(c)
    \/ \E c \in Ctxs, rd \in UserRoots : JS_GetGlobalObject(c, rd)
    \/ \E f \in Fins : JS_AddRuntimeFinalizer(f)
    \/ (FreeZeroRefCount \/ GCFreeObject \/ GCEnd) /\ UNCHANGED rtVars
    \/ FreeRuntimeBegin
    \/ FreeRuntimeGC
    \/ FreeRuntimeCheck
    \/ RunRuntimeFinalizer
    \/ FreeRuntimeEnd

(* The loops inside a call, and the steps of JS_FreeRuntime once it is    *)
(* called, run to completion.                                              *)
RTSpec ==
    /\ RTInit /\ [][RTNext]_allVars
    /\ WF_allVars((FreeZeroRefCount \/ GCFreeObject \/ GCEnd) /\ UNCHANGED rtVars)
    /\ WF_allVars(FreeRuntimeGC) /\ WF_allVars(FreeRuntimeCheck) /\ WF_allVars(RunRuntimeFinalizer)
    /\ WF_allVars(FreeRuntimeEnd)

-----------------------------------------------------------------------------
\* The handles pending jobs own on o.
JobRefs(o) == Cardinality({i \in DOMAIN JobArgs : JobArgs[i] = o})

(* Every count equals the handles on the object, the arguments queued     *)
(* jobs own included: JS_EnqueueJob takes a reference on its borrowed     *)
(* argv, JS_ExecutePendingJob gives them up after the job (which may throw *)
(* one of them) and JS_FreeRuntime gives up those of jobs never run.       *)
RTRefCountExact == \A o \in Objs : rc[o] = Handles(o) + JobRefs(o)

(* A context that is still referenced owns a live global object: dups and *)
(* frees of the context release the global object only with the last      *)
(* reference.                                                              *)
ContextGlobalAlive ==
    \A c \in Ctxs : ctxRef[c] > 0 => root[Global[c]] \in Live

(* If the embedder freed every context and every value before calling     *)
(* JS_FreeRuntime, the leak check finds no object left: cycles among the  *)
(* global objects and the values stored in them included.                 *)
NoLeakWhenReleased ==
    rtState \in {"finalizing", "freed"} /\ cleanAtFree =>
        \A o \in Objs : mem[o] = "free"

(* A JS_FreeRuntime called after the embedder freed every context and    *)
(* every value completes, in an assertion build too: it releases the      *)
(* pending exception and the queued jobs, its collection reclaims the     *)
(* cycles left among the global objects, the leak-check assert holds and  *)
(* every runtime finalizer runs.                                           *)
FreeRuntimeCompletes ==
    rtState # "live" /\ cleanAtFree ~> rtState = "freed"
=============================================================================
