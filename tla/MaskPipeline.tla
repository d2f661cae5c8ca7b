---------------------------- MODULE MaskPipeline ----------------------------
(***************************************************************************)
(* The way of a segment from the detectors to the output: maskChunk and    *)
(* processSegment (internal/engine/engine.go) plan its tokens, CommitPlans *)
(* (internal/pseudo/pseudo.go) filters them by the cache of the process's  *)
(* Allocator and stores the rest, and only then are the tokens written.    *)
(* The workers are the engine loops: the stdout and stderr streams of an   *)
(* exec run, concurrent calls of an MCP server, `mask` in another process. *)
(*                                                                         *)
(* The Allocator's mutex is held for map operations only, so each of its   *)
(* two critical sections is one step.                                      *)
(***************************************************************************)
EXTENDS MappingStore

VARIABLES
    at,         \* where each worker is: "read", "commit" or "write"
    plan,       \* the values to pseudonymize in its segment
    cache,      \* Allocator.cache of each process
    shown,      \* values whose token was written
    forgotten   \* history: values that had a row and have none now

pipeVars == <<at, plan, cache, shown>>
vars == <<storeVars, pipeVars, forgotten>>

(* The history follows the store.                                          *)
Recorded == forgotten' = (forgotten \union Rows) \ Rows'

Init ==
    /\ StoreInit
    /\ at = [w \in Workers |-> "read"]
    /\ plan = [w \in Workers |-> {}]
    /\ cache = [p \in Procs |-> {}]
    /\ shown = {}
    /\ forgotten = {}

-----------------------------------------------------------------------------
(* Mutant of PlanSegment: the time is rounded up.                          *)
PlanSegmentRoundsUp(w, vs) ==
    /\ at[w] = "read"
    /\ w \notin cancelled
    /\ vs # {}
    /\ InsertBatch(w, vs \ cache[ProcOf[w]], clock + 1)
    /\ at' = [at EXCEPT ![w] = "commit"]
    /\ plan' = [plan EXCEPT ![w] = vs]
    /\ UNCHANGED <<cache, shown, forgotten>>

(* maskChunk has found matches with the Pseudonymize policy: CommitPlans   *)
(* reads the time, drops what the cache holds and calls the store.         *)
PlanSegment(w, vs) ==
    /\ at[w] = "read"
    /\ w \notin cancelled
    /\ vs # {}
    /\ InsertBatch(w, vs \ cache[ProcOf[w]], clock)
    /\ at' = [at EXCEPT ![w] = "commit"]
    /\ plan' = [plan EXCEPT ![w] = vs]
    /\ UNCHANGED <<cache, shown, forgotten>>

(* The rows are stored: every plan of the segment goes into the cache.     *)
FillCache(w) ==
    /\ at[w] = "commit"
    /\ st[w] = "ok"
    /\ Return(w)
    /\ cache' = [cache EXCEPT ![ProcOf[w]] = @ \union plan[w]]
    /\ at' = [at EXCEPT ![w] = "write"]
    /\ UNCHANGED <<plan, shown, forgotten>>

(* The segment is over: the loop reads on.                                 *)
NextSegment(w) ==
    /\ at' = [at EXCEPT ![w] = "read"]
    /\ plan' = [plan EXCEPT ![w] = {}]
    /\ UNCHANGED <<cache, forgotten>>

(* Mutant of CommitFails: the error of CommitPlans is dropped.             *)
CommitFailsSilently(w) ==
    /\ at[w] = "commit"
    /\ st[w] = "failed"
    /\ Return(w)
    /\ at' = [at EXCEPT ![w] = "write"]
    /\ UNCHANGED <<plan, cache, shown, forgotten>>

(* Process returns the error of CommitPlans and writes nothing; the worker *)
(* goes on to another stream.                                              *)
CommitFails(w) ==
    /\ at[w] = "commit"
    /\ st[w] = "failed"
    /\ Return(w)
    /\ NextSegment(w)
    /\ UNCHANGED shown

(* Mutant of WriteMasked: the tokens are written before the rows are there. *)
WriteMaskedEarly(w) ==
    /\ at[w] \in {"commit", "write"}
    /\ \E vs \in SUBSET plan[w] : shown' = shown \union vs
    /\ NextSegment(w)
    /\ UNCHANGED storeVars

(* w.Write(masked): some of the segment may be out when the write fails.   *)
WriteMasked(w) ==
    /\ at[w] = "write"
    /\ \E vs \in SUBSET plan[w] : shown' = shown \union vs
    /\ NextSegment(w)
    /\ UNCHANGED storeVars

(* A stream that ended by its ctx is followed by one with a new ctx.       *)
NewStream(w) ==
    /\ at[w] = "read"
    /\ NewCtx(w)
    /\ UNCHANGED <<pipeVars, forgotten>>

(* A process dies, its cache with it.                                      *)
Die(p) ==
    LET dead == {w \in Workers : ProcOf[w] = p}
    IN  /\ Crash(p)
        /\ at' = [w \in Workers |-> IF w \in dead THEN "read" ELSE at[w]]
        /\ plan' = [w \in Workers |-> IF w \in dead THEN {} ELSE plan[w]]
        /\ cache' = [cache EXCEPT ![p] = {}]
        /\ UNCHANGED <<shown, forgotten>>

(* A step of the store or of its environment.                              *)
StoreStep ==
    /\ \/ \E w \in Workers : CallStep(w) \/ Cancel(w)
       \/ PruneStep
       \/ Tick
    /\ Recorded
    /\ UNCHANGED pipeVars

WorkerStep(w) ==
    \/ FillCache(w)
    \/ CommitFails(w)
    \/ WriteMasked(w)

Next ==
    \/ \E w \in Workers, vs \in Batches : PlanSegment(w, vs)
    \/ \E w \in Workers : WorkerStep(w) \/ NewStream(w)
    \/ StoreStep
    \/ \E p \in Procs : Die(p)

Spec == Init /\ [][Next]_vars

(* What a call of InsertBatch does without a failure from outside.         *)
Proceeds(w) ==
    \/ GetConn(w) \/ Begin(w) \/ BeginBusy(w)
    \/ \E v \in Values : InsertRow(w, v)
    \/ RowsDone(w) \/ Commit(w, "ok") \/ Rollback(w)
    \/ w \in cancelled /\ (GiveUp(w) \/ StatementFails(w))

(* Goroutines are scheduled and SQLite answers; it need not fail, nor ctx  *)
(* end, for a caller to go on.  A connection that comes free goes to a     *)
(* waiter picked at random (database/sql), so a waiter is not passed over  *)
(* for ever: strong fairness.                                              *)
Fairness ==
    \A w \in Workers :
        /\ WF_vars(Proceeds(w) /\ Recorded /\ UNCHANGED pipeVars)
        /\ SF_vars(GetConn(w) /\ Recorded /\ UNCHANGED pipeVars)
        /\ WF_vars(WorkerStep(w))

FairSpec == Spec /\ Fairness

-----------------------------------------------------------------------------
(* Properties.                                                             *)

(* A worker is inside InsertBatch exactly while its segment commits.       *)
InStore == \A w \in Workers : at[w] = "commit" <=> st[w] # "idle"

(* Every variable has its type; a worker is in the store exactly while it  *)
(* commits.                                                                *)
TypeOK ==
    /\ StoreTypeOK
    /\ at \in [Workers -> {"read", "commit", "write"}]
    /\ plan \in [Workers -> SUBSET Values]
    /\ cache \in [Procs -> SUBSET Values]
    /\ shown \in SUBSET Values
    /\ forgotten \in SUBSET Values
    /\ InStore

(* What the cache of any process lets through without the store was in the *)
(* store: no rollback, collision, cancelled call, crash or race with the   *)
(* other stream of the process leaves a cached value that was never stored.*)
CacheWasStored == \A p \in Procs : cache[p] \subseteq Rows \union forgotten

(* Commit before emit: unmask restores every token that was ever written   *)
(* to the value it was written for, unless that value was pruned and not   *)
(* masked into the store again since.                                      *)
ShownRestores ==
    \A v \in shown : v \notin forgotten => Lookup(Token[v]) = {v}

(* A segment is written or refused in the end: its worker waits for ever   *)
(* neither for the connection of its process, which another stream may     *)
(* have while it waits for the write lock itself, nor for that lock, which *)
(* another process (`mapping prune`) may have and never give back.         *)
SegmentsEnd == \A w \in Workers : at[w] = "commit" ~> at[w] = "read"

(* The pipeline implements the abstract map: the cache, the transactions   *)
(* and the interleavings of streams and processes are invisible but for    *)
(* what the map allows.                                                    *)
Map == INSTANCE PseudonymMap WITH known <- Rows

ImplementsMap == Map!MapSpec
=============================================================================
