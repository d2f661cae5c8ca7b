------------------------ MODULE MaskPipeline_proofs -------------------------
(***************************************************************************)
(* The safety of the mapping store and of the masking pipeline, for any    *)
(* processes, workers, streams, values and tokens.                         *)
(*                                                                         *)
(* First the store on its own: the inductive invariant adds to the         *)
(* properties checked by TLC what an open transaction has done so far.     *)
(* Then the pipeline on top of it: what was shown or cached was stored,    *)
(* and the pipeline implements PseudonymMap.                               *)
(***************************************************************************)
EXTENDS MaskPipeline, TLAPS

(* The rows a transaction sees keep tokens unambiguous before it commits.  *)
VisibleDistinct ==
    \A w \in Workers : \A u, v \in Visible(w) : Token[u] = Token[v] => u = v

(* Every row of the batch is visible to the transaction or still to do.    *)
BatchCovered ==
    \A w \in Workers :
        /\ added[w] \union todo[w] \subseteq batch[w]
        /\ st[w] \in {"insert", "commit"} => batch[w] \subseteq Visible(w) \union todo[w]
        /\ st[w] = "commit" => todo[w] = {}

(* A transaction adds only values that have no row.                        *)
AddsOnlyNew == \A w \in Workers : added[w] \intersect Rows = {}

StoreInv ==
    /\ StoreTypeOK
    /\ OneWriter
    /\ TokensUnambiguous
    /\ VisibleDistinct
    /\ BatchCovered
    /\ AddsOnlyNew

-----------------------------------------------------------------------------
LEMMA StoreInvInit == StoreInit => StoreInv
BY StoreAssumption DEF StoreInit, StoreInv, StoreTypeOK, OneWriter, TokensUnambiguous,
    VisibleDistinct, BatchCovered, AddsOnlyNew, Visible, Rows, Time, NoRow, NoCut, States

(* Every step keeps the types.                                             *)
LEMMA StoreTypeNext == StoreTypeOK /\ [StoreNext]_storeVars => StoreTypeOK'
<1> SUFFICES ASSUME StoreTypeOK, [StoreNext]_storeVars PROVE StoreTypeOK'
    OBVIOUS
<1> USE StoreAssumption DEF StoreTypeOK, Time, NoRow, NoCut, States, pruneVars, callVars
<1>1. ASSUME NEW w \in Workers, NEW vs \in SUBSET Values, InsertBatch(w, vs, clock)
      PROVE  StoreTypeOK'
  BY <1>1 DEF InsertBatch, Goto
<1>2. ASSUME NEW w \in Workers, GetConn(w) PROVE StoreTypeOK'
  BY <1>2 DEF GetConn, Goto
<1>3. ASSUME NEW w \in Workers, Begin(w) PROVE StoreTypeOK'
  BY <1>3 DEF Begin, Goto
<1>4. ASSUME NEW w \in Workers, FailEarly(w) PROVE StoreTypeOK'
  BY <1>4 DEF FailEarly, Goto
<1>5. ASSUME NEW w \in Workers, BeginBusy(w) PROVE StoreTypeOK'
  BY <1>4, <1>5 DEF BeginBusy
<1>6. ASSUME NEW w \in Workers, GiveUp(w) PROVE StoreTypeOK'
  BY <1>4, <1>6 DEF GiveUp
<1>7. ASSUME NEW w \in Workers, NEW v \in Values, InsertRow(w, v) PROVE StoreTypeOK'
  BY <1>7 DEF InsertRow, Goto
<1>8. ASSUME NEW w \in Workers, RowsDone(w) PROVE StoreTypeOK'
  BY <1>8 DEF RowsDone, Goto
<1>9. ASSUME NEW w \in Workers, NEW s \in {"ok", "failed"}, Commit(w, s) PROVE StoreTypeOK'
  BY <1>9 DEF Commit, EndTx, Goto
<1>10. ASSUME NEW w \in Workers, StatementFails(w) PROVE StoreTypeOK'
  BY <1>10 DEF StatementFails, Goto
<1>11. ASSUME NEW w \in Workers, Rollback(w) PROVE StoreTypeOK'
  BY <1>11 DEF Rollback, EndTx, Goto
<1>12. ASSUME NEW w \in Workers, Return(w) PROVE StoreTypeOK'
  BY <1>12 DEF Return, Goto
<1>13. ASSUME NEW w \in Workers, Cancel(w) \/ NewCtx(w) PROVE StoreTypeOK'
  BY <1>13 DEF Cancel, NewCtx
<1>14. CASE PruneStep
  BY <1>14 DEF PruneStep, PruneCalls, PruneCall, PruneLock, PruneDelete, PruneFails, PruneReturn
<1>15. CASE Tick
  BY <1>15 DEF Tick
<1>16. ASSUME NEW p \in Procs, Crash(p) PROVE StoreTypeOK'
  BY <1>16 DEF Crash
<1>17. CASE UNCHANGED storeVars
  BY <1>17 DEF storeVars
<1>18. QED
  BY <1>1, <1>2, <1>3, <1>5, <1>6, <1>7, <1>8, <1>9, <1>10, <1>11, <1>12, <1>13, <1>14,
     <1>15, <1>16, <1>17 DEF StoreNext, CallStep

(* Every step keeps the rest of the invariant.                             *)
LEMMA StoreInvNext == StoreInv /\ [StoreNext]_storeVars => StoreInv'
<1> SUFFICES ASSUME StoreInv, [StoreNext]_storeVars PROVE StoreInv'
    OBVIOUS
<1>0. StoreTypeOK'
  BY StoreTypeNext DEF StoreInv
<1> DEFINE Rest == OneWriter /\ TokensUnambiguous /\ VisibleDistinct /\ BatchCovered
              /\ AddsOnlyNew
<1>a. StoreTypeOK /\ Rest
  BY DEF StoreInv
<1> USE StoreAssumption, <1>0, <1>a DEF StoreTypeOK, OneWriter, TokensUnambiguous, VisibleDistinct,
        BatchCovered, AddsOnlyNew, Visible, Rows, pruneVars, callVars
<1>1. ASSUME NEW w \in Workers, NEW vs \in SUBSET Values, InsertBatch(w, vs, clock)
      PROVE  Rest'
  <2> USE <1>1 DEF InsertBatch, Goto
  <2>1. OneWriter'
    OBVIOUS
  <2>2. TokensUnambiguous' /\ VisibleDistinct' /\ AddsOnlyNew'
    OBVIOUS
  <2>3. BatchCovered'
    <3>1. added[w] = {} /\ todo[w] = {}
      OBVIOUS
    <3>2. QED
      BY <3>1
  <2>4. QED
    BY <2>1, <2>2, <2>3
<1>2. ASSUME NEW w \in Workers, GetConn(w) PROVE Rest'
  BY <1>2 DEF GetConn, Goto
<1>3. ASSUME NEW w \in Workers, Begin(w) PROVE Rest'
  BY <1>3 DEF Begin, Goto
<1>4. ASSUME NEW w \in Workers, st[w] \in {"conn", "begin"}, FailEarly(w) PROVE Rest'
  BY <1>4 DEF FailEarly, Goto
<1>5. ASSUME NEW w \in Workers, BeginBusy(w) PROVE Rest'
  BY <1>4, <1>5 DEF BeginBusy
<1>6. ASSUME NEW w \in Workers, GiveUp(w) PROVE Rest'
  BY <1>4, <1>6 DEF GiveUp
<1>7. ASSUME NEW w \in Workers, NEW v \in Values, InsertRow(w, v) PROVE Rest'
  <2> USE <1>7 DEF InsertRow, Goto
  <2>1. CASE v \in Visible(w)
    BY <2>1
  <2>2. CASE \A u \in Visible(w) : Token[u] # Token[v]
    <3>1. added' = [added EXCEPT ![w] = @ \union {v}] /\ todo' = [todo EXCEPT ![w] = @ \ {v}]
      BY <2>2
    <3>2. UNCHANGED <<db, st, lock, conn, batch>>
      BY <2>2
    <3>3. OneWriter'
      BY <3>1, <3>2
    <3>4. TokensUnambiguous' /\ AddsOnlyNew'
      BY <2>2, <3>1, <3>2
    <3>5. VisibleDistinct'
      BY <2>2, <3>1, <3>2
    <3>6. BatchCovered'
      <4>1. \A x \in Workers : added'[x] = IF x = w THEN added[w] \union {v} ELSE added[x]
        BY <3>1
      <4>2. \A x \in Workers : todo'[x] = IF x = w THEN todo[w] \ {v} ELSE todo[x]
        BY <3>1
      <4>3. st[w] = "insert"
        BY <1>7
      <4>4. v \in batch[w]
        OBVIOUS
      <4>5. QED
        BY <4>1, <4>2, <4>3, <4>4, <3>2
    <3>7. QED
      BY <3>3, <3>4, <3>5, <3>6
  <2>3. CASE v \notin Visible(w) /\ \E u \in Visible(w) : Token[u] = Token[v]
    BY <2>3
  <2>4. QED
    BY <2>1, <2>2, <2>3
<1>8. ASSUME NEW w \in Workers, RowsDone(w) PROVE Rest'
  BY <1>8 DEF RowsDone, Goto
<1>9. ASSUME NEW w \in Workers, NEW s \in {"ok", "failed"}, Commit(w, s) PROVE Rest'
  BY <1>9 DEF Commit, EndTx, Goto, NoRow, Time
<1>10. ASSUME NEW w \in Workers, StatementFails(w) PROVE Rest'
  BY <1>10 DEF StatementFails, Goto
<1>11. ASSUME NEW w \in Workers, Rollback(w) PROVE Rest'
  BY <1>11 DEF Rollback, EndTx, Goto
<1>12. ASSUME NEW w \in Workers, Return(w) PROVE Rest'
  <2> USE <1>12 DEF Return, Goto
  <2>1. OneWriter'
    OBVIOUS
  <2>2. TokensUnambiguous' /\ VisibleDistinct' /\ AddsOnlyNew'
    OBVIOUS
  <2>3. BatchCovered'
    <3>1. added[w] = {} /\ todo[w] = {}
      OBVIOUS
    <3>2. QED
      BY <3>1
  <2>4. QED
    BY <2>1, <2>2, <2>3
<1>13. ASSUME NEW w \in Workers, Cancel(w) \/ NewCtx(w) PROVE Rest'
  BY <1>13 DEF Cancel, NewCtx
<1>14. ASSUME PruneDelete PROVE Rest'
  BY <1>14 DEF PruneDelete, PruneReturn
<1>15. ASSUME PruneCalls \/ PruneLock \/ PruneFails \/ Tick \/ UNCHANGED storeVars PROVE Rest'
  BY <1>15 DEF PruneCalls, PruneCall, PruneLock, PruneFails, PruneReturn, Tick, storeVars
<1>16. ASSUME NEW p \in Procs, Crash(p) PROVE Rest'
  BY <1>16 DEF Crash
<1>17. Rest'
  BY <1>1, <1>2, <1>3, <1>5, <1>6, <1>7, <1>8, <1>9, <1>10, <1>11, <1>12, <1>13, <1>14,
     <1>15, <1>16 DEF StoreNext, CallStep, PruneStep
<1>18. QED
  BY <1>0, <1>17 DEF StoreInv

LEMMA StoreInvariance == StoreSpec => []StoreInv
BY StoreInvInit, StoreInvNext, PTL DEF StoreSpec

(* What a step inside InsertBatch does for its caller: it keeps the batch, *)
(* and returns nil only when the whole batch has rows.                     *)
LEMMA CallStepReturns ==
    ASSUME StoreInv, NEW w \in Workers, CallStep(w)
    PROVE  /\ batch' = batch
           /\ \A x \in Workers : /\ st'[x] = "idle" <=> st[x] = "idle"
                                 /\ st'[x] = "ok" => st[x] = "ok" \/ batch[x] \subseteq Rows'
<1> USE DEF StoreInv, StoreTypeOK, callVars, Goto
<1>1. ASSUME NEW s \in {"ok", "failed"}, Commit(w, s)
      PROVE  batch[w] \subseteq Rows' /\ batch' = batch /\ st[w] = "commit"
             /\ st' = [st EXCEPT ![w] = s]
  <2>1. batch[w] \subseteq Rows \union added[w]
    BY <1>1 DEF Commit, BatchCovered, Visible
  <2>2. db' = [v \in Values |-> IF v \in added[w] THEN stamp[w] ELSE db[v]]
    BY <1>1 DEF Commit
  <2>3. stamp[w] # NoRow
    BY StoreAssumption DEF Time, NoRow
  <2>4. batch[w] \subseteq Rows'
    BY <2>1, <2>2, <2>3 DEF Rows
  <2>5. QED
    BY <1>1, <2>4 DEF Commit, EndTx
<1>2. ASSUME NEW s \in {"ok", "failed"}, Commit(w, s)
      PROVE  \A x \in Workers : /\ st'[x] = "idle" <=> st[x] = "idle"
                                /\ st'[x] = "ok" => st[x] = "ok" \/ batch[x] \subseteq Rows'
  BY <1>1, <1>2
<1>3. CASE ~ \E s \in {"ok", "failed"} : Commit(w, s)
  BY <1>3 DEF CallStep, GetConn, Begin, BeginBusy, GiveUp, FailEarly, InsertRow, RowsDone,
     StatementFails, Rollback, EndTx
<1>4. QED
  BY <1>1, <1>2, <1>3

(* Every variable keeps its type, whatever the number of processes,        *)
(* workers, values and retries.                                            *)
THEOREM StoreTyping == StoreSpec => []StoreTypeOK
<1>1. StoreInit => StoreTypeOK
  BY StoreInvInit DEF StoreInv
<1>2. QED
  BY <1>1, StoreTypeNext, PTL DEF StoreSpec

(* Whatever batches race, collide, roll back, crash or are pruned, a token *)
(* has at most one row, so Lookup has one answer.                          *)
THEOREM StoreUnambiguous == StoreSpec => []TokensUnambiguous
<1>1. StoreInv => TokensUnambiguous
  BY DEF StoreInv
<1>2. QED
  BY <1>1, StoreInvariance, PTL

(* One transaction at a time, and every way out of it gives back lock and  *)
(* connection.                                                             *)
THEOREM StoreOneWriter == StoreSpec => []OneWriter
<1>1. StoreInv => OneWriter
  BY DEF StoreInv
<1>2. QED
  BY <1>1, StoreInvariance, PTL

(* A batch is remembered whole or not at all: a call that returns nil has  *)
(* all of it in the store, and rows appear only with the rest of the batch *)
(* of the worker that has the write lock.                                  *)
THEOREM StoreBatchAtomic == StoreSpec => BatchAtomic
<1> DEFINE Told == \A w \in Workers : st[w] # "ok" /\ st'[w] = "ok" => batch'[w] \subseteq Rows'
           Whole == \A v \in Rows' \ Rows :
                       \E w \in Workers : /\ lock = w /\ st[w] = "commit"
                                          /\ v \in batch[w] /\ batch[w] \subseteq Rows'
<1>1. StoreInv /\ [StoreNext]_storeVars => [Told /\ Whole]_storeVars
  <2> SUFFICES ASSUME StoreInv, StoreNext PROVE Told /\ Whole
      OBVIOUS
  <2> USE DEF pruneVars, callVars
  <2>1. ASSUME NEW w \in Workers, NEW s \in {"ok", "failed"}, Commit(w, s) PROVE Whole
    <3> USE StoreAssumption, <2>1 DEF Commit, StoreInv, StoreTypeOK, BatchCovered, Visible, Rows,
            Time, NoRow
    <3>1. batch[w] \subseteq Rows \union added[w]
      OBVIOUS
    <3>2. batch[w] \subseteq Rows'
      BY <3>1
    <3>3. \A v \in Rows' \ Rows : v \in batch[w]
      OBVIOUS
    <3>4. lock = w /\ st[w] = "commit"
      BY DEF OneWriter
    <3>5. QED
      BY <3>2, <3>3, <3>4
  <2>2. ASSUME PruneDelete PROVE Whole
    <3>1. Rows' \subseteq Rows
      BY <2>2 DEF PruneDelete, Rows
    <3>2. QED
      BY <3>1
  <2>3. ASSUME UNCHANGED db PROVE Whole
    BY <2>3 DEF Rows
  <2>4. Whole
    BY <2>1, <2>2, <2>3 DEF StoreNext, CallStep, PruneStep, InsertBatch, GetConn, Begin,
       BeginBusy, GiveUp, FailEarly, InsertRow, RowsDone, StatementFails, Rollback, Return,
       PruneCalls, PruneCall, PruneLock, PruneFails, Tick, Cancel, NewCtx, Crash
  <2>5. ASSUME NEW w \in Workers, CallStep(w) PROVE Told
    BY <2>5, CallStepReturns
  <2>6. ASSUME NEW w \in Workers, NEW vs \in SUBSET Values, InsertBatch(w, vs, clock) PROVE Told
    BY <2>6 DEF InsertBatch, Goto, StoreInv, StoreTypeOK
  <2>7. ASSUME UNCHANGED st PROVE Told
    BY <2>7
  <2>8. ASSUME NEW w \in Workers, Return(w) PROVE Told
    BY <2>8 DEF Return, Goto, StoreInv, StoreTypeOK
  <2>9. ASSUME NEW p \in Procs, Crash(p) PROVE Told
    BY <2>9 DEF Crash
  <2>10. Told
    BY <2>5, <2>6, <2>7, <2>8, <2>9, StoreAssumption DEF StoreNext, PruneStep, PruneCalls,
       PruneCall, PruneLock, PruneDelete, PruneFails, PruneReturn, Tick, Cancel, NewCtx
  <2>11. QED
    BY <2>4, <2>10
<1>2. QED
  BY <1>1, StoreInvariance, PTL DEF StoreSpec, BatchAtomic

(* A row is never overwritten and goes away only by a prune.               *)
THEOREM StoreRowsStable == StoreSpec => RowsStable
<1> DEFINE Stable == \A v \in Rows : \/ db'[v] = db[v]
                                   \/ (db'[v] = NoRow /\ cut # NoCut /\ db[v] < cut)
<1>1. StoreInv /\ [StoreNext]_storeVars => [Stable]_storeVars
  <2> SUFFICES ASSUME StoreInv, StoreNext PROVE Stable
      OBVIOUS
  <2> USE DEF pruneVars, callVars
  <2>1. ASSUME NEW w \in Workers, NEW s \in {"ok", "failed"}, Commit(w, s) PROVE Stable
    <3>1. added[w] \intersect Rows = {}
      BY <2>1 DEF Commit, StoreInv, AddsOnlyNew
    <3>2. QED
      BY <2>1, <3>1 DEF Commit, Rows
  <2>2. CASE PruneDelete
    BY <2>2 DEF PruneDelete, Pruned, Rows, StoreInv, StoreTypeOK
  <2>3. CASE UNCHANGED db
    BY <2>3
  <2>4. QED
    BY <2>1, <2>2, <2>3 DEF StoreNext, CallStep, PruneStep, InsertBatch, GetConn, Begin,
       BeginBusy, GiveUp, FailEarly, InsertRow, RowsDone, StatementFails, Rollback, Return,
       PruneCalls, PruneCall, PruneLock, PruneFails, Tick, Cancel, NewCtx, Crash
<1>2. QED
  BY <1>1, StoreInvariance, PTL DEF StoreSpec, RowsStable

-----------------------------------------------------------------------------
(* The pipeline.                                                           *)

(* Values that have a row, or had one until a prune.                       *)
Known == Rows \union forgotten

(* How far each segment is from being stored: what the cache let through   *)
(* is known, the batch is known when InsertBatch returned nil, and the     *)
(* whole plan is when its tokens may be written.                           *)
PlanStored ==
    \A w \in Workers :
        /\ at[w] = "commit" => plan[w] \ batch[w] \subseteq Known
        /\ st[w] = "ok" => batch[w] \subseteq Known
        /\ at[w] = "write" => plan[w] \subseteq Known

PipeInv ==
    /\ TypeOK
    /\ StoreInv
    /\ forgotten \intersect Rows = {}
    /\ CacheWasStored
    /\ shown \subseteq Known
    /\ PlanStored

-----------------------------------------------------------------------------
LEMMA PipeInvInit == Init => PipeInv
<1> SUFFICES ASSUME Init PROVE PipeInv
    OBVIOUS
<1>1. StoreInv
  BY StoreInvInit DEF Init
<1>2. QED
  BY <1>1 DEF Init, StoreInit, PipeInv, StoreInv, TypeOK, InStore, CacheWasStored, PlanStored

(* A step of the pipeline is a step of the store, or leaves it alone.      *)
LEMMA PipelineStepsStore == [Next]_vars => [StoreNext]_storeVars
<1> SUFFICES ASSUME [Next]_vars PROVE [StoreNext]_storeVars
    OBVIOUS
<1>1. ASSUME NEW w \in Workers, NEW vs \in Batches, PlanSegment(w, vs)
      PROVE  StoreNext
  BY <1>1 DEF PlanSegment, StoreNext
<1>2. ASSUME NEW w \in Workers, WorkerStep(w) \/ NewStream(w)
      PROVE  [StoreNext]_storeVars
  BY <1>2 DEF WorkerStep, NewStream, FillCache, CommitFails, WriteMasked, StoreNext
<1>3. CASE StoreStep
  BY <1>3 DEF StoreStep, StoreNext
<1>4. ASSUME NEW p \in Procs, Die(p) PROVE StoreNext
  BY <1>4 DEF Die, StoreNext
<1>5. CASE UNCHANGED vars
  BY <1>5 DEF vars
<1>6. QED
  BY <1>1, <1>2, <1>3, <1>4, <1>5 DEF Next

(* The pipeline uses the store as its specification lets callers use it.   *)
THEOREM PipelineUsesStore == Spec => StoreSpec
<1>1. Init => StoreInit
  BY DEF Init
<1>2. QED
  BY <1>1, PipelineStepsStore, PTL DEF Spec, StoreSpec

-----------------------------------------------------------------------------
LEMMA PipeTypeNext == PipeInv /\ [Next]_vars => TypeOK'
<1> SUFFICES ASSUME PipeInv, [Next]_vars PROVE TypeOK'
    OBVIOUS
<1>0. StoreTypeOK'
  BY PipelineStepsStore, StoreTypeNext DEF PipeInv, TypeOK
<1> USE StoreAssumption, <1>0 DEF PipeInv, TypeOK, pipeVars
<1>1. ASSUME NEW w \in Workers, NEW vs \in Batches, PlanSegment(w, vs) PROVE TypeOK'
  BY <1>1 DEF PlanSegment, InsertBatch, Goto, InStore, StoreTypeOK
<1>2. ASSUME NEW w \in Workers, WorkerStep(w) \/ NewStream(w) PROVE TypeOK'
  <2>1. CASE FillCache(w)
    BY <2>1 DEF FillCache, Return, Goto, InStore, StoreTypeOK
  <2>2. CASE CommitFails(w)
    BY <2>2 DEF CommitFails, NextSegment, Return, Goto, InStore, StoreTypeOK
  <2>3. CASE WriteMasked(w)
    BY <2>3 DEF WriteMasked, NextSegment, storeVars, InStore, StoreTypeOK
  <2>4. CASE NewStream(w)
    BY <2>4 DEF NewStream, NewCtx, InStore
  <2>5. QED
    BY <1>2, <2>1, <2>2, <2>3, <2>4 DEF WorkerStep
<1>3. CASE StoreStep
  <2>1. \A x \in Workers : st'[x] = "idle" <=> st[x] = "idle"
    BY <1>3, CallStepReturns DEF StoreStep, Cancel, Tick, PruneStep, PruneCalls, PruneCall,
       PruneLock, PruneDelete, PruneFails, PruneReturn
  <2>2. InStore'
    BY <1>3, <2>1 DEF StoreStep, InStore
  <2>3. QED
    BY <1>3, <2>2 DEF StoreStep, Recorded, Rows
<1>4. ASSUME NEW p \in Procs, Die(p) PROVE TypeOK'
  BY <1>4 DEF Die, Crash, InStore, StoreTypeOK
<1>5. CASE UNCHANGED vars
  BY <1>5 DEF vars, storeVars, InStore
<1>6. QED
  BY <1>1, <1>2, <1>3, <1>4, <1>5 DEF Next

LEMMA PipeInvNext == PipeInv /\ [Next]_vars => PipeInv'
<1> SUFFICES ASSUME PipeInv, [Next]_vars PROVE PipeInv'
    OBVIOUS
<1>0. TypeOK' /\ StoreInv'
  BY PipelineStepsStore, StoreInvNext, PipeTypeNext DEF PipeInv
<1> DEFINE Rest == /\ forgotten \intersect Rows = {} /\ CacheWasStored
                   /\ shown \subseteq Known /\ PlanStored
<1>a. TypeOK /\ StoreInv /\ Rest
  BY DEF PipeInv
<1>1. ASSUME NEW w \in Workers, NEW vs \in Batches, PlanSegment(w, vs) PROVE Rest'
  <2>1. vs \subseteq Values /\ cache[ProcOf[w]] \subseteq Known
    BY <1>a, StoreAssumption DEF CacheWasStored, Known, TypeOK
  <2>2. Known' = Known /\ Rows' = Rows
    BY <1>1 DEF PlanSegment, InsertBatch, Known, Rows
  <2>3. QED
    BY <1>1, <1>a, <2>1, <2>2 DEF PlanSegment, InsertBatch, Goto, InStore, PlanStored,
       CacheWasStored, TypeOK, StoreTypeOK, Known
<1>2. ASSUME NEW w \in Workers, WorkerStep(w) \/ NewStream(w) PROVE Rest'
  <2>1. Known' = Known /\ Rows' = Rows
    BY <1>2 DEF WorkerStep, NewStream, FillCache, CommitFails, WriteMasked, NextSegment, Return,
       NewCtx, Known, Rows, storeVars, pipeVars
  <2> USE <1>a, <2>1, StoreAssumption DEF InStore, PlanStored, CacheWasStored, TypeOK,
          StoreTypeOK, Known
  <2>2. CASE FillCache(w)
    <3>1. plan[w] \subseteq Known
      BY <2>2 DEF FillCache
    <3>2. QED
      BY <2>2, <3>1 DEF FillCache, Return, Goto
  <2>3. CASE CommitFails(w)
    BY <2>3 DEF CommitFails, NextSegment, Return, Goto
  <2>4. CASE WriteMasked(w)
    BY <2>4 DEF WriteMasked, NextSegment, storeVars, callVars
  <2>5. CASE NewStream(w)
    BY <2>5 DEF NewStream, NewCtx, callVars, pipeVars
  <2>6. QED
    BY <1>2, <2>2, <2>3, <2>4, <2>5 DEF WorkerStep
<1>3. ASSUME StoreStep PROVE Rest'
  <2>1. Known \subseteq Known' /\ UNCHANGED pipeVars
    BY <1>3 DEF StoreStep, Recorded, Known
  <2>2. /\ batch' = batch
        /\ \A x \in Workers : /\ st'[x] = "idle" <=> st[x] = "idle"
                              /\ st'[x] = "ok" => st[x] = "ok" \/ batch[x] \subseteq Rows'
    BY <1>3, <1>a, CallStepReturns DEF StoreStep, Cancel, Tick, PruneStep, PruneCalls, PruneCall,
       PruneLock, PruneDelete, PruneFails, PruneReturn, callVars
  <2>4. (forgotten \intersect Rows = {})'
    BY <1>3 DEF StoreStep, Recorded
  <2>5. CacheWasStored' /\ (shown \subseteq Known)'
    BY <1>a, <2>1 DEF CacheWasStored, Known, pipeVars
  <2>6. PlanStored'
    BY <1>a, <2>1, <2>2 DEF PlanStored, Known, pipeVars
  <2>7. QED
    BY <2>4, <2>5, <2>6
<1>4. ASSUME NEW p \in Procs, Die(p) PROVE Rest'
  <2>1. Known' = Known /\ Rows' = Rows
    BY <1>4 DEF Die, Crash, Known, Rows
  <2>2. QED
    BY <1>4, <1>a, <2>1, StoreAssumption DEF Die, Crash, InStore, PlanStored, CacheWasStored,
       TypeOK, StoreTypeOK, Known
<1>5. ASSUME UNCHANGED vars PROVE Rest'
  BY <1>5, <1>a DEF vars, storeVars, callVars, pipeVars, InStore, PlanStored, CacheWasStored,
     Known, Rows
<1>6. Rest'
  BY <1>1, <1>2, <1>3, <1>4, <1>5 DEF Next
<1>7. QED
  BY <1>0, <1>6 DEF PipeInv

LEMMA PipeInvariance == Spec => []PipeInv
BY PipeInvInit, PipeInvNext, PTL DEF Spec

-----------------------------------------------------------------------------
(* Every variable of the pipeline keeps its type.                          *)
THEOREM PipelineTyping == Spec => []TypeOK
<1>1. PipeInv => TypeOK
  BY DEF PipeInv
<1>2. QED
  BY <1>1, PipeInvariance, PTL

(* No process ever caches a value that was not stored.                     *)
THEOREM CacheSound == Spec => []CacheWasStored
<1>1. PipeInv => CacheWasStored
  BY DEF PipeInv
<1>2. QED
  BY <1>1, PipeInvariance, PTL

(* Unmask restores every token ever written to its own value, unless that  *)
(* value was pruned and not stored since.                                  *)
THEOREM UnmaskRestores == Spec => []ShownRestores
<1>1. PipeInv => ShownRestores
  <2> SUFFICES ASSUME PipeInv, NEW v \in shown, v \notin forgotten
               PROVE  Lookup(Token[v]) = {v}
      BY DEF ShownRestores
  <2>1. v \in Rows
    BY DEF PipeInv, Known
  <2>2. QED
    BY <2>1 DEF PipeInv, StoreInv, TokensUnambiguous, Lookup
<1>2. QED
  BY <1>1, PipeInvariance, PTL

(* The pipeline implements the abstract map.                               *)
THEOREM Refinement == Spec => ImplementsMap
<1>1. Init => Map!MapInit
  BY DEF Init, StoreInit, Map!MapInit, Rows, NoRow
<1>2. PipeInv /\ PipeInv' /\ [Next]_vars => [Map!MapNext]_(Map!mapVars)
  <2> SUFFICES ASSUME PipeInv, PipeInv', [Next]_vars
               PROVE  Map!MapNext \/ UNCHANGED <<Rows, forgotten, shown>>
      BY DEF Map!mapVars
  <2>1. ASSUME NEW w \in Workers, WriteMasked(w) PROVE Map!MapNext
    <3>1. PICK vs \in SUBSET plan[w] : shown' = shown \union vs
      BY <2>1 DEF WriteMasked
    <3>2. vs \subseteq Rows \union forgotten /\ vs \in SUBSET Values
      BY <2>1 DEF WriteMasked, PipeInv, PlanStored, Known, TypeOK
    <3>3. UNCHANGED <<Rows, forgotten>>
      BY <2>1 DEF WriteMasked, NextSegment, storeVars, Rows
    <3>4. Map!Show(vs)
      BY <3>1, <3>2, <3>3 DEF Map!Show
    <3>5. QED
      BY <3>2, <3>4 DEF Map!MapNext
  <2>2. ASSUME NEW w \in Workers, NEW s \in {"ok", "failed"}, Commit(w, s), Recorded,
               UNCHANGED pipeVars
        PROVE  Map!MapNext
    <3>1. db' = [v \in Values |-> IF v \in added[w] THEN stamp[w] ELSE db[v]]
      BY <2>2 DEF Commit
    <3>2. added[w] \in SUBSET Values /\ stamp[w] # NoRow
      BY DEF PipeInv, StoreInv, StoreTypeOK, Time, NoRow
    <3>3. Rows' = Rows \union added[w]
      BY <3>1, <3>2 DEF Rows
    <3>4. forgotten' = forgotten \ added[w]
      BY <2>2, <3>3 DEF Recorded, PipeInv
    <3>5. \A u \in added[w], v \in Rows \union added[w] : Token[u] = Token[v] => u = v
      BY DEF PipeInv, StoreInv, VisibleDistinct, Visible
    <3>6. Map!Remember(added[w])
      BY <2>2, <3>3, <3>4, <3>5 DEF Map!Remember, pipeVars
    <3>7. QED
      BY <3>2, <3>6 DEF Map!MapNext
  <2>3. ASSUME PruneDelete, Recorded, UNCHANGED pipeVars PROVE Map!MapNext
    <3>1. Pruned \subseteq Rows /\ Pruned \in SUBSET Values
      BY DEF Pruned, Rows
    <3>2. Rows' = Rows \ Pruned
      BY <2>3, <3>1 DEF PruneDelete, Rows
    <3>3. forgotten' = forgotten \union Pruned
      BY <2>3, <3>1, <3>2 DEF Recorded, PipeInv
    <3>4. Map!Forget(Pruned)
      BY <2>3, <3>1, <3>2, <3>3 DEF Map!Forget, pipeVars
    <3>5. QED
      BY <3>1, <3>4 DEF Map!MapNext
  <2>4. ASSUME UNCHANGED db, Recorded, UNCHANGED pipeVars
        PROVE  UNCHANGED <<Rows, forgotten, shown>>
    BY <2>4 DEF Recorded, Rows, pipeVars, PipeInv
  <2>5. ASSUME StoreStep PROVE Map!MapNext \/ UNCHANGED <<Rows, forgotten, shown>>
    <3>1. ASSUME NEW w \in Workers, CallStep(w)
          PROVE  UNCHANGED db \/ \E s \in {"ok", "failed"} : Commit(w, s)
      BY <3>1 DEF CallStep, GetConn, Begin, BeginBusy, GiveUp, FailEarly, InsertRow, RowsDone,
         StatementFails, Rollback
    <3>2. UNCHANGED db \/ PruneDelete \/ \E w \in Workers, s \in {"ok", "failed"} : Commit(w, s)
      BY <2>5, <3>1 DEF StoreStep, Cancel, Tick, PruneStep, PruneCalls, PruneCall, PruneLock, PruneFails
    <3>3. Recorded /\ UNCHANGED pipeVars
      BY <2>5 DEF StoreStep
    <3>4. QED
      BY <2>2, <2>3, <2>4, <3>2, <3>3
  <2>6. ASSUME UNCHANGED <<db, forgotten, shown>> PROVE UNCHANGED <<Rows, forgotten, shown>>
    BY <2>6 DEF Rows
  <2>7. QED
    BY <2>1, <2>5, <2>6 DEF Next, WorkerStep, PlanSegment, InsertBatch, FillCache, CommitFails,
       NextSegment, Return, NewStream, NewCtx, Die, Crash, pipeVars, vars, storeVars
<1>3. QED
  BY <1>1, <1>2, PipeInvariance, PTL DEF Spec, ImplementsMap, Map!MapSpec
=============================================================================
