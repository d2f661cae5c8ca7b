---------------------------- MODULE MappingStore ----------------------------
(***************************************************************************)
(* The SQLite mapping store (internal/store/sqlite.go): committed rows,    *)
(* the one write transaction SQLite allows, the one writer connection of   *)
(* each process, InsertBatch step by step, and `mapping prune`.            *)
(*                                                                         *)
(* A value stands for a pair (type, plaintext), and so for its row's       *)
(* primary key (type, hmac_full): HMAC-SHA256 is taken to be collision     *)
(* free.  Token[v] stands for (type, index_truncated), the 64-bit          *)
(* truncation, on which two values may collide.                            *)
(***************************************************************************)
EXTENDS Integers

CONSTANTS
    Procs,      \* OS processes that have the store open for masking
    Workers,    \* goroutines that call InsertBatch
    ProcOf,     \* the process of each worker
    Values,     \* values to pseudonymize
    Token,      \* the token (type, truncated index) of each value
    TypeOf,     \* the type column of each value
    AnyType,    \* prune without a type filter
    NoWorker,   \* nobody holds the lock or the connection
    Pruner,     \* the process of `mapping prune`, as a holder of the lock
    Batches,    \* bound: the sets of values one chunk of input may hold
    MaxClock,   \* bound: the clock stops there
    MaxTries    \* bound: attempts of retryBusy, 100 in the code

Time == 0..MaxClock
NoRow == -1     \* db[v] when v has no row
NoCut == -1     \* cut when no prune is under way

ASSUME StoreAssumption ==
    /\ ProcOf \in [Workers -> Procs]
    /\ NoWorker \notin Workers
    /\ Pruner \notin Workers \union {NoWorker}
    /\ \A u, v \in Values : Token[u] = Token[v] => TypeOf[u] = TypeOf[v]
    /\ AnyType \notin {TypeOf[v] : v \in Values}
    /\ Batches \subseteq SUBSET Values
    /\ MaxClock \in Nat
    /\ MaxTries \in Nat \ {0}

VARIABLES
    db,         \* first_seen_at of each committed row, NoRow without one
    clock,      \* seconds, the unit of first_seen_at
    lock,       \* who has SQLite's write lock: a worker or the Pruner
    conn,       \* worker that has the process's writer connection
    st,         \* where each worker is in InsertBatch
    batch,      \* the rows it was called with
    stamp,      \* their FirstSeenAt
    todo,       \* rows of the batch not inserted yet
    added,      \* rows its open transaction has inserted
    tries,      \* attempts at BEGIN IMMEDIATE that found the lock taken
    cancelled,  \* workers whose ctx is done
    cut,        \* first_seen_at bound of the prune under way, or NoCut
    cutType     \* its type filter

callVars == <<batch, stamp, todo, added, tries>>
pruneVars == <<cut, cutType>>
storeVars == <<db, clock, lock, conn, st, callVars, cancelled, pruneVars>>

Rows == {v \in Values : db[v] # NoRow}

(* SELECT real_value ... WHERE type=? AND index_truncated=?                *)
Lookup(tok) == {v \in Rows : Token[v] = tok}

States == {"idle", "conn", "begin", "insert", "commit", "rollback", "ok", "failed"}

StoreInit ==
    /\ db = [v \in Values |-> NoRow]
    /\ clock = 0
    /\ lock = NoWorker
    /\ conn = [p \in Procs |-> NoWorker]
    /\ st = [w \in Workers |-> "idle"]
    /\ batch = [w \in Workers |-> {}]
    /\ stamp = [w \in Workers |-> 0]
    /\ todo = [w \in Workers |-> {}]
    /\ added = [w \in Workers |-> {}]
    /\ tries = [w \in Workers |-> 0]
    /\ cancelled = {}
    /\ cut = NoCut
    /\ cutType = AnyType

-----------------------------------------------------------------------------
(* InsertBatch, one step per statement it runs.                            *)

Goto(w, s) == st' = [st EXCEPT ![w] = s]

(* An empty batch succeeds at once, without a look at ctx.                 *)
InsertBatch(w, vs, t) ==
    /\ st[w] = "idle"
    /\ Goto(w, IF vs = {} THEN "ok" ELSE "conn")
    /\ batch' = [batch EXCEPT ![w] = vs]
    /\ stamp' = [stamp EXCEPT ![w] = t]
    /\ UNCHANGED <<db, clock, lock, conn, todo, added, tries, cancelled, pruneVars>>

(* writer.Conn(ctx): the pool holds one connection (SetMaxOpenConns(1)).   *)
GetConn(w) ==
    /\ st[w] = "conn"
    /\ w \notin cancelled
    /\ conn[ProcOf[w]] = NoWorker
    /\ conn' = [conn EXCEPT ![ProcOf[w]] = w]
    /\ Goto(w, "begin")
    /\ UNCHANGED <<db, clock, lock, callVars, cancelled, pruneVars>>

Begin(w) ==
    /\ st[w] = "begin"
    /\ w \notin cancelled
    /\ lock = NoWorker
    /\ lock' = w
    /\ todo' = [todo EXCEPT ![w] = batch[w]]
    /\ tries' = [tries EXCEPT ![w] = 0]
    /\ Goto(w, "insert")
    /\ UNCHANGED <<db, clock, conn, batch, stamp, added, cancelled, pruneVars>>

(* Mutant of FailEarly: no deferred conn.Close().                          *)
FailEarlyKeepsConn(w) ==
    /\ Goto(w, "failed")
    /\ tries' = [tries EXCEPT ![w] = 0]
    /\ UNCHANGED <<db, clock, lock, conn, batch, stamp, todo, added, cancelled, pruneVars>>

(* The call returns before the transaction is open: only the connection is *)
(* given back.                                                             *)
FailEarly(w) ==
    /\ Goto(w, "failed")
    /\ tries' = [tries EXCEPT ![w] = 0]
    /\ conn' = [p \in Procs |-> IF conn[p] = w THEN NoWorker ELSE conn[p]]
    /\ UNCHANGED <<db, clock, lock, batch, stamp, todo, added, cancelled, pruneVars>>

(* SQLITE_BUSY: retryBusy tries again, at most MaxTries times.             *)
BeginBusy(w) ==
    /\ st[w] = "begin"
    /\ w \notin cancelled
    /\ lock # NoWorker
    /\ \/ /\ tries[w] + 1 < MaxTries
          /\ tries' = [tries EXCEPT ![w] = @ + 1]
          /\ UNCHANGED <<db, clock, lock, conn, st, batch, stamp, todo, added,
                         cancelled, pruneVars>>
       \/ /\ tries[w] + 1 = MaxTries
          /\ FailEarly(w)

(* ctx is done while waiting for the connection or the lock, or the        *)
(* connection or BEGIN fails with an error that is not retried.            *)
GiveUp(w) ==
    /\ st[w] \in {"conn", "begin"}
    /\ FailEarly(w)

(* The rows an open transaction sees in the unique indexes.                *)
Visible(w) == Rows \union added[w]

(* Mutants of InsertRow: no unique index on the token; a row that was not  *)
(* inserted is taken to be there already.                                  *)
InsertRowNoUnique(w, v) ==
    /\ st[w] = "insert"
    /\ w \notin cancelled
    /\ v \in todo[w]
    /\ added' = [added EXCEPT ![w] = @ \union ({v} \ Visible(w))]
    /\ todo' = [todo EXCEPT ![w] = @ \ {v}]
    /\ UNCHANGED <<db, clock, lock, conn, st, batch, stamp, tries, cancelled, pruneVars>>

InsertRowIgnores(w, v) ==
    /\ st[w] = "insert"
    /\ w \notin cancelled
    /\ v \in todo[w]
    /\ LET new == {x \in {v} : \A u \in Visible(w) : Token[u] # Token[x]}
       IN  added' = [added EXCEPT ![w] = @ \union new]
    /\ todo' = [todo EXCEPT ![w] = @ \ {v}]
    /\ UNCHANGED <<db, clock, lock, conn, st, batch, stamp, tries, cancelled, pruneVars>>

(* INSERT OR IGNORE, then SELECT by hmac_full when no row was affected:    *)
(* the row is there already, or another value has the token.               *)
InsertRow(w, v) ==
    /\ st[w] = "insert"
    /\ w \notin cancelled
    /\ v \in todo[w]
    /\ \/ /\ v \in Visible(w)
          /\ todo' = [todo EXCEPT ![w] = @ \ {v}]
          /\ UNCHANGED <<added, st>>
       \/ /\ \A u \in Visible(w) : Token[u] # Token[v]
          /\ added' = [added EXCEPT ![w] = @ \union {v}]
          /\ todo' = [todo EXCEPT ![w] = @ \ {v}]
          /\ UNCHANGED st
       \/ /\ v \notin Visible(w)
          /\ \E u \in Visible(w) : Token[u] = Token[v]   \* ErrTruncationCollision
          /\ Goto(w, "rollback")
          /\ UNCHANGED <<added, todo>>
    /\ UNCHANGED <<db, clock, lock, conn, batch, stamp, tries, cancelled, pruneVars>>

RowsDone(w) ==
    /\ st[w] = "insert"
    /\ todo[w] = {}
    /\ Goto(w, "commit")
    /\ UNCHANGED <<db, clock, lock, conn, callVars, cancelled, pruneVars>>

(* The transaction is over: lock and connection are free again.            *)
EndTx(w, s) ==
    /\ lock' = NoWorker
    /\ conn' = [conn EXCEPT ![ProcOf[w]] = NoWorker]
    /\ added' = [added EXCEPT ![w] = {}]
    /\ todo' = [todo EXCEPT ![w] = {}]
    /\ Goto(w, s)
    /\ UNCHANGED <<clock, batch, stamp, tries, cancelled, pruneVars>>

(* COMMIT.  With s = "failed" it took effect but ctx was done by the time  *)
(* the driver returned, so the caller is told of an error; the ROLLBACK    *)
(* that follows finds no transaction.                                      *)
Commit(w, s) ==
    /\ st[w] = "commit"
    /\ w \notin cancelled
    /\ db' = [v \in Values |-> IF v \in added[w] THEN stamp[w] ELSE db[v]]
    /\ EndTx(w, s)

(* A statement of the transaction fails, or ctx is done before it.         *)
StatementFails(w) ==
    /\ st[w] \in {"insert", "commit"}
    /\ Goto(w, "rollback")
    /\ UNCHANGED <<db, clock, lock, conn, callVars, cancelled, pruneVars>>

(* The deferred ROLLBACK, with a context of its own.                       *)
Rollback(w) ==
    /\ st[w] = "rollback"
    /\ EndTx(w, "failed")
    /\ UNCHANGED db

(* InsertBatch has returned and its caller goes on.                        *)
Return(w) ==
    /\ st[w] \in {"ok", "failed"}
    /\ Goto(w, "idle")
    /\ batch' = [batch EXCEPT ![w] = {}]
    /\ stamp' = [stamp EXCEPT ![w] = 0]
    /\ UNCHANGED <<db, clock, lock, conn, todo, added, tries, cancelled, pruneVars>>

-----------------------------------------------------------------------------
(* Prune, the clock, and the environment.                                  *)

(* Prune is called from a process of its own; it computes the cut once and *)
(* then waits for SQLite's write lock.  An age of less than a second is    *)
(* allowed, so the cut, in whole seconds, may be the current one.          *)
PruneCall(typ, second) ==
    /\ cut = NoCut
    /\ second <= clock
    /\ cut' = second
    /\ cutType' = typ
    /\ UNCHANGED <<db, clock, lock, conn, st, callVars, cancelled>>

(* Mutant of Pruned: <= for <.                                             *)
PrunedInclusive == {v \in Rows : /\ db[v] <= cut
                                 /\ cutType \in {AnyType, TypeOf[v]}}

Pruned == {v \in Rows : /\ db[v] < cut
                        /\ cutType \in {AnyType, TypeOf[v]}}

PruneReturn ==
    /\ lock' = IF lock = Pruner THEN NoWorker ELSE lock
    /\ cut' = NoCut
    /\ cutType' = AnyType
    /\ UNCHANGED <<clock, conn, st, callVars, cancelled>>

(* DELETE FROM mapping WHERE first_seen_at < ? [AND type=?] takes the lock *)
(* for itself and commits when it is done (auto-commit).                   *)
PruneLock ==
    /\ cut # NoCut
    /\ lock = NoWorker
    /\ lock' = Pruner
    /\ UNCHANGED <<db, clock, conn, st, callVars, cancelled, pruneVars>>

PruneDelete ==
    /\ lock = Pruner
    /\ db' = [v \in Values |-> IF v \in Pruned THEN NoRow ELSE db[v]]
    /\ PruneReturn

(* The lock outlasts busy_timeout, the statement fails or the process      *)
(* dies: no retry.                                                         *)
PruneFails ==
    /\ cut # NoCut
    /\ UNCHANGED db
    /\ PruneReturn

Tick ==
    /\ clock < MaxClock
    /\ clock' = clock + 1
    /\ UNCHANGED <<db, lock, conn, st, callVars, cancelled, pruneVars>>

(* The caller's ctx is cancelled: a signal, a timeout, a client that left. *)
Cancel(w) ==
    /\ w \notin cancelled
    /\ cancelled' = cancelled \union {w}
    /\ UNCHANGED <<db, clock, lock, conn, st, callVars, pruneVars>>

(* The caller's next piece of work comes with a ctx of its own.            *)
NewCtx(w) ==
    /\ st[w] = "idle"
    /\ w \in cancelled
    /\ cancelled' = cancelled \ {w}
    /\ UNCHANGED <<db, clock, lock, conn, st, callVars, pruneVars>>

(* The process dies and is started again: SQLite drops its transaction.    *)
Crash(p) ==
    LET dead == {w \in Workers : ProcOf[w] = p}
        Reset(f, x) == [w \in Workers |-> IF w \in dead THEN x ELSE f[w]]
    IN  /\ st' = Reset(st, "idle")
        /\ batch' = Reset(batch, {})
        /\ stamp' = Reset(stamp, 0)
        /\ todo' = Reset(todo, {})
        /\ added' = Reset(added, {})
        /\ tries' = Reset(tries, 0)
        /\ cancelled' = cancelled \ dead
        /\ lock' = IF lock \in dead THEN NoWorker ELSE lock
        /\ conn' = [conn EXCEPT ![p] = NoWorker]
        /\ UNCHANGED <<db, clock, pruneVars>>

-----------------------------------------------------------------------------
(* Steps inside InsertBatch, between its call and its return.              *)
CallStep(w) ==
    \/ GetConn(w)
    \/ Begin(w)
    \/ BeginBusy(w)
    \/ GiveUp(w)
    \/ \E v \in Values : InsertRow(w, v)
    \/ RowsDone(w)
    \/ Commit(w, "ok")
    \/ Commit(w, "failed")
    \/ StatementFails(w)
    \/ Rollback(w)

PruneCalls ==
    \E typ \in {AnyType} \union {TypeOf[v] : v \in Values}, s \in Time : PruneCall(typ, s)

PruneStep == PruneCalls \/ PruneLock \/ PruneDelete \/ PruneFails

(* The store with callers that pass any part of a batch at any time.       *)
StoreNext ==
    \/ \E w \in Workers, b \in Batches : \E vs \in SUBSET b : InsertBatch(w, vs, clock)
    \/ \E w \in Workers : CallStep(w) \/ Return(w) \/ Cancel(w) \/ NewCtx(w)
    \/ PruneStep
    \/ Tick
    \/ \E p \in Procs : Crash(p)

StoreSpec == StoreInit /\ [][StoreNext]_storeVars

-----------------------------------------------------------------------------
(* Properties.                                                             *)

(* Every variable has its type; only a running call has work to do.        *)
StoreTypeOK ==
    /\ db \in [Values -> Time \union {NoRow}]
    /\ clock \in Time
    /\ lock \in Workers \union {NoWorker, Pruner}
    /\ lock = Pruner => cut # NoCut
    /\ conn \in [Procs -> Workers \union {NoWorker}]
    /\ st \in [Workers -> States]
    /\ batch \in [Workers -> SUBSET Values]
    /\ stamp \in [Workers -> Time]
    /\ todo \in [Workers -> SUBSET Values]
    /\ added \in [Workers -> SUBSET Values]
    /\ tries \in [Workers -> 0..MaxTries]
    /\ cancelled \in SUBSET Workers
    /\ cut \in Time \union {NoCut}
    /\ cutType \in {AnyType} \union {TypeOf[v] : v \in Values}

(* A token has at most one row: whatever batches race, collide, roll back, *)
(* crash or are pruned, Lookup has one answer (UNIQUE(type, index) plus    *)
(* the collision check of InsertBatch).                                    *)
TokensUnambiguous ==
    \A u, v \in Rows : Token[u] = Token[v] => u = v

(* Only the worker that holds the write lock has a transaction, with or    *)
(* without uncommitted rows, and it holds its process's connection: no two *)
(* writers interleave, in one process or in two, and every way out of a    *)
(* transaction gives back both.                                            *)
OneWriter ==
    \A w \in Workers :
        /\ st[w] \in {"insert", "commit", "rollback"} <=> lock = w
        /\ st[w] \in {"begin", "insert", "commit", "rollback"} => conn[ProcOf[w]] = w
        /\ added[w] \union todo[w] # {} => lock = w

(* A batch is remembered whole or not at all: when a call returns nil,     *)
(* every value of its batch has a row, also one that another worker has    *)
(* inserted; and rows appear only when the worker that holds the write     *)
(* lock commits, together with all the rest of its batch.                  *)
BatchAtomic ==
    [][/\ \A w \in Workers : st[w] # "ok" /\ st'[w] = "ok" => batch'[w] \subseteq Rows'
       /\ \A v \in Rows' \ Rows :
             \E w \in Workers : /\ lock = w /\ st[w] = "commit"
                                /\ v \in batch[w] /\ batch[w] \subseteq Rows']_storeVars

(* A row is never overwritten, and goes away only by a prune that was      *)
(* called in a later second than the first masking of its value, from      *)
(* which alone the age of a row counts.                                    *)
RowsStable ==
    [][\A v \in Rows : \/ db'[v] = db[v]
                      \/ (db'[v] = NoRow /\ cut # NoCut /\ db[v] < cut)]_storeVars
=============================================================================
