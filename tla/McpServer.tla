------------------------------ MODULE McpServer -----------------------------
(***************************************************************************)
(* `opsmask mcp serve` (internal/mcpsrv, cli/mcp.go): a process that opens *)
(* the store and mcp_calls.jsonl, serves the calls of its client side by   *)
(* side, records each of them before it answers, and closes the log and    *)
(* the store when the client hangs up, whatever calls are still in hand.   *)
(* Other processes add and prune rows of the same database.                *)
(*                                                                         *)
(* How text is masked is MaskPipeline's, how a command is run ExecCall's:  *)
(* here they end in one of their ways and may leave rows in the store.     *)
(* Sizes, durations and the caps on output are left out.                   *)
(***************************************************************************)
EXTENDS Integers, FiniteSets, Sequences

CONSTANTS
    MaxCalls,       \* bound: calls of the client, numbered as they arrive
    Requests,       \* bound: what each of them may ask for
    Values,         \* bound: the values there are
    Types,          \* bound: the types a client may name
    TypeOf,         \* the type of each value
    Problems,       \* what a handler refuses a request for
    ExecCodes,      \* how Orchestrate fails (ExecCall)
    DefaultLimit,   \* mappingDefaultLim, 50
    MaxLimit,       \* mappingMaxLim, 500
    Stamps,         \* bound: the seconds a row may carry
    MaxFaults,      \* bound: appends that fail or are torn
    NoRow, Nobody   \* model values

Tools == {"mask_text", "detect_text", "mapping_stats", "list_detectors", "exec", "resource:mapping"}

(* problem: what the handler refuses the request for, or "none".           *)
(* values: what the text or the output of the command holds.               *)
(* type: "any" where a tool has no use for one; limit: 0 when the URI has  *)
(* none.                                                                   *)
ASSUME McpAssumption ==
    /\ Requests \in [1..MaxCalls -> SUBSET [tool : Tools, problem : Problems \union {"none"},
                                            values : SUBSET Values, type : Types \union {"any"},
                                            limit : Nat]]
    /\ TypeOf \in [Values -> Types]
    /\ IsFiniteSet(Values)
    /\ "none" \notin Problems \union ExecCodes
    /\ DefaultLimit \in Nat \ {0} /\ MaxLimit \in Nat \ {0}
    /\ Stamps \subseteq Nat /\ MaxFaults \in Nat
    /\ MaxCalls \in Nat
    /\ NoRow \notin Nat
    /\ Nobody \notin Nat

Calls == 1..MaxCalls

VARIABLES
    server,     \* how far `mcp serve` is
    req,        \* the request of each call, once it has arrived
    at,         \* where its handler is
    out,        \* what the handler has found
    log,        \* mcp_calls.jsonl: what was appended, in order
    file, lock, \* AuditFile.f and .mu
    rows,       \* first_seen_at of each value, or NoRow
    faults,     \* appends that went wrong
    steady      \* history: values with a row since the call began, until it is answered

calls == <<req, at, out>>
audit == <<log, file, lock, faults>>
store == <<rows, steady>>
vars == <<server, calls, audit, store>>

Unknown == [tool |-> "list_detectors", problem |-> "none", values |-> {}, type |-> "any", limit |-> 0]
ListOf(S, more) == [class |-> "none", exit |-> 0, entries |-> S, truncated |-> more]
Nothing == ListOf({}, FALSE)
Failure(class) == [Nothing EXCEPT !.class = class]

Init ==
    /\ server = "starting"
    /\ req = [c \in Calls |-> Unknown]
    /\ at = [c \in Calls |-> "idle"]
    /\ out = [c \in Calls |-> Nothing]
    /\ log = <<>>
    /\ file = "closed" /\ lock = Nobody
    /\ rows \in [Values -> Stamps]       \* bound: no value without a row
    /\ faults = 0
    /\ steady = [c \in Calls |-> {}]

Present == {v \in Values : rows[v] # NoRow}

-----------------------------------------------------------------------------
(* newMcpServe.                                                            *)

BuildRuntime ==
    /\ server = "starting"
    /\ server' \in {"opening", "exited"}
    /\ UNCHANGED <<calls, audit, store>>

(* OpenAuditWriter; if it fails, the deferred rt.Close alone follows.      *)
OpenAudit ==
    /\ server = "opening"
    /\ \/ server' = "running" /\ file' = "open"
       \/ server' = "unlogged" /\ UNCHANGED file
    /\ UNCHANGED <<calls, log, lock, faults, store>>

(* The client closes stdin, and Run returns.                               *)
HangUp ==
    /\ server = "running"
    /\ server' = "returned"
    /\ UNCHANGED <<calls, audit, store>>

(* Mutant of CloseAudit: without the mutex.                                *)
CloseAuditUnlocked ==
    /\ server = "returned"
    /\ server' = "unlogged"
    /\ file' = "closed"
    /\ UNCHANGED <<calls, log, lock, faults, store>>

CloseAudit ==
    /\ server = "returned"
    /\ lock = Nobody
    /\ server' = "unlogged"
    /\ file' = "closed"
    /\ UNCHANGED <<calls, log, lock, faults, store>>

InHand == {"work", "record", "append", "answer"}

(* rt.Close and the end of the process, with all handlers.                 *)
Exit ==
    /\ server = "unlogged"
    /\ server' = "exited"
    /\ at' = [c \in Calls |-> IF at[c] \in InHand THEN "dead" ELSE at[c]]
    /\ UNCHANGED <<req, out, audit, store>>

Shutdown == CloseAudit \/ Exit

-----------------------------------------------------------------------------
(* The handlers.                                                           *)

Call(c) ==
    /\ server = "running"
    /\ at[c] = "idle"
    /\ \A d \in 1..(c - 1) : at[d] # "idle"
    /\ at' = [at EXCEPT ![c] = "work"]
    /\ \E r \in Requests[c] :
          /\ req' = [req EXCEPT ![c] = r]
          /\ steady' = [steady EXCEPT ![c] = IF r.tool = "resource:mapping" THEN Present ELSE {}]
    /\ UNCHANGED <<server, out, audit, rows>>

Works(c, tools) ==
    /\ server # "exited"
    /\ at[c] = "work"
    /\ req[c].tool \in tools
    /\ at' = [at EXCEPT ![c] = "record"]
    /\ UNCHANGED <<server, req, audit, steady>>

Found(c, result) == out' = [out EXCEPT ![c] = result]

(* Too large a text, no argv, a bad timeout, a bad URI.                    *)
Refuse(c) ==
    /\ Works(c, Tools)
    /\ req[c].problem # "none"
    /\ Found(c, Failure(req[c].problem))
    /\ UNCHANGED rows

(* Rows that masking leaves behind; what needs none is MaskPipeline's.     *)
MayStore(values) ==
    \E S \in SUBSET {v \in values : rows[v] = NoRow}, s \in Stamps :
        rows' = [v \in Values |-> IF v \in S THEN s ELSE rows[v]]

(* engine.Process ends, or the context or the store fails.                 *)
MaskText(c) ==
    /\ Works(c, {"mask_text"})
    /\ req[c].problem = "none"
    /\ Found(c, Nothing) \/ Found(c, Failure("failed"))
    /\ MayStore(req[c].values)

(* detect.Scan, Stats and the list of the rules; the counts are left out.  *)
Inspect(c) ==
    /\ Works(c, {"detect_text", "mapping_stats", "list_detectors"})
    /\ req[c].problem = "none"
    /\ \/ Found(c, Nothing)
       \/ req[c].tool # "list_detectors" /\ Found(c, Failure("failed"))
    /\ UNCHANGED rows

(* Orchestrate: a class of failure, or the exit code of the child.         *)
Exec(c) ==
    /\ Works(c, {"exec"})
    /\ req[c].problem = "none"
    /\ \/ \E code \in ExecCodes : Found(c, Failure(code))
       \/ \E code \in {0, 1} : Found(c, [Nothing EXCEPT !.exit = code])
    /\ MayStore(req[c].values)

(* parseMappingURI.                                                        *)
LimitOf(r) ==
    LET n == IF r.limit = 0 THEN DefaultLimit ELSE r.limit
    IN  IF n > MaxLimit THEN MaxLimit ELSE n

(* ORDER BY first_seen_at DESC LIMIT n: rows of one second in any order.   *)
Newest(R, n) ==
    {S \in SUBSET R :
        /\ Cardinality(S) = IF Cardinality(R) < n THEN Cardinality(R) ELSE n
        /\ \A s \in S, r \in R \ S : r.stamp <= s.stamp}

OfType(typ) == {[value |-> v, stamp |-> rows[v]] : v \in {w \in Present : TypeOf[w] = typ}}

(* Mutant of Listing: without the row that shows there are more.           *)
ListingExact(typ, n) ==
    {ListOf(S, FALSE) : S \in Newest(OfType(typ), n)}

(* One row more than asked for is read, and dropped.                       *)
Listing(typ, n) ==
    UNION {{ListOf(S, Cardinality(F) > n) : S \in Newest(F, n)} : F \in Newest(OfType(typ), n + 1)}

ReadMapping(c) ==
    /\ Works(c, {"resource:mapping"})
    /\ req[c].problem = "none"
    /\ \/ \E l \in Listing(req[c].type, LimitOf(req[c])) : Found(c, l)
       \/ Found(c, Failure("failed"))
    /\ UNCHANGED rows

-----------------------------------------------------------------------------
(* writeAudit: AuditFile.Write, whose error nobody looks at.               *)

(* Mutant of Succeeded: a command that failed counts as a success.         *)
SucceededAnyway(o) == o.class = "none"

Succeeded(o) == o.class = "none" /\ o.exit = 0

(* errClass, errClassExec.                                                 *)
ClassOf(o) == IF o.class = "none" /\ o.exit # 0 THEN "non_zero" ELSE o.class

RecordOf(c) ==
    [call |-> c, tool |-> req[c].tool, ok |-> Succeeded(out[c]), class |-> ClassOf(out[c])]

(* The mutex is taken and the file looked at.                              *)
Lock(c) ==
    /\ server # "exited"
    /\ at[c] = "record"
    /\ lock = Nobody
    /\ IF file = "open"
       THEN lock' = c /\ at' = [at EXCEPT ![c] = "append"]
       ELSE at' = [at EXCEPT ![c] = "answer"] /\ UNCHANGED lock
    /\ UNCHANGED <<server, req, out, log, file, faults, store>>

(* One write, of which the disk may take nothing or a part.                *)
Written(r) ==
    \/ log' = Append(log, [rec |-> r, whole |-> TRUE]) /\ UNCHANGED faults
    \/ /\ faults < MaxFaults
       /\ faults' = faults + 1
       /\ log' = Append(log, [rec |-> r, whole |-> FALSE]) \/ UNCHANGED log

(* Mutants of AppendRecord: the mutex is not given back after an error;    *)
(* the step back to the handler is forgotten.                              *)
AppendRecordKeepsLock(c) ==
    /\ server # "exited"
    /\ at[c] = "append"
    /\ Written(RecordOf(c))
    /\ lock' = IF faults' = faults THEN Nobody ELSE lock
    /\ at' = [at EXCEPT ![c] = "answer"]
    /\ UNCHANGED <<server, req, out, file, store>>

AppendRecordTwice(c) ==
    /\ server # "exited"
    /\ at[c] = "append"
    /\ Written(RecordOf(c))
    /\ lock' = Nobody
    /\ at' = [at EXCEPT ![c] = IF faults' = faults THEN "answer" ELSE "record"]
    /\ UNCHANGED <<server, req, out, file, store>>

AppendRecord(c) ==
    /\ server # "exited"
    /\ at[c] = "append"
    /\ Written(RecordOf(c))
    /\ lock' = Nobody
    /\ at' = [at EXCEPT ![c] = "answer"]
    /\ UNCHANGED <<server, req, out, file, store>>

(* The SDK sends the result to the client, if there still is one.          *)
Answer(c) ==
    /\ server # "exited"
    /\ at[c] = "answer"
    /\ at' = [at EXCEPT ![c] = "done"]
    /\ steady' = [steady EXCEPT ![c] = {}]
    /\ UNCHANGED <<server, req, out, audit, rows>>

-----------------------------------------------------------------------------
(* Other processes; bound: they pause while nobody is about  *)
(* to read the rows.                                                       *)
Busy ==
    /\ server # "exited"
    /\ \E c \in Calls : at[c] = "work" /\ req[c].tool = "resource:mapping"

(* A row appears with the second in which it was planned, which may be     *)
(* before that of rows that are there.                                     *)
Stored(v) ==
    /\ Busy
    /\ rows[v] = NoRow
    /\ \E s \in Stamps : rows' = [rows EXCEPT ![v] = s]
    /\ UNCHANGED <<server, calls, audit, steady>>

Prune(cut) ==
    /\ Busy
    /\ LET gone == {v \in Present : rows[v] < cut}
       IN  /\ gone # {}
           /\ rows' = [v \in Values |-> IF v \in gone THEN NoRow ELSE rows[v]]
           /\ steady' = [c \in Calls |-> steady[c] \ gone]
    /\ UNCHANGED <<server, calls, audit>>

-----------------------------------------------------------------------------
(* What the handler does on its own; a command may run for ever (ExecRun). *)
Handler(c) ==
    \/ Refuse(c) \/ MaskText(c) \/ Inspect(c) \/ ReadMapping(c)
    \/ Lock(c) \/ AppendRecord(c) \/ Answer(c)

Next ==
    \/ BuildRuntime \/ OpenAudit \/ HangUp \/ Shutdown
    \/ \E c \in Calls : Call(c) \/ Handler(c) \/ Exec(c)
        \/ \E v \in Values : Stored(v)
    \/ \E cut \in Stamps : Prune(cut)

Spec == Init /\ [][Next]_vars

(* Goroutines are scheduled, and main goes on when Run has returned; the   *)
(* client need not call nor hang up, a command need not end.               *)
FairSpec ==
    /\ Spec
    /\ WF_vars(Shutdown)
    /\ \A c \in Calls : WF_vars(Handler(c))

-----------------------------------------------------------------------------
(* Properties.                                                             *)

(* Every variable has its type; who appends holds the mutex, and the file  *)
(* is not closed under him (audit.go:51-53).                               *)
Classes == {"none", "failed", "non_zero"} \union Problems \union ExecCodes

Results ==
    [class : Classes, exit : {0, 1}, entries : SUBSET [value : Values, stamp : Stamps], truncated : BOOLEAN]

TypeOK ==
    /\ server \in {"starting", "opening", "running", "returned", "unlogged", "exited"}
    /\ DOMAIN req = Calls /\ \A c \in Calls : req[c] \in Requests[c] \union {Unknown}
    /\ at \in [Calls -> InHand \union {"idle", "done", "dead"}]
    /\ out \in [Calls -> Results]
    /\ log \in Seq([rec : [call : Calls, tool : Tools, ok : BOOLEAN, class : Classes],
                    whole : BOOLEAN])
    /\ file \in {"open", "closed"}
    /\ lock \in Calls \union {Nobody}
    /\ rows \in [Values -> Stamps \union {NoRow}]
    /\ faults \in 0..MaxFaults
    /\ steady \in [Calls -> SUBSET Present]
    /\ \A c \in Calls : at[c] = "append" => lock = c /\ file = "open"

(* A call has at most one record, written before it is answered, and it    *)
(* tells what the client is told: whether the call, and the command it     *)
(* ran, succeeded.                                                         *)
Records(c) == {i \in DOMAIN log : log[i].rec.call = c}

RecordsTrue ==
    \A c \in Calls :
        /\ Cardinality(Records(c)) <= 1
        /\ \A i \in Records(c) :
              /\ at[c] \in {"answer", "done", "dead"}
              /\ log[i].rec.ok <=> out[c].class = "none" /\ out[c].exit = 0
              /\ log[i].rec.class = "none" <=> log[i].rec.ok

(* A torn line has no newline, and the next record is glued to it.  An     *)
(* append that goes wrong costs two records at most, and no answer.        *)
Readable(i) == log[i].whole /\ (i = 1 \/ log[i - 1].whole)

Unrecorded ==
    {c \in Calls : /\ at[c] \in {"answer", "done"}
                   /\ ~ \E i \in Records(c) : Readable(i)}

LossBounded == file = "open" => Cardinality(Unrecorded) <= 2 * faults

(* The mapping resource, read while rows come and go: a list that does not *)
(* say it is truncated lacks no row that was there all the time, and one   *)
(* that does is full and lacks only rows as old as its oldest.             *)
MappingTrue ==
    \A c \in Calls :
        req[c].tool = "resource:mapping" /\ out[c].class = "none" /\ at[c] \in {"record", "append", "answer"} =>
        LET limit == LimitOf(req[c])
            listed == {e.value : e \in out[c].entries}
            missed == {v \in steady[c] \ listed : TypeOf[v] = req[c].type}
        IN  /\ \A v \in listed : TypeOf[v] = req[c].type
            /\ IF out[c].truncated
               THEN /\ Cardinality(listed) = limit
                    /\ \A v \in missed, e \in out[c].entries : e.stamp >= rows[v]
               ELSE Cardinality(listed) <= limit /\ missed = {}

AnswersTrue == RecordsTrue /\ LossBounded /\ MappingTrue

(* A full disk, a client that hangs up and the mutex never hold up a call  *)
(* whose work is done, nor the end of the server.                          *)
Owed(c) == at[c] \in InHand /\ (at[c] = "work" => req[c].tool # "exec")

Answered ==
    /\ \A c \in Calls : Owed(c) ~> at[c] \in {"done", "dead"}
    /\ server = "returned" ~> server = "exited"
=============================================================================
