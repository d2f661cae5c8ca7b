-------------------------- MODULE McpServer_proofs --------------------------
(***************************************************************************)
(* For any calls, requests and rows: what mcp_calls.jsonl tells of a call  *)
(* is what its client was told, a write that goes wrong costs two records  *)
(* at most, and a list that says it is complete is.                        *)
(***************************************************************************)
EXTENDS McpServer, FiniteSetTheorems, TLAPS

Serving == {"running", "returned"}

(* The file is open while the server serves or has just stopped to, and    *)
(* no call comes before.  Who holds the mutex is about to write.           *)
FileInv ==
    /\ file = "open" <=> server \in Serving
    /\ server \in {"starting", "opening"} => \A c \in Calls : at[c] = "idle"
    /\ lock # Nobody => at[lock] = "append"

Told == {"answer", "done", "dead"}

(* A record was written by the one call it names, and says how it ended.   *)
RecordInv ==
    /\ \A i \in DOMAIN log :
          /\ at[log[i].rec.call] \in Told
          /\ log[i].rec = RecordOf(log[i].rec.call)
    /\ \A i, j \in DOMAIN log : log[i].rec.call = log[j].rec.call => i = j

(* Each append that went wrong left a torn line, or a call without any.    *)
Torn == {i \in DOMAIN log : ~ log[i].whole}

Lost == {c \in Calls : at[c] \in {"answer", "done"} /\ Records(c) = {}}

Counted == Cardinality(Torn) + Cardinality(Lost) <= faults

CountInv == server \in {"starting", "opening", "running", "returned"} => Counted

McpInv == TypeOK /\ FileInv /\ RecordInv /\ CountInv /\ MappingTrue

-----------------------------------------------------------------------------
(* Types.                                                                  *)

RequestType ==
    [tool : Tools, problem : Problems \union {"none"}, values : SUBSET Values,
     type : Types \union {"any"}, limit : Nat]

LEMMA Numbers == Calls \subseteq Nat /\ Nobody \notin Calls /\ NoRow \notin Stamps
<1>1. Calls \subseteq Nat
  BY DEF Calls
<1>2. Nobody \notin Nat /\ Stamps \subseteq Nat /\ NoRow \notin Nat
  BY McpAssumption, Zenon
<1> QED
  BY <1>1, <1>2, Zenon

LEMMA RequestTyped ==
    ASSUME TypeOK, NEW c \in Calls PROVE req[c] \in RequestType
<1>1. Unknown \in RequestType
  BY DEF Unknown, RequestType, Tools
<1>2. Requests[c] \subseteq RequestType
  BY McpAssumption, Zenon DEF Calls, RequestType
<1> QED
  BY <1>1, <1>2 DEF TypeOK

LEMMA ResultTyped ==
    /\ Nothing \in Results
    /\ \A class \in Classes : Failure(class) \in Results
    /\ \A code \in {0, 1} : [Nothing EXCEPT !.exit = code] \in Results
BY DEF ListOf, Nothing, Failure, Results, Classes

LEMMA OfTypeTyped ==
    ASSUME TypeOK, NEW typ PROVE OfType(typ) \subseteq [value : Values, stamp : Stamps]
BY DEF TypeOK, OfType, Present

LEMMA ListingTyped ==
    ASSUME TypeOK, NEW typ, NEW n, NEW l \in Listing(typ, n) PROVE l \in Results
<1>1. PICK F \in Newest(OfType(typ), n + 1) : \E S \in Newest(F, n) : l = ListOf(S, Cardinality(F) > n)
  BY DEF Listing
<1>2. PICK S \in Newest(F, n) : l = ListOf(S, Cardinality(F) > n)
  BY <1>1
<1>3. S \subseteq [value : Values, stamp : Stamps]
  BY OfTypeTyped DEF Newest
<1> QED
  BY <1>2, <1>3 DEF ListOf, Results, Classes

LogLine == [rec : [call : Calls, tool : Tools, ok : BOOLEAN, class : Classes], whole : BOOLEAN]

LEMMA RecordTyped ==
    ASSUME TypeOK, NEW c \in Calls
    PROVE  RecordOf(c) \in [call : Calls, tool : Tools, ok : BOOLEAN, class : Classes]
BY RequestTyped DEF TypeOK, RecordOf, Succeeded, ClassOf, Results, Classes, RequestType

(* Rows that appear leave the others alone.                                *)
RowsGrow == rows' \in [Values -> Stamps \union {NoRow}]
            /\ \A v \in Values : rows[v] # NoRow => rows'[v] = rows[v]

LEMMA MayStoreGrows ==
    ASSUME TypeOK, NEW values, MayStore(values) PROVE RowsGrow
BY DEF TypeOK, MayStore, RowsGrow

LEMMA GrowKeepsSteady ==
    ASSUME TypeOK, RowsGrow PROVE \A c \in Calls : steady[c] \subseteq Present'
BY Numbers DEF TypeOK, RowsGrow, Present

LEMMA TypeInit == Init => TypeOK
<1> SUFFICES ASSUME Init PROVE TypeOK
  OBVIOUS
<1>1. out \in [Calls -> Results] /\ faults \in 0..MaxFaults
  BY ResultTyped, McpAssumption DEF Init
<1> QED
  BY <1>1 DEF Init, TypeOK, InHand

(* What the handlers have in common: an outcome, and rows for new values.  *)
WorkDone(c) ==
    /\ Works(c, Tools)
    /\ \E r \in Results : Found(c, r)
    /\ RowsGrow
    /\ req[c].tool = "resource:mapping" /\ out'[c].class = "none" =>
          out'[c] \in Listing(req[c].type, LimitOf(req[c])) /\ UNCHANGED rows

LEMMA HandlersWork ==
    ASSUME TypeOK, NEW c \in Calls,
           Refuse(c) \/ MaskText(c) \/ Inspect(c) \/ ReadMapping(c) \/ Exec(c)
    PROVE  WorkDone(c)
<1> USE DEF WorkDone, Works, Tools
<1>0. UNCHANGED rows => RowsGrow
  BY DEF TypeOK, RowsGrow
<1>1. Nothing \in Results /\ \A class \in Classes : Failure(class) \in Results
  BY ResultTyped
<1>2. "failed" \in Classes /\ ExecCodes \subseteq Classes
  BY DEF Classes
<1> out \in [Calls -> Results]
  BY DEF TypeOK
<1>a. \A r : Found(c, r) => out'[c] = r
  BY DEF Found
<1>b. \A class : Failure(class).class = class
  BY DEF Failure, Nothing, ListOf
<1>3. CASE Refuse(c)
  <2>1. req[c].problem \in Classes
    BY RequestTyped DEF RequestType, Classes
  <2> QED
    BY <1>0, <1>1, <1>3, <1>a, <1>b, <2>1 DEF Refuse
<1>4. CASE MaskText(c)
  BY <1>1, <1>2, <1>4, MayStoreGrows DEF MaskText
<1>5. CASE Inspect(c)
  BY <1>0, <1>1, <1>2, <1>5 DEF Inspect
<1>6. CASE ReadMapping(c)
  <2>1. CASE Found(c, Failure("failed"))
    BY <1>0, <1>1, <1>2, <1>6, <1>a, <1>b, <2>1 DEF ReadMapping
  <2>2. ASSUME NEW l \in Listing(req[c].type, LimitOf(req[c])), Found(c, l) PROVE WorkDone(c)
    BY <1>0, <1>6, <1>a, <2>2, ListingTyped DEF ReadMapping
  <2> QED
    BY <1>6, <2>1, <2>2 DEF ReadMapping
<1>7. CASE Exec(c)
  <2>1. \E r \in Results : Found(c, r)
    <3>1. CASE \E code \in ExecCodes : Found(c, Failure(code))
      BY <3>1, <1>1, <1>2
    <3>2. CASE \E code \in {0, 1} : Found(c, [Nothing EXCEPT !.exit = code])
      BY <3>2, ResultTyped
    <3> QED
      BY <1>7, <3>1, <3>2 DEF Exec
  <2> QED
    BY <1>7, <2>1, MayStoreGrows DEF Exec
<1> QED
  BY <1>3, <1>4, <1>5, <1>6, <1>7

(* Every step, with the handlers' work as one.                             *)
RowsStep == UNCHANGED <<server, calls, audit>>

LEMMA Steps ==
    ASSUME TypeOK, [Next]_vars
    PROVE  \/ BuildRuntime \/ OpenAudit \/ HangUp \/ CloseAudit \/ Exit
           \/ \E c \in Calls : Call(c) \/ WorkDone(c) \/ Lock(c) \/ AppendRecord(c) \/ Answer(c)
           \/ \E v \in Values : Stored(v)
           \/ \E cut \in Stamps : Prune(cut)
           \/ UNCHANGED vars
<1>1. CASE \E c \in Calls : Call(c) \/ Handler(c) \/ Exec(c)
  BY <1>1, HandlersWork DEF Handler
<1> QED
  BY <1>1 DEF Next, Shutdown

LEMMA RowsSteps ==
    /\ \A v \in Values : Stored(v) => RowsStep
    /\ \A cut \in Stamps : Prune(cut) => RowsStep
    /\ UNCHANGED vars => RowsStep
BY DEF Stored, Prune, RowsStep, vars, store

LEMMA TypeStep == TypeOK /\ [Next]_vars => TypeOK'
<1> SUFFICES ASSUME TypeOK, [Next]_vars PROVE TypeOK'
  OBVIOUS
<1> USE DEF TypeOK, calls, audit, store, InHand
<1>1. CASE BuildRuntime
  BY <1>1 DEF BuildRuntime, Present
<1>2. CASE OpenAudit
  BY <1>2 DEF OpenAudit, Present
<1>3. CASE HangUp
  BY <1>3 DEF HangUp, Present
<1>4. CASE CloseAudit
  BY <1>4, Numbers DEF CloseAudit, Present
<1>5. CASE Exit
  BY <1>5 DEF Exit, Present
<1>6. ASSUME NEW c \in Calls, Call(c) PROVE TypeOK'
  BY <1>6 DEF Call, Present
<1>7. ASSUME NEW c \in Calls, WorkDone(c) PROVE TypeOK'
  <2>1. steady' \in [Calls -> SUBSET Present']
    BY <1>7, GrowKeepsSteady DEF WorkDone, Works
  <2>2. rows' \in [Values -> Stamps \union {NoRow}]
    BY <1>7 DEF WorkDone, RowsGrow
  <2>3. out' \in [Calls -> Results]
    BY <1>7 DEF WorkDone, Found
  <2> QED
    BY <1>7, <2>1, <2>2, <2>3 DEF WorkDone, Works
<1>8. ASSUME NEW c \in Calls, Lock(c) PROVE TypeOK'
  BY <1>8, Numbers DEF Lock, Present
<1>9. ASSUME NEW c \in Calls, AppendRecord(c) PROVE TypeOK'
  <2>1. log' \in Seq(LogLine)
    <3>1. \A t \in BOOLEAN : [rec |-> RecordOf(c), whole |-> t] \in LogLine
      BY RecordTyped DEF LogLine
    <3>2. log \in Seq(LogLine)
      BY DEF LogLine
    <3>3. log' \in {Append(log, [rec |-> RecordOf(c), whole |-> TRUE]),
                    Append(log, [rec |-> RecordOf(c), whole |-> FALSE]), log}
      BY <1>9 DEF AppendRecord, Written
    <3>4. \A x \in LogLine : Append(log, x) \in Seq(LogLine)
      BY <3>2
    <3> QED
      BY <3>1, <3>2, <3>3, <3>4, Zenon
  <2>2. faults' \in 0..MaxFaults
    <3>1. MaxFaults \in Nat
      BY McpAssumption, Zenon
    <3> QED
      BY <1>9, <3>1 DEF AppendRecord, Written
  <2>3. \A d \in Calls : at'[d] = "append" => lock = c /\ d = c
    BY <1>9 DEF AppendRecord
  <2> QED
    BY <1>9, <2>1, <2>2, <2>3 DEF AppendRecord, Present, LogLine
<1>10. ASSUME NEW c \in Calls, Answer(c) PROVE TypeOK'
  BY <1>10 DEF Answer, Present
<1>11. ASSUME NEW v \in Values, Stored(v) PROVE TypeOK'
  <2>1. RowsGrow
    BY <1>11 DEF Stored, RowsGrow
  <2>2. steady' \in [Calls -> SUBSET Present']
    BY <1>11, <2>1, GrowKeepsSteady DEF Stored
  <2> QED
    BY <1>11, <2>1, <2>2 DEF Stored, RowsGrow
<1>12. ASSUME NEW cut \in Stamps, Prune(cut) PROVE TypeOK'
  <2>1. rows' \in [Values -> Stamps \union {NoRow}]
    BY <1>12 DEF Prune
  <2>2. steady' \in [Calls -> SUBSET Present']
    BY <1>12 DEF Prune, Present
  <2> QED
    BY <1>12, <2>1, <2>2 DEF Prune
<1>13. CASE UNCHANGED vars
  BY <1>13 DEF vars, Present
<1> QED
  BY <1>1, <1>2, <1>3, <1>4, <1>5, <1>6, <1>7, <1>8, <1>9, <1>10, <1>11, <1>12, <1>13, Steps

(* Type correctness, and the mutex of who appends.                         *)
THEOREM McpTyping == Spec => []TypeOK
<1> QED
  BY TypeInit, TypeStep, PTL DEF Spec

-----------------------------------------------------------------------------
(* The file and the mutex.                                                 *)

LEMMA FileInit == Init => FileInv
BY DEF Init, FileInv, Serving

LEMMA FileStep == TypeOK /\ FileInv /\ [Next]_vars => FileInv'
<1> SUFFICES ASSUME TypeOK, FileInv, [Next]_vars PROVE FileInv'
  OBVIOUS
<1> USE DEF TypeOK, FileInv, Serving, calls, audit, store
<1>1. CASE BuildRuntime
  BY <1>1 DEF BuildRuntime
<1>2. CASE OpenAudit
  BY <1>2 DEF OpenAudit
<1>3. CASE HangUp
  BY <1>3 DEF HangUp
<1>4. CASE CloseAudit
  BY <1>4 DEF CloseAudit
<1>5. CASE Exit
  <2>1. lock = Nobody
    BY <1>5 DEF Exit
  <2> QED
    BY <1>5, <2>1 DEF Exit
<1>6. ASSUME NEW c \in Calls, Call(c) PROVE FileInv'
  BY <1>6 DEF Call
<1>7. ASSUME NEW c \in Calls, WorkDone(c) PROVE FileInv'
  BY <1>7 DEF WorkDone, Works
<1>8. ASSUME NEW c \in Calls, Lock(c) PROVE FileInv'
  BY <1>8 DEF Lock
<1>9. ASSUME NEW c \in Calls, AppendRecord(c) PROVE FileInv'
  BY <1>9 DEF AppendRecord
<1>10. ASSUME NEW c \in Calls, Answer(c) PROVE FileInv'
  BY <1>10 DEF Answer
<1>11. CASE RowsStep
  BY <1>11 DEF RowsStep
<1> QED
  BY <1>1, <1>2, <1>3, <1>4, <1>5, <1>6, <1>7, <1>8, <1>9, <1>10, <1>11, Steps, RowsSteps

-----------------------------------------------------------------------------
(* The records.                                                            *)

LEMMA RecordInit == Init => RecordInv
BY DEF Init, RecordInv

LEMMA LogTyped ==
    ASSUME TypeOK
    PROVE  log \in Seq(LogLine) /\ \A i \in DOMAIN log : log[i].rec.call \in Calls /\ log[i].whole \in BOOLEAN
<1>1. log \in Seq(LogLine)
  BY DEF TypeOK, LogLine
<1>2. \A i \in DOMAIN log : log[i] \in LogLine
  BY <1>1
<1> QED
  BY <1>1, <1>2 DEF LogLine

LEMMA RecordsStay ==
    ASSUME TypeOK, RecordInv, log' = log,
           \A c \in Calls : at[c] \in Told => at'[c] \in Told /\ req'[c] = req[c] /\ out'[c] = out[c]
    PROVE  RecordInv'
BY LogTyped DEF RecordInv, RecordOf

LEMMA RecordStep == TypeOK /\ RecordInv /\ [Next]_vars => RecordInv'
<1> SUFFICES ASSUME TypeOK, RecordInv, [Next]_vars PROVE RecordInv'
  OBVIOUS
<1> USE DEF calls, audit, store
<1>0. at \in [Calls -> InHand \union {"idle", "done", "dead"}] /\ DOMAIN req = Calls /\ DOMAIN out = Calls
  BY DEF TypeOK
<1>1. CASE BuildRuntime \/ OpenAudit \/ HangUp \/ CloseAudit
  BY <1>1, RecordsStay DEF BuildRuntime, OpenAudit, HangUp, CloseAudit
<1>2. CASE RowsStep
  BY <1>2, RecordsStay DEF RowsStep
<1>3. CASE Exit
  BY <1>0, <1>3, RecordsStay DEF Exit, Told, InHand
<1>4. ASSUME NEW c \in Calls, Call(c) PROVE RecordInv'
  BY <1>0, <1>4, RecordsStay DEF Call, Told
<1>5. ASSUME NEW c \in Calls, WorkDone(c) PROVE RecordInv'
  BY <1>0, <1>5, RecordsStay DEF WorkDone, Works, Found, Told
<1>6. ASSUME NEW c \in Calls, Lock(c) PROVE RecordInv'
  BY <1>0, <1>6, RecordsStay DEF Lock, Told
<1>7. ASSUME NEW c \in Calls, Answer(c) PROVE RecordInv'
  BY <1>0, <1>7, RecordsStay DEF Answer, Told
<1>8. ASSUME NEW c \in Calls, AppendRecord(c) PROVE RecordInv'
  <2> DEFINE r == RecordOf(c)
  <2>1. \A d \in Calls : at[d] \in Told => at'[d] \in Told
    BY <1>0, <1>8 DEF AppendRecord, Told
  <2>2. at'[c] \in Told /\ r.call = c
    BY <1>0, <1>8 DEF AppendRecord, Told, RecordOf
  <2>3. \A i \in DOMAIN log : log[i].rec.call # c
    BY <1>8 DEF AppendRecord, RecordInv, Told
  <2>5. CASE log' = log
    BY <2>5, <2>1, <1>8, RecordsStay DEF AppendRecord
  <2>6. ASSUME NEW t \in BOOLEAN, log' = Append(log, [rec |-> r, whole |-> t]) PROVE RecordInv'
    <3>1. DOMAIN log' = DOMAIN log \union {Len(log) + 1} /\ log'[Len(log) + 1].rec = r
      BY <2>6, LogTyped
    <3>2. \A i \in DOMAIN log : log'[i] = log[i]
      BY <2>6, LogTyped
    <3>3. ASSUME NEW i \in DOMAIN log'
          PROVE  at'[log'[i].rec.call] \in Told /\ log'[i].rec = RecordOf(log'[i].rec.call)
      <4>1. CASE i = Len(log) + 1
        BY <3>1, <4>1, <2>2
      <4>2. CASE i \in DOMAIN log
        BY <3>2, <4>2, <2>1, LogTyped DEF RecordInv
      <4> QED
        BY <3>1, <4>1, <4>2
    <3>4. \A i, j \in DOMAIN log' : log'[i].rec.call = log'[j].rec.call => i = j
      BY <3>1, <3>2, <2>2, <2>3 DEF RecordInv
    <3> QED
      BY <3>3, <3>4, <1>8 DEF RecordInv, RecordOf, AppendRecord
  <2> QED
    BY <1>8, <2>5, <2>6 DEF AppendRecord, Written
<1> QED
  BY <1>1, <1>2, <1>3, <1>4, <1>5, <1>6, <1>7, <1>8, Steps, RowsSteps

(* The record a client's operator reads later is that of his call.         *)
LEMMA RecordsAreTrue == TypeOK /\ RecordInv => RecordsTrue
<1> SUFFICES ASSUME TypeOK, RecordInv, NEW c \in Calls
             PROVE  /\ Cardinality(Records(c)) <= 1
                    /\ \A i \in Records(c) :
                          /\ at[c] \in {"answer", "done", "dead"}
                          /\ log[i].rec.ok <=> out[c].class = "none" /\ out[c].exit = 0
                          /\ log[i].rec.class = "none" <=> log[i].rec.ok
  BY DEF RecordsTrue
<1>1. Cardinality(Records(c)) <= 1
  <2>1. CASE Records(c) = {}
    BY <2>1, FS_EmptySet
  <2>2. CASE Records(c) # {}
    <3>1. PICK i \in Records(c) : TRUE
      BY <2>2
    <3>2. Records(c) = {i}
      BY <3>1 DEF Records, RecordInv
    <3>3. Cardinality({i}) = 1
      BY FS_Singleton
    <3> QED
      BY <3>2, <3>3
  <2> QED
    BY <2>1, <2>2
<1>2. ASSUME NEW i \in Records(c) PROVE
        /\ at[c] \in {"answer", "done", "dead"}
        /\ log[i].rec.ok <=> out[c].class = "none" /\ out[c].exit = 0
        /\ log[i].rec.class = "none" <=> log[i].rec.ok
  <2>1. at[c] \in Told /\ log[i].rec = RecordOf(c)
    BY DEF Records, RecordInv
  <2>2. RecordOf(c).ok <=> out[c].class = "none" /\ out[c].exit = 0
    BY DEF RecordOf, Succeeded
  <2>3. RecordOf(c).class = "none" <=> out[c].class = "none" /\ out[c].exit = 0
    BY DEF RecordOf, ClassOf
  <2> QED
    BY <2>1, <2>2, <2>3 DEF Told
<1> QED
  BY <1>1, <1>2

-----------------------------------------------------------------------------
(* The lines that were lost.                                               *)

LEMMA OneMore ==
    ASSUME NEW S, IsFiniteSet(S), NEW x, NEW T, T \subseteq S \union {x}
    PROVE  /\ IsFiniteSet(T) /\ Cardinality(T) \in Nat /\ Cardinality(S) \in Nat
           /\ Cardinality(T) <= Cardinality(S) + 1
<1>0. Cardinality(S) \in Nat
  BY FS_CardinalityType
<1>1. IsFiniteSet(S \union {x}) /\ Cardinality(S \union {x}) <= Cardinality(S) + 1
  BY <1>0, FS_AddElement
<1>2. IsFiniteSet(T) /\ Cardinality(T) <= Cardinality(S \union {x})
  BY <1>1, FS_Subset
<1> QED
  BY <1>1, <1>2, FS_CardinalityType, FS_AddElement

LEMMA ImageBound ==
    ASSUME NEW S, IsFiniteSet(S), NEW f, f = [x \in S |-> f[x]]
    PROVE  IsFiniteSet({f[x] : x \in S}) /\ Cardinality({f[x] : x \in S}) <= Cardinality(S)
<1> DEFINE T == {f[x] : x \in S}
<1>1. f \in Surjection(S, T)
  BY DEF Surjection
<1> HIDE DEF T
<1>2. IsFiniteSet(T) /\ Cardinality(T) <= Cardinality(S)
  BY <1>1, FS_Surjection
<1> QED
  BY <1>2 DEF T

LEMMA UnionBound ==
    ASSUME NEW S, IsFiniteSet(S), NEW T, IsFiniteSet(T)
    PROVE  IsFiniteSet(S \union T) /\ Cardinality(S \union T) <= Cardinality(S) + Cardinality(T)
<1>1. IsFiniteSet(S \intersect T)
  BY FS_Intersection
<1>2. /\ Cardinality(S) \in Nat /\ Cardinality(T) \in Nat
      /\ Cardinality(S \intersect T) \in Nat
  BY <1>1, FS_CardinalityType
<1>3. /\ IsFiniteSet(S \union T)
      /\ Cardinality(S \union T) = Cardinality(S) + Cardinality(T) - Cardinality(S \intersect T)
  BY FS_Union
<1> QED
  BY <1>2, <1>3

LEMMA CountsFinite ==
    ASSUME TypeOK
    PROVE  /\ IsFiniteSet(Torn) /\ Cardinality(Torn) \in Nat
           /\ IsFiniteSet(Lost) /\ Cardinality(Lost) \in Nat
           /\ faults \in Nat
<1>1. MaxCalls \in Nat /\ MaxFaults \in Nat
  BY McpAssumption, Zenon
<1>2. IsFiniteSet(Calls)
  BY <1>1, FS_Interval DEF Calls
<1>3. IsFiniteSet(DOMAIN log)
  BY LogTyped, FS_Interval
<1>4. Torn \subseteq DOMAIN log /\ Lost \subseteq Calls
  BY DEF Torn, Lost
<1> QED
  BY <1>1, <1>2, <1>3, <1>4, FS_Subset, FS_CardinalityType DEF TypeOK

LEMMA CountInit == Init => CountInv
<1> SUFFICES ASSUME Init PROVE Counted
  BY DEF CountInv
<1>1. Torn = {} /\ Lost = {}
  BY DEF Init, Torn, Lost
<1> QED
  BY <1>1, FS_EmptySet DEF Counted, Init

Early == {"starting", "opening", "running", "returned"}

LEMMA CountStays ==
    ASSUME TypeOK, CountInv, log' = log, faults' = faults, server' \in Early => server \in Early,
           server \in Early => Lost' \subseteq Lost
    PROVE  CountInv'
<1> SUFFICES ASSUME server \in Early PROVE Counted'
  BY DEF CountInv, Early
<1>1. Torn' = Torn
  BY DEF Torn
<1>2. Cardinality(Lost') \in Nat /\ Cardinality(Lost') <= Cardinality(Lost)
  BY CountsFinite, FS_Subset, FS_CardinalityType
<1> QED
  BY <1>1, <1>2, CountsFinite DEF Counted, CountInv, Early

LEMMA CountStep == TypeOK /\ FileInv /\ RecordInv /\ CountInv /\ [Next]_vars => CountInv'
<1> SUFFICES ASSUME TypeOK, FileInv, RecordInv, CountInv, [Next]_vars PROVE CountInv'
  OBVIOUS
<1> USE DEF calls, audit, store, Early
<1>0. at \in [Calls -> InHand \union {"idle", "done", "dead"}]
  BY DEF TypeOK
<1>1. CASE BuildRuntime \/ OpenAudit \/ HangUp \/ CloseAudit
  BY <1>1, CountStays DEF BuildRuntime, OpenAudit, HangUp, CloseAudit, Lost, Records
<1>2. CASE RowsStep
  BY <1>2, CountStays DEF RowsStep, Lost, Records
<1>3. CASE Exit
  BY <1>3, CountStays DEF Exit
<1>4. ASSUME NEW c \in Calls, Call(c) PROVE CountInv'
  BY <1>0, <1>4, CountStays DEF Call, Lost, Records
<1>5. ASSUME NEW c \in Calls, WorkDone(c) PROVE CountInv'
  BY <1>0, <1>5, CountStays DEF WorkDone, Works, Lost, Records
<1>6. ASSUME NEW c \in Calls, Lock(c) PROVE CountInv'
  <2>1. server \in Early => at' = [at EXCEPT ![c] = "append"]
    BY <1>6 DEF Lock, FileInv, Serving
  <2> QED
    BY <1>0, <1>6, <2>1, CountStays DEF Lock, Lost, Records
<1>7. ASSUME NEW c \in Calls, Answer(c) PROVE CountInv'
  BY <1>0, <1>7, CountStays DEF Answer, Lost, Records
<1>8. ASSUME NEW c \in Calls, AppendRecord(c), server \in Early PROVE Counted'
  <2>1. CASE faults' = faults /\ log' = Append(log, [rec |-> RecordOf(c), whole |-> TRUE])
    <3>1. DOMAIN log' = DOMAIN log \union {Len(log) + 1} /\ log'[Len(log) + 1].rec.call = c
      BY <2>1, LogTyped DEF RecordOf
    <3>2. \A i \in DOMAIN log : log'[i] = log[i]
      BY <2>1, LogTyped
    <3>3. Torn' \subseteq Torn
      BY <2>1, <3>1, <3>2, LogTyped DEF Torn
    <3>4. Lost' \subseteq Lost
      BY <1>0, <1>8, <3>1, <3>2 DEF AppendRecord, Lost, Records
    <3>5. /\ Cardinality(Torn') \in Nat /\ Cardinality(Torn') <= Cardinality(Torn)
          /\ Cardinality(Lost') \in Nat /\ Cardinality(Lost') <= Cardinality(Lost)
      BY <3>3, <3>4, CountsFinite, FS_Subset, FS_CardinalityType
    <3> QED
      BY <1>8, <2>1, <3>5, CountsFinite DEF Counted, CountInv
  <2>2. CASE faults' = faults + 1 /\ log' = Append(log, [rec |-> RecordOf(c), whole |-> FALSE])
    <3>1. DOMAIN log' = DOMAIN log \union {Len(log) + 1} /\ log'[Len(log) + 1].rec.call = c
      BY <2>2, LogTyped DEF RecordOf
    <3>2. \A i \in DOMAIN log : log'[i] = log[i]
      BY <2>2, LogTyped
    <3>3. Torn' \subseteq Torn \union {Len(log) + 1}
      BY <3>1, <3>2, LogTyped DEF Torn
    <3>4. Lost' \subseteq Lost
      BY <1>0, <1>8, <3>1, <3>2 DEF AppendRecord, Lost, Records
    <3>5. Cardinality(Torn') \in Nat /\ Cardinality(Torn') <= Cardinality(Torn) + 1
      BY <3>3, CountsFinite, OneMore
    <3>6. Cardinality(Lost') \in Nat /\ Cardinality(Lost') <= Cardinality(Lost)
      BY <3>4, CountsFinite, FS_Subset, FS_CardinalityType
    <3> QED
      BY <1>8, <2>2, <3>5, <3>6, CountsFinite DEF Counted, CountInv
  <2>3. CASE faults' = faults + 1 /\ log' = log
    <3>1. Torn' = Torn
      BY <2>3 DEF Torn
    <3>2. Lost' \subseteq Lost \union {c}
      BY <1>0, <1>8, <2>3 DEF AppendRecord, Lost, Records
    <3>3. Cardinality(Lost') \in Nat /\ Cardinality(Lost') <= Cardinality(Lost) + 1
      BY <3>2, CountsFinite, OneMore
    <3> QED
      BY <1>8, <2>3, <3>1, <3>3, CountsFinite DEF Counted, CountInv
  <2> QED
    BY <1>8, <2>1, <2>2, <2>3 DEF AppendRecord, Written
<1>9. ASSUME NEW c \in Calls, AppendRecord(c) PROVE CountInv'
  BY <1>8, <1>9 DEF AppendRecord, CountInv
<1> QED
  BY <1>1, <1>2, <1>3, <1>4, <1>5, <1>6, <1>7, <1>9, Steps, RowsSteps

(* Who has no readable record wrote none, or a torn one, or the line after.*)
LEMMA LossIsBounded == TypeOK /\ FileInv /\ CountInv => LossBounded
<1> SUFFICES ASSUME TypeOK, FileInv, CountInv, file = "open" PROVE Cardinality(Unrecorded) <= 2 * faults
  BY DEF LossBounded
<1>0. Cardinality(Torn) + Cardinality(Lost) <= faults
  BY DEF FileInv, Serving, CountInv, Counted
<1> DEFINE own == [i \in Torn |-> log[i].rec.call]
           next == [i \in Torn |-> IF i + 1 \in DOMAIN log THEN log[i + 1].rec.call ELSE log[i].rec.call]
           A == {own[i] : i \in Torn}
           B == {next[i] : i \in Torn}
<1>1. IsFiniteSet(A) /\ Cardinality(A) <= Cardinality(Torn)
  BY CountsFinite, ImageBound
<1>2. IsFiniteSet(B) /\ Cardinality(B) <= Cardinality(Torn)
  BY CountsFinite, ImageBound
<1>3. Unrecorded \subseteq Lost \union (A \union B)
  <2> SUFFICES ASSUME NEW c \in Unrecorded, c \notin Lost PROVE c \in A \/ c \in B
    OBVIOUS
  <2>1. PICK i \in DOMAIN log : log[i].rec.call = c /\ ~ Readable(i)
    BY DEF Unrecorded, Lost, Records
  <2>2. CASE ~ log[i].whole
    BY <2>1, <2>2 DEF Torn
  <2>3. CASE i # 1 /\ ~ log[i - 1].whole
    <3>1. i - 1 \in DOMAIN log /\ (i - 1) + 1 = i
      BY <2>3, LogTyped
    <3>2. i - 1 \in Torn
      BY <2>3, <3>1 DEF Torn
    <3>3. next[i - 1] = c
      BY <2>1, <3>1, <3>2
    <3> QED
      BY <3>2, <3>3
  <2> QED
    BY <2>1, <2>2, <2>3 DEF Readable
<1> HIDE DEF A, B
<1>4. IsFiniteSet(A \union B) /\ Cardinality(A \union B) <= Cardinality(A) + Cardinality(B)
  BY <1>1, <1>2, UnionBound
<1>5. /\ IsFiniteSet(Lost \union (A \union B))
      /\ Cardinality(Lost \union (A \union B)) <= Cardinality(Lost) + Cardinality(A \union B)
  BY <1>4, CountsFinite, UnionBound
<1>6. Cardinality(Unrecorded) <= Cardinality(Lost \union (A \union B)) /\ IsFiniteSet(Unrecorded)
  BY <1>3, <1>5, FS_Subset
<1>7. /\ Cardinality(A) \in Nat /\ Cardinality(B) \in Nat /\ Cardinality(A \union B) \in Nat
      /\ Cardinality(Lost \union (A \union B)) \in Nat /\ Cardinality(Unrecorded) \in Nat
  BY <1>1, <1>2, <1>4, <1>5, <1>6, FS_CardinalityType
<1> QED
  BY <1>0, <1>1, <1>2, <1>4, <1>5, <1>6, <1>7, CountsFinite

-----------------------------------------------------------------------------
(* The list of mappings.                                                   *)

TrueList(typ, limit, o, kept, r) ==
    LET listed == {e.value : e \in o.entries}
        missed == {v \in kept \ listed : TypeOf[v] = typ}
    IN  /\ \A v \in listed : TypeOf[v] = typ
        /\ IF o.truncated
           THEN /\ Cardinality(listed) = limit
                /\ \A v \in missed, e \in o.entries : e.stamp >= r[v]
           ELSE Cardinality(listed) <= limit /\ missed = {}

Listed(c) == req[c].tool = "resource:mapping" /\ out[c].class = "none" /\ at[c] \in {"record", "append", "answer"}

LEMMA MappingForm ==
    MappingTrue <=>
    \A c \in Calls : Listed(c) => TrueList(req[c].type, LimitOf(req[c]), out[c], steady[c], rows)
BY DEF MappingTrue, Listed, TrueList

(* Rows that are kept, fewer of them perhaps, leave a list as true as it   *)
(* was.                                                                    *)
LEMMA TrueListStays ==
    ASSUME NEW typ, NEW limit, NEW o, NEW kept, NEW r, TrueList(typ, limit, o, kept, r),
           NEW kept2 \in SUBSET kept, NEW r2, \A v \in kept2 : r2[v] = r[v]
    PROVE  TrueList(typ, limit, o, kept2, r2)
BY DEF TrueList

LEMMA LimitTyped == ASSUME TypeOK, NEW c \in Calls PROVE LimitOf(req[c]) \in Nat \ {0}
<1>1. DefaultLimit \in Nat \ {0} /\ MaxLimit \in Nat \ {0}
  BY McpAssumption, Zenon
<1>2. req[c].limit \in Nat
  BY RequestTyped DEF RequestType
<1> QED
  BY <1>1, <1>2 DEF LimitOf

LEMMA OfTypeFinite == ASSUME TypeOK, NEW typ PROVE IsFiniteSet(OfType(typ))
<1> DEFINE W == {w \in Present : TypeOf[w] = typ}
           f == [w \in W |-> [value |-> w, stamp |-> rows[w]]]
<1>1. IsFiniteSet(Values)
  BY McpAssumption, Zenon
<1>2. W \subseteq Values
  BY DEF Present
<1>3. IsFiniteSet(W)
  BY <1>1, <1>2, FS_Subset
<1> HIDE DEF W
<1>4. IsFiniteSet({f[w] : w \in W})
  BY <1>3, ImageBound
<1>5. OfType(typ) = {f[w] : w \in W}
  BY DEF OfType, W
<1> QED
  BY <1>4, <1>5

(* The newest n of a finite set.                                           *)
LEMMA NewestMeans ==
    ASSUME NEW R, IsFiniteSet(R), NEW n \in Nat, NEW S \in Newest(R, n)
    PROVE  /\ S \subseteq R /\ IsFiniteSet(S) /\ Cardinality(S) \in Nat /\ Cardinality(R) \in Nat
           /\ Cardinality(S) = IF Cardinality(R) < n THEN Cardinality(R) ELSE n
           /\ Cardinality(R) <= n => S = R
           /\ \A s \in S, r \in R \ S : r.stamp <= s.stamp
<1>1. /\ S \subseteq R
      /\ Cardinality(S) = IF Cardinality(R) < n THEN Cardinality(R) ELSE n
      /\ \A s \in S, r \in R \ S : r.stamp <= s.stamp
  BY DEF Newest
<1>2. IsFiniteSet(S) /\ (Cardinality(R) = Cardinality(S) => R = S)
  BY <1>1, FS_Subset
<1>3. Cardinality(S) \in Nat /\ Cardinality(R) \in Nat
  BY <1>2, FS_CardinalityType
<1> QED
  BY <1>1, <1>2, <1>3

(* One row more than asked for is enough to know whether there are more.   *)
LEMMA ListingTrue ==
    ASSUME TypeOK, NEW typ, NEW n \in Nat \ {0}, NEW l \in Listing(typ, n), NEW kept \in SUBSET Present
    PROVE  TrueList(typ, n, l, kept, rows)
<1> DEFINE R == OfType(typ)
<1>1. PICK F \in Newest(R, n + 1) : \E S \in Newest(F, n) : l = ListOf(S, Cardinality(F) > n)
  BY DEF Listing
<1>2. PICK S \in Newest(F, n) : l = ListOf(S, Cardinality(F) > n)
  BY <1>1
<1>3. l.entries = S /\ l.truncated = (Cardinality(F) > n)
  BY <1>2 DEF ListOf
<1>4. /\ F \subseteq R /\ IsFiniteSet(F) /\ Cardinality(F) \in Nat
      /\ Cardinality(R) \in Nat
      /\ Cardinality(F) = IF Cardinality(R) < n + 1 THEN Cardinality(R) ELSE n + 1
      /\ Cardinality(R) <= n + 1 => F = R
      /\ \A s \in F, r \in R \ F : r.stamp <= s.stamp
  BY OfTypeFinite, NewestMeans, n + 1 \in Nat
<1>5. /\ S \subseteq F /\ IsFiniteSet(S) /\ Cardinality(S) \in Nat
      /\ Cardinality(S) = IF Cardinality(F) < n THEN Cardinality(F) ELSE n
      /\ Cardinality(F) <= n => S = F
      /\ \A s \in S, r \in F \ S : r.stamp <= s.stamp
  BY <1>4, NewestMeans
<1> DEFINE value == [e \in S |-> e.value]
           listed == {e.value : e \in S}
<1>6. \A e \in R : TypeOf[e.value] = typ /\ e.value \in Present /\ e = [value |-> e.value, stamp |-> rows[e.value]]
  BY DEF OfType
<1>7. Cardinality(listed) = Cardinality(S)
  <2>1. value \in Surjection(S, listed)
    BY DEF Surjection
  <2>2. value \in Injection(S, listed)
    BY <1>4, <1>5, <1>6 DEF Injection, IsInjective
  <2> QED
    BY <1>5, <2>1, <2>2, FS_Surjection
<1>8. ASSUME NEW v \in kept \ listed, TypeOf[v] = typ
      PROVE  Cardinality(F) > n /\ \A e \in S : e.stamp >= rows[v]
  <2> DEFINE r == [value |-> v, stamp |-> rows[v]]
  <2>1. r \in R /\ r.stamp = rows[v] /\ r.value = v
    BY <1>8 DEF OfType
  <2>2. r \notin S
    BY <1>8, <2>1
  <2>3. \A e \in R : e.stamp \in Nat
    <3>1. R \subseteq [value : Values, stamp : Stamps]
      BY OfTypeTyped
    <3>2. Stamps \subseteq Nat
      BY McpAssumption, Zenon
    <3> QED
      BY <3>1, <3>2
  <2>4. \A e \in S : r.stamp <= e.stamp
    BY <1>4, <1>5, <2>1, <2>2
  <2>5. \A e \in S : e.stamp >= rows[v]
    BY <1>4, <1>5, <2>1, <2>3, <2>4
  <2> QED
    BY <1>4, <1>5, <2>1, <2>2, <2>5
<1>9. \A v \in listed : TypeOf[v] = typ
  BY <1>4, <1>5, <1>6
<1>10. Cardinality(listed) <= n /\ (Cardinality(F) > n => Cardinality(listed) = n)
  BY <1>4, <1>5, <1>7
<1> HIDE DEF listed
<1>11. listed = {e.value : e \in l.entries}
  BY <1>3 DEF listed
<1> DEFINE missed == {v \in kept \ listed : TypeOf[v] = typ}
<1>12. \A v \in missed : Cardinality(F) > n /\ \A e \in S : e.stamp >= rows[v]
  BY <1>8
<1>13. CASE Cardinality(F) > n
  <2>1. l.truncated
    BY <1>3, <1>13
  <2> QED
    BY <2>1, <1>3, <1>9, <1>10, <1>11, <1>12, <1>13 DEF TrueList
<1>14. CASE ~ (Cardinality(F) > n)
  <2>1. ~ l.truncated
    BY <1>3, <1>14
  <2>2. missed = {}
    BY <1>12, <1>14
  <2> QED
    BY <2>1, <2>2, <1>9, <1>10, <1>11 DEF TrueList
<1> QED
  BY <1>13, <1>14

LEMMA MappingInit == Init => MappingTrue
BY DEF Init, MappingTrue

(* One call at a time: what leaves it listed leaves its list true.         *)
LEMMA ListStays ==
    ASSUME TypeOK, MappingTrue, NEW c \in Calls, Listed(c),
           req'[c] = req[c], out'[c] = out[c],
           steady'[c] \subseteq steady[c], \A v \in steady'[c] : rows'[v] = rows[v]
    PROVE  TrueList(req[c].type, LimitOf(req[c]), out[c], steady[c], rows)'
<1>1. TrueList(req[c].type, LimitOf(req[c]), out[c], steady[c], rows)
  BY MappingForm
<1>2. TrueList(req[c].type, LimitOf(req[c]), out[c], steady'[c], rows')
  BY <1>1, TrueListStays
<1> QED
  BY <1>2

LEMMA MappingStep == TypeOK /\ MappingTrue /\ [Next]_vars => MappingTrue'
<1> SUFFICES ASSUME TypeOK, MappingTrue, [Next]_vars, NEW c \in Calls, Listed(c)'
             PROVE  TrueList(req[c].type, LimitOf(req[c]), out[c], steady[c], rows)'
  BY DEF MappingTrue, Listed, TrueList
<1> DEFINE Goal == TrueList(req[c].type, LimitOf(req[c]), out[c], steady[c], rows)'
<1> USE DEF calls, audit, store
<1>0. /\ at \in [Calls -> InHand \union {"idle", "done", "dead"}]
      /\ out \in [Calls -> Results]
      /\ DOMAIN req = Calls
      /\ steady \in [Calls -> SUBSET Present]
  BY DEF TypeOK
<1>1. CASE BuildRuntime \/ OpenAudit \/ HangUp \/ CloseAudit \/ UNCHANGED vars
  BY <1>1, ListStays DEF BuildRuntime, OpenAudit, HangUp, CloseAudit, vars, Listed
<1>2. CASE Exit
  BY <1>0, <1>2 DEF Exit, Listed, InHand
<1>3. ASSUME NEW d \in Calls, Call(d) PROVE Goal
  BY <1>0, <1>3, ListStays DEF Call, Listed
<1>4. ASSUME NEW d \in Calls, WorkDone(d) PROVE Goal
  <2>1. CASE d = c
    <3>1. req' = req /\ steady' = steady
      BY <1>4 DEF WorkDone, Works
    <3>2. out'[c] \in Listing(req[c].type, LimitOf(req[c])) /\ rows' = rows
      BY <1>4, <2>1, <3>1 DEF WorkDone, Listed
    <3>3. TrueList(req[c].type, LimitOf(req[c]), out'[c], steady[c], rows)
      BY <1>0, <3>2, ListingTrue, LimitTyped
    <3>4. TrueList(req'[c].type, LimitOf(req'[c]), out'[c], steady'[c], rows')
      BY <3>1, <3>2, <3>3
    <3> QED
      BY <3>4
  <2>2. CASE d # c
    <3>1. Listed(c) /\ req'[c] = req[c] /\ out'[c] = out[c] /\ steady'[c] = steady[c]
      BY <1>0, <1>4, <2>2 DEF WorkDone, Works, Found, Listed
    <3>2. \A v \in steady[c] : rows'[v] = rows[v]
      BY <1>0, <1>4 DEF WorkDone, RowsGrow, Present
    <3> QED
      BY <3>1, <3>2, ListStays
  <2> QED
    BY <2>1, <2>2
<1>5. ASSUME NEW d \in Calls, Lock(d) PROVE Goal
  BY <1>0, <1>5, ListStays DEF Lock, Listed
<1>6. ASSUME NEW d \in Calls, AppendRecord(d) PROVE Goal
  BY <1>0, <1>6, ListStays DEF AppendRecord, Listed
<1>7. ASSUME NEW d \in Calls, Answer(d) PROVE Goal
  BY <1>0, <1>7, ListStays DEF Answer, Listed
<1>8. ASSUME NEW v \in Values, Stored(v) PROVE Goal
  <2>1. \A w \in steady[c] : rows'[w] = rows[w]
    BY <1>0, <1>8 DEF Stored, Present, TypeOK
  <2> QED
    BY <1>8, <2>1, ListStays DEF Stored, Listed
<1>9. ASSUME NEW cut \in Stamps, Prune(cut) PROVE Goal
  <2>1. steady'[c] \subseteq steady[c] /\ \A w \in steady'[c] : rows'[w] = rows[w]
    BY <1>0, <1>9 DEF Prune, Present
  <2> QED
    BY <1>9, <2>1, ListStays DEF Prune, Listed
<1> QED
  BY <1>1, <1>2, <1>3, <1>4, <1>5, <1>6, <1>7, <1>8, <1>9, Steps

-----------------------------------------------------------------------------
LEMMA McpInvInit == Init => McpInv
BY TypeInit, FileInit, RecordInit, CountInit, MappingInit DEF McpInv

LEMMA McpInvStep == McpInv /\ [Next]_vars => McpInv'
BY TypeStep, FileStep, RecordStep, CountStep, MappingStep DEF McpInv

LEMMA McpInvariant == Spec => []McpInv
<1> QED
  BY McpInvInit, McpInvStep, PTL DEF Spec

(* A call has one record at most, which says what its client is told.      *)
THEOREM McpRecordsTrue == Spec => []RecordsTrue
<1>1. McpInv => RecordsTrue
  BY RecordsAreTrue DEF McpInv
<1> QED
  BY <1>1, McpInvariant, PTL

(* An append that goes wrong costs the log two records at most.            *)
THEOREM McpLossBounded == Spec => []LossBounded
<1>1. McpInv => LossBounded
  BY LossIsBounded DEF McpInv
<1> QED
  BY <1>1, McpInvariant, PTL

(* The three answers together: the record, the loss and the list.          *)
THEOREM McpAnswersTrue == Spec => []AnswersTrue
<1>1. McpInv => AnswersTrue
  BY RecordsAreTrue, LossIsBounded DEF McpInv, AnswersTrue
<1> QED
  BY <1>1, McpInvariant, PTL
=============================================================================
