--------------------------- MODULE ExecCall_proofs ---------------------------
(* Proofs about ExecCall, for any number of calls, requests, words.  What  *)
(* a policy denies stays unexpanded: the proofs hold for any deny-list.    *)
EXTENDS ExecCall, FiniteSetTheorems, WellFoundedInduction, TLAPS

(* A call that is past the gates and the policy.                           *)
Approved(c) ==
    /\ GateClass(req[c]) = ""
    /\ out[c] = Normalize(Restore(Argv(c)))
    /\ Decision(c, out[c]).allowed
    /\ match[c] = Decision(c, out[c]).match

(* Where a call is tells what it has done.                                 *)
Progress(c) ==
    /\ at[c] \in {"called", "resolve", "refuse", "start"} => child[c] = "none"
    /\ at[c] = "run" => child[c] # "over"
    /\ at[c] = "final" => child[c] # "running"
    /\ at[c] # "done" <=> answer[c] = "?"
    /\ answer[c] \notin {"?", "", "EXEC_INTERNAL"} => child[c] = "none"
    /\ answer[c] \in {"", "EXEC_INTERNAL"} => child[c] # "running"
    /\ at[c] = "called" => out[c] = <<>> /\ ~ failed[c]

(* The words done so far are those of argv with their values.              *)
Halfway(c) ==
    at[c] = "resolve" =>
        /\ GateClass(req[c]) = ""
        /\ Len(out[c]) <= Len(Argv(c))
        /\ ~ failed[c] => \A i \in 1..Len(out[c]) : out[c][i] = Restore(Argv(c))[i]

Decided(c) ==
    /\ at[c] \in {"start", "run", "final"} => Approved(c)
    /\ child[c] # "none" => Approved(c) /\ ran[c] = out[c]

Traced(c) ==
    /\ at[c] \in {"run", "final"} \/ child[c] # "none" => \E i \in DOMAIN log : StartRecord(c, i)
    /\ answer[c] = "" => \E i, j \in DOMAIN log : i < j /\ StartRecord(c, i) /\ FinalRecord(c, j)

CallInv(c) == Progress(c) /\ Halfway(c) /\ Decided(c) /\ Traced(c)

IInv == TypeOK /\ \A c \in Calls : CallInv(c)

-----------------------------------------------------------------------------
(* The operators the calls are made of.                                    *)

(* A nonempty set of numbers has a least one.                              *)
LEMMA Least ==
    ASSUME NEW T, T \subseteq Nat, T # {}
    PROVE  \E x \in T : \A y \in T : x <= y
<1> DEFINE R == {ss \in Nat \X Nat : ss[1] < ss[2]}
<1>1. IsWellFoundedOn(R, Nat)
  BY NatLessThanWellFounded DEF OpToRel
<1>2. \E x \in T : \A y \in T : ~ (<<y, x>> \in R)
  <2> HIDE DEF R
  <2> QED BY <1>1, WFMin
<1>3. \A x, y \in T : ~ (<<y, x>> \in R) => x <= y
  OBVIOUS
<1>4. QED
  BY <1>2, <1>3

(* What is used of an entry of an allow-list is its name.                  *)
Named(S) == \A e \in S : e.name \in Name
NamedList(list) == \E S : list \in Seq(S) /\ Named(S)

LEMMA ListNamed ==
    ASSUME NEW S, NEW list \in Seq(S), Named(S)
    PROVE  NamedList(list)
BY DEF NamedList

LEMMA ConcatNamed ==
    ASSUME NEW s, NEW t, NamedList(s), NamedList(t)
    PROVE  NamedList(s \o t)
<1>1. PICK S : s \in Seq(S) /\ Named(S)
  BY DEF NamedList
<1>2. PICK T : t \in Seq(T) /\ Named(T)
  BY DEF NamedList
<1>3. Named(S \union T)
  BY <1>1, <1>2 DEF Named
<1>4. s \in Seq(S \union T) /\ t \in Seq(S \union T)
  BY <1>1, <1>2
<1>5. s \o t \in Seq(S \union T)
  BY <1>4
<1>6. QED
  BY <1>3, <1>5 DEF NamedList

LEMMA ElementsOf ==
    ASSUME NEW S, NEW s \in Seq(S)
    PROVE  s \in Seq({s[i] : i \in DOMAIN s})
OBVIOUS

LEMMA ReadOnlyNamed == NamedList(BaselineReadOnly)
<1> DEFINE L == BaselineReadOnly
           S == {L[i] : i \in DOMAIN L}
<1>1. L \in Seq({L[1], L[2], L[3], L[4], L[5], L[6], L[7], L[8]})
  BY DEF BaselineReadOnly
<1>2. Named(S)
  BY CallAssumption DEF BaselineNames, NamesOf, Named
<1>3. L \in Seq(S)
  <2> HIDE DEF L
  <2> QED BY <1>1, ElementsOf
<1>4. QED
  BY <1>2, <1>3, ListNamed

LEMMA InvestigateNamed == NamedList(BaselineInvestigate)
<1> DEFINE L == InvestigateEntries
           S == {L[i] : i \in DOMAIN L}
<1>1. L \in Seq({L[1], L[2], L[3], L[4], L[5], L[6], L[7], L[8], L[9]})
  BY DEF InvestigateEntries
<1>2. Named(S)
  BY CallAssumption DEF BaselineNames, NamesOf, Named
<1>3. L \in Seq(S)
  <2> HIDE DEF L
  <2> QED BY <1>1, ElementsOf
<1>4. NamedList(InvestigateEntries)
  BY <1>2, <1>3, ListNamed
<1>5. QED
  BY <1>4, ReadOnlyNamed, ConcatNamed DEF BaselineInvestigate

LEMMA AllowListNamed == ASSUME NEW cfg \in ConfigType PROVE NamedList(AllowList(cfg))
<1>1. NamedList(<<>>)
  <2>1. <<>> \in Seq({}) /\ Named({})
    BY DEF Named
  <2>2. QED
    BY <2>1, ListNamed
<1>3. NamedList(cfg.allow)
  <2>1. cfg.allow \in Seq(EntryType) /\ Named(EntryType)
    BY DEF ConfigType, EntryType, Named
  <2>2. QED
    BY <2>1, ListNamed
<1>4. QED
  BY <1>1, <1>3, ReadOnlyNamed, InvestigateNamed, ConcatNamed DEF AllowList, BaselineAllow

(* A decision has a class of the log and the name of an entry; it permits  *)
(* without an entry only under an open scope.                              *)
LEMMA DenyLayer == \A argv, cfg : DenyMatch(argv, cfg) \in Layers \union {""}
BY DEF DenyMatch, Layers

LEMMA FirstHitNamed ==
    ASSUME NEW argv, NEW cfg \in ConfigType, Hits(argv, cfg) # {}
    PROVE  FirstHit(argv, cfg).match \in Name
<1> DEFINE L == AllowList(cfg)
           first == CHOOSE i \in Hits(argv, cfg) : \A j \in Hits(argv, cfg) : i <= j
<1>1. PICK S : L \in Seq(S) /\ Named(S)
  BY AllowListNamed DEF NamedList
<1>2. Hits(argv, cfg) \subseteq Nat /\ Hits(argv, cfg) \subseteq DOMAIN L
  BY <1>1 DEF Hits
<1>3. first \in DOMAIN L
  BY <1>2, Least
<1>4. L[first].name \in Name
  BY <1>1, <1>3 DEF Named
<1>5. QED
  BY <1>4, CallAssumption DEF FirstHit, Permitted

LEMMA RefusedFields ==
    \A cls : ~ Refused(cls).allowed /\ Refused(cls).allowed \in BOOLEAN /\ Refused(cls).match \in Name
             /\ Refused(cls).class = cls
BY CallAssumption DEF Refused

LEMMA PermittedFields ==
    \A name : Permitted(name).allowed /\ Permitted(name).allowed \in BOOLEAN /\ Permitted(name).match = name
              /\ Permitted(name).class = ""
BY DEF Permitted

LEMMA PolicyDecides ==
    ASSUME NEW argv, NEW cfg \in ConfigType
    PROVE  LET decision == EvaluatePolicy(argv, cfg)
           IN  /\ decision.allowed \in BOOLEAN
               /\ decision.match \in Name
               /\ decision.class \in Layers \union {"", "not_in_allow_list"}
               /\ decision.allowed => DenyMatch(argv, cfg) = ""
               /\ decision.allowed /\ decision.match = "" => ScopeOpen(cfg)
<1>1. CASE DenyMatch(argv, cfg) # ""
  <2>1. EvaluatePolicy(argv, cfg) = Refused(DenyMatch(argv, cfg))
    BY <1>1 DEF EvaluatePolicy
  <2>2. DenyMatch(argv, cfg) \in Layers
    BY <1>1, DenyLayer
  <2>3. ~ EvaluatePolicy(argv, cfg).allowed /\ EvaluatePolicy(argv, cfg).allowed \in BOOLEAN
    BY <2>1, RefusedFields
  <2>4. EvaluatePolicy(argv, cfg).match \in Name /\ EvaluatePolicy(argv, cfg).class \in Layers
    BY <2>1, <2>2, RefusedFields
  <2>5. QED
    BY <2>3, <2>4
<1>2. CASE DenyMatch(argv, cfg) = "" /\ ScopeOpen(cfg)
  <2>1. EvaluatePolicy(argv, cfg) = Permitted("")
    BY <1>2 DEF EvaluatePolicy, ScopeOpen
  <2>2. QED
    BY <1>2, <2>1, CallAssumption, PermittedFields
<1>3. CASE DenyMatch(argv, cfg) = "" /\ ~ ScopeOpen(cfg) /\ Hits(argv, cfg) = {}
  <2>1. EvaluatePolicy(argv, cfg) = Refused("not_in_allow_list")
    BY <1>3 DEF EvaluatePolicy, ScopeOpen
  <2>2. QED
    BY <2>1, RefusedFields
<1>4. CASE DenyMatch(argv, cfg) = "" /\ ~ ScopeOpen(cfg) /\ Hits(argv, cfg) # {}
  <2>1. EvaluatePolicy(argv, cfg) = FirstHit(argv, cfg)
    BY <1>4 DEF EvaluatePolicy, ScopeOpen
  <2>2. FirstHit(argv, cfg).allowed /\ FirstHit(argv, cfg).class = "" /\ FirstHit(argv, cfg).match # ""
    BY DEF FirstHit, Permitted
  <2>3. FirstHit(argv, cfg).allowed \in BOOLEAN
    BY DEF FirstHit, Permitted
  <2>4. QED
    BY <1>4, <2>1, <2>2, <2>3, FirstHitNamed
<1>5. QED
  BY <1>1, <1>2, <1>3, <1>4

LEMMA RequestTyped ==
    ASSUME NEW c \in Calls, req \in [Calls -> Requests]
    PROVE  req[c] \in RequestType /\ req[c].cfg \in ConfigType /\ Argv(c) \in Seq(Word)
<1>1. req[c] \in RequestType
  BY CallAssumption
<1>2. req[c].cfg \in ConfigType /\ req[c].argv \in Seq(Word)
  BY <1>1 DEF RequestType
<1>3. <<"bash", "-c">> \in Seq(Word)
  <2>1. "bash" \in Word /\ "-c" \in Word
    BY CallAssumption
  <2>2. QED
    BY <2>1
<1>4. QED
  BY <1>1, <1>2, <1>3 DEF Argv, Command

LEMMA NormalizeTyped ==
    ASSUME NEW argv \in Seq(Word)
    PROVE  Normalize(argv) \in Seq(Word)
<1> DEFINE flag(i) == argv[i] \in {"-n", "--namespace"}
           value[i \in 1..Len(argv)] == IF i <= 2 THEN FALSE ELSE flag(i - 1) /\ ~ value[i - 1]
           result == [i \in 1..Len(argv) |->
                 IF value[i] \/ (i > 1 /\ "--namespace=" \in Marks[argv[i]]) THEN Bare[argv[i]]
                 ELSE argv[i]]
<1>1. result \in Seq(Word)
  <2> HIDE DEF value
  <2>1. \A i \in 1..Len(argv) : argv[i] \in Word /\ Bare[argv[i]] \in Word
    <3>1. \A i \in 1..Len(argv) : argv[i] \in Word
      OBVIOUS
    <3>2. Bare \in [Word -> Word]
      BY CallAssumption
    <3>3. QED
      BY <3>1, <3>2
  <2>2. result \in [1..Len(argv) -> Word]
    BY <2>1
  <2>3. QED
    BY <2>2
<1>2. Normalize(argv) = IF Len(argv) < 3 \/ argv[1] # "kubectl" THEN argv ELSE result
  BY DEF Normalize
<1>3. QED
  BY <1>1, <1>2

LEMMA DecisionTyped ==
    ASSUME NEW c \in Calls, req \in [Calls -> Requests], NEW argv
    PROVE  /\ Decision(c, argv).allowed \in BOOLEAN
           /\ Decision(c, argv).match \in Name
           /\ Decision(c, argv).class \in Layers \union {"", "not_in_allow_list"}
<1>1. CASE req[c].source = "hook"
  BY <1>1, CallAssumption, PermittedFields DEF Decision, Judgement
<1>2. CASE req[c].source # "hook"
  BY <1>2, RequestTyped, PolicyDecides DEF Decision, Judgement
<1>3. QED
  BY <1>1, <1>2

-----------------------------------------------------------------------------
(* Every step keeps the types.                                             *)

LogRecord ==
    [call : Calls, class : Classes \union {"starting", "audit_truncate_oversize"}, match : Name, whole : BOOLEAN]

LEMMA Appended ==
    ASSUME NEW S, NEW s \in Seq(S), NEW e \in S
    PROVE  Append(s, e) \in Seq(S) /\ Len(Append(s, e)) = Len(s) + 1
           /\ \A i \in DOMAIN s : i \in DOMAIN Append(s, e) /\ Append(s, e)[i] = s[i]
OBVIOUS

LEMMA RecordTyped ==
    ASSUME TypeOK, NEW c \in Calls, NEW cls \in Classes \union {"starting"}, Recorded(c, cls) \/ NotRecorded(c, cls)
    PROVE  log' \in Seq(LogRecord)
<1>1. match[c] \in Name /\ "" \in Name /\ log \in Seq(LogRecord)
  BY CallAssumption DEF TypeOK, LogRecord
<1>2. EncodeRecord(c, cls) \in LogRecord
  BY <1>1 DEF EncodeRecord, LogRecord
<1>3. [EncodeRecord(c, cls) EXCEPT !.whole = FALSE] \in LogRecord
  BY <1>2 DEF LogRecord
<1>4. \A rec \in LogRecord : Append(log, rec) \in Seq(LogRecord)
  BY <1>1, Appended
<1>5. \/ log' = log
      \/ log' = Append(log, EncodeRecord(c, cls))
      \/ log' = Append(log, [EncodeRecord(c, cls) EXCEPT !.whole = FALSE])
  BY DEF Recorded, NotRecorded
<1>6. QED
  BY <1>1, <1>2, <1>3, <1>4, <1>5

LEMMA PendingTyped ==
    ASSUME TypeOK, NEW c \in Calls, Resolving(c)
    PROVE  Pending(c) \in Word
<1>1. Argv(c) \in Seq(Word)
  BY RequestTyped DEF TypeOK
<1>2. out[c] \in Seq(Word) /\ Len(out[c]) < Len(Argv(c))
  BY DEF Resolving, TypeOK
<1>3. Len(out[c]) + 1 \in 1..Len(Argv(c))
  BY <1>1, <1>2
<1>4. QED
  BY <1>1, <1>3 DEF Pending

LEMMA EmptyTyped == ASSUME NEW S PROVE <<>> \in Seq(S)
OBVIOUS

LEMMA TypesInit == Init => TypeOK
<1> SUFFICES ASSUME Init PROVE TypeOK
  OBVIOUS
<1>1. "" \in Classes /\ <<>> \in Seq(Word) /\ {} \in SUBSET Environ
  BY DEF Classes
<1>2. "" \in Name
  BY CallAssumption
<1>3. log \in Seq(LogRecord)
  BY EmptyTyped DEF Init
<1>4. QED
  BY <1>1, <1>2, <1>3 DEF Init, TypeOK, LogRecord

LEMMA TypesNext == TypeOK /\ [Next]_vars => TypeOK'
<1> SUFFICES ASSUME TypeOK, [Next]_vars PROVE TypeOK'
  OBVIOUS
<1>1. ASSUME NEW c \in Calls, InvalidTimeout(c) PROVE TypeOK'
  BY <1>1 DEF InvalidTimeout, Answers, Moves, diskVars, TypeOK, Errors
<1>2. ASSUME NEW c \in Calls, PreflightFails(c) PROVE TypeOK'
  BY <1>2 DEF PreflightFails, Orchestrates, Answers, Moves, diskVars, TypeOK, Errors
<1>3. ASSUME NEW c \in Calls, Gate(c) PROVE TypeOK'
  <2>1. GateClass(req[c]) \in Classes
    BY DEF GateClass, Classes
  <2>2. QED
    BY <1>3, <2>1 DEF Gate, Orchestrates, Moves, diskVars, TypeOK
<1>4. ASSUME NEW c \in Calls, Found(c) PROVE TypeOK'
  <2>1. Pending(c) \in Word
    BY <1>4, PendingTyped DEF Found
  <2>2. Pending(c) \in Token => Value[Pending(c)] \in Word
    BY CallAssumption
  <2>3. QED
    BY <1>4, <2>1, <2>2 DEF Found, Resolving, diskVars, TypeOK
<1>5. ASSUME NEW c \in Calls, NotFound(c) PROVE TypeOK'
  <2>1. Pending(c) \in Word
    BY <1>5, PendingTyped DEF NotFound
  <2>2. QED
    BY <1>5, <2>1 DEF NotFound, Resolving, diskVars, TypeOK
<1>6. ASSUME NEW c \in Calls, ResolveFails(c) PROVE TypeOK'
  BY <1>6 DEF ResolveFails, Resolved, Moves, diskVars, TypeOK, Classes
<1>7. ASSUME NEW c \in Calls, Decide(c) PROVE TypeOK'
  <2> DEFINE argv == Normalize(out[c])
  <2>1. argv \in Seq(Word)
    BY NormalizeTyped DEF TypeOK
  <2>2. Decision(c, argv).match \in Name /\ Decision(c, argv).class \in Classes
    BY DecisionTyped DEF TypeOK, Classes
  <2>3. BuildEnv(Scope(c), req[c].cfg, Environ) \in SUBSET Environ
    BY DEF BuildEnv
  <2> HIDE DEF argv
  <2>4. /\ out' = [out EXCEPT ![c] = argv]
        /\ class' = [class EXCEPT ![c] = Decision(c, argv).class]
        /\ match' = [match EXCEPT ![c] = Decision(c, argv).match]
        /\ env' = [env EXCEPT ![c] = BuildEnv(Scope(c), req[c].cfg, Environ)]
        /\ at[c] = "resolve" /\ \E to \in {"start", "refuse"} : at' = [at EXCEPT ![c] = to]
        /\ UNCHANGED <<req, failed, ran, child, answer, diskVars>>
    BY <1>7 DEF Decide, Resolved, Moves, argv
  <2>5. QED
    BY <2>1, <2>2, <2>3, <2>4 DEF diskVars, TypeOK
<1>8. ASSUME NEW c \in Calls, Refuse(c) PROVE TypeOK'
  <2>1. log' \in Seq(LogRecord)
    BY <1>8, RecordTyped DEF Refuse, TypeOK
  <2>2. ErrorOf(class[c]) \in Errors
    BY DEF ErrorOf, Errors
  <2>3. QED
    BY <1>8, <2>1, <2>2 DEF Refuse, Answers, Moves, TypeOK, LogRecord, Errors
<1>9. ASSUME NEW c \in Calls, RecordStart(c) PROVE TypeOK'
  <2>1. log' \in Seq(LogRecord)
    BY <1>9, RecordTyped DEF RecordStart, TypeOK
  <2>2. QED
    BY <1>9, <2>1 DEF RecordStart, Answers, Moves, TypeOK, LogRecord, Errors
<1>10. ASSUME NEW c \in Calls, StartChild(c) PROVE TypeOK'
  BY <1>10 DEF StartChild, diskVars, TypeOK
<1>11. ASSUME NEW c \in Calls, StartFails(c) PROVE TypeOK'
  BY <1>11 DEF StartFails, Moves, diskVars, TypeOK, Classes
<1>12. ASSUME NEW c \in Calls, RunEnds(c) PROVE TypeOK'
  BY <1>12 DEF RunEnds, Moves, diskVars, TypeOK, Classes
<1>13. ASSUME NEW c \in Calls, RecordFinal(c) PROVE TypeOK'
  <2>1. log' \in Seq(LogRecord)
    BY <1>13, RecordTyped DEF RecordFinal, TypeOK
  <2>2. QED
    BY <1>13, <2>1 DEF RecordFinal, Answers, Moves, TypeOK, LogRecord, Errors
<1>14. ASSUME NEW c \in Calls, Die(c) PROVE TypeOK'
  BY <1>14 DEF Die, WithCall, diskVars, TypeOK
<1>15. CASE DiskChanges
  BY <1>15 DEF DiskChanges, callVars, TypeOK
<1>16. CASE UNCHANGED vars
  BY <1>16 DEF vars, callVars, diskVars, TypeOK
<1>17. QED
  BY <1>1, <1>2, <1>3, <1>4, <1>5, <1>6, <1>7, <1>8, <1>9, <1>10, <1>11, <1>12, <1>13, <1>14, <1>15, <1>16
     DEF Next, CallStep

-----------------------------------------------------------------------------
(* A step of one call leaves the others as they are; exec.log only grows.  *)

LogGrows == \A i \in DOMAIN log : i \in DOMAIN log' /\ log'[i] = log[i]

Untouched(c) ==
    /\ req' = req
    /\ out'[c] = out[c] /\ failed'[c] = failed[c] /\ class'[c] = class[c] /\ match'[c] = match[c]
    /\ ran'[c] = ran[c] /\ child'[c] = child[c] /\ answer'[c] = answer[c]

LEMMA SameRequest ==
    ASSUME NEW c \in Calls, req' = req
    PROVE  /\ Argv(c)' = Argv(c) /\ GateClass(req[c])' = GateClass(req[c])
           /\ \A argv : Decision(c, argv)' = Decision(c, argv)
BY DEF Argv, Decision

LEMMA RecordsStay ==
    ASSUME NEW c \in Calls, LogGrows, req' = req, match'[c] = match[c]
    PROVE  /\ (\E i \in DOMAIN log : StartRecord(c, i)) => (\E i \in DOMAIN log : StartRecord(c, i))'
           /\ class'[c] = class[c] =>
               (  (\E i, j \in DOMAIN log : i < j /\ StartRecord(c, i) /\ FinalRecord(c, j))
               => (\E i, j \in DOMAIN log : i < j /\ StartRecord(c, i) /\ FinalRecord(c, j))')
<1>1. \A i \in DOMAIN log : StartRecord(c, i) => i \in DOMAIN log' /\ StartRecord(c, i)'
  BY DEF StartRecord, LogGrows
<1>2. class'[c] = class[c] => \A i \in DOMAIN log : FinalRecord(c, i) => i \in DOMAIN log' /\ FinalRecord(c, i)'
  BY DEF FinalRecord, LogGrows
<1>3. QED
  BY <1>1, <1>2

LEMMA Bystander ==
    ASSUME NEW c \in Calls, CallInv(c), LogGrows, Untouched(c),
           at'[c] = at[c] \/ (at[c] # "done" /\ at'[c] = "dead")
    PROVE  CallInv(c)'
<1>1. Progress(c)'
  BY DEF CallInv, Progress, Untouched
<1>2. Halfway(c)'
  BY SameRequest DEF CallInv, Halfway, Untouched
<1>3. Decided(c)'
  <2>1. Approved(c) => Approved(c)'
    BY SameRequest DEF Approved, Untouched
  <2>2. QED
    BY <2>1 DEF CallInv, Decided, Untouched
<1>4. Traced(c)'
  BY RecordsStay DEF CallInv, Traced, Untouched
<1>5. QED
  BY <1>1, <1>2, <1>3, <1>4 DEF CallInv

LEMMA LogStep ==
    ASSUME TypeOK, NEW c \in Calls, NEW cls \in Classes \union {"starting"}, Recorded(c, cls) \/ NotRecorded(c, cls)
    PROVE  /\ LogGrows
           /\ Recorded(c, cls) =>
                \E n \in DOMAIN log' : log'[n] = EncodeRecord(c, cls) /\ \A i \in DOMAIN log : i < n
<1>1. log \in Seq(LogRecord)
  BY DEF TypeOK, LogRecord
<1>2. LogGrows
  BY <1>1 DEF LogGrows, Recorded, NotRecorded
<1>3. ASSUME Recorded(c, cls)
      PROVE  log'[Len(log) + 1] = EncodeRecord(c, cls) /\ Len(log) + 1 \in DOMAIN log'
  BY <1>1, <1>3 DEF Recorded
<1>4. \A i \in DOMAIN log : i < Len(log) + 1
  BY <1>1
<1>5. QED
  BY <1>2, <1>3, <1>4

-----------------------------------------------------------------------------
(* A step of a call keeps what is known of that call.                      *)

LEMMA EarlyEndKeeps ==
    ASSUME TypeOK, NEW c \in Calls, CallInv(c), InvalidTimeout(c) \/ PreflightFails(c)
    PROVE  CallInv(c)'
<1>1. at[c] = "called" /\ at'[c] = "done" /\ answer'[c] \in {"INVALID_TIMEOUT", "EXEC_AUDIT_UNWRITABLE"}
  BY DEF InvalidTimeout, PreflightFails, Orchestrates, Answers, Moves, TypeOK
<1>2. child' = child /\ child[c] = "none"
  BY <1>1 DEF InvalidTimeout, PreflightFails, CallInv, Progress
<1>3. QED
  BY <1>1, <1>2 DEF CallInv, Progress, Halfway, Decided, Traced

LEMMA GateKeeps ==
    ASSUME TypeOK, NEW c \in Calls, CallInv(c), Gate(c)
    PROVE  CallInv(c)'
<1>1. /\ at[c] = "called" /\ at'[c] = IF GateClass(req[c]) = "" THEN "resolve" ELSE "refuse"
      /\ child' = child /\ answer' = answer /\ out' = out /\ failed' = failed /\ req' = req
  BY DEF Gate, Orchestrates, Moves, TypeOK
<1>2. child[c] = "none" /\ answer[c] = "?" /\ out[c] = <<>>
  BY <1>1 DEF CallInv, Progress
<1>3. Progress(c)' /\ Decided(c)' /\ Traced(c)'
  BY <1>1, <1>2 DEF Progress, Decided, Traced
<1>4. Argv(c)' = Argv(c) /\ Argv(c) \in Seq(Word)
  BY <1>1, SameRequest, RequestTyped DEF TypeOK
<1>5. Halfway(c)'
  <2>1. out'[c] = <<>>
    BY <1>1, <1>2
  <2>2. Len(<<>>) = 0
    OBVIOUS
  <2>3. Len(out'[c]) = 0
    BY <2>1, <2>2
  <2>4. Len(Argv(c)') \in Nat
    BY <1>4
  <2>5. at'[c] = "resolve" => GateClass(req[c])' = ""
    BY <1>1
  <2> HIDE <2>1
  <2>6. Len(out'[c]) <= Len(Argv(c)') /\ 1..Len(out'[c]) = {}
    BY <2>3, <2>4
  <2>7. QED
    BY <2>5, <2>6 DEF Halfway
<1>6. QED
  BY <1>3, <1>5 DEF CallInv

LEMMA WordKeeps ==
    ASSUME TypeOK, NEW c \in Calls, CallInv(c), Found(c) \/ NotFound(c)
    PROVE  CallInv(c)'
<1>1. /\ at[c] = "resolve" /\ at' = at /\ child' = child /\ answer' = answer /\ req' = req
      /\ Len(out[c]) < Len(Argv(c))
  BY DEF Found, NotFound, Resolving
<1>2. child[c] = "none" /\ answer[c] = "?"
  BY <1>1 DEF CallInv, Progress
<1>3. Progress(c)' /\ Decided(c)' /\ Traced(c)'
  BY <1>1, <1>2 DEF Progress, Decided, Traced, CallInv
<1>4. Argv(c)' = Argv(c) /\ Argv(c) \in Seq(Word) /\ out[c] \in Seq(Word) /\ failed[c] \in BOOLEAN
  BY <1>1, SameRequest, RequestTyped DEF TypeOK
<1>5. \E w : /\ out'[c] = Append(out[c], w)
             /\ ~ failed'[c] => ~ failed[c] /\ w = Restore(Argv(c))[Len(out[c]) + 1]
  <2>1. Restore(Argv(c))[Len(out[c]) + 1] = IF Pending(c) \in Token THEN Value[Pending(c)] ELSE Pending(c)
    BY <1>1, <1>4 DEF Restore, Pending
  <2>2. CASE Found(c)
    <3>1. out'[c] = Append(out[c], IF Pending(c) \in Token THEN Value[Pending(c)] ELSE Pending(c)) /\ failed' = failed
      BY <2>2 DEF Found, TypeOK
    <3>2. QED
      BY <2>1, <3>1
  <2>3. CASE NotFound(c)
    BY <2>3 DEF NotFound, TypeOK
  <2>4. QED
    BY <2>2, <2>3
<1>6. Halfway(c)'
  <2>1. PICK w : /\ out'[c] = Append(out[c], w)
                 /\ ~ failed'[c] => ~ failed[c] /\ w = Restore(Argv(c))[Len(out[c]) + 1]
    BY <1>5
  <2>2. Len(out'[c]) = Len(out[c]) + 1 /\ out'[c][Len(out[c]) + 1] = w
    BY <1>4, <2>1
  <2>3. \A i \in 1..Len(out[c]) : out'[c][i] = out[c][i]
    BY <1>4, <2>1
  <2>4. GateClass(req[c]) = "" /\ (~ failed[c] => \A i \in 1..Len(out[c]) : out[c][i] = Restore(Argv(c))[i])
    BY <1>1 DEF CallInv, Halfway
  <2>5. \A i \in 1..Len(out'[c]) : i \in 1..Len(out[c]) \/ i = Len(out[c]) + 1
    BY <1>4, <2>2
  <2>6. ASSUME ~ failed'[c], NEW i \in 1..Len(out'[c])
        PROVE  out'[c][i] = Restore(Argv(c))[i]
    <3>1. CASE i \in 1..Len(out[c])
      BY <2>1, <2>3, <2>4, <2>6, <3>1
    <3>2. CASE i = Len(out[c]) + 1
      BY <2>1, <2>2, <2>6, <3>2
    <3>3. QED
      BY <2>5, <3>1, <3>2
  <2>7. Len(out'[c]) <= Len(Argv(c)')
    BY <1>1, <1>4, <2>2
  <2>8. GateClass(req[c])' = "" /\ Restore(Argv(c))' = Restore(Argv(c))
    BY <1>1, <1>4, <2>4
  <2>9. QED
    BY <2>6, <2>7, <2>8 DEF Halfway
<1>7. QED
  BY <1>3, <1>6 DEF CallInv

LEMMA DecideKeeps ==
    ASSUME TypeOK, NEW c \in Calls, CallInv(c), ResolveFails(c) \/ Decide(c)
    PROVE  CallInv(c)'
<1> DEFINE argv == Normalize(out[c])
<1>1. /\ at[c] = "resolve" /\ child' = child /\ answer' = answer /\ req' = req
      /\ Len(out[c]) = Len(Argv(c)) /\ at'[c] \in {"start", "refuse"}
      /\ at'[c] = "start" => ~ failed[c] /\ Decision(c, argv).allowed /\ out'[c] = argv
                             /\ match'[c] = Decision(c, argv).match
  BY DEF ResolveFails, Decide, Resolved, Moves, TypeOK
<1>2. child[c] = "none" /\ answer[c] = "?" /\ GateClass(req[c]) = ""
  BY <1>1 DEF CallInv, Progress, Halfway
<1>3. ~ failed[c] => out[c] = Restore(Argv(c))
  <2>1. Argv(c) \in Seq(Word) /\ out[c] \in Seq(Word)
    BY RequestTyped DEF TypeOK
  <2>2. ~ failed[c] => \A i \in 1..Len(Argv(c)) : out[c][i] = Restore(Argv(c))[i]
    BY <1>1 DEF CallInv, Halfway
  <2>3. DOMAIN Restore(Argv(c)) = 1..Len(Argv(c))
    BY <2>1 DEF Restore
  <2>4. Restore(Argv(c)) = [i \in 1..Len(Argv(c)) |-> Restore(Argv(c))[i]]
    BY <2>3 DEF Restore
  <2>5. out[c] = [i \in 1..Len(Argv(c)) |-> out[c][i]]
    BY <1>1, <2>1
  <2>6. QED
    BY <2>2, <2>4, <2>5
<1> HIDE DEF argv
<1>4. Progress(c)' /\ Halfway(c)' /\ Traced(c)'
  BY <1>1, <1>2 DEF Progress, Halfway, Traced
<1>5. at'[c] = "start" => Approved(c)'
  BY <1>1, <1>2, <1>3, SameRequest DEF Approved, argv
<1>6. Decided(c)'
  BY <1>1, <1>2, <1>5 DEF Decided
<1>7. QED
  BY <1>4, <1>6 DEF CallInv

LEMMA EncodedFields ==
    ASSUME NEW c, NEW cls
    PROVE  LET rec == EncodeRecord(c, cls)
           IN  /\ rec.call = c /\ rec.whole
               /\ rec.class = IF req[c].oversize THEN "audit_truncate_oversize" ELSE cls
               /\ ~ req[c].oversize => rec.match = match[c]
BY DEF EncodeRecord

LEMMA RefuseKeeps ==
    ASSUME TypeOK, NEW c \in Calls, CallInv(c), Refuse(c)
    PROVE  CallInv(c)'
<1>1. /\ at[c] = "refuse" /\ at'[c] = "done" /\ child' = child /\ answer'[c] = ErrorOf(class[c])
  BY DEF Refuse, Answers, Moves, TypeOK
<1>2. child[c] = "none"
  BY <1>1 DEF CallInv, Progress
<1>3. ErrorOf(class[c]) \notin {"?", "", "EXEC_INTERNAL"}
  BY DEF ErrorOf
<1>4. QED
  BY <1>1, <1>2, <1>3 DEF CallInv, Progress, Halfway, Decided, Traced

LEMMA RecordStartKeeps ==
    ASSUME TypeOK, NEW c \in Calls, CallInv(c), RecordStart(c)
    PROVE  CallInv(c)'
<1>1. /\ at[c] = "start" /\ child' = child /\ req' = req /\ out' = out /\ match' = match /\ ran' = ran
      /\ failed' = failed /\ class' = class
      /\ \/ Recorded(c, "starting") /\ at'[c] = "run" /\ answer' = answer
         \/ NotRecorded(c, "starting") /\ at'[c] = "done" /\ answer'[c] = "EXEC_AUDIT_UNWRITABLE"
  BY DEF RecordStart, Answers, Moves, TypeOK
<1>2. child[c] = "none" /\ answer[c] = "?" /\ Approved(c)
  BY <1>1 DEF CallInv, Progress, Decided
<1>3. Approved(c)'
  BY <1>1, <1>2, SameRequest DEF Approved
<1>4. Progress(c)' /\ Halfway(c)' /\ Decided(c)'
  BY <1>1, <1>2, <1>3 DEF Progress, Halfway, Decided
<1>5. CASE Recorded(c, "starting") /\ at'[c] = "run" /\ answer' = answer
  <2>1. PICK n \in DOMAIN log' : log'[n] = EncodeRecord(c, "starting")
    BY <1>5, LogStep
  <2>2. StartRecord(c, n)'
    BY <1>1, <2>1, EncodedFields DEF StartRecord
  <2>3. Traced(c)'
    BY <1>2, <1>5, <2>1, <2>2 DEF Traced
  <2>4. QED
    BY <1>4, <2>3 DEF CallInv
<1>6. CASE at'[c] = "done" /\ answer'[c] = "EXEC_AUDIT_UNWRITABLE"
  BY <1>1, <1>2, <1>4, <1>6 DEF CallInv, Traced
<1>7. QED
  BY <1>1, <1>5, <1>6

LEMMA ChildKeeps ==
    ASSUME TypeOK, NEW c \in Calls, CallInv(c), StartChild(c) \/ StartFails(c) \/ RunEnds(c)
    PROVE  CallInv(c)'
<1>1. /\ at[c] = "run" /\ at'[c] \in {"run", "final"} /\ answer' = answer /\ req' = req /\ out' = out
      /\ match' = match /\ log' = log
      /\ at'[c] = "run" => ran'[c] = out[c] /\ child'[c] = "running"
      /\ at'[c] = "final" => ran'[c] = ran[c] /\ (child'[c] = "over" \/ (child'[c] = "none" /\ child[c] = "none"))
      /\ child'[c] = "over" => child[c] = "running"
  <2>1. CASE StartChild(c)
    BY <2>1 DEF StartChild, diskVars, TypeOK
  <2>2. CASE StartFails(c)
    BY <2>2 DEF StartFails, Moves, diskVars, TypeOK
  <2>3. CASE RunEnds(c)
    <3>1. at'[c] = "final" /\ child'[c] = "over"
      BY <2>3 DEF RunEnds, Moves, TypeOK
    <3>2. QED
      BY <2>3, <3>1 DEF RunEnds, diskVars
  <2>4. QED
    BY <2>1, <2>2, <2>3
<1>2. answer[c] = "?" /\ Approved(c) /\ (child[c] # "none" => ran[c] = out[c])
  BY <1>1 DEF CallInv, Progress, Decided
<1>3. Approved(c)'
  BY <1>1, <1>2, SameRequest DEF Approved
<1>4. Progress(c)' /\ Halfway(c)' /\ Decided(c)'
  BY <1>1, <1>2, <1>3 DEF Progress, Halfway, Decided
<1>5. LogGrows
  BY <1>1 DEF LogGrows
<1>6. \E i \in DOMAIN log : StartRecord(c, i)
  BY <1>1 DEF CallInv, Traced
<1>7. (\E i \in DOMAIN log : StartRecord(c, i))'
  BY <1>1, <1>5, <1>6, RecordsStay
<1>8. Traced(c)'
  BY <1>1, <1>2, <1>7 DEF Traced
<1>9. QED
  BY <1>4, <1>8 DEF CallInv

LEMMA RecordFinalKeeps ==
    ASSUME TypeOK, NEW c \in Calls, CallInv(c), RecordFinal(c)
    PROVE  CallInv(c)'
<1>1. /\ at[c] = "final" /\ at'[c] = "done" /\ child' = child /\ req' = req /\ out' = out /\ match' = match
      /\ ran' = ran /\ class' = class
      /\ \/ Recorded(c, class[c]) /\ answer'[c] = ""
         \/ NotRecorded(c, class[c]) /\ answer'[c] = "EXEC_INTERNAL"
  BY DEF RecordFinal, Answers, Moves, TypeOK
<1>2. /\ child[c] # "running" /\ Approved(c) /\ (child[c] # "none" => ran[c] = out[c])
      /\ \E i \in DOMAIN log : StartRecord(c, i)
  BY <1>1 DEF CallInv, Progress, Decided, Traced
<1>3. Approved(c)'
  BY <1>1, <1>2, SameRequest DEF Approved
<1>4. Progress(c)' /\ Halfway(c)' /\ Decided(c)'
  BY <1>1, <1>2, <1>3 DEF Progress, Halfway, Decided
<1>5. class[c] \in Classes
  BY DEF TypeOK
<1>6. LogGrows
  BY <1>1, <1>5, LogStep
<1>7. PICK i \in DOMAIN log : StartRecord(c, i)
  BY <1>2
<1>8. i \in DOMAIN log' /\ StartRecord(c, i)'
  BY <1>1, <1>6, <1>7 DEF StartRecord, LogGrows
<1>9. ASSUME Recorded(c, class[c])
      PROVE  \E j \in DOMAIN log' : i < j /\ FinalRecord(c, j)'
  <2>1. PICK n \in DOMAIN log' : log'[n] = EncodeRecord(c, class[c]) /\ \A k \in DOMAIN log : k < n
    BY <1>5, <1>9, LogStep
  <2>2. /\ log'[n].call = c /\ log'[n].whole
        /\ log'[n].class = IF req[c].oversize THEN "audit_truncate_oversize" ELSE class[c]
    BY <2>1, EncodedFields
  <2>3. FinalRecord(c, n)'
    BY <1>1, <2>2 DEF FinalRecord
  <2>4. QED
    BY <2>1, <2>3
<1>10. Traced(c)'
  BY <1>1, <1>8, <1>9 DEF Traced
<1>11. QED
  BY <1>4, <1>10 DEF CallInv

-----------------------------------------------------------------------------
(* The invariant is inductive.                                             *)

LEMMA InvInit == Init => IInv
<1> SUFFICES ASSUME Init PROVE IInv
  OBVIOUS
<1>1. TypeOK
  BY TypesInit
<1>2. ASSUME NEW c \in Calls PROVE CallInv(c)
  BY DEF Init, CallInv, Progress, Halfway, Decided, Traced
<1>3. QED
  BY <1>1, <1>2 DEF IInv

LEMMA ActorKeeps ==
    ASSUME TypeOK, NEW c \in Calls, CallInv(c), CallStep(c)
    PROVE  CallInv(c)'
BY EarlyEndKeeps, GateKeeps, WordKeeps, DecideKeeps, RefuseKeeps, RecordStartKeeps, ChildKeeps, RecordFinalKeeps
   DEF CallStep

LEMMA StepIsLocal ==
    ASSUME TypeOK, NEW c \in Calls, CallStep(c), NEW d \in Calls \ {c}
    PROVE  LogGrows /\ Untouched(d) /\ at'[d] = at[d]
<1>1. log' = log => LogGrows
  BY DEF LogGrows
<1>2. LogGrows
  <2>1. CASE Refuse(c)
    BY <2>1, LogStep DEF Refuse, TypeOK
  <2>2. CASE RecordStart(c)
    BY <2>2, LogStep DEF RecordStart
  <2>3. CASE RecordFinal(c)
    BY <2>3, LogStep DEF RecordFinal, TypeOK
  <2>4. CASE InvalidTimeout(c) \/ PreflightFails(c) \/ Gate(c)
    BY <2>4, <1>1 DEF InvalidTimeout, PreflightFails, Gate, diskVars
  <2>5. CASE Found(c) \/ NotFound(c) \/ ResolveFails(c) \/ Decide(c)
    BY <2>5, <1>1 DEF Found, NotFound, ResolveFails, Decide, diskVars
  <2>6. CASE StartChild(c) \/ StartFails(c) \/ RunEnds(c)
    BY <2>6, <1>1 DEF StartChild, StartFails, RunEnds, diskVars
  <2>7. QED
    BY <2>1, <2>2, <2>3, <2>4, <2>5, <2>6 DEF CallStep
<1>3. Untouched(d) /\ at'[d] = at[d]
  <2>1. CASE InvalidTimeout(c) \/ PreflightFails(c) \/ Gate(c)
    BY <2>1 DEF InvalidTimeout, PreflightFails, Gate, Answers, Moves, Untouched, TypeOK
  <2>2. CASE Found(c) \/ NotFound(c)
    BY <2>2 DEF Found, NotFound, Untouched, TypeOK
  <2>3. CASE ResolveFails(c)
    BY <2>3 DEF ResolveFails, Moves, Untouched, TypeOK
  <2>4. CASE Decide(c)
    BY <2>4 DEF Decide, Moves, Untouched, TypeOK
  <2>5. CASE Refuse(c) \/ RecordStart(c) \/ RecordFinal(c)
    BY <2>5 DEF Refuse, RecordStart, RecordFinal, Answers, Moves, Untouched, TypeOK
  <2>6. CASE StartChild(c) \/ StartFails(c) \/ RunEnds(c)
    BY <2>6 DEF StartChild, StartFails, RunEnds, Moves, Untouched, TypeOK
  <2>7. QED
    BY <2>1, <2>2, <2>3, <2>4, <2>5, <2>6 DEF CallStep
<1>4. QED
  BY <1>2, <1>3

LEMMA InvNext == IInv /\ [Next]_vars => IInv'
<1> SUFFICES ASSUME IInv, [Next]_vars PROVE IInv'
  OBVIOUS
<1>1. TypeOK /\ TypeOK'
  BY TypesNext DEF IInv
<1>2. ASSUME NEW d \in Calls PROVE CallInv(d)'
  <2>1. CallInv(d)
    BY DEF IInv
  <2>2. ASSUME NEW c \in Calls, CallStep(c) PROVE CallInv(d)'
    <3>1. CASE c = d
      BY <1>1, <2>1, <2>2, <3>1, ActorKeeps
    <3>2. CASE c # d
      <4>1. LogGrows /\ Untouched(d) /\ at'[d] = at[d]
        BY <1>1, <2>2, <3>2, StepIsLocal
      <4>2. QED
        BY <2>1, <4>1, Bystander
    <3>3. QED
      BY <3>1, <3>2
  <2>3. ASSUME NEW c \in Calls, Die(c) PROVE CallInv(d)'
    <3>1. LogGrows /\ Untouched(d) /\ (at'[d] = at[d] \/ (at[d] # "done" /\ at'[d] = "dead"))
      BY <1>1, <2>3 DEF Die, diskVars, LogGrows, Untouched, TypeOK
    <3>2. QED
      BY <2>1, <3>1, Bystander
  <2>4. CASE DiskChanges \/ UNCHANGED vars
    <3>1. LogGrows /\ Untouched(d) /\ at'[d] = at[d]
      BY <2>4 DEF DiskChanges, vars, callVars, diskVars, LogGrows, Untouched
    <3>2. QED
      BY <2>1, <3>1, Bystander
  <2>5. QED
    BY <2>2, <2>3, <2>4 DEF Next
<1>3. QED
  BY <1>1, <1>2 DEF IInv

-----------------------------------------------------------------------------
(* The theorems.                                                           *)

LEMMA Invariant == Spec => []IInv
BY InvInit, InvNext, PTL DEF Spec

(* Every variable keeps its type, a call has an answer when it is done.    *)
THEOREM CallTyping == Spec => []TypeOK
<1>1. IInv => TypeOK
  BY DEF IInv
<1>2. QED
  BY Invariant, <1>1, PTL

(* orchestrate.go:186-191: no command runs before its record is in         *)
(* exec.log, whatever the disk and the other calls do.                     *)
THEOREM CallTracedFirst == Spec => []TracedFirst
<1>1. IInv => TracedFirst
  BY DEF IInv, CallInv, Traced, TracedFirst
<1>2. QED
  BY Invariant, <1>1, PTL

(* What runs is argv with all its sentinels restored.                      *)
THEOREM CallRestoredRuns == Spec => []RestoredRuns
<1>1. IInv => RestoredRuns
  BY DEF IInv, CallInv, Decided, Approved, RestoredRuns
<1>2. QED
  BY Invariant, <1>1, PTL

(* What runs passed the gates and the policy in its final form, for any    *)
(* deny-list and any allow-list of the project.                            *)
THEOREM CallPermittedRuns == Spec => []PermittedRuns
<1>1. IInv => PermittedRuns
  <2> SUFFICES ASSUME IInv, NEW c \in Calls, child[c] # "none", req[c].source # "hook"
               PROVE  /\ ~ req[c].cfg.untrusted /\ req[c].cfg.enabled
                      /\ DenyMatch(ran[c], req[c].cfg) = ""
                      /\ EvaluatePolicy(ran[c], req[c].cfg).allowed
                      /\ req[c].source = "mcp" => EvaluatePolicy(ran[c], req[c].cfg).match # ""
    BY DEF PermittedRuns
  <2>1. Approved(c) /\ ran[c] = out[c]
    BY DEF IInv, CallInv, Decided
  <2>2. req[c].cfg \in ConfigType
    BY RequestTyped DEF IInv, TypeOK
  <2>3. GateClass(req[c]) = "" /\ EvaluatePolicy(ran[c], req[c].cfg).allowed
    BY <2>1 DEF Approved, Decision, Judgement
  <2>4. ~ req[c].cfg.untrusted /\ req[c].cfg.enabled /\ (req[c].source = "mcp" => ~ ScopeOpen(req[c].cfg))
    BY <2>3 DEF GateClass
  <2>5. QED
    BY <2>2, <2>3, <2>4, PolicyDecides
<1>2. QED
  BY Invariant, <1>1, PTL

(* What the decision left in env is what the child is started with.        *)
EnvInv ==
    \A c \in Calls :
        at[c] \in {"start", "run"} \/ child[c] # "none" =>
            env[c] = BuildEnv(Scope(c), req[c].cfg, Environ)

LEMMA EnvStep ==
    ASSUME TypeOK, EnvInv, [Next]_vars
    PROVE  EnvInv'
<1> SUFFICES ASSUME NEW d \in Calls, at'[d] \in {"start", "run"} \/ child'[d] # "none"
             PROVE  env'[d] = BuildEnv(Scope(d), req[d].cfg, Environ) /\ req' = req
  BY DEF EnvInv, Scope
<1>1. req' = req
  BY DEF Next, vars, callVars, CallStep, InvalidTimeout, PreflightFails, Gate, Found, NotFound, ResolveFails,
         Decide, Refuse, RecordStart, StartChild, StartFails, RunEnds, RecordFinal, Die, DiskChanges
<1>2. ASSUME NEW c \in Calls, Decide(c)
      PROVE  env'[d] = BuildEnv(Scope(d), req[d].cfg, Environ)
  <2>1. CASE d = c
    BY <1>2, <2>1 DEF Decide, TypeOK
  <2>2. CASE d # c
    <3>1. at'[d] = at[d] /\ child'[d] = child[d] /\ env'[d] = env[d]
      BY <1>2, <2>2 DEF Decide, Moves, TypeOK
    <3> QED BY <3>1 DEF EnvInv
  <2> QED BY <2>1, <2>2
<1>3. CASE ~ \E c \in Calls : Decide(c)
  <2>1. env' = env
    BY <1>3 DEF Next, vars, callVars, CallStep, InvalidTimeout, PreflightFails, Gate, Found, NotFound, ResolveFails,
           Refuse, RecordStart, StartChild, StartFails, RunEnds, RecordFinal, Die, DiskChanges
  <2>2. at[d] \in {"start", "run"} \/ child[d] # "none"
    <3>1. ASSUME NEW c \in Calls, CallStep(c) PROVE at[d] \in {"start", "run"} \/ child[d] # "none"
      BY <1>3, <3>1 DEF CallStep, InvalidTimeout, PreflightFails, Gate, Found, NotFound, ResolveFails,
             Refuse, RecordStart, StartChild, StartFails, RunEnds, RecordFinal, Answers, Moves, TypeOK
    <3>2. ASSUME NEW c \in Calls, Die(c) PROVE at[d] \in {"start", "run"} \/ child[d] # "none"
      BY <3>2 DEF Die
    <3>3. CASE DiskChanges \/ UNCHANGED vars
      BY <3>3 DEF DiskChanges, vars, callVars
    <3> QED BY <3>1, <3>2, <3>3 DEF Next
  <2> QED BY <1>1, <2>1, <2>2 DEF EnvInv
<1> QED BY <1>1, <1>2, <1>3

(* A child inherits nothing that is denied, or that nobody named, for any  *)
(* config and any environment.                                             *)
THEOREM CallShapedEnv == Spec => []ShapedEnv
<1>1. Init => EnvInv
  BY DEF Init, EnvInv
<1>2. EnvInv => ShapedEnv
  BY DEF EnvInv, ShapedEnv, BuildEnv
<1> QED BY <1>1, <1>2, EnvStep, CallTyping, PTL DEF Spec

(* The four together: recorded first, restored whole, permitted, and with  *)
(* a clean environment.                                                    *)
THEOREM CallRunsApproved == Spec => []RunsApproved
BY CallTracedFirst, CallPermittedRuns, CallRestoredRuns, CallShapedEnv, PTL DEF RunsApproved

(* What the caller is told agrees with the child and with exec.log.        *)
THEOREM CallAnswersTrue == Spec => []AnswersTrue
<1>1. IInv => AnswersTrue
  BY DEF IInv, CallInv, Progress, Traced, AnswersTrue
<1>2. QED
  BY Invariant, <1>1, PTL

-----------------------------------------------------------------------------
(* The contract.  How many whole records a call has where it is: a record  *)
(* that is torn, or of another call, does not count.                       *)
Counted(c) ==
    /\ at[c] \in {"called", "resolve", "refuse", "start"} => Records(c) = {}
    /\ at[c] \in {"run", "final"} => \E i \in DOMAIN log : Records(c) = {i}

CountInv == \A c \in Calls : Counted(c)

LEMMA LogLeft == log' = log => Traces' = Traces /\ \A c : Records(c)' = Records(c)
BY DEF Traces, Records

LEMMA RecordMade ==
    ASSUME TypeOK, NEW c \in Calls, NEW cls, Recorded(c, cls)
    PROVE  /\ Len(log) + 1 \in DOMAIN log' /\ Len(log) + 1 \notin DOMAIN log
           /\ Records(c)' = Records(c) \union {Len(log) + 1}
           /\ \A d \in Calls \ {c} : Records(d)' = Records(d)
<1> DEFINE rec == EncodeRecord(c, cls)
           n == Len(log) + 1
<1>1. log \in Seq(LogRecord)
  BY DEF TypeOK, LogRecord
<1>2. rec.call = c /\ rec.whole
  BY EncodedFields
<1>3. log' = Append(log, rec)
  BY DEF Recorded
<1> HIDE DEF rec
<1>4. /\ DOMAIN log' = DOMAIN log \union {n} /\ n \notin DOMAIN log
      /\ log'[n] = rec /\ \A i \in DOMAIN log : log'[i] = log[i]
  BY <1>1, <1>3
<1> HIDE DEF n
<1>5. \A d \in Calls : Records(d)' = Records(d) \union (IF d = c THEN {n} ELSE {})
  BY <1>2, <1>4 DEF Records
<1> QED
  BY <1>4, <1>5 DEF n

LEMMA RecordTorn ==
    ASSUME TypeOK, NEW c \in Calls, NEW cls, NotRecorded(c, cls)
    PROVE  \A d \in Calls : Records(d)' = Records(d)
<1>1. CASE log' = log
  BY <1>1, LogLeft
<1>2. CASE log' = Append(log, [EncodeRecord(c, cls) EXCEPT !.whole = FALSE])
  <2> DEFINE rec == [EncodeRecord(c, cls) EXCEPT !.whole = FALSE]
             n == Len(log) + 1
  <2>1. log \in Seq(LogRecord)
    BY DEF TypeOK, LogRecord
  <2>2. ~ rec.whole
    BY DEF EncodeRecord
  <2>3. log' = Append(log, rec)
    BY <1>2
  <2> HIDE DEF rec
  <2>4. /\ DOMAIN log' = DOMAIN log \union {n} /\ n \notin DOMAIN log
        /\ log'[n] = rec /\ \A i \in DOMAIN log : log'[i] = log[i]
    BY <2>1, <2>3
  <2> QED
    BY <2>2, <2>4 DEF Records
<1> QED
  BY <1>1, <1>2 DEF NotRecorded

LEMMA TraceAdded ==
    ASSUME TypeOK, NEW c \in Calls, NEW cls, Recorded(c, cls)
    PROVE  /\ Records(c) = {} => Traces[c] = 0 /\ Traces' = [Traces EXCEPT ![c] = 1]
           /\ \A i \in DOMAIN log : Records(c) = {i} => Traces[c] = 1 /\ Traces' = [Traces EXCEPT ![c] = 2]
<1> DEFINE n == Len(log) + 1
<1>1. /\ n \notin DOMAIN log /\ Records(c)' = Records(c) \union {n}
      /\ \A d \in Calls \ {c} : Records(d)' = Records(d)
  BY RecordMade
<1>2. Traces' = [Traces EXCEPT ![c] = Cardinality(Records(c) \union {n})]
  BY <1>1 DEF Traces
<1>3. Traces[c] = Cardinality(Records(c))
  BY DEF Traces
<1> HIDE DEF n
<1>4. ASSUME Records(c) = {} PROVE Traces[c] = 0 /\ Traces' = [Traces EXCEPT ![c] = 1]
  <2>1. Records(c) \union {n} = {n}
    BY <1>4
  <2> QED
    BY <1>2, <1>3, <1>4, <2>1, FS_EmptySet, FS_Singleton
<1>5. ASSUME NEW i \in DOMAIN log, Records(c) = {i}
      PROVE  Traces[c] = 1 /\ Traces' = [Traces EXCEPT ![c] = 2]
  <2>1. IsFiniteSet({i}) /\ Cardinality({i}) = 1 /\ n \notin {i}
    BY <1>1, FS_Singleton
  <2>2. Cardinality({i} \union {n}) = 2
    BY <2>1, FS_AddElement
  <2>3. Traces[c] = 1
    BY <1>3, <1>5, <2>1
  <2>4. Traces' = [Traces EXCEPT ![c] = 2]
    BY <1>2, <1>5, <2>2
  <2> QED
    BY <2>3, <2>4
<1> QED
  BY <1>4, <1>5

LEMMA TracesLeft ==
    ASSUME \A c \in Calls : Records(c)' = Records(c)
    PROVE  Traces' = Traces
BY DEF Traces

LEMMA AnswersLeft == answer' = answer => Outcomes' = Outcomes
BY DEF Outcomes, Told

LEMMA AnswerTold ==
    ASSUME TypeOK, NEW c \in Calls, NEW error, Answers(c, error), answer[c] = "?"
    PROVE  /\ Outcomes[c] = "nothing"
           /\ error \notin {"?", "", "EXEC_INTERNAL"} => Outcomes' = [Outcomes EXCEPT ![c] = "refused"]
           /\ error = "" => Outcomes' = [Outcomes EXCEPT ![c] = "done"]
           /\ error = "EXEC_INTERNAL" => Outcomes' = [Outcomes EXCEPT ![c] = "unrecorded"]
<1>1. answer'[c] = error /\ \A d \in Calls \ {c} : answer'[d] = answer[d]
  BY DEF Answers, TypeOK
<1>2. \A d \in Calls \ {c} : Told(d)' = Told(d)
  BY <1>1 DEF Told
<1>3. Outcomes' = [Outcomes EXCEPT ![c] = Told(c)']
  BY <1>2 DEF Outcomes
<1>4. /\ error \notin {"?", "", "EXEC_INTERNAL"} => Told(c)' = "refused"
      /\ error = "" => Told(c)' = "done"
      /\ error = "EXEC_INTERNAL" => Told(c)' = "unrecorded"
  BY <1>1 DEF Told
<1>5. Outcomes[c] = "nothing"
  BY DEF Outcomes, Told
<1> QED
  BY <1>3, <1>4, <1>5

(* Counted, step by step: of the call that takes it, and of the others.    *)
LEMMA CountSame ==
    ASSUME NEW c \in Calls, Counted(c), Records(c)' = Records(c), log' = log \/ DOMAIN log \subseteq DOMAIN log',
           at'[c] = at[c] \/ at'[c] \in {"done", "dead"}
    PROVE  Counted(c)'
BY DEF Counted

LEMMA LogLonger ==
    ASSUME TypeOK, NEW c \in Calls, NEW cls \in Classes \union {"starting"}, Recorded(c, cls) \/ NotRecorded(c, cls)
    PROVE  DOMAIN log \subseteq DOMAIN log'
BY LogStep DEF LogGrows

LEMMA ActorCounts ==
    ASSUME TypeOK, NEW c \in Calls, Counted(c), CallStep(c)
    PROVE  Counted(c)'
<1>1. CASE log' = log
  <2>1. Records(c)' = Records(c) /\ DOMAIN log' = DOMAIN log
    BY <1>1, LogLeft
  <2>2. \/ /\ at[c] \in {"called", "resolve", "refuse", "start"}
           /\ at'[c] \in {"resolve", "refuse", "start", "done"}
        \/ at[c] = "run" /\ at'[c] \in {"run", "final"}
        \/ at'[c] = "done"
    <3>1. CASE InvalidTimeout(c) \/ PreflightFails(c)
      BY <3>1 DEF InvalidTimeout, PreflightFails, Answers, Moves, TypeOK
    <3>2. CASE Gate(c) \/ ResolveFails(c) \/ Decide(c)
      <4>1. at[c] \in {"called", "resolve"}
        BY <3>2 DEF Gate, Orchestrates, ResolveFails, Decide, Resolved
      <4>2. \E to \in {"resolve", "refuse", "start"} : Moves(c, to)
        BY <3>2 DEF Gate, ResolveFails, Decide
      <4> QED
        BY <4>1, <4>2 DEF Moves, TypeOK
    <3>3. CASE Found(c) \/ NotFound(c)
      BY <3>3 DEF Found, NotFound, Resolving, TypeOK
    <3>4. CASE StartChild(c) \/ StartFails(c) \/ RunEnds(c)
      BY <3>4 DEF StartChild, StartFails, RunEnds, Moves, TypeOK
    <3>5. CASE Refuse(c) \/ RecordFinal(c)
      BY <3>5 DEF Refuse, RecordFinal, Answers, Moves, TypeOK
    <3>6. CASE RecordStart(c)
      <4>1. ~ Recorded(c, "starting")
        <5>1. log \in Seq(LogRecord)
          BY DEF TypeOK, LogRecord
        <5>2. ASSUME Recorded(c, "starting") PROVE FALSE
          BY <1>1, <5>2, RecordMade
        <5> QED
          BY <5>2
      <4> QED
        BY <3>6, <4>1 DEF RecordStart, Answers, Moves, TypeOK
    <3> QED
      BY <3>1, <3>2, <3>3, <3>4, <3>5, <3>6 DEF CallStep
  <2> QED
    BY <2>1, <2>2 DEF Counted
<1>2. CASE Refuse(c) \/ RecordFinal(c)
  <2>1. at'[c] = "done"
    BY <1>2 DEF Refuse, RecordFinal, Answers, Moves, TypeOK
  <2> QED
    BY <2>1 DEF Counted
<1>3. CASE RecordStart(c)
  <2>1. CASE Recorded(c, "starting") /\ Moves(c, "run")
    <3>1. at[c] = "start" /\ at'[c] = "run"
      BY <1>3, <2>1 DEF RecordStart, Moves, TypeOK
    <3>2. Records(c)' = {} \union {Len(log) + 1} /\ Len(log) + 1 \in DOMAIN log'
      BY <2>1, <3>1, RecordMade DEF Counted
    <3> QED
      BY <3>1, <3>2 DEF Counted
  <2>2. CASE Answers(c, "EXEC_AUDIT_UNWRITABLE")
    BY <2>2 DEF Answers, Moves, TypeOK, Counted
  <2> QED
    BY <1>3, <2>1, <2>2 DEF RecordStart
<1> QED
  BY <1>1, <1>2, <1>3
     DEF CallStep, InvalidTimeout, PreflightFails, Gate, Found, NotFound, ResolveFails, Decide,
         StartChild, StartFails, RunEnds, diskVars

LEMMA OthersCount ==
    ASSUME TypeOK, NEW c \in Calls, CallStep(c), NEW d \in Calls \ {c}, Counted(d)
    PROVE  Counted(d)'
<1>1. at'[d] = at[d] /\ DOMAIN log \subseteq DOMAIN log'
  BY StepIsLocal DEF LogGrows
<1>2. Records(d)' = Records(d)
  <2>1. CASE log' = log
    BY <2>1, LogLeft
  <2>2. CASE \E cls : Recorded(c, cls) \/ NotRecorded(c, cls)
    BY <2>2, RecordMade, RecordTorn
  <2> QED
    BY <2>1, <2>2
       DEF CallStep, InvalidTimeout, PreflightFails, Gate, Found, NotFound, ResolveFails, Decide,
           StartChild, StartFails, RunEnds, Refuse, RecordStart, RecordFinal, diskVars
<1> QED
  BY <1>1, <1>2, CountSame

LEMMA CountNext == TypeOK /\ CountInv /\ [Next]_vars => CountInv'
<1> SUFFICES ASSUME TypeOK, CountInv, [Next]_vars, NEW d \in Calls PROVE Counted(d)'
  BY DEF CountInv
<1>1. Counted(d)
  BY DEF CountInv
<1>2. ASSUME NEW c \in Calls, CallStep(c) PROVE Counted(d)'
  <2>1. CASE c = d
    BY <1>1, <1>2, <2>1, ActorCounts
  <2>2. CASE c # d
    BY <1>1, <1>2, <2>2, OthersCount
  <2> QED
    BY <2>1, <2>2
<1>3. CASE log' = log /\ (at'[d] = at[d] \/ at'[d] \in {"done", "dead"})
  BY <1>1, <1>3, LogLeft, CountSame
<1>4. ASSUME NEW c \in Calls, Die(c)
      PROVE  log' = log /\ (at'[d] = at[d] \/ at'[d] \in {"done", "dead"})
  BY <1>4 DEF Die, diskVars, TypeOK
<1>5. CASE DiskChanges \/ UNCHANGED vars
  BY <1>3, <1>5 DEF DiskChanges, vars, callVars, diskVars
<1> QED
  BY <1>2, <1>3, <1>4, <1>5 DEF Next

LEMMA CountInit == Init => CountInv /\ \A c \in Calls : Records(c) = {}
<1> SUFFICES ASSUME Init PROVE CountInv /\ \A c \in Calls : Records(c) = {}
  OBVIOUS
<1>1. log = <<>> /\ \A c \in Calls : at[c] = "called"
  BY DEF Init
<1>2. \A c \in Calls : Records(c) = {}
  BY <1>1 DEF Records
<1> QED
  BY <1>1, <1>2 DEF CountInv, Counted

-----------------------------------------------------------------------------
(* Every step of a call is one of the contract's, or none of its business. *)
LEMMA Invisible ==
    ASSUME req' = req, ran' = ran, child' = child, answer' = answer, log' = log
    PROVE  UNCHANGED Contract!contractVars
BY LogLeft, AnswersLeft DEF Contract!contractVars

LEMMA AnswerPending ==
    ASSUME TypeOK, NEW c \in Calls, CallInv(c), Counted(c), at[c] \notin {"done", "dead"}
    PROVE  /\ answer[c] = "?" /\ Outcomes[c] = "nothing"
           /\ at[c] \in {"called", "resolve", "refuse", "start"} => Contract!Waiting(c, 0)
           /\ at[c] \in {"run", "final"} => Contract!Waiting(c, 1)
<1>1. answer[c] = "?"
  BY DEF CallInv, Progress
<1>2. Outcomes[c] = "nothing"
  BY <1>1 DEF Outcomes, Told
<1>3. at[c] \in {"called", "resolve", "refuse", "start"} => Traces[c] = 0
  BY FS_EmptySet DEF Counted, Traces
<1>4. at[c] \in {"run", "final"} => Traces[c] = 1
  BY FS_Singleton DEF Counted, Traces
<1> QED
  BY <1>1, <1>2, <1>3, <1>4 DEF Contract!Waiting

LEMMA EarlyEndTurnsDown ==
    ASSUME TypeOK, NEW c \in Calls, CallInv(c), Counted(c), InvalidTimeout(c) \/ PreflightFails(c)
    PROVE  Contract!TurnDown(c)
<1>1. /\ at[c] = "called"
      /\ \E error \in {"INVALID_TIMEOUT", "EXEC_AUDIT_UNWRITABLE"} : Answers(c, error)
      /\ req' = req /\ ran' = ran /\ child' = child /\ log' = log
  BY DEF InvalidTimeout, PreflightFails, Orchestrates, diskVars
<1>2. Contract!Waiting(c, 0) /\ answer[c] = "?"
  BY <1>1, AnswerPending
<1>3. Outcomes' = [Outcomes EXCEPT ![c] = "refused"]
  BY <1>1, <1>2, AnswerTold
<1>4. Traces' = [Traces EXCEPT ![c] = 0]
  BY <1>1, <1>2, LogLeft DEF Traces, Contract!Waiting
<1> QED
  BY <1>1, <1>2, <1>3, <1>4 DEF Contract!TurnDown

LEMMA RefuseTurnsDown ==
    ASSUME TypeOK, NEW c \in Calls, CallInv(c), Counted(c), Refuse(c)
    PROVE  Contract!TurnDown(c)
<1>1. /\ at[c] = "refuse" /\ Answers(c, ErrorOf(class[c]))
      /\ req' = req /\ ran' = ran /\ child' = child
      /\ Recorded(c, class[c]) \/ NotRecorded(c, class[c])
  BY DEF Refuse
<1>2. Contract!Waiting(c, 0) /\ answer[c] = "?" /\ Records(c) = {}
  BY <1>1, AnswerPending DEF Counted
<1>3. ErrorOf(class[c]) \notin {"?", "", "EXEC_INTERNAL"}
  BY DEF ErrorOf
<1>4. Outcomes' = [Outcomes EXCEPT ![c] = "refused"]
  BY <1>1, <1>2, <1>3, AnswerTold
<1>5. \E n \in {0, 1} : Traces' = [Traces EXCEPT ![c] = n]
  <2>1. CASE Recorded(c, class[c])
    BY <1>2, <2>1, TraceAdded
  <2>2. CASE NotRecorded(c, class[c])
    <3>1. Traces' = Traces
      BY <2>2, RecordTorn, TracesLeft
    <3>2. Traces' = [Traces EXCEPT ![c] = 0]
      BY <1>2, <3>1 DEF Traces, Contract!Waiting
    <3> QED
      BY <3>2
  <2> QED
    BY <1>1, <2>1, <2>2
<1> QED
  BY <1>1, <1>2, <1>4, <1>5 DEF Contract!TurnDown

(* What Approved says of a call is the ruling on its request.              *)
LEMMA ApprovedGranted ==
    ASSUME TypeOK, NEW c \in Calls, Approved(c)
    PROVE  Ruling[req[c]].granted /\ Ruling[req[c]].argv = out[c]
<1>1. req[c] \in Requests
  BY DEF TypeOK
<1>2. GateClass(req[c]) = "" /\ out[c] = Normalize(Restore(Command(req[c]))) /\ Judgement(req[c], out[c]).allowed
  BY DEF Approved, Argv, Decision
<1> QED
  BY <1>1, <1>2 DEF Ruling

LEMMA RecordStartTraces ==
    ASSUME TypeOK, NEW c \in Calls, CallInv(c), Counted(c), RecordStart(c)
    PROVE  Contract!Trace(c) \/ Contract!TurnDown(c)
<1>1. /\ at[c] = "start" /\ req' = req /\ ran' = ran /\ child' = child
      /\ \/ Recorded(c, "starting") /\ answer' = answer
         \/ NotRecorded(c, "starting") /\ Answers(c, "EXEC_AUDIT_UNWRITABLE")
  BY DEF RecordStart
<1>2. Contract!Waiting(c, 0) /\ answer[c] = "?" /\ Records(c) = {}
  BY <1>1, AnswerPending DEF Counted
<1>3. CASE Recorded(c, "starting") /\ answer' = answer
  <2>1. Traces' = [Traces EXCEPT ![c] = 1]
    BY <1>2, <1>3, TraceAdded
  <2>2. Ruling[req[c]].granted
    BY <1>1, ApprovedGranted DEF CallInv, Decided
  <2>3. Outcomes' = Outcomes
    BY <1>3, AnswersLeft
  <2> QED
    BY <1>1, <1>2, <2>1, <2>2, <2>3 DEF Contract!Trace
<1>4. CASE NotRecorded(c, "starting") /\ Answers(c, "EXEC_AUDIT_UNWRITABLE")
  <2>1. Traces' = Traces
    BY <1>4, RecordTorn, TracesLeft
  <2>2. Traces' = [Traces EXCEPT ![c] = 0]
    BY <1>2, <2>1 DEF Traces, Contract!Waiting
  <2>3. \E error : error \notin {"?", "", "EXEC_INTERNAL"} /\ Answers(c, error)
    BY <1>4
  <2>4. Outcomes' = [Outcomes EXCEPT ![c] = "refused"]
    BY <1>2, <2>3, AnswerTold
  <2> QED
    BY <1>1, <1>2, <2>2, <2>4 DEF Contract!TurnDown
<1> QED
  BY <1>1, <1>3, <1>4

LEMMA ChildRuns ==
    ASSUME TypeOK, NEW c \in Calls, CallInv(c), Counted(c), StartChild(c) \/ StartFails(c) \/ RunEnds(c)
    PROVE  Contract!Begin(c) \/ Contract!End(c) \/ UNCHANGED Contract!contractVars
<1>1. at[c] = "run" /\ req' = req /\ answer' = answer /\ log' = log
  BY DEF StartChild, StartFails, RunEnds, diskVars
<1>2. Contract!Waiting(c, 1) /\ Approved(c)
  BY <1>1, AnswerPending DEF CallInv, Decided
<1>3. Traces' = Traces /\ Outcomes' = Outcomes
  BY <1>1, LogLeft, AnswersLeft
<1>4. CASE StartChild(c)
  <2>1. ran' = [ran EXCEPT ![c] = Ruling[req[c]].argv]
    BY <1>2, <1>4, ApprovedGranted DEF StartChild
  <2>2. child[c] = "none" /\ child' = [child EXCEPT ![c] = "running"]
    BY <1>4 DEF StartChild
  <2> QED
    BY <1>1, <1>2, <1>3, <2>1, <2>2 DEF Contract!Begin
<1>5. CASE StartFails(c)
  BY <1>1, <1>5, Invisible DEF StartFails
<1>6. CASE RunEnds(c)
  <2>1. child[c] = "running" /\ child' = [child EXCEPT ![c] = "over"] /\ ran' = ran
    BY <1>6 DEF RunEnds
  <2> QED
    BY <1>1, <1>2, <1>3, <2>1 DEF Contract!End
<1> QED
  BY <1>4, <1>5, <1>6

LEMMA RecordFinalReports ==
    ASSUME TypeOK, NEW c \in Calls, CallInv(c), Counted(c), RecordFinal(c)
    PROVE  Contract!Report(c)
<1>1. /\ at[c] = "final" /\ req' = req /\ ran' = ran /\ child' = child
      /\ \/ Recorded(c, class[c]) /\ Answers(c, "")
         \/ NotRecorded(c, class[c]) /\ Answers(c, "EXEC_INTERNAL")
  BY DEF RecordFinal
<1>2. Contract!Waiting(c, 1) /\ answer[c] = "?" /\ \E i \in DOMAIN log : Records(c) = {i}
  BY <1>1, AnswerPending DEF Counted
<1>3. child[c] # "running"
  BY <1>1 DEF CallInv, Progress
<1>4. CASE Recorded(c, class[c]) /\ Answers(c, "")
  <2>1. Traces' = [Traces EXCEPT ![c] = 2]
    BY <1>2, <1>4, TraceAdded
  <2>2. Outcomes' = [Outcomes EXCEPT ![c] = "done"]
    BY <1>2, <1>4, AnswerTold
  <2> QED
    BY <1>1, <1>2, <1>3, <2>1, <2>2 DEF Contract!Report
<1>5. CASE NotRecorded(c, class[c]) /\ Answers(c, "EXEC_INTERNAL")
  <2>1. Traces' = Traces
    BY <1>5, RecordTorn, TracesLeft
  <2>2. Outcomes' = [Outcomes EXCEPT ![c] = "unrecorded"]
    BY <1>2, <1>5, AnswerTold
  <2> QED
    BY <1>1, <1>2, <1>3, <2>1, <2>2 DEF Contract!Report
<1> QED
  BY <1>1, <1>4, <1>5

LEMMA ContractStep ==
    ASSUME IInv, CountInv, [Next]_vars
    PROVE  [Contract!ContractNext]_(Contract!contractVars)
<1>1. TypeOK /\ \A c \in Calls : CallInv(c) /\ Counted(c)
  BY DEF IInv, CountInv
<1>2. ASSUME NEW c \in Calls, CallStep(c)
      PROVE  Contract!ContractNext \/ UNCHANGED Contract!contractVars
  <2>1. CASE InvalidTimeout(c) \/ PreflightFails(c)
    BY <1>1, <2>1, EarlyEndTurnsDown DEF Contract!ContractNext
  <2>2. CASE Gate(c) \/ Found(c) \/ NotFound(c) \/ ResolveFails(c) \/ Decide(c)
    BY <2>2, Invisible DEF Gate, Found, NotFound, ResolveFails, Decide, diskVars
  <2>3. CASE Refuse(c)
    BY <1>1, <2>3, RefuseTurnsDown DEF Contract!ContractNext
  <2>4. CASE RecordStart(c)
    BY <1>1, <2>4, RecordStartTraces DEF Contract!ContractNext
  <2>5. CASE StartChild(c) \/ StartFails(c) \/ RunEnds(c)
    BY <1>1, <2>5, ChildRuns DEF Contract!ContractNext
  <2>6. CASE RecordFinal(c)
    BY <1>1, <2>6, RecordFinalReports DEF Contract!ContractNext
  <2> QED
    BY <1>2, <2>1, <2>2, <2>3, <2>4, <2>5, <2>6 DEF CallStep
<1>3. CASE (\E c \in Calls : Die(c)) \/ DiskChanges \/ UNCHANGED vars
  BY <1>3, Invisible DEF Die, DiskChanges, vars, callVars, diskVars
<1> QED
  BY <1>2, <1>3 DEF Next

(* Calls that share a log and a disk, whose lookups fail and whose         *)
(* processes die, are calls of the contract: each is traced, run once with *)
(* the argv granted to its request, and answered, in that order.           *)
THEOREM CallHonoursContract == Spec => HonoursContract
<1>1. Init => Contract!ContractInit
  <2> SUFFICES ASSUME Init PROVE Contract!ContractInit
    OBVIOUS
  <2>1. \A c \in Calls : Traces[c] = 0 /\ Outcomes[c] = "nothing"
    BY CountInit, FS_EmptySet DEF Init, Traces, Outcomes, Told
  <2>2. Traces = [c \in Calls |-> 0] /\ Outcomes = [c \in Calls |-> "nothing"]
    BY <2>1 DEF Traces, Outcomes
  <2> QED
    BY <2>2 DEF Init, Contract!ContractInit, Ruling
<1>2. IInv /\ CountInv /\ [Next]_vars => (IInv /\ CountInv)'
  BY InvNext, CountNext DEF IInv
<1>3. IInv /\ CountInv /\ [Next]_vars => [Contract!ContractNext]_(Contract!contractVars)
  BY ContractStep
<1> QED
  BY <1>1, <1>2, <1>3, InvInit, CountInit, PTL DEF Spec, HonoursContract, Contract!ContractSpec
=============================================================================
