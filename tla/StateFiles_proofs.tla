------------------------- MODULE StateFiles_proofs --------------------------
(***************************************************************************)
(* For any number of processes, projects and texts: one secret, and no     *)
(* trust that was not asked for.                                           *)
(***************************************************************************)
EXTENDS StateFiles, TLAPS

Locking == {"find", "create", "write"}
Judging == {"ask", "setaside", "judge"}
Telling == {"recall", "putaside", "cuttrust", "filltrust"}

(* Who is past the lock holds it; while its owner fills a file that is     *)
(* short, nobody has read it.                                              *)
SecretInv ==
    /\ \A p \in Proc : proc[p].at \in Locking <=> locked = p
    /\ \A p \in Proc : proc[p].key = "none" \/ (proc[p].key = secret /\ secret # "absent")
    /\ \A p \in Proc : At(p, "write") => secret = "short" /\ \A q \in Proc : proc[q].key = "none"

(* Whatever says "trusted", in the file or in a copy of it, was asked for. *)
Asked(of) == \A q \in Project : of[q] = "absent" \/ <<q, of[q]>> \in asked

TrustFor(p) ==
    /\ Asked(proc[p].known)
    /\ proc[p].at \in Telling => <<Mine(p), proc[p].hash>> \in asked
    /\ proc[p].at \in Judging =>
           proc[p].hash # "absent" /\ (p \in stale \/ config[Mine(p)] = proc[p].hash)
    /\ At(p, "up") /\ p \notin stale =>
           proc[p].took \in {"nothing", "untrusted"} \/ <<Mine(p), proc[p].took>> \in asked

TrustInv == Asked(trust.of) /\ \A p \in Proc : TrustFor(p)

-----------------------------------------------------------------------------
(* Types.                                                                  *)

Place == Working \union {"new", "up", "told", "failed", "dead"}

ProcType ==
    [at : Place, project : Project, key : Proc \union {"none", "short"}, hash : Content,
     known : [Project -> Content], took : Content \union {"none", "nothing", "untrusted"}]

LEMMA ProcTyped == ASSUME TypeOK, NEW p \in Proc PROVE proc[p] \in ProcType
BY DEF TypeOK, ProcType, Place

LEMMA UntoldType == Untold \in [Project -> Content]
BY DEF Untold, Content

LEMMA TypeInit == Init => TypeOK
<1> SUFFICES ASSUME Init PROVE TypeOK
  OBVIOUS
<1>1. proc \in [Proc -> ProcType]
  BY UntoldType DEF Init, ProcType, Place, Content
<1>2. config \in [Project -> Content]
  BY DEF Init, Content
<1> QED
  BY <1>1, <1>2, UntoldType DEF Init, TypeOK, ProcType, Place

(* What p becomes in a step.                                               *)
Moves(p, where) == \E r \in ProcType : Becomes(p, r) /\ r.at = where

LEMMA MovesGoes ==
    ASSUME TypeOK, NEW p \in Proc, NEW where \in Place, Goes(p, where) PROVE Moves(p, where)
<1> DEFINE r == [proc[p] EXCEPT !.at = where]
<1>1. r \in ProcType /\ r.at = where
  BY ProcTyped DEF ProcType
<1> QED
  BY <1>1 DEF Goes, Moves

LEMMA MovesKey ==
    ASSUME TypeOK, NEW p \in Proc, NEW key \in Proc \union {"none", "short"},
           Becomes(p, [proc[p] EXCEPT !.at = "hash", !.key = key])
    PROVE  Moves(p, "hash")
<1> DEFINE r == [proc[p] EXCEPT !.at = "hash", !.key = key]
<1>1. r \in ProcType /\ r.at = "hash"
  BY ProcTyped DEF ProcType, Place, Working, LoadSteps
<1> QED
  BY <1>1 DEF Moves

LEMMA MovesTook ==
    ASSUME TypeOK, NEW p \in Proc, NEW took \in Content \union {"none", "nothing", "untrusted"},
           Becomes(p, [proc[p] EXCEPT !.at = "up", !.took = took])
    PROVE  Moves(p, "up")
<1> DEFINE r == [proc[p] EXCEPT !.at = "up", !.took = took]
<1>1. r \in ProcType /\ r.at = "up"
  BY ProcTyped DEF ProcType, Place
<1> QED
  BY <1>1 DEF Moves

LEMMA MovesHash ==
    ASSUME TypeOK, NEW p \in Proc, NEW where \in Place, NEW hash \in Content,
           Becomes(p, [proc[p] EXCEPT !.at = where, !.hash = hash])
    PROVE  Moves(p, where)
<1> DEFINE r == [proc[p] EXCEPT !.at = where, !.hash = hash]
<1>1. r \in ProcType /\ r.at = where
  BY ProcTyped DEF ProcType
<1> QED
  BY <1>1 DEF Moves

LEMMA MovesReads ==
    ASSUME TypeOK, NEW p \in Proc, NEW next \in Place, NEW aside \in Place, Reads(p, next, aside)
    PROVE  Moves(p, next) \/ Moves(p, aside) \/ Moves(p, "failed")
<1>1. CASE Goes(p, "failed")
  BY <1>1, MovesGoes DEF Place
<1>2. ASSUME NEW where \in {next, aside}, NEW known \in [Project -> Content],
             Becomes(p, [proc[p] EXCEPT !.at = where, !.known = known])
      PROVE  Moves(p, where)
  <2> DEFINE r == [proc[p] EXCEPT !.at = where, !.known = known]
  <2>1. r \in ProcType /\ r.at = where
    BY ProcTyped DEF ProcType
  <2> QED
    BY <1>2, <2>1 DEF Moves
<1>3. trust.of \in [Project -> Content]
  BY DEF TypeOK
<1> QED
  BY <1>1, <1>2, <1>3, UntoldType DEF Reads

(* A step of p that does not open trust.json.                              *)
Frame(p) ==
    /\ \E where \in Place \ {"filltrust"} : Moves(p, where) /\ holds' \subseteq holds \ {p}
    /\ secret' \in {secret, "short", p}
    /\ locked' \in {locked, NoProc, p}
    /\ config' = config \/ \E text \in {"blank", "template"} : config' = [config EXCEPT ![Mine(p)] = text]
    /\ trust' \in [kind : {"none", "cut", "torn", "json"}, of : [Project -> Content]]
    /\ edits' = edits /\ faults' \in {faults, faults + 1}
    /\ asked' \in {asked, asked \union {<<Mine(p), config[Mine(p)]>>}}
    /\ stale' \in {stale, stale \union Overtaken(Mine(p))}

LEMMA FrameType ==
    ASSUME TypeOK, NEW p \in Proc, Frame(p) PROVE TypeOK'
<1>1. PICK r \in ProcType : Becomes(p, r) /\ r.at # "filltrust" /\ holds' \subseteq holds \ {p}
  BY DEF Frame, Moves
<1>2. proc \in [Proc -> ProcType] /\ proc[p].project \in Project
  BY DEF TypeOK, ProcType, Place
<1>3. proc' \in [Proc -> ProcType]
  BY <1>1, <1>2 DEF Becomes
<1>4. holds' \subseteq {q \in Proc : At(q, "filltrust")'}
  BY <1>1, <1>2 DEF Becomes, At, TypeOK
<1>5. config' \in [Project -> Content]
  BY <1>2 DEF Frame, TypeOK, Content
<1>6. asked' \subseteq Project \X Content /\ stale' \subseteq Proc
  <2>1. Overtaken(Mine(p)) \subseteq Proc
    BY DEF Overtaken
  <2>2. <<Mine(p), config[Mine(p)]>> \in Project \X Content
    BY <1>2 DEF TypeOK, Mine
  <2> QED
    BY <2>1, <2>2 DEF Frame, TypeOK
<1>7. secret' \in Proc \union {"absent", "short"} /\ locked' \in Proc \union {NoProc}
  BY DEF Frame, TypeOK
<1>8. edits' \in Nat /\ faults' \in Nat
  BY DEF Frame, TypeOK
<1>9. trust' \in [kind : {"none", "cut", "torn", "json"}, of : [Project -> Content]]
  BY DEF Frame
<1> QED
  BY <1>3, <1>4, <1>5, <1>6, <1>7, <1>8, <1>9 DEF TypeOK, ProcType, Place

LEMMA HoldsOpen ==
    ASSUME TypeOK, NEW p \in Proc, ~ At(p, "filltrust"), UNCHANGED holds
    PROVE  holds' \subseteq holds \ {p}
BY DEF TypeOK

LEMMA TypeSecretStep ==
    ASSUME TypeOK, NEW p \in Proc, SecretStep(p) PROVE TypeOK'
<1> SUFFICES Frame(p)
  BY FrameType
<1>1. UNCHANGED <<config, trust, edits, asked, stale>> /\ holds' \subseteq holds \ {p}
  <2>1. UNCHANGED <<config, trust, holds, edits, asked, stale>> /\ ~ At(p, "filltrust")
    BY DEF SecretStep, LockSecret, FindSecret, CreateSecret, WriteSecret, trustVars, boundVars, historyVars, At
  <2> QED
    BY <2>1, HoldsOpen
<1>2. faults' \in {faults, faults + 1}
  BY DEF SecretStep, LockSecret, FindSecret, CreateSecret, WriteSecret, boundVars, Works, Faulty
<1>3. secret' \in {secret, "short", p} /\ locked' \in {locked, NoProc, p}
  BY DEF SecretStep, LockSecret, FindSecret, CreateSecret, WriteSecret, Returns, Gives, Unlocks
<1>4. trust \in [kind : {"none", "cut", "torn", "json"}, of : [Project -> Content]]
  BY DEF TypeOK
<1>5. \E where \in Place \ {"filltrust"} : Moves(p, where)
  <2>1. \/ \E where \in {"find", "create", "write", "failed"} : Goes(p, where)
        \/ secret # "absent" /\ Returns(p)
        \/ Becomes(p, [proc[p] EXCEPT !.at = "hash", !.key = p])
    BY DEF SecretStep, LockSecret, FindSecret, CreateSecret, WriteSecret, Gives
  <2>2. {"find", "create", "write", "failed", "hash"} \subseteq Place \ {"filltrust"}
    BY DEF Place, Working, SecretSteps, LoadSteps
  <2>3. CASE \E where \in {"find", "create", "write", "failed"} : Goes(p, where)
    BY <2>2, <2>3, MovesGoes
  <2>4. ASSUME NEW key \in Proc \union {"none", "short"}, Becomes(p, [proc[p] EXCEPT !.at = "hash", !.key = key])
        PROVE  Moves(p, "hash")
    BY <2>4, MovesKey
  <2>5. CASE secret # "absent" /\ Returns(p)
    <3>1. secret \in Proc \union {"none", "short"}
      BY <2>5 DEF TypeOK
    <3> QED
      BY <2>2, <2>4, <2>5, <3>1 DEF Returns
  <2>6. CASE Becomes(p, [proc[p] EXCEPT !.at = "hash", !.key = p])
    BY <2>2, <2>4, <2>6
  <2> QED
    BY <2>1, <2>3, <2>5, <2>6
<1> QED
  BY <1>1, <1>2, <1>3, <1>4, <1>5 DEF Frame

LEMMA EmptyTrust == [kind |-> "none", of |-> Untold] \in [kind : {"none", "cut", "torn", "json"}, of : [Project -> Content]]
BY UntoldType

LEMMA TypeLoadStep ==
    ASSUME TypeOK, NEW p \in Proc, LoadStep(p) PROVE TypeOK'
<1> SUFFICES Frame(p)
  BY FrameType
<1>1. UNCHANGED <<secret, locked, config, edits, asked, stale>>
  BY DEF LoadStep, HashConfig, AskTrust, SetAside, LoadConfig, boundVars, historyVars
<1>2. faults' \in {faults, faults + 1}
  BY DEF LoadStep, HashConfig, AskTrust, SetAside, LoadConfig, boundVars, Reads, Works, Faulty
<1>3. holds' \subseteq holds \ {p}
  <2>1. ~ At(p, "filltrust") /\ (UNCHANGED holds \/ holds' = {})
    BY DEF LoadStep, HashConfig, AskTrust, SetAside, LoadConfig, SetsAside, At, trustVars
  <2> QED
    BY <2>1, HoldsOpen
<1>4. trust' \in [kind : {"none", "cut", "torn", "json"}, of : [Project -> Content]]
  BY EmptyTrust DEF LoadStep, HashConfig, AskTrust, SetAside, LoadConfig, SetsAside, TypeOK, trustVars
<1>5. \E where \in Place \ {"filltrust"} : Moves(p, where)
  <2>1. {"ask", "judge", "setaside", "up", "failed"} \subseteq Place \ {"filltrust"}
    BY DEF Place, Working, LoadSteps
  <2>2. config[Mine(p)] \in Content
    BY ProcTyped DEF TypeOK, Mine, ProcType
  <2>3. CASE HashConfig(p)
    BY <2>1, <2>2, <2>3, MovesTook, MovesHash DEF HashConfig
  <2>4. CASE AskTrust(p)
    BY <2>1, <2>4, MovesReads DEF AskTrust
  <2>5. CASE SetAside(p)
    BY <2>1, <2>5, MovesGoes DEF SetAside, SetsAside
  <2>6. CASE LoadConfig(p)
    BY <2>1, <2>2, <2>6, MovesGoes, MovesTook DEF LoadConfig
  <2> QED
    BY <2>3, <2>4, <2>5, <2>6 DEF LoadStep
<1> QED
  BY <1>1, <1>2, <1>3, <1>4, <1>5 DEF Frame

LEMMA EntriesType == ASSUME TypeOK, NEW p \in Proc PROVE Entries(p) \in [Project -> Content]
BY ProcTyped DEF Entries, ProcType, Mine

LEMMA TypeFillTrust ==
    ASSUME TypeOK, NEW p \in Proc, FillTrust(p) PROVE TypeOK'
<1> SUFFICES Frame(p)
  BY FrameType
<1>1. \E where \in Place \ {"filltrust"} : Moves(p, where)
  <2>1. {"told", "failed"} \subseteq Place \ {"filltrust"}
    BY DEF Place
  <2> QED
    BY <2>1, MovesGoes DEF FillTrust
<1>2. trust' \in [kind : {"none", "cut", "torn", "json"}, of : [Project -> Content]]
  BY EntriesType, UntoldType DEF FillTrust, TypeOK
<1> QED
  BY <1>1, <1>2 DEF FillTrust, Frame, historyVars, Works, Faulty

LEMMA TypeCutTrust ==
    ASSUME TypeOK, NEW p \in Proc, CutTrust(p) PROVE TypeOK'
<1>1. CASE UNCHANGED trustVars /\ Goes(p, "failed")
  <2>1. Moves(p, "failed")
    BY <1>1, MovesGoes DEF Place
  <2>2. holds' \subseteq holds \ {p}
    BY <1>1, HoldsOpen DEF CutTrust, At, trustVars
  <2>3. "failed" \in Place \ {"filltrust"} /\ trust' = trust
    BY <1>1 DEF Place, trustVars
  <2>4. trust \in [kind : {"none", "cut", "torn", "json"}, of : [Project -> Content]]
    BY DEF TypeOK
  <2>5. Frame(p)
    BY <2>1, <2>2, <2>3, <2>4 DEF CutTrust, Frame, historyVars, Works, Faulty
  <2> QED
    BY <2>5, FrameType
<1>2. CASE Goes(p, "filltrust") /\ Works /\ trust' = [kind |-> "cut", of |-> Untold] /\ holds' = holds \union {p}
  <2>1. PICK r \in ProcType : Becomes(p, r) /\ r.at = "filltrust"
    BY <1>2, MovesGoes DEF Moves, Place, Working, TrustSteps
  <2>2. proc \in [Proc -> ProcType]
    BY DEF TypeOK, ProcType, Place
  <2>3. proc' \in [Proc -> ProcType] /\ holds' \subseteq {q \in Proc : At(q, "filltrust")'}
    BY <1>2, <2>1, <2>2 DEF Becomes, At, TypeOK
  <2> QED
    BY <1>2, <2>3, UntoldType DEF CutTrust, TypeOK, ProcType, Place, Works, historyVars
<1> QED
  BY <1>1, <1>2 DEF CutTrust

LEMMA TypeTrustStep ==
    ASSUME TypeOK, NEW p \in Proc, TrustStep(p) PROVE TypeOK'
<1>1. ASSUME InitFiles(p) \/ CutConfig(p) \/ FillConfig(p) \/ HashTrusted(p) \/ RecallTrust(p) \/ PutAside(p)
      PROVE  Frame(p)
  <2>1. UNCHANGED <<secret, locked, edits>>
    BY <1>1 DEF InitFiles, CutConfig, FillConfig, HashTrusted, RecallTrust, PutAside, boundVars
  <2>2. faults' \in {faults, faults + 1}
    BY <1>1 DEF InitFiles, CutConfig, FillConfig, HashTrusted, RecallTrust, PutAside, boundVars, Reads, Works, Faulty
  <2>3. holds' \subseteq holds \ {p}
    <3>1. ~ At(p, "filltrust") /\ (UNCHANGED holds \/ holds' = {})
      BY <1>1 DEF InitFiles, CutConfig, FillConfig, HashTrusted, RecallTrust, PutAside, SetsAside, At, trustVars
    <3> QED
      BY <3>1, HoldsOpen
  <2>4. trust' \in [kind : {"none", "cut", "torn", "json"}, of : [Project -> Content]]
    BY <1>1, EmptyTrust DEF InitFiles, CutConfig, FillConfig, HashTrusted, RecallTrust, PutAside, SetsAside, TypeOK, trustVars
  <2>5. /\ config' = config \/ \E text \in {"blank", "template"} : config' = [config EXCEPT ![Mine(p)] = text]
        /\ stale' \in {stale, stale \union Overtaken(Mine(p))}
        /\ asked' \in {asked, asked \union {<<Mine(p), config[Mine(p)]>>}}
    BY <1>1 DEF InitFiles, CutConfig, FillConfig, HashTrusted, RecallTrust, PutAside, Rewrites, historyVars
  <2>6. \E where \in Place \ {"filltrust"} : Moves(p, where)
    <3>1. {"cutconfig", "hashit", "fillconfig", "recall", "cuttrust", "putaside", "failed"} \subseteq Place \ {"filltrust"}
      BY DEF Place, Working, TrustSteps
    <3>2. config[Mine(p)] \in Content
      BY ProcTyped DEF TypeOK, Mine, ProcType
    <3>3. CASE InitFiles(p) \/ CutConfig(p) \/ FillConfig(p) \/ PutAside(p)
      BY <3>1, <3>3, MovesGoes DEF InitFiles, CutConfig, FillConfig, PutAside, SetsAside
    <3>4. CASE HashTrusted(p)
      BY <3>1, <3>2, <3>4, MovesHash DEF HashTrusted
    <3>5. CASE RecallTrust(p)
      BY <3>1, <3>5, MovesReads DEF RecallTrust
    <3> QED
      BY <1>1, <3>3, <3>4, <3>5
  <2> QED
    BY <2>1, <2>2, <2>3, <2>4, <2>5, <2>6 DEF Frame
<1> QED
  BY <1>1, FrameType, TypeCutTrust, TypeFillTrust DEF TrustStep

LEMMA TypeLaunch ==
    ASSUME TypeOK, NEW p \in Proc, Launch(p) \/ Crash(p) PROVE TypeOK'
<1>1. trust \in [kind : {"none", "cut", "torn", "json"}, of : [Project -> Content]]
  BY DEF TypeOK
<1>2. {"lock", "init", "dead"} \subseteq Place \ {"filltrust"}
  BY DEF Place, Working, SecretSteps, TrustSteps
<1>3. \E where \in Place \ {"filltrust"} : Moves(p, where)
  BY <1>2, MovesGoes DEF Launch, Crash
<1>4. holds' \subseteq holds \ {p}
  BY HoldsOpen DEF Launch, Crash, At, trustVars
<1>5. Frame(p)
  BY <1>1, <1>3, <1>4 DEF Frame, Launch, Crash, trustVars, boundVars, historyVars, Unlocks
<1> QED
  BY <1>5, FrameType

LEMMA TypeEdit ==
    ASSUME TypeOK, NEW q \in Project, NEW text \in Text, Edit(q, text) PROVE TypeOK'
<1>1. Overtaken(q) \subseteq Proc
  BY DEF Overtaken
<1>2. config' \in [Project -> Content]
  BY DEF Edit, Rewrites, TypeOK, Content
<1> QED
  BY <1>1, <1>2 DEF Edit, Rewrites, TypeOK, trustVars, At

LEMMA TypeNext == TypeOK /\ [Next]_vars => TypeOK'
<1> SUFFICES ASSUME TypeOK, [Next]_vars PROVE TypeOK'
  OBVIOUS
<1>1. CASE Next
  BY <1>1, TypeLaunch, TypeSecretStep, TypeLoadStep, TypeTrustStep, TypeEdit DEF Next
<1>2. CASE UNCHANGED vars
  BY <1>2 DEF TypeOK, vars, trustVars, boundVars, historyVars, At
<1> QED
  BY <1>1, <1>2

(* Every variable keeps its type, however many processes race.             *)
THEOREM StateTyping == Spec => []TypeOK
BY TypeInit, TypeNext, PTL DEF Spec

-----------------------------------------------------------------------------
(* One secret.                                                             *)

LEMMA BecomesOnly ==
    ASSUME TypeOK, NEW p \in Proc, NEW r, Becomes(p, r)
    PROVE  proc'[p] = r /\ \A q \in Proc \ {p} : proc'[q] = proc[q]
BY DEF TypeOK, Becomes

(* What a step leaves of the record of p, and where p is after it.         *)
KeepsKey(p) ==
    /\ proc'[p].key = proc[p].key
    /\ \A q \in Proc \ {p} : proc'[q] = proc[q]

LEMMA GoesOnly ==
    ASSUME TypeOK, NEW p \in Proc, NEW where, Goes(p, where)
    PROVE  /\ proc'[p].at = where /\ proc'[p].key = proc[p].key /\ proc'[p].hash = proc[p].hash
           /\ proc'[p].known = proc[p].known /\ proc'[p].took = proc[p].took
           /\ proc'[p].project = proc[p].project
           /\ \A q \in Proc \ {p} : proc'[q] = proc[q]
<1>1. proc[p] \in ProcType
  BY ProcTyped
<1>2. proc'[p] = [proc[p] EXCEPT !.at = where] /\ \A q \in Proc \ {p} : proc'[q] = proc[q]
  BY BecomesOnly DEF Goes
<1> QED
  BY <1>1, <1>2 DEF ProcType

LEMMA SecretOutside ==
    ASSUME TypeOK, SecretInv, NEW p \in Proc, KeepsKey(p), UNCHANGED <<secret, locked>>,
           proc[p].at \notin Locking, proc'[p].at \notin Locking
    PROVE  SecretInv'
<1>1. \A q \in Proc : (proc'[q].at \in Locking <=> proc[q].at \in Locking) /\ proc'[q].key = proc[q].key
  BY DEF KeepsKey
<1>2. \A q \in Proc : At(q, "write")' => At(q, "write")
  BY DEF KeepsKey, At, Locking
<1> QED
  BY <1>1, <1>2 DEF SecretInv

(* The holder leaves with what it had, or with what is in the file.        *)
LEMMA SecretGivenBack ==
    ASSUME TypeOK, SecretInv, NEW p \in Proc, proc[p].at \in Locking, Unlocks(p),
           proc'[p].at \notin Locking, \A q \in Proc \ {p} : proc'[q] = proc[q],
           proc'[p].key \in {proc[p].key, secret'},
           secret' = "absent" => proc'[p].key = proc[p].key,
           secret' = secret \/ At(p, "write")
    PROVE  SecretInv'
<1>1. locked = p /\ locked' = NoProc
  BY DEF SecretInv, Unlocks
<1>2. \A q \in Proc : proc'[q].at \notin Locking
  BY <1>1 DEF SecretInv
<1>3. \A q \in Proc : locked' # q
  BY <1>1, StateAssumption
<1>4. \A q \in Proc : ~ At(q, "write")'
  BY <1>2 DEF At, Locking
<1>5. \A q \in Proc : proc'[q].key = "none" \/ (proc'[q].key = secret' /\ secret' # "absent")
  BY DEF SecretInv
<1> QED
  BY <1>2, <1>3, <1>4, <1>5 DEF SecretInv

LEMMA SecretLock ==
    ASSUME TypeOK, SecretInv, NEW p \in Proc, LockSecret(p) PROVE SecretInv'
<1>1. /\ proc'[p].at = "find" /\ KeepsKey(p) /\ locked = NoProc /\ locked' = p /\ secret' = secret
  BY GoesOnly DEF LockSecret, KeepsKey
<1>2. \A q \in Proc : proc[q].at \notin Locking
  BY <1>1, StateAssumption DEF SecretInv
<1>3. \A q \in Proc : ~ At(q, "write")'
  BY <1>1, <1>2 DEF KeepsKey, At, Locking
<1>4. \A q \in Proc : proc'[q].at \in Locking <=> locked' = q
  BY <1>1, <1>2 DEF KeepsKey, Locking
<1> QED
  BY <1>1, <1>3, <1>4 DEF SecretInv, KeepsKey

LEMMA SecretFindToCreate ==
    ASSUME TypeOK, SecretInv, NEW p \in Proc, At(p, "find"), Goes(p, "create"), UNCHANGED <<secret, locked>>
    PROVE  SecretInv'
<1>1. proc'[p].at = "create" /\ KeepsKey(p)
  BY GoesOnly DEF KeepsKey
<1> QED
  BY <1>1 DEF SecretInv, KeepsKey, At, Locking

LEMMA SecretCreated ==
    ASSUME TypeOK, SecretInv, NEW p \in Proc, At(p, "create"), Goes(p, "write"),
           secret = "absent", secret' = "short", UNCHANGED locked
    PROVE  SecretInv'
<1>1. proc'[p].at = "write" /\ KeepsKey(p)
  BY GoesOnly DEF KeepsKey
<1>2. \A q \in Proc : proc'[q].key = "none"
  BY <1>1 DEF KeepsKey, SecretInv
<1>3. \A q \in Proc : proc'[q].at \in Locking <=> locked' = q
  BY <1>1 DEF SecretInv, KeepsKey, At, Locking
<1> QED
  BY <1>2, <1>3 DEF SecretInv, At

LEMMA SecretReturns ==
    ASSUME TypeOK, SecretInv, NEW p \in Proc, proc[p].at \in Locking, UNCHANGED secret,
           (secret # "absent" /\ Returns(p)) \/ Gives(p)
    PROVE  SecretInv'
<1>1. CASE secret # "absent" /\ Returns(p)
  <2>1. proc'[p] = [proc[p] EXCEPT !.at = "hash", !.key = secret] /\ \A q \in Proc \ {p} : proc'[q] = proc[q]
    BY <1>1, BecomesOnly DEF Returns
  <2>2. proc'[p].at = "hash" /\ proc'[p].key = secret
    BY <2>1, ProcTyped DEF ProcType
  <2> QED
    BY <1>1, <2>1, <2>2, SecretGivenBack DEF Returns, Locking
<1>2. CASE Gives(p)
  <2>1. proc'[p].at = "failed" /\ KeepsKey(p) /\ Unlocks(p)
    BY <1>2, GoesOnly DEF Gives, KeepsKey
  <2> QED
    BY <2>1, SecretGivenBack DEF KeepsKey, Locking
<1> QED
  BY <1>1, <1>2

LEMMA SecretWritten ==
    ASSUME TypeOK, SecretInv, NEW p \in Proc, WriteSecret(p) PROVE SecretInv'
<1>1. proc[p].at \in Locking /\ Unlocks(p) /\ secret' # "absent"
  BY StateAssumption DEF WriteSecret, Gives, At, Locking
<1>2. CASE secret' = p /\ Becomes(p, [proc[p] EXCEPT !.at = "hash", !.key = p])
  <2>1. proc'[p] = [proc[p] EXCEPT !.at = "hash", !.key = p] /\ \A q \in Proc \ {p} : proc'[q] = proc[q]
    BY <1>2, BecomesOnly
  <2>2. proc'[p].at = "hash" /\ proc'[p].key = p
    BY <2>1, ProcTyped DEF ProcType
  <2> QED
    BY <1>1, <1>2, <2>1, <2>2, SecretGivenBack DEF WriteSecret, Locking
<1>3. CASE Gives(p)
  <2>1. proc'[p].at = "failed" /\ KeepsKey(p)
    BY <1>3, GoesOnly DEF Gives, KeepsKey
  <2> QED
    BY <1>1, <2>1, SecretGivenBack DEF WriteSecret, KeepsKey, Locking
<1> QED
  BY <1>2, <1>3 DEF WriteSecret

Hashes(p, where, hash) == Becomes(p, [proc[p] EXCEPT !.at = where, !.hash = hash])

LEMMA HashOnly ==
    ASSUME TypeOK, NEW p \in Proc, NEW where, NEW hash,
           Hashes(p, where, hash)
    PROVE  /\ proc'[p].at = where /\ proc'[p].hash = hash
           /\ proc'[p].project = proc[p].project /\ proc'[p].key = proc[p].key /\ proc'[p].known = proc[p].known /\ proc'[p].took = proc[p].took
           /\ \A q \in Proc \ {p} : proc'[q] = proc[q]
<1>1. proc[p] \in ProcType
  BY ProcTyped
<1>2. proc'[p] = [proc[p] EXCEPT !.at = where, !.hash = hash] /\ \A q \in Proc \ {p} : proc'[q] = proc[q]
  BY BecomesOnly DEF Hashes
<1> QED
  BY <1>1, <1>2 DEF ProcType

Knows(p, where, known) == Becomes(p, [proc[p] EXCEPT !.at = where, !.known = known])

LEMMA KnownOnly ==
    ASSUME TypeOK, NEW p \in Proc, NEW where, NEW known,
           Knows(p, where, known)
    PROVE  /\ proc'[p].at = where /\ proc'[p].known = known
           /\ proc'[p].project = proc[p].project /\ proc'[p].key = proc[p].key /\ proc'[p].hash = proc[p].hash /\ proc'[p].took = proc[p].took
           /\ \A q \in Proc \ {p} : proc'[q] = proc[q]
<1>1. proc[p] \in ProcType
  BY ProcTyped
<1>2. proc'[p] = [proc[p] EXCEPT !.at = where, !.known = known] /\ \A q \in Proc \ {p} : proc'[q] = proc[q]
  BY BecomesOnly DEF Knows
<1> QED
  BY <1>1, <1>2 DEF ProcType

Takes(p, where, took) == Becomes(p, [proc[p] EXCEPT !.at = where, !.took = took])

LEMMA TookOnly ==
    ASSUME TypeOK, NEW p \in Proc, NEW where, NEW took,
           Takes(p, where, took)
    PROVE  /\ proc'[p].at = where /\ proc'[p].took = took
           /\ proc'[p].project = proc[p].project /\ proc'[p].key = proc[p].key /\ proc'[p].hash = proc[p].hash /\ proc'[p].known = proc[p].known
           /\ \A q \in Proc \ {p} : proc'[q] = proc[q]
<1>1. proc[p] \in ProcType
  BY ProcTyped
<1>2. proc'[p] = [proc[p] EXCEPT !.at = where, !.took = took] /\ \A q \in Proc \ {p} : proc'[q] = proc[q]
  BY BecomesOnly DEF Takes
<1> QED
  BY <1>1, <1>2 DEF ProcType

LEMMA ReadsOnly ==
    ASSUME TypeOK, NEW p \in Proc, NEW next, NEW aside, Reads(p, next, aside)
    PROVE  /\ proc'[p].at \in {next, aside, "failed"}
           /\ proc'[p].project = proc[p].project /\ proc'[p].key = proc[p].key
           /\ proc'[p].hash = proc[p].hash /\ proc'[p].took = proc[p].took
           /\ proc'[p].known \in {proc[p].known, trust.of, Untold}
           /\ \A q \in Proc \ {p} : proc'[q] = proc[q]
<1>1. CASE Goes(p, "failed")
  BY <1>1, GoesOnly
<1>2. ASSUME NEW where \in {next, aside}, NEW known \in {trust.of, Untold},
             Knows(p, where, known)
      PROVE  /\ proc'[p].at = where /\ proc'[p].known = known
             /\ proc'[p].project = proc[p].project /\ proc'[p].key = proc[p].key
             /\ proc'[p].hash = proc[p].hash /\ proc'[p].took = proc[p].took
             /\ \A q \in Proc \ {p} : proc'[q] = proc[q]
  BY <1>2, KnownOnly
<1> QED
  BY <1>1, <1>2 DEF Reads, Knows

LEMMA SecretNext == TypeOK /\ SecretInv /\ [Next]_vars => SecretInv'
<1> SUFFICES ASSUME TypeOK, SecretInv, [Next]_vars PROVE SecretInv'
  OBVIOUS
<1>1. ASSUME NEW p \in Proc, SecretStep(p) PROVE SecretInv'
  <2>1. CASE LockSecret(p)
    BY <2>1, SecretLock
  <2>2. CASE FindSecret(p)
    <3>1. UNCHANGED secret /\ proc[p].at \in Locking
      BY <2>2 DEF FindSecret, At, Locking
    <3> QED
      BY <2>2, <3>1, SecretFindToCreate, SecretReturns DEF FindSecret
  <2>3. CASE CreateSecret(p)
    <3>1. proc[p].at \in Locking
      BY <2>3 DEF CreateSecret, At, Locking
    <3> QED
      BY <2>3, <3>1, SecretCreated, SecretReturns DEF CreateSecret
  <2>4. CASE WriteSecret(p)
    BY <2>4, SecretWritten
  <2> QED
    BY <1>1, <2>1, <2>2, <2>3, <2>4 DEF SecretStep
<1>2. ASSUME NEW p \in Proc, LoadStep(p) PROVE SecretInv'
  <2>1. UNCHANGED <<secret, locked>> /\ proc[p].at \notin Locking
    BY <1>2 DEF LoadStep, HashConfig, AskTrust, SetAside, LoadConfig, At, Locking
  <2>2. proc'[p].at \notin Locking /\ KeepsKey(p)
    <3>1. CASE HashConfig(p)
      <4>1. Takes(p, "up", "nothing") \/ Hashes(p, "ask", config[Mine(p)])
        BY <3>1 DEF HashConfig, Takes, Hashes
      <4> QED
        BY <4>1, TookOnly, HashOnly DEF KeepsKey, Locking
    <3>2. CASE AskTrust(p)
      BY <3>2, ReadsOnly DEF AskTrust, KeepsKey, Locking
    <3>3. CASE SetAside(p)
      BY <3>3, GoesOnly DEF SetAside, SetsAside, KeepsKey, Locking
    <3>4. CASE LoadConfig(p)
      <4>1. Goes(p, "failed") \/ \E taken \in Content \union {"nothing", "untrusted"} : Takes(p, "up", taken)
        <5>1. config[Mine(p)] \in Content
          BY ProcTyped DEF TypeOK, Mine, ProcType
        <5> QED
          BY <3>4, <5>1 DEF LoadConfig, Takes
      <4> QED
        BY <4>1, GoesOnly, TookOnly DEF KeepsKey, Locking
    <3> QED
      BY <1>2, <3>1, <3>2, <3>3, <3>4 DEF LoadStep
  <2> QED
    BY <2>1, <2>2, SecretOutside
<1>3. ASSUME NEW p \in Proc, TrustStep(p) PROVE SecretInv'
  <2>1. UNCHANGED <<secret, locked>> /\ proc[p].at \notin Locking
    BY <1>3 DEF TrustStep, InitFiles, CutConfig, FillConfig, HashTrusted, RecallTrust, PutAside, CutTrust, FillTrust, At, Locking
  <2>2. proc'[p].at \notin Locking /\ KeepsKey(p)
    <3>1. CASE HashTrusted(p)
      <4>1. Hashes(p, "recall", config[Mine(p)])
        BY <3>1 DEF HashTrusted, Hashes
      <4> QED
        BY <4>1, HashOnly DEF KeepsKey, Locking
    <3>2. CASE RecallTrust(p)
      BY <3>2, ReadsOnly DEF RecallTrust, KeepsKey, Locking
    <3>3. CASE \E where \in {"cutconfig", "hashit", "fillconfig", "cuttrust", "filltrust", "told", "failed"} : Goes(p, where)
      BY <3>3, GoesOnly DEF KeepsKey, Locking
    <3> QED
      BY <1>3, <3>1, <3>2, <3>3 DEF TrustStep, InitFiles, CutConfig, FillConfig, PutAside, SetsAside, CutTrust, FillTrust
  <2> QED
    BY <2>1, <2>2, SecretOutside
<1>4. ASSUME NEW p \in Proc, Launch(p) PROVE SecretInv'
  <2>1. UNCHANGED <<secret, locked>> /\ proc[p].at \notin Locking
    BY <1>4 DEF Launch, At, Locking
  <2>2. proc'[p].at \notin Locking /\ KeepsKey(p)
    BY <1>4, GoesOnly DEF Launch, KeepsKey, Locking
  <2> QED
    BY <2>1, <2>2, SecretOutside
<1>5. ASSUME NEW p \in Proc, Crash(p) PROVE SecretInv'
  <2>1. proc'[p].at = "dead" /\ KeepsKey(p) /\ Unlocks(p) /\ UNCHANGED secret
    BY <1>5, GoesOnly DEF Crash, KeepsKey
  <2>2. CASE proc[p].at \in Locking
    BY <2>1, <2>2, SecretGivenBack DEF KeepsKey, Locking
  <2>3. CASE proc[p].at \notin Locking
    <3>1. UNCHANGED locked
      BY <2>1, <2>3 DEF SecretInv, Unlocks
    <3> QED
      BY <2>1, <2>3, <3>1, SecretOutside DEF Locking
  <2> QED
    BY <2>2, <2>3
<1>6. ASSUME NEW q \in Project, NEW text \in Text, Edit(q, text) PROVE SecretInv'
  BY <1>6 DEF Edit, SecretInv, At
<1>7. CASE UNCHANGED vars
  BY <1>7 DEF vars, SecretInv, At
<1> QED
  BY <1>1, <1>2, <1>3, <1>4, <1>5, <1>6, <1>7 DEF Next

LEMMA SecretInit == Init => SecretInv
<1> SUFFICES ASSUME Init PROVE SecretInv
  OBVIOUS
<1>1. \A p \in Proc : proc[p].at = "new" /\ proc[p].key = "none"
  BY DEF Init
<1>2. \A p \in Proc : locked # p
  BY StateAssumption DEF Init
<1> QED
  BY <1>1, <1>2 DEF SecretInv, At, Locking

(* Whatever processes start, fail and die while the secret is drawn, those *)
(* that have one have the one that is in the file.                         *)
THEOREM StateOneSecret == Spec => []OneSecret
<1>1. SecretInv => OneSecret
  BY DEF SecretInv, OneSecret
<1> QED
  BY <1>1, SecretInit, SecretNext, StateTyping, PTL DEF Spec

-----------------------------------------------------------------------------
(* What is taken was trusted.                                              *)

Grows == asked \subseteq asked' /\ stale \subseteq stale'

LEMMA AskedStays == ASSUME Grows, NEW of, Asked(of) PROVE \A q \in Project : of[q] = "absent" \/ <<q, of[q]>> \in asked'
BY DEF Grows, Asked

LEMMA UntoldAsked == \A q \in Project : Untold[q] = "absent"
BY DEF Untold

(* Who takes no step loses nothing, if a write of its file is recorded.    *)
LEMMA TrustBystander ==
    ASSUME TypeOK, TrustInv, Grows, NEW q \in Proc, proc'[q] = proc[q],
           config'[Mine(q)] = config[Mine(q)] \/ Overtaken(Mine(q)) \subseteq stale'
    PROVE  TrustFor(q)'
<1>1. TrustFor(q)
  BY DEF TrustInv
<1>2. Asked(proc[q].known)'
  BY <1>1, AskedStays DEF TrustFor, Asked
<1>3. proc[q].at \in Judging => q \in Overtaken(Mine(q))
  BY DEF Overtaken, Judging
<1> QED
  BY <1>1, <1>2, <1>3 DEF TrustFor, Mine, At, Grows

LEMMA TrustOfStays ==
    ASSUME TrustInv, Grows, UNCHANGED trust \/ trust'.of = Untold PROVE Asked(trust.of)'
<1>1. CASE UNCHANGED trust
  BY <1>1, AskedStays DEF TrustInv, Asked
<1>2. CASE trust'.of = Untold
  BY <1>2, UntoldAsked DEF Asked
<1> QED
  BY <1>1, <1>2

(* A step that is neither an edit nor a rewrite.                           *)
LEMMA TrustOthers ==
    ASSUME TypeOK, TrustInv, Grows, UNCHANGED config, NEW p \in Proc,
           \A q \in Proc \ {p} : proc'[q] = proc[q], TrustFor(p)', Asked(trust.of)'
    PROVE  TrustInv'
BY TrustBystander DEF TrustInv

(* Where nothing is told, judged or taken, only the copy of p matters.     *)
LEMMA TrustAside ==
    ASSUME TypeOK, TrustInv, Grows, NEW p \in Proc, proc'[p].at \notin Telling \union Judging \union {"up"},
           proc'[p].known = proc[p].known
    PROVE  TrustFor(p)'
<1>1. Asked(proc[p].known)'
  BY AskedStays DEF TrustInv, TrustFor, Asked
<1> QED
  BY <1>1 DEF TrustFor, Asked, At

LEMMA TrustSecretStep ==
    ASSUME TypeOK, TrustInv, NEW p \in Proc, SecretStep(p) \/ Launch(p) \/ Crash(p) PROVE TrustInv'
<1>1. UNCHANGED <<config, trust, asked, stale>>
  BY DEF SecretStep, LockSecret, FindSecret, CreateSecret, WriteSecret, Launch, Crash, trustVars, historyVars
<1>2. /\ proc'[p].at \notin Telling \union Judging \union {"up"} /\ proc'[p].known = proc[p].known
      /\ \A q \in Proc \ {p} : proc'[q] = proc[q]
  <2>1. CASE \E where \in {"lock", "init", "find", "create", "write", "failed", "dead"} : Goes(p, where)
    BY <2>1, GoesOnly DEF Telling, Judging
  <2>2. ASSUME NEW key, Becomes(p, [proc[p] EXCEPT !.at = "hash", !.key = key])
        PROVE  proc'[p].at = "hash" /\ proc'[p].known = proc[p].known /\ \A q \in Proc \ {p} : proc'[q] = proc[q]
    <3>1. proc'[p] = [proc[p] EXCEPT !.at = "hash", !.key = key] /\ \A q \in Proc \ {p} : proc'[q] = proc[q]
      BY <2>2, BecomesOnly
    <3> QED
      BY <3>1, ProcTyped DEF ProcType
  <2>3. \/ \E where \in {"lock", "init", "find", "create", "write", "failed", "dead"} : Goes(p, where)
        \/ Becomes(p, [proc[p] EXCEPT !.at = "hash", !.key = secret])
        \/ Becomes(p, [proc[p] EXCEPT !.at = "hash", !.key = p])
    BY DEF SecretStep, LockSecret, FindSecret, CreateSecret, WriteSecret, Launch, Crash, Returns, Gives
  <2> QED
    BY <2>1, <2>2, <2>3 DEF Telling, Judging
<1>3. Grows
  BY <1>1 DEF Grows
<1> QED
  BY <1>1, <1>2, <1>3, TrustAside, TrustOthers, TrustOfStays

LEMMA TrustHashConfig ==
    ASSUME TypeOK, TrustInv, NEW p \in Proc, HashConfig(p) PROVE TrustInv'
<1>1. UNCHANGED <<config, trust, asked, stale>> /\ Grows
  BY DEF HashConfig, trustVars, historyVars, Grows
<1>2. CASE config[Mine(p)] = "absent" /\ Takes(p, "up", "nothing")
  <2>1. /\ proc'[p].at = "up" /\ proc'[p].took = "nothing" /\ proc'[p].known = proc[p].known
        /\ \A q \in Proc \ {p} : proc'[q] = proc[q]
    BY <1>2, TookOnly
  <2>2. TrustFor(p)'
    BY <1>1, <2>1, AskedStays DEF TrustInv, TrustFor, Asked, Telling, Judging
  <2> QED
    BY <1>1, <2>1, <2>2, TrustOthers, TrustOfStays
<1>3. CASE config[Mine(p)] # "absent" /\ Hashes(p, "ask", config[Mine(p)])
  <2>1. /\ proc'[p].at = "ask" /\ proc'[p].hash = config[Mine(p)] /\ proc'[p].known = proc[p].known
        /\ proc'[p].project = proc[p].project
        /\ \A q \in Proc \ {p} : proc'[q] = proc[q]
    BY <1>3, HashOnly
  <2>2. TrustFor(p)'
    BY <1>1, <1>3, <2>1, AskedStays DEF TrustInv, TrustFor, Asked, Telling, Mine, At
  <2> QED
    BY <1>1, <2>1, <2>2, TrustOthers, TrustOfStays
<1> QED
  BY <1>2, <1>3 DEF HashConfig, Takes, Hashes

(* A read of trust.json: what it says, or nothing, was asked for.          *)
LEMMA TrustReads ==
    ASSUME TypeOK, TrustInv, Grows, NEW p \in Proc, NEW next, NEW aside, Reads(p, next, aside)
    PROVE  Asked(proc[p].known)'
<1>1. proc'[p].known \in {proc[p].known, trust.of, Untold}
  BY ReadsOnly
<1>2. \A q \in Project : proc'[p].known[q] = "absent" \/ <<q, proc'[p].known[q]>> \in asked'
  BY <1>1, AskedStays, UntoldAsked DEF TrustInv, TrustFor
<1> QED
  BY <1>2 DEF Asked

LEMMA TrustAskTrust ==
    ASSUME TypeOK, TrustInv, NEW p \in Proc, AskTrust(p) PROVE TrustInv'
<1>1. UNCHANGED <<config, trust, asked, stale>> /\ Grows /\ proc[p].at \in Judging
  BY DEF AskTrust, trustVars, historyVars, Grows, At, Judging
<1>2. /\ proc'[p].at \in {"judge", "setaside", "failed"} /\ proc'[p].hash = proc[p].hash
      /\ proc'[p].project = proc[p].project
      /\ \A q \in Proc \ {p} : proc'[q] = proc[q]
  BY ReadsOnly DEF AskTrust
<1>3. Asked(proc[p].known)'
  BY <1>1, TrustReads DEF AskTrust
<1>4. TrustFor(p)'
  BY <1>1, <1>2, <1>3 DEF TrustInv, TrustFor, Asked, Telling, Mine, At
<1> QED
  BY <1>1, <1>2, <1>4, TrustOthers, TrustOfStays

LEMMA TrustSetAside ==
    ASSUME TypeOK, TrustInv, NEW p \in Proc, SetAside(p) PROVE TrustInv'
<1>1. UNCHANGED <<config, asked, stale>> /\ Grows /\ proc[p].at \in Judging /\ trust'.of = Untold
  BY DEF SetAside, SetsAside, historyVars, Grows, At, Judging
<1>2. /\ proc'[p].at = "judge" /\ proc'[p].hash = proc[p].hash /\ proc'[p].known = proc[p].known
      /\ proc'[p].project = proc[p].project
      /\ \A q \in Proc \ {p} : proc'[q] = proc[q]
  BY GoesOnly DEF SetAside, SetsAside
<1>3. TrustFor(p)'
  BY <1>1, <1>2, AskedStays DEF TrustInv, TrustFor, Asked, Telling, Mine, At
<1> QED
  BY <1>1, <1>2, <1>3, TrustOthers, TrustOfStays

LEMMA TrustLoadConfig ==
    ASSUME TypeOK, TrustInv, NEW p \in Proc, LoadConfig(p) PROVE TrustInv'
<1>1. UNCHANGED <<config, trust, asked, stale>> /\ Grows /\ proc[p].at \in Judging
  BY DEF LoadConfig, trustVars, historyVars, Grows, At, Judging
<1>2. CASE Goes(p, "failed")
  <2>1. TrustFor(p)' /\ \A q \in Proc \ {p} : proc'[q] = proc[q]
    BY <1>1, <1>2, GoesOnly, TrustAside DEF Telling, Judging
  <2> QED
    BY <1>1, <2>1, TrustOthers, TrustOfStays
<1>3. ASSUME NEW taken, Takes(p, "up", taken),
             taken \in {"nothing", "untrusted"} \/ (taken = config[Mine(p)] /\ IsTrusted(p))
      PROVE  TrustInv'
  <2>1. /\ proc'[p].at = "up" /\ proc'[p].took = taken /\ proc'[p].known = proc[p].known
        /\ proc'[p].project = proc[p].project
        /\ \A q \in Proc \ {p} : proc'[q] = proc[q]
    BY <1>3, TookOnly
  <2>2. ASSUME taken = config[Mine(p)], IsTrusted(p), p \notin stale PROVE <<Mine(p), taken>> \in asked
    <3>1. Mine(p) \in Project
      BY ProcTyped DEF Mine, ProcType
    <3> QED
      BY <1>1, <2>2, <3>1 DEF TrustInv, TrustFor, IsTrusted, Asked
  <2>3. TrustFor(p)'
    BY <1>1, <1>3, <2>1, <2>2, AskedStays DEF TrustInv, TrustFor, Asked, Telling, Judging, Mine
  <2> QED
    BY <1>1, <2>1, <2>3, TrustOthers, TrustOfStays
<1>4. \/ Goes(p, "failed")
      \/ \E taken \in {"nothing", "untrusted", config[Mine(p)]} :
             /\ Takes(p, "up", taken)
             /\ taken \in {"nothing", "untrusted"} \/ (taken = config[Mine(p)] /\ IsTrusted(p))
  BY DEF LoadConfig, Takes
<1> QED
  BY <1>2, <1>3, <1>4

(* A write of the configuration of q, by init or by the user.              *)
LEMMA TrustRewrites ==
    ASSUME TypeOK, TrustInv, NEW q \in Project, NEW text, Rewrites(q, text), UNCHANGED <<trust, asked>>,
           \A p \in Proc : proc'[p] = proc[p] \/ TrustFor(p)'
    PROVE  TrustInv'
<1>1. Grows /\ \A r \in Project : config'[r] = config[r] \/ Overtaken(r) \subseteq stale'
  BY DEF Rewrites, Grows, TypeOK
<1>2. \A p \in Proc : Mine(p) \in Project
  BY ProcTyped DEF Mine, ProcType
<1>3. \A p \in Proc : TrustFor(p)'
  BY <1>1, <1>2, TrustBystander
<1> QED
  BY <1>1, <1>3, TrustOfStays DEF TrustInv

LEMMA TrustConfig ==
    ASSUME TypeOK, TrustInv, NEW p \in Proc, CutConfig(p) \/ FillConfig(p) PROVE TrustInv'
<1>1. /\ UNCHANGED <<trust, asked>> /\ Grows /\ Mine(p) \in Project
      /\ \/ UNCHANGED config
         \/ \E text \in {"blank", "template"} : Rewrites(Mine(p), text)
      /\ \E where \in {"fillconfig", "hashit", "failed"} : Goes(p, where)
  BY ProcTyped DEF CutConfig, FillConfig, trustVars, Grows, Rewrites, Mine, ProcType
<1>2. TrustFor(p)' /\ \A q \in Proc \ {p} : proc'[q] = proc[q]
  BY <1>1, GoesOnly, TrustAside DEF Telling, Judging
<1>3. CASE UNCHANGED config
  BY <1>1, <1>2, <1>3, TrustOthers, TrustOfStays
<1>4. CASE \E text \in {"blank", "template"} : Rewrites(Mine(p), text)
  BY <1>1, <1>2, <1>4, TrustRewrites
<1> QED
  BY <1>1, <1>3, <1>4

LEMMA TrustHashTrusted ==
    ASSUME TypeOK, TrustInv, NEW p \in Proc, HashTrusted(p) PROVE TrustInv'
<1>1. UNCHANGED <<config, trust, stale>> /\ Grows /\ <<Mine(p), config[Mine(p)]>> \in asked'
  BY DEF HashTrusted, trustVars, Grows
<1>2. Hashes(p, "recall", config[Mine(p)])
  BY DEF HashTrusted, Hashes
<1>3. /\ proc'[p].at = "recall" /\ proc'[p].hash = config[Mine(p)] /\ proc'[p].known = proc[p].known
      /\ proc'[p].project = proc[p].project
      /\ \A q \in Proc \ {p} : proc'[q] = proc[q]
  BY <1>2, HashOnly
<1>4. TrustFor(p)'
  BY <1>1, <1>3, AskedStays DEF TrustInv, TrustFor, Asked, Judging, Mine, At
<1> QED
  BY <1>1, <1>3, <1>4, TrustOthers, TrustOfStays

LEMMA TrustTells ==
    ASSUME TypeOK, TrustInv, NEW p \in Proc, RecallTrust(p) \/ PutAside(p) \/ CutTrust(p) PROVE TrustInv'
<1>1. UNCHANGED <<config, asked, stale>> /\ Grows /\ (UNCHANGED trust \/ trust'.of = Untold) /\ proc[p].at \in Telling
  BY DEF RecallTrust, PutAside, CutTrust, SetsAside, trustVars, historyVars, Grows, At, Telling
<1>2. /\ proc'[p].at \in {"cuttrust", "putaside", "filltrust", "failed"} /\ proc'[p].hash = proc[p].hash
      /\ proc'[p].project = proc[p].project
      /\ \A q \in Proc \ {p} : proc'[q] = proc[q]
  BY GoesOnly, ReadsOnly DEF RecallTrust, PutAside, CutTrust, SetsAside
<1>3. Asked(proc[p].known)'
  <2>1. CASE RecallTrust(p)
    BY <1>1, <2>1, TrustReads DEF RecallTrust
  <2>2. CASE PutAside(p) \/ CutTrust(p)
    <3>1. proc'[p].known = proc[p].known
      BY <2>2, GoesOnly DEF PutAside, CutTrust, SetsAside
    <3>2. \A q \in Project : proc[p].known[q] = "absent" \/ <<q, proc[p].known[q]>> \in asked'
      BY <1>1, AskedStays DEF TrustInv, TrustFor
    <3> QED
      BY <3>1, <3>2 DEF Asked
  <2> QED
    BY <2>1, <2>2
<1>4. TrustFor(p)'
  BY <1>1, <1>2, <1>3 DEF TrustInv, TrustFor, Judging, Mine, At
<1> QED
  BY <1>1, <1>2, <1>4, TrustOthers, TrustOfStays

LEMMA TrustFillTrust ==
    ASSUME TypeOK, TrustInv, NEW p \in Proc, FillTrust(p) PROVE TrustInv'
<1>1. UNCHANGED <<config, asked, stale>> /\ Grows /\ proc[p].at \in Telling
  BY DEF FillTrust, historyVars, Grows, At, Telling
<1>2. TrustFor(p)' /\ \A q \in Proc \ {p} : proc'[q] = proc[q]
  <2>1. \E where \in {"told", "failed"} : Goes(p, where)
    BY DEF FillTrust
  <2> QED
    BY <1>1, <2>1, GoesOnly, TrustAside DEF Telling, Judging
<1>3. Asked(Entries(p))
  <2>1. proc[p].known \in [Project -> Content] /\ Mine(p) \in Project
    BY ProcTyped DEF ProcType, Mine
  <2> QED
    BY <1>1, <2>1 DEF Entries, Asked, TrustInv, TrustFor
<1>4. Asked(trust.of)'
  <2>1. CASE trust'.of = Entries(p)
    BY <1>1, <1>3, <2>1 DEF Asked
  <2>2. CASE UNCHANGED trust \/ trust'.of = Untold
    BY <1>1, <2>2, TrustOfStays
  <2> QED
    BY <2>1, <2>2 DEF FillTrust
<1> QED
  BY <1>1, <1>2, <1>4, TrustOthers

LEMMA TrustInitFiles ==
    ASSUME TypeOK, TrustInv, NEW p \in Proc, InitFiles(p) PROVE TrustInv'
<1>1. UNCHANGED <<config, trust, asked, stale>> /\ Grows
  BY DEF InitFiles, trustVars, historyVars, Grows
<1>2. TrustFor(p)' /\ \A q \in Proc \ {p} : proc'[q] = proc[q]
  <2>1. \E where \in {"cutconfig", "hashit"} : Goes(p, where)
    BY DEF InitFiles
  <2> QED
    BY <1>1, <2>1, GoesOnly, TrustAside DEF Telling, Judging
<1> QED
  BY <1>1, <1>2, TrustOthers, TrustOfStays

LEMMA TrustNext == TypeOK /\ TrustInv /\ [Next]_vars => TrustInv'
<1> SUFFICES ASSUME TypeOK, TrustInv, [Next]_vars PROVE TrustInv'
  OBVIOUS
<1>1. ASSUME NEW p \in Proc, LoadStep(p) PROVE TrustInv'
  BY <1>1, TrustHashConfig, TrustAskTrust, TrustSetAside, TrustLoadConfig DEF LoadStep
<1>2. ASSUME NEW p \in Proc, TrustStep(p) PROVE TrustInv'
  BY <1>2, TrustInitFiles, TrustConfig, TrustHashTrusted, TrustTells, TrustFillTrust DEF TrustStep
<1>3. ASSUME NEW q \in Project, NEW text \in Text, Edit(q, text) PROVE TrustInv'
  BY <1>3, TrustRewrites DEF Edit, trustVars
<1>4. CASE UNCHANGED vars
  BY <1>4 DEF vars, trustVars, historyVars, TrustInv, TrustFor, Asked, Mine, At
<1> QED
  BY <1>1, <1>2, <1>3, <1>4, TrustSecretStep DEF Next

LEMMA TrustInit == Init => TrustInv
<1> SUFFICES ASSUME Init PROVE TrustInv
  OBVIOUS
<1>1. \A p \in Proc : proc[p].at = "new" /\ proc[p].known = Untold
  BY DEF Init
<1>2. trust.of = Untold
  BY DEF Init
<1> QED
  BY <1>1, <1>2, UntoldAsked DEF TrustInv, TrustFor, Asked, At, Telling, Judging

(* No race for trust.json makes up a trust: what a process takes from a    *)
(* project was put before `config trust`, unless it changed under it.      *)
THEOREM StateTakesTrusted == Spec => []TakesTrusted
<1>1. TrustInv => TakesTrusted
  BY DEF TrustInv, TrustFor, TakesTrusted
<1> QED
  BY <1>1, TrustInit, TrustNext, StateTyping, PTL DEF Spec
=============================================================================
