----------------------------- MODULE StateFiles -----------------------------
(***************************************************************************)
(* The files a process of opsmask reads before it masks: the user secret   *)
(* (config/secret.go), the project's configuration and trust.json          *)
(* (config/config.go, config/trust.go), beside `config trust` (cli/config  *)
(* .go, cli/init.go) and a user who edits.                                 *)
(*                                                                         *)
(* Each process runs once.  It may die between any two steps, and a read   *)
(* or a write may fail.  A file is written in place, in two steps: cut,    *)
(* and filled.  SHA-256 is taken to be collision free: a text is its own   *)
(* hash.  Rules, exec settings and the user-wide config are not told apart.*)
(***************************************************************************)
EXTENDS Naturals

CONSTANTS
    Proc,       \* processes of opsmask
    Project,    \* directories with, or without, .opsmask/config.yaml
    Text,       \* what a user may write into a project's configuration
    Bad,        \* texts that are no valid configuration
    NoProc,     \* nobody holds the lock of the secret
    MaxEdits,   \* bound: edits of the user
    MaxFaults   \* bound: reads and writes that fail

(* No file; nothing but comments; the body `opsmask init` writes.  The     *)
(* last two load as a configuration without rules.                         *)
Content == Text \union {"absent", "blank", "template"}
Quiet == {"blank", "template"}

ASSUME StateAssumption ==
    /\ Bad \subseteq Text
    /\ Text \intersect {"absent", "blank", "template", "none", "nothing", "untrusted"} = {}
    /\ NoProc \notin Proc
    /\ Proc \intersect {"absent", "short", "none"} = {}
    /\ {MaxEdits, MaxFaults} \subseteq Nat

VARIABLES
    secret,     \* user_secret: "absent", "short", or who drew its 32 bytes
    locked,     \* who holds user_secret.lock
    config,     \* [Project -> Content]
    trust,      \* trust.json: is it there, and does it parse; its hashes
    holds,      \* processes whose open file is still the one named trust.json
    proc,       \* [Proc -> what the process does and has read]
    edits,      \* edits so far
    faults,     \* faults so far
    asked,      \* history: texts that `config trust` has hashed
    stale       \* history: processes whose project was written since they hashed it

trustVars == <<trust, holds>>
boundVars == <<edits, faults>>
historyVars == <<asked, stale>>
vars == <<secret, locked, config, trustVars, proc, boundVars, historyVars>>

SecretSteps == {"lock", "find", "create", "write"}
LoadSteps == {"hash", "ask", "setaside", "judge"}
TrustSteps == {"init", "cutconfig", "fillconfig", "hashit", "recall", "putaside", "cuttrust", "filltrust"}
Working == SecretSteps \union LoadSteps \union TrustSteps

Untold == [q \in Project |-> "absent"]

Init ==
    /\ secret = "absent" /\ locked = NoProc
    /\ config \in [Project -> {"absent"} \union Text]
    /\ trust = [kind |-> "none", of |-> Untold] /\ holds = {}
    /\ proc \in [Proc -> [at : {"new"}, project : Project, key : {"none"}, hash : {"absent"},
                          known : {Untold}, took : {"none"}]]
    /\ edits = 0 /\ faults = 0
    /\ asked = {} /\ stale = {}

-----------------------------------------------------------------------------
(* Steps of a process.                                                     *)

At(p, where) == proc[p].at = where
Mine(p) == proc[p].project
Becomes(p, rec) == proc' = [proc EXCEPT ![p] = rec]
Goes(p, where) == Becomes(p, [proc[p] EXCEPT !.at = where])

Faulty == faults < MaxFaults /\ faults' = faults + 1
Works == UNCHANGED faults

(* The deferred unlock, on every return; the kernel, at the end.           *)
Unlocks(p) == locked' = IF locked = p THEN NoProc ELSE locked

Launch(p) ==
    /\ At(p, "new")
    /\ Goes(p, "lock") \/ Goes(p, "init")
    /\ UNCHANGED <<secret, locked, config, trustVars, boundVars, historyVars>>

Crash(p) ==
    /\ proc[p].at \in Working
    /\ Goes(p, "dead")
    /\ Unlocks(p)
    /\ holds' = holds \ {p}
    /\ UNCHANGED <<secret, config, trust, boundVars, historyVars>>

-----------------------------------------------------------------------------
(* EnsureSecret.                                                           *)

(* Mutant of LockSecret: there is no flock.                                *)
LockSecretNot(p) ==
    /\ At(p, "lock")
    /\ Goes(p, "find")
    /\ UNCHANGED <<secret, locked, config, trustVars, boundVars, historyVars>>

LockSecret(p) ==
    /\ At(p, "lock")
    /\ locked = NoProc
    /\ locked' = p
    /\ Goes(p, "find")
    /\ UNCHANGED <<secret, config, trustVars, boundVars, historyVars>>

(* Mutant of Returns: the error of ReadFile is dropped.                    *)
ReturnsUnread(p) ==
    /\ \E key \in {secret, "absent"} : Becomes(p, [proc[p] EXCEPT !.at = "hash", !.key = key])
    /\ Unlocks(p)

(* What is in the file is returned as it is, be it short.                  *)
Returns(p) ==
    /\ Becomes(p, [proc[p] EXCEPT !.at = "hash", !.key = secret])
    /\ Unlocks(p)

(* Mutant of Gives: the lock is kept on an error.                          *)
GivesKeeping(p) == Goes(p, "failed") /\ UNCHANGED locked

Gives(p) == Goes(p, "failed") /\ Unlocks(p)

FindSecret(p) ==
    /\ At(p, "find")
    /\ \/ secret # "absent" /\ Works /\ Returns(p)
       \/ secret = "absent" /\ Works /\ Goes(p, "create") /\ UNCHANGED locked
       \/ secret # "absent" /\ Faulty /\ Goes(p, "create") /\ UNCHANGED locked
       \/ secret # "absent" /\ Faulty /\ Gives(p)
    /\ UNCHANGED <<secret, config, trustVars, edits, historyVars>>

(* O_EXCL: a file that is there is read again.                             *)
CreateSecret(p) ==
    /\ At(p, "create")
    /\ \/ /\ secret = "absent" /\ Works
          /\ secret' = "short" /\ Goes(p, "write") /\ UNCHANGED locked
       \/ secret # "absent" /\ Works /\ Returns(p) /\ UNCHANGED secret
       \/ Faulty /\ Gives(p) /\ UNCHANGED secret
    /\ UNCHANGED <<config, trustVars, edits, historyVars>>

(* Write and Sync; an error of either leaves what has been written.        *)
WriteSecret(p) ==
    /\ At(p, "write")
    /\ \/ /\ Works /\ secret' = p
          /\ Becomes(p, [proc[p] EXCEPT !.at = "hash", !.key = p]) /\ Unlocks(p)
       \/ Faulty /\ secret' \in {"short", p} /\ Gives(p)
    /\ UNCHANGED <<config, trustVars, edits, historyVars>>

-----------------------------------------------------------------------------
(* trust.json.                                                             *)

(* readTrust, to Unmarshal.  An error of ReadFile ends Load; Trust goes on *)
(* with a nil map, and panics.                                             *)
Reads(p, next, aside) ==
    \/ /\ Works
       /\ Becomes(p, [proc[p] EXCEPT !.at = IF trust.kind \in {"cut", "torn"} THEN aside ELSE next,
                                     !.known = IF trust.kind = "json" THEN trust.of ELSE Untold])
    \/ trust.kind # "none" /\ Faulty /\ Goes(p, "failed")

(* readTrust: what is at the path by now is renamed to trust.json.bak.     *)
SetsAside(p, next) ==
    /\ trust' = [kind |-> "none", of |-> Untold]
    /\ holds' = {}
    /\ Goes(p, next)

-----------------------------------------------------------------------------
(* Load.                                                                   *)

(* findProjectConfig, and HashFile of IsTrusted.                           *)
HashConfig(p) ==
    /\ At(p, "hash")
    /\ IF config[Mine(p)] = "absent"
       THEN Becomes(p, [proc[p] EXCEPT !.at = "up", !.took = "nothing"])
       ELSE Becomes(p, [proc[p] EXCEPT !.at = "ask", !.hash = config[Mine(p)]])
    /\ UNCHANGED <<secret, locked, config, trustVars, boundVars, historyVars>>

AskTrust(p) ==
    /\ At(p, "ask")
    /\ Reads(p, "judge", "setaside")
    /\ UNCHANGED <<secret, locked, config, trustVars, edits, historyVars>>

SetAside(p) ==
    /\ At(p, "setaside")
    /\ SetsAside(p, "judge")
    /\ UNCHANGED <<secret, locked, config, boundVars, historyVars>>

(* Mutant of IsTrusted: an entry is enough, whatever its hash.             *)
IsTrustedOnce(p) == proc[p].known[Mine(p)] # "absent"

IsTrusted(p) == proc[p].known[Mine(p)] = proc[p].hash

(* Load, from the answer of IsTrusted: the file is read once more.         *)
LoadConfig(p) ==
    /\ At(p, "judge")
    /\ LET text == config[Mine(p)]
           taken == IF IsTrusted(p) THEN text ELSE IF text \in Quiet THEN "nothing" ELSE "untrusted"
       IN  IF text \in Bad THEN Goes(p, "failed")
           ELSE Becomes(p, [proc[p] EXCEPT !.at = "up", !.took = taken])
    /\ UNCHANGED <<secret, locked, config, trustVars, boundVars, historyVars>>

-----------------------------------------------------------------------------
(* config trust.                                                           *)

(* Whoever has hashed the configuration of q has not seen this write.      *)
Overtaken(q) == {r \in Proc : Mine(r) = q /\ proc[r].at \in {"ask", "setaside", "judge"}}

Rewrites(q, text) ==
    config' = [config EXCEPT ![q] = text] /\ stale' = stale \union Overtaken(q)

(* initProjectFiles: is there something but comments?                      *)
InitFiles(p) ==
    /\ At(p, "init")
    /\ Goes(p, IF config[Mine(p)] \in {"absent", "blank"} THEN "cutconfig" ELSE "hashit")
    /\ UNCHANGED <<secret, locked, config, trustVars, boundVars, historyVars>>

CutConfig(p) ==
    /\ At(p, "cutconfig")
    /\ \/ Works /\ Goes(p, "fillconfig") /\ Rewrites(Mine(p), "blank")
       \/ Faulty /\ Goes(p, "failed") /\ UNCHANGED <<config, stale>>
    /\ UNCHANGED <<secret, locked, trustVars, edits, asked>>

FillConfig(p) ==
    /\ At(p, "fillconfig")
    /\ \/ Works /\ Goes(p, "hashit") /\ Rewrites(Mine(p), "template")
       \/ Faulty /\ Goes(p, "failed") /\ UNCHANGED <<config, stale>>
    /\ UNCHANGED <<secret, locked, trustVars, edits, asked>>

(* Trust: HashFile.                                                        *)
HashTrusted(p) ==
    /\ At(p, "hashit")
    /\ Becomes(p, [proc[p] EXCEPT !.at = "recall", !.hash = config[Mine(p)]])
    /\ asked' = asked \union {<<Mine(p), config[Mine(p)]>>}
    /\ UNCHANGED <<secret, locked, config, trustVars, boundVars, stale>>

RecallTrust(p) ==
    /\ At(p, "recall")
    /\ Reads(p, "cuttrust", "putaside")
    /\ UNCHANGED <<secret, locked, config, trustVars, edits, historyVars>>

PutAside(p) ==
    /\ At(p, "putaside")
    /\ SetsAside(p, "cuttrust")
    /\ UNCHANGED <<secret, locked, config, boundVars, historyVars>>

(* writeTrust: WriteFile opens the file and truncates it.                  *)
CutTrust(p) ==
    /\ At(p, "cuttrust")
    /\ \/ /\ Works /\ Goes(p, "filltrust")
          /\ trust' = [kind |-> "cut", of |-> Untold] /\ holds' = holds \union {p}
       \/ Faulty /\ Goes(p, "failed") /\ UNCHANGED trustVars
    /\ UNCHANGED <<secret, locked, config, edits, historyVars>>

Entries(p) == [proc[p].known EXCEPT ![Mine(p)] = proc[p].hash]
Named(of) == {q \in Project : of[q] # "absent"}

(* A file that was renamed meanwhile is written under its new name.  A     *)
(* text over one that names other projects may leave the end of it.        *)
FillTrust(p) ==
    /\ At(p, "filltrust")
    /\ \/ /\ Works /\ Goes(p, "told")
          /\ \/ p \in holds /\ trust' = [kind |-> "json", of |-> Entries(p)]
             \/ /\ p \in holds
                /\ trust.kind = "torn" \/ ~ (Named(trust.of) \subseteq Named(Entries(p)))
                /\ trust' = [kind |-> "torn", of |-> Untold]
             \/ p \notin holds /\ UNCHANGED trust
       \/ Faulty /\ Goes(p, "failed") /\ UNCHANGED trust
    /\ holds' = holds \ {p}
    /\ UNCHANGED <<secret, locked, config, edits, historyVars>>

-----------------------------------------------------------------------------
(* The user edits.                                                         *)
Edit(q, text) ==
    /\ edits < MaxEdits
    /\ edits' = edits + 1
    /\ Rewrites(q, text)
    /\ UNCHANGED <<secret, locked, trustVars, proc, faults, asked>>

SecretStep(p) == LockSecret(p) \/ FindSecret(p) \/ CreateSecret(p) \/ WriteSecret(p)
LoadStep(p) == HashConfig(p) \/ AskTrust(p) \/ SetAside(p) \/ LoadConfig(p)
TrustStep(p) ==
    \/ InitFiles(p) \/ CutConfig(p) \/ FillConfig(p) \/ HashTrusted(p)
    \/ RecallTrust(p) \/ PutAside(p) \/ CutTrust(p) \/ FillTrust(p)

Next ==
    \/ \E p \in Proc : Launch(p) \/ SecretStep(p) \/ LoadStep(p) \/ TrustStep(p) \/ Crash(p)
    \/ \E q \in Project, text \in Text : Edit(q, text)

Spec == Init /\ [][Next]_vars

(* Processes that were started are scheduled.                              *)
Fairness == \A p \in Proc : WF_vars(SecretStep(p))
FairSpec == Spec /\ Fairness

-----------------------------------------------------------------------------
(* Properties.                                                             *)

(* Every variable has its type; EnsureSecret never returns what is not in  *)
(* a file, and only a writer of trust.json has it open.                    *)
TypeOK ==
    /\ secret \in Proc \union {"absent", "short"}
    /\ locked \in Proc \union {NoProc}
    /\ config \in [Project -> Content]
    /\ trust \in [kind : {"none", "cut", "torn", "json"}, of : [Project -> Content]]
    /\ holds \subseteq {p \in Proc : At(p, "filltrust")}
    /\ proc \in [Proc -> [at : Working \union {"new", "up", "told", "failed", "dead"}, project : Project,
                          key : Proc \union {"none", "short"}, hash : Content,
                          known : [Project -> Content],
                          took : Content \union {"none", "nothing", "untrusted"}]]
    /\ edits \in Nat /\ faults \in Nat
    /\ asked \subseteq Project \X Content /\ stale \subseteq Proc

(* README.md:229: pseudonyms are deterministic for a user_secret.  Two     *)
(* processes never mask under two secrets, nor under one that is not the   *)
(* one of the file, though several draw one at the same time, a read or    *)
(* write fails, and one dies between creating the file and filling it.     *)
OneSecret == \A p \in Proc : proc[p].key \in {"none", secret}

(* README.md:444-451: "The config file is ignored until trusted", and      *)
(* trust is bound to a hash.  What a process takes from a project was put  *)
(* before `config trust`, unless the file was written between the hash and *)
(* the parse (config.go:200, :222): no race for trust.json, torn write or  *)
(* file set aside makes up a trust.                                        *)
TakesTrusted ==
    \A p \in Proc :
        At(p, "up") /\ p \notin stale =>
            proc[p].took \in {"nothing", "untrusted"} \/ <<Mine(p), proc[p].took>> \in asked

(* Every way out of EnsureSecret gives back the lock, and so does the end  *)
(* of a process: nobody waits for the secret for ever.                     *)
SecretArrives == \A p \in Proc : At(p, "lock") ~> proc[p].at \notin SecretSteps
=============================================================================
