------------------------------ MODULE ExecCall ------------------------------
(***************************************************************************)
(* Calls of exec from the three fronts, side by side: the CLI (cli/exec.go)*)
(* and the MCP tool (mcpsrv/tool_exec.go) through exec.Orchestrate, the    *)
(* wrapper of the Claude Code hook through exec.OrchestrateHook.           *)
(*                                                                         *)
(* All calls append to one exec.log (exec/auditlog.go) on a disk that may  *)
(* fill or refuse, and die with their process.  What the mapping store     *)
(* holds is MappingStore's, what exec.Run does is ExecRun's; here a lookup *)
(* finds or does not, and a child starts, runs and ends with a class.      *)
(***************************************************************************)
EXTENDS ExecPolicy

CONSTANTS
    Calls,
    Requests,   \* what a call may be asked, see RequestType
    Token,      \* the words that are sentinels
    Value,      \* [Token -> Word]: what a sentinel stands for
    Bare,       \* [Word -> Word]: a namespace without its "namespace/" prefix
    Name,       \* names of entries of allow-lists
    Environ,    \* names of the parent's environment variables
    MaxFaults   \* bound: changes of the disk's state

Sources == {"cli", "mcp", "hook"}

EntryType == [name : Name, elements : Seq(SUBSET Word), tail : BOOLEAN, jq : BOOLEAN]

ConfigType ==
    [untrusted : BOOLEAN, enabled : BOOLEAN, scope : Scopes, allow : Seq(EntryType),
     allowDenyOptOut : BOOLEAN, denyOptOut : SUBSET Word,
     envAllow : SUBSET STRING, envDeny : SUBSET STRING]

(* "oversize": the record of the call exceeds 4095 bytes without its argv.  *)
RequestType ==
    [source : Sources, argv : Seq(Word) \ {<<>>}, timeout : {"none", "good", "bad"},
     oversize : BOOLEAN, cfg : ConfigType]

ASSUME CallAssumption ==
    /\ Token \subseteq Word
    /\ {"bash", "-c"} \subseteq Word \ Token
    /\ Value \in [Token -> Word \ Token]
    /\ Bare \in [Word -> Word]
    /\ \A w \in Word \ Token : Bare[w] \notin Token
    /\ BaselineNames \union {"", "project"} \subseteq Name
    /\ Requests \subseteq RequestType
    /\ MaxFaults \in Nat

VARIABLES
    req,        \* [Calls -> Requests]
    at,         \* where a call is
    out,        \* Resolve: the words done so far
    failed,     \* Resolve: some sentinel had no value
    class,      \* ErrorClass of the record that is written next
    match,      \* AllowMatch of the record
    ran,        \* argv the child was started with, <<>> before
    env,        \* environment of the child
    child,      \* "none", "running" or "over"
    answer,     \* the error the caller is told, "" for none, "?" before
    log,        \* exec.log
    disk,       \* "good", "full", or "closed": exec.log cannot be opened
    faults      \* how often disk changed

callVars == <<req, at, out, failed, class, match, ran, env, child, answer>>
diskVars == <<log, disk, faults>>
vars == <<callVars, diskVars>>

Init ==
    /\ req \in [Calls -> Requests]
    /\ at = [c \in Calls |-> "called"]
    /\ out = [c \in Calls |-> <<>>]
    /\ failed = [c \in Calls |-> FALSE]
    /\ class = [c \in Calls |-> ""]
    /\ match = [c \in Calls |-> ""]
    /\ ran = [c \in Calls |-> <<>>]
    /\ env = [c \in Calls |-> {}]
    /\ child = [c \in Calls |-> "none"]
    /\ answer = [c \in Calls |-> "?"]
    /\ log = <<>>
    /\ disk = "good" /\ faults = 0

-----------------------------------------------------------------------------
(* exec.log.  A record is one write to a file in append mode: it goes in   *)
(* whole, or not at all, or, on a full disk, in part.  Whole means that    *)
(* all its bytes are there: the record after a part is on the same line    *)
(* (auditlog.go:74), where a reader of lines can parse neither.            *)

(* encodeRecord: a record too long without argv keeps no class.            *)
EncodeRecord(c, cls) ==
    [call |-> c, class |-> IF req[c].oversize THEN "audit_truncate_oversize" ELSE cls,
     match |-> IF req[c].oversize THEN "" ELSE match[c], whole |-> TRUE]

Recorded(c, cls) == disk = "good" /\ log' = Append(log, EncodeRecord(c, cls))

NotRecorded(c, cls) ==
    \/ disk # "good" /\ UNCHANGED log
    \/ disk = "full" /\ log' = Append(log, [EncodeRecord(c, cls) EXCEPT !.whole = FALSE])

-----------------------------------------------------------------------------
(* Before the first record.                                                *)

Moves(c, to) == at' = [at EXCEPT ![c] = to]
Answers(c, error) == Moves(c, "done") /\ answer' = [answer EXCEPT ![c] = error]

(* handleExec parses the timeout of an MCP call before anything else.      *)
InvalidTimeout(c) ==
    /\ at[c] = "called" /\ req[c].source = "mcp" /\ req[c].timeout = "bad"
    /\ Answers(c, "INVALID_TIMEOUT")
    /\ UNCHANGED <<req, out, failed, class, match, ran, env, child, diskVars>>

Orchestrates(c) ==
    at[c] = "called" /\ ~ (req[c].source = "mcp" /\ req[c].timeout = "bad")

PreflightFails(c) ==
    /\ Orchestrates(c)
    /\ disk = "closed"
    /\ Answers(c, "EXEC_AUDIT_UNWRITABLE")
    /\ UNCHANGED <<req, out, failed, class, match, ran, env, child, diskVars>>

(* The class of the refusal before the sentinels are looked at, in the     *)
(* order of the code; "" for none.  A hook skips all gates but the timeout.*)
ScopeOpen(cfg) == cfg.scope = "freeform" /\ AllowList(cfg) = <<>>

GateClass(r) ==
    IF r.source # "hook" /\ r.cfg.untrusted THEN "untrusted"
    ELSE IF r.source # "hook" /\ ~ r.cfg.enabled THEN "disabled"
    ELSE IF r.timeout = "bad" THEN "wrapper"
    ELSE IF r.source = "mcp" /\ ScopeOpen(r.cfg) THEN "scope_open_refused"
    ELSE ""

Gate(c) ==
    /\ Orchestrates(c)
    /\ disk # "closed"
    /\ class' = [class EXCEPT ![c] = GateClass(req[c])]
    /\ Moves(c, IF GateClass(req[c]) = "" THEN "resolve" ELSE "refuse")
    /\ UNCHANGED <<req, out, failed, match, ran, env, child, answer, diskVars>>

-----------------------------------------------------------------------------
(* Resolve: one Lookup per sentinel.  Others insert and prune meanwhile,   *)
(* ctx may end and Lookup may fail, so each one finds a value or does not. *)

(* The command of a hook is one word; it is given here as its words.      *)
Command(r) == IF r.source = "hook" THEN <<"bash", "-c">> \o r.argv ELSE r.argv
Argv(c) == Command(req[c])

Pending(c) == Argv(c)[Len(out[c]) + 1]
Resolving(c) == at[c] = "resolve" /\ Len(out[c]) < Len(Argv(c))

Found(c) ==
    /\ Resolving(c)
    /\ out' = [out EXCEPT ![c] = Append(@, IF Pending(c) \in Token THEN Value[Pending(c)] ELSE Pending(c))]
    /\ UNCHANGED <<req, at, failed, class, match, ran, env, child, answer, diskVars>>

(* Mutant: an error of Lookup is kept in firstErr but the sentinel is not  *)
(* added to failed.                                                        *)
NotFoundForgets(c) ==
    /\ Resolving(c)
    /\ Pending(c) \in Token
    /\ out' = [out EXCEPT ![c] = Append(@, Pending(c))]
    /\ \E f \in {failed[c], TRUE} : failed' = [failed EXCEPT ![c] = f]
    /\ UNCHANGED <<req, at, class, match, ran, env, child, answer, diskVars>>

NotFound(c) ==
    /\ Resolving(c)
    /\ Pending(c) \in Token
    /\ out' = [out EXCEPT ![c] = Append(@, Pending(c))]
    /\ failed' = [failed EXCEPT ![c] = TRUE]
    /\ UNCHANGED <<req, at, class, match, ran, env, child, answer, diskVars>>

(* normalizeKubectlNamespaceArgs: the word after -n, and --namespace=.     *)
Normalize(argv) ==
    LET flag(i) == argv[i] \in {"-n", "--namespace"}
        value[i \in 1..Len(argv)] == IF i <= 2 THEN FALSE ELSE flag(i - 1) /\ ~ value[i - 1]
    IN  IF Len(argv) < 3 \/ argv[1] # "kubectl" THEN argv
        ELSE [i \in 1..Len(argv) |->
                 IF value[i] \/ (i > 1 /\ "--namespace=" \in Marks[argv[i]]) THEN Bare[argv[i]]
                 ELSE argv[i]]

(* The hook has no policy: bash runs the command.                          *)
Judgement(r, argv) ==
    IF r.source = "hook" THEN Permitted("") ELSE EvaluatePolicy(argv, r.cfg)

Decision(c, argv) == Judgement(req[c], argv)

Scope(c) == IF req[c].source = "hook" THEN "freeform" ELSE req[c].cfg.scope

Resolved(c) == at[c] = "resolve" /\ Len(out[c]) = Len(Argv(c))

ResolveFails(c) ==
    /\ Resolved(c)
    /\ failed[c]
    /\ class' = [class EXCEPT ![c] = "resolve"]
    /\ Moves(c, "refuse")
    /\ UNCHANGED <<req, out, failed, match, ran, env, child, answer, diskVars>>

(* Mutant of Decide: the policy sees argv as it was written.               *)
DecideUnresolved(c) ==
    /\ Resolved(c)
    /\ ~ failed[c]
    /\ LET decision == Decision(c, Argv(c))
       IN  /\ out' = [out EXCEPT ![c] = Normalize(@)]
           /\ class' = [class EXCEPT ![c] = decision.class]
           /\ match' = [match EXCEPT ![c] = decision.match]
           /\ Moves(c, IF decision.allowed THEN "start" ELSE "refuse")
    /\ env' = [env EXCEPT ![c] = BuildEnv(Scope(c), req[c].cfg, Environ)]
    /\ UNCHANGED <<req, failed, ran, child, answer, diskVars>>

Decide(c) ==
    /\ Resolved(c)
    /\ ~ failed[c]
    /\ LET argv == Normalize(out[c])
           decision == Decision(c, argv)
       IN  /\ out' = [out EXCEPT ![c] = argv]
           /\ class' = [class EXCEPT ![c] = decision.class]
           /\ match' = [match EXCEPT ![c] = decision.match]
           /\ Moves(c, IF decision.allowed THEN "start" ELSE "refuse")
    /\ env' = [env EXCEPT ![c] = BuildEnv(Scope(c), req[c].cfg, Environ)]
    /\ UNCHANGED <<req, failed, ran, child, answer, diskVars>>

-----------------------------------------------------------------------------
(* The records and the child.                                              *)

ErrorOf(cls) ==
    CASE cls = "untrusted" -> "EXEC_UNTRUSTED"
      [] cls = "disabled" -> "EXEC_DISABLED"
      [] cls = "wrapper" -> "EXEC_TIMEOUT_INVALID"
      [] cls = "scope_open_refused" -> "EXEC_SCOPE_OPEN_REFUSED"
      [] cls = "resolve" -> "EXEC_RESOLVE_FAILED"
      [] OTHER -> "EXEC_POLICY_DENIED"

(* Mutant of Refuse: no return after the record.                           *)
RefuseGoesOn(c) ==
    /\ at[c] = "refuse"
    /\ Recorded(c, class[c]) \/ NotRecorded(c, class[c])
    /\ Moves(c, "start")
    /\ answer' = [answer EXCEPT ![c] = ErrorOf(class[c])]
    /\ UNCHANGED <<req, out, failed, class, match, ran, env, child, disk, faults>>

(* A refusal is recorded if that works, and told in any case.              *)
Refuse(c) ==
    /\ at[c] = "refuse"
    /\ Recorded(c, class[c]) \/ NotRecorded(c, class[c])
    /\ Answers(c, ErrorOf(class[c]))
    /\ UNCHANGED <<req, out, failed, class, match, ran, env, child, disk, faults>>

(* Mutant of RecordStart: the error of the write is dropped, as it is for  *)
(* the records of refusals.                                                *)
RecordStartSoft(c) ==
    /\ at[c] = "start"
    /\ Recorded(c, "starting") \/ NotRecorded(c, "starting")
    /\ Moves(c, "run")
    /\ UNCHANGED <<req, out, failed, class, match, ran, env, child, answer, disk, faults>>

(* The "starting" record; without it nothing runs.                         *)
RecordStart(c) ==
    /\ at[c] = "start"
    /\ \/ /\ Recorded(c, "starting")
          /\ Moves(c, "run") /\ UNCHANGED answer
       \/ /\ NotRecorded(c, "starting")
          /\ Answers(c, "EXEC_AUDIT_UNWRITABLE")
    /\ UNCHANGED <<req, out, failed, class, match, ran, env, child, disk, faults>>

(* exec.Run: the child starts, or cannot be started.                       *)
StartChild(c) ==
    /\ at[c] = "run" /\ child[c] = "none"
    /\ ran' = [ran EXCEPT ![c] = out[c]]
    /\ child' = [child EXCEPT ![c] = "running"]
    /\ UNCHANGED <<req, at, out, failed, class, match, env, answer, diskVars>>

StartFails(c) ==
    /\ at[c] = "run" /\ child[c] = "none"
    /\ \E cls \in {"wrapper", "not_found"} : class' = [class EXCEPT ![c] = cls]
    /\ Moves(c, "final")
    /\ UNCHANGED <<req, out, failed, match, ran, env, child, answer, diskVars>>

(* Mutant of RunEnds: a child that failed is started once more.            *)
RunEndsRetries(c) ==
    /\ at[c] = "run" /\ child[c] = "running"
    /\ \/ class' = [class EXCEPT ![c] = ""] /\ child' = [child EXCEPT ![c] = "over"] /\ Moves(c, "final")
       \/ child' = [child EXCEPT ![c] = "none"] /\ UNCHANGED <<class, at>>
    /\ UNCHANGED <<req, out, failed, match, ran, env, answer, diskVars>>

RunEnds(c) ==
    /\ at[c] = "run" /\ child[c] = "running"
    /\ \E cls \in {"", "non_zero", "timeout", "wrapper"} : class' = [class EXCEPT ![c] = cls]
    /\ child' = [child EXCEPT ![c] = "over"]
    /\ Moves(c, "final")
    /\ UNCHANGED <<req, out, failed, match, ran, env, answer, diskVars>>

(* Mutant of RecordFinal: the same error as for the first record.          *)
RecordFinalRefuses(c) ==
    /\ at[c] = "final"
    /\ \/ Recorded(c, class[c]) /\ Answers(c, "")
       \/ NotRecorded(c, class[c]) /\ Answers(c, "EXEC_AUDIT_UNWRITABLE")
    /\ UNCHANGED <<req, out, failed, class, match, ran, env, child, disk, faults>>

(* The final record; its loss is an error of its own.                      *)
RecordFinal(c) ==
    /\ at[c] = "final"
    /\ \/ Recorded(c, class[c]) /\ Answers(c, "")
       \/ NotRecorded(c, class[c]) /\ Answers(c, "EXEC_INTERNAL")
    /\ UNCHANGED <<req, out, failed, class, match, ran, env, child, disk, faults>>

-----------------------------------------------------------------------------
(* The world around the calls.                                             *)

(* The disk fills, is cleaned, or somebody changes the mode of exec.log.   *)
DiskChanges ==
    /\ faults < MaxFaults
    /\ disk' \in {"good", "full", "closed"} \ {disk}
    /\ faults' = faults + 1
    /\ UNCHANGED <<callVars, log>>

(* A process dies and leaves its children behind.  All MCP calls are of    *)
(* one process.                                                            *)
WithCall(c) == {d \in Calls : d = c \/ (req[c].source = "mcp" /\ req[d].source = "mcp")}

Die(c) ==
    /\ at[c] \notin {"done", "dead"}
    /\ at' = [d \in Calls |-> IF d \in WithCall(c) /\ at[d] # "done" THEN "dead" ELSE at[d]]
    /\ UNCHANGED <<req, out, failed, class, match, ran, env, child, answer, diskVars>>

CallStep(c) ==
    \/ InvalidTimeout(c) \/ PreflightFails(c) \/ Gate(c)
    \/ Found(c) \/ NotFound(c) \/ ResolveFails(c) \/ Decide(c)
    \/ Refuse(c) \/ RecordStart(c) \/ StartChild(c) \/ StartFails(c) \/ RunEnds(c) \/ RecordFinal(c)

Next ==
    \/ \E c \in Calls : CallStep(c) \/ Die(c)
    \/ DiskChanges

Spec == Init /\ [][Next]_vars

-----------------------------------------------------------------------------
(* Properties.                                                             *)

Classes ==
    {"", "untrusted", "disabled", "wrapper", "scope_open_refused", "resolve", "not_in_allow_list",
     "non_zero", "timeout", "not_found"} \union Layers

Errors ==
    {"", "EXEC_INTERNAL", "INVALID_TIMEOUT", "EXEC_AUDIT_UNWRITABLE", "EXEC_UNTRUSTED", "EXEC_DISABLED",
     "EXEC_TIMEOUT_INVALID", "EXEC_SCOPE_OPEN_REFUSED", "EXEC_RESOLVE_FAILED", "EXEC_POLICY_DENIED"}

(* Every variable has its type; a call that answers has stopped working.   *)
TypeOK ==
    /\ req \in [Calls -> Requests]
    /\ at \in [Calls -> {"called", "resolve", "refuse", "start", "run", "final", "done", "dead"}]
    /\ out \in [Calls -> Seq(Word)]
    /\ failed \in [Calls -> BOOLEAN]
    /\ class \in [Calls -> Classes]
    /\ match \in [Calls -> Name]
    /\ ran \in [Calls -> Seq(Word)]
    /\ env \in [Calls -> SUBSET Environ]
    /\ child \in [Calls -> {"none", "running", "over"}]
    /\ answer \in [Calls -> Errors \union {"?"}]
    /\ log \in Seq([call : Calls, class : Classes \union {"starting", "audit_truncate_oversize"},
                    match : Name, whole : BOOLEAN])
    /\ disk \in {"good", "full", "closed"} /\ faults \in Nat
    /\ \A c \in Calls : answer[c] # "?" <=> at[c] = "done"

(* orchestrate.go:186-191: a command never runs before its "starting"      *)
(* record is in exec.log with all its bytes, whatever becomes of the disk  *)
(* between the preflight, the record and the start of the child.           *)
StartRecord(c, i) ==
    /\ log[i].call = c /\ log[i].whole
    /\ log[i].class = IF req[c].oversize THEN "audit_truncate_oversize" ELSE "starting"
    /\ ~ req[c].oversize => log[i].match = match[c]

TracedFirst ==
    \A c \in Calls : child[c] # "none" => \E i \in DOMAIN log : StartRecord(c, i)

(* The argv that runs, after sentinels and namespaces were replaced, is    *)
(* the one the gates and the policy passed; and an agent's command always  *)
(* runs by an entry of an allow-list.                                      *)
PermittedRuns ==
    \A c \in Calls :
        child[c] # "none" /\ req[c].source # "hook" =>
            LET cfg == req[c].cfg
            IN  /\ ~ cfg.untrusted /\ cfg.enabled
                /\ DenyMatch(ran[c], cfg) = ""
                /\ EvaluatePolicy(ran[c], cfg).allowed
                /\ req[c].source = "mcp" => EvaluatePolicy(ran[c], cfg).match # ""

(* No command runs with a sentinel that was not restored, or half of them, *)
(* although rows are pruned, lookups fail and ctx ends between lookups.    *)
Restore(argv) == [i \in DOMAIN argv |-> IF argv[i] \in Token THEN Value[argv[i]] ELSE argv[i]]

RestoredRuns ==
    \A c \in Calls : child[c] # "none" => ran[c] = Normalize(Restore(Argv(c)))

(* README.md:541-545: whatever env_allow names, a child inherits no        *)
(* variable by which a shell, loader or interpreter runs other code, none  *)
(* but a locale's that env_deny names, and none that nobody named.         *)
ShapedEnv ==
    \A c \in Calls : child[c] # "none" =>
        \A v \in env[c] :
            /\ v \notin HardDenyEnv
            /\ Marks[v] \intersect {"BASH_FUNC_", "GIT_CONFIG_"} = {}
            /\ \/ "LC_" \in Marks[v]
               \/ /\ v \in BaselineEnv(Scope(c)) \union req[c].cfg.envAllow
                  /\ v \notin req[c].cfg.envDeny

(* What runs is recorded first, what was asked for, restored whole, and    *)
(* permitted, and inherits nothing it may not.                             *)
RunsApproved == TracedFirst /\ PermittedRuns /\ RestoredRuns /\ ShapedEnv

(* What the caller is told agrees with what happened and with the log: a   *)
(* refusal means nothing ran; success means both records are there, in     *)
(* order, with the class of the run; only a lost final record is neither.  *)
FinalRecord(c, i) ==
    /\ log[i].call = c /\ log[i].whole
    /\ log[i].class = IF req[c].oversize THEN "audit_truncate_oversize" ELSE class[c]

AnswersTrue ==
    \A c \in Calls :
        /\ answer[c] \notin {"?", "", "EXEC_INTERNAL"} => child[c] = "none"
        /\ answer[c] \in {"", "EXEC_INTERNAL"} => child[c] # "running"
        /\ answer[c] = "" =>
               \E i, j \in DOMAIN log : i < j /\ StartRecord(c, i) /\ FinalRecord(c, j)

(* Whatever the disk, the lookups and the other calls do, a call is a call *)
(* of ExecContract: what may run is settled by the request alone, and the  *)
(* traces are the whole records of the call in the log they all share.     *)
Ruling ==
    [r \in Requests |->
        LET argv == Normalize(Restore(Command(r)))
        IN  [granted |-> GateClass(r) = "" /\ Judgement(r, argv).allowed, argv |-> argv]]

Records(c) == {i \in DOMAIN log : log[i].call = c /\ log[i].whole}

Told(c) ==
    CASE answer[c] = "?" -> "nothing"
      [] answer[c] = "" -> "done"
      [] answer[c] = "EXEC_INTERNAL" -> "unrecorded"
      [] OTHER -> "refused"

Traces == [c \in Calls |-> Cardinality(Records(c))]
Outcomes == [c \in Calls |-> Told(c)]

Contract == INSTANCE ExecContract WITH traces <- Traces, told <- Outcomes

HonoursContract == Contract!ContractSpec
=============================================================================
