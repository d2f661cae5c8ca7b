---------------------------- MODULE HookInstall ----------------------------
(***************************************************************************)
(* The Claude Code hook: opsmask install and uninstall (install/install.go,*)
(* install/registry.go, cchook/secret.go) beside the commands that run     *)
(* through it (cchook/handler.go, cchook/exec.go).                         *)
(*                                                                         *)
(* An installer changes the secret, the shim, a settings file and the      *)
(* registry, one file after the other, and may die between any two.  The   *)
(* secret and the shim are written in place (cut, then filled), settings   *)
(* and registry are replaced by a rename.  A file can always be read, a    *)
(* write may fail.  MkdirAll, .gitignore and git rev-parse are left out.   *)
(***************************************************************************)
EXTENDS Naturals

CONSTANTS
    Project,        \* toplevels of git projects
    Actor,          \* processes of opsmask install and uninstall
    Call,           \* Bash calls of Claude Code
    Entry,          \* hooks of the user's own
    InitSettings,   \* what settings may be at the start
    NoKey,          \* there is no hook_secret
    CutKey,         \* hook_secret is shorter than 32 bytes and was never whole
    LostKey,        \* it is short and was whole: it was opened a second time
    NoProject,
    Exclusive,      \* assumption: one installer at a time in a project
    MaxFaults       \* bound: failed writes of one invocation

(* settings.local.json is read before settings.json.                       *)
File == {"local", "shared"}

(* "plain" is a JSON object without "hooks", "bad" is not JSON.            *)
Settings == [kind : {"none", "bad", "plain", "hooks"}, mine : BOOLEAN, theirs : SUBSET Entry]

HasHook(s) == s.kind = "hooks" /\ s.mine

ASSUME HookAssumption ==
    /\ InitSettings \subseteq [Project -> [File -> {s \in Settings : ~ s.mine}]]
    /\ NoKey \notin Actor /\ CutKey \notin Actor \union {NoKey}
    /\ LostKey \notin Actor \union {NoKey, CutKey}
    /\ NoProject \notin Project
    /\ Exclusive \in BOOLEAN
    /\ MaxFaults \in Nat

VARIABLES
    settings,   \* [Project -> [File -> Settings]]
    shim,       \* [Project -> {"none", "cut", "whole"}]: opsmask-hook.sh
    registry,   \* projects of hook_installs.json; {} if there is none
    secret,     \* hook_secret: who drew it, or NoKey, CutKey or LostKey
    act,        \* [Actor -> what the process does]
    call,       \* [Call -> what becomes of a Bash call]
    stands      \* [Project -> how the last install or uninstall ended]: history

files == <<settings, shim, registry, secret>>
vars == <<files, act, call, stands>>

Working ==
    {"secret", "cutkey", "writekey", "check", "cutshim", "writeshim", "addread", "addwrite",
     "regread", "regwrite", "unhookread", "unhookwrite", "unshim", "stripread", "stripwrite", "rmshim"}

NoSettings == [kind |-> "none", mine |-> FALSE, theirs |-> {}]

Idle ==
    [at |-> "idle", op |-> "install", project |-> NoProject, mode |-> "local", file |-> "local",
     body |-> NoSettings, known |-> {}, faults |-> 0]

NoCall(where) == [at |-> where, project |-> NoProject, dir |-> NoProject, form |-> "plain", key |-> NoKey]

Init ==
    /\ settings \in InitSettings
    /\ shim = [p \in Project |-> "none"]
    /\ registry = {}
    /\ secret = NoKey
    /\ act = [a \in Actor |-> Idle]
    /\ call = [c \in Call |-> NoCall("none")]
    /\ stands = [p \in Project |-> "unsure"]

-----------------------------------------------------------------------------
(* Steps of an installer.                                                  *)

At(a, where) == act[a].at = where
Busy(a) == act[a].at \in Working
Mine(a) == act[a].project
Becomes(a, rec) == act' = [act EXCEPT ![a] = rec]
Goes(a, where) == Becomes(a, [act[a] EXCEPT !.at = where])
Leaves(a) == Becomes(a, Idle)

(* A write of a fails, and the process goes on where the code handles it.  *)
Fault(a, where) ==
    /\ act[a].faults < MaxFaults
    /\ Becomes(a, [act[a] EXCEPT !.at = where, !.body = NoSettings, !.known = {}, !.faults = @ + 1])

(* A write of a fails, and the process gives up.                           *)
Fails(a, standing) ==
    /\ act[a].faults < MaxFaults
    /\ Leaves(a) /\ stands' = [stands EXCEPT ![Mine(a)] = standing]

GivesUp(a) == act[a].faults < MaxFaults /\ Leaves(a)

(* The process ends and says so.                                           *)
Ends(a, standing) ==
    Leaves(a) /\ stands' = [stands EXCEPT ![Mine(a)] = standing]

Start(a) ==
    /\ ~ Busy(a)
    /\ \E p \in Project :
           /\ Exclusive => \A b \in Actor : Busy(b) => Mine(b) # p
           /\ \/ \E mode \in File :
                    Becomes(a, [Idle EXCEPT !.project = p, !.mode = mode, !.at = "secret"])
              \/ Becomes(a, [Idle EXCEPT !.project = p, !.op = "uninstall", !.at = "stripread"])
           /\ stands' = [stands EXCEPT ![p] = "unsure"]
    /\ UNCHANGED <<files, call>>

(* The process dies: nothing is undone.                                    *)
Crash(a) ==
    /\ Busy(a)
    /\ Leaves(a)
    /\ UNCHANGED <<files, call, stands>>

-----------------------------------------------------------------------------
(* EnsureSecret: a secret that is there but short is an error.             *)

KeyDrawn == secret \in Actor \union {LostKey}

FindSecret(a) ==
    /\ At(a, "secret")
    /\ \/ secret \in Actor /\ Goes(a, "check")
       \/ secret = NoKey /\ Goes(a, "cutkey")
       \/ secret \in {CutKey, LostKey} /\ Leaves(a)
    /\ UNCHANGED <<files, call, stands>>

(* os.WriteFile opens the file and cuts it, whatever is in it by now.      *)
CutSecret(a) ==
    /\ At(a, "cutkey")
    /\ \/ Goes(a, "writekey") /\ secret' = IF KeyDrawn THEN LostKey ELSE CutKey
       \/ GivesUp(a) /\ UNCHANGED secret
    /\ UNCHANGED <<settings, shim, registry, call, stands>>

WriteSecret(a) ==
    /\ At(a, "writekey")
    /\ \/ Goes(a, "check") /\ secret' = a
       \/ GivesUp(a) /\ UNCHANGED secret
    /\ UNCHANGED <<settings, shim, registry, call, stands>>

-----------------------------------------------------------------------------
(* InstallClaudeCode.                                                      *)

(* findExistingHook, one file after the other.  hasHook asserts that       *)
(* "hooks" is an object, and panics where there is none.                   *)
CheckHook(a) ==
    /\ At(a, "check")
    /\ LET s == settings[Mine(a)][act[a].file]
       IN  \/ HasHook(s) /\ Leaves(a)
           \/ s.kind = "plain" /\ Leaves(a)
           \/ /\ ~ HasHook(s) /\ s.kind # "plain"
              /\ IF act[a].file = "local"
                 THEN Becomes(a, [act[a] EXCEPT !.file = "shared"])
                 ELSE Goes(a, "cutshim")
    /\ UNCHANGED <<files, call, stands>>

CutShim(a) ==
    /\ At(a, "cutshim")
    /\ \/ /\ Goes(a, "writeshim")
          /\ shim' = [shim EXCEPT ![Mine(a)] = "cut"]
          /\ UNCHANGED stands
       \/ Fails(a, "left") /\ UNCHANGED shim
    /\ UNCHANGED <<settings, registry, secret, call>>

WriteShim(a) ==
    /\ At(a, "writeshim")
    /\ \/ /\ Goes(a, "addread")
          /\ shim' = [shim EXCEPT ![Mine(a)] = "whole"]
          /\ UNCHANGED stands
       \/ Fails(a, "left") /\ UNCHANGED shim
    /\ UNCHANGED <<settings, registry, secret, call>>

(* Mutant of AddRead: settings that cannot be parsed count as empty.       *)
AddReadLenient(a) ==
    /\ At(a, "addread")
    /\ Becomes(a, [act[a] EXCEPT !.at = "addwrite", !.body = settings[Mine(a)][act[a].mode]])
    /\ UNCHANGED <<files, call, stands>>

(* addHook: readSettings.                                                  *)
AddRead(a) ==
    /\ At(a, "addread")
    /\ LET s == settings[Mine(a)][act[a].mode]
       IN  IF s.kind = "bad" THEN Goes(a, "unshim")
           ELSE Becomes(a, [act[a] EXCEPT !.at = "addwrite", !.body = s])
    /\ UNCHANGED <<files, call, stands>>

(* writeSettings of what was read, with our entry added or taken out.      *)
Replaces(a, f, mine) ==
    settings' = [settings EXCEPT ![Mine(a)][f] =
                    [kind |-> "hooks", mine |-> mine, theirs |-> act[a].body.theirs]]

AddWrite(a) ==
    /\ At(a, "addwrite")
    /\ \/ Becomes(a, [act[a] EXCEPT !.at = "regread", !.body = NoSettings]) /\ Replaces(a, act[a].mode, TRUE)
       \/ Fault(a, "unshim") /\ UNCHANGED settings
    /\ UNCHANGED <<shim, registry, secret, call, stands>>

(* removeHookOrErr, whose error is dropped.  It writes into "hooks", and   *)
(* panics where there is none.                                             *)
UnhookRead(a) ==
    /\ At(a, "unhookread")
    /\ LET s == settings[Mine(a)][act[a].mode]
       IN  \/ s.kind \in {"none", "bad"} /\ Goes(a, "unshim")
           \/ s.kind = "plain" /\ Leaves(a)
           \/ s.kind = "hooks" /\ Becomes(a, [act[a] EXCEPT !.at = "unhookwrite", !.body = s])
    /\ UNCHANGED <<files, call, stands>>

UnhookWrite(a) ==
    /\ At(a, "unhookwrite")
    /\ \/ Goes(a, "unshim") /\ Replaces(a, act[a].mode, FALSE)
       \/ Fault(a, "unshim") /\ UNCHANGED settings
    /\ UNCHANGED <<shim, registry, secret, call, stands>>

Unshim(a) ==
    /\ At(a, "unshim")
    /\ \/ Ends(a, "back") /\ shim' = [shim EXCEPT ![Mine(a)] = "none"]
       \/ Fails(a, "left") /\ UNCHANGED shim
    /\ UNCHANGED <<settings, registry, secret, call>>

-----------------------------------------------------------------------------
(* RegisterInstall and Unregister: updateRegistry.                         *)

RegRead(a) ==
    /\ At(a, "regread")
    /\ Becomes(a, [act[a] EXCEPT !.at = "regwrite", !.known = registry])
    /\ UNCHANGED <<files, call, stands>>

(* Mutant of RegWrite: an install that cannot be registered is not undone. *)
RegWriteStays(a) ==
    /\ At(a, "regwrite")
    /\ UNCHANGED <<settings, shim, secret, call>>
    /\ \/ /\ Ends(a, IF act[a].op = "install" THEN "in" ELSE "out")
          /\ registry' = IF act[a].op = "install" THEN act[a].known \union {Mine(a)} ELSE act[a].known \ {Mine(a)}
       \/ Fails(a, IF act[a].op = "install" THEN "back" ELSE "unsure") /\ UNCHANGED registry

RegWrite(a) ==
    /\ At(a, "regwrite")
    /\ UNCHANGED <<settings, shim, secret, call>>
    /\ \/ /\ act[a].op = "install"
          /\ \/ Ends(a, "in") /\ registry' = act[a].known \union {Mine(a)}
             \/ Fault(a, "unhookread") /\ UNCHANGED <<registry, stands>>
       \/ /\ act[a].op = "uninstall"
          /\ \/ /\ Ends(a, "out")
                /\ registry' = act[a].known \ {Mine(a)}
             \/ Fails(a, "unsure") /\ UNCHANGED registry

-----------------------------------------------------------------------------
(* UninstallClaudeCode.                                                    *)

NextFile(a) ==
    IF act[a].file = "local"
    THEN Becomes(a, [act[a] EXCEPT !.at = "stripread", !.file = "shared"])
    ELSE Becomes(a, [act[a] EXCEPT !.at = "rmshim", !.body = NoSettings])

(* removeHook: a file without our entry is left alone.                     *)
StripRead(a) ==
    /\ At(a, "stripread")
    /\ LET s == settings[Mine(a)][act[a].file]
       IN  \/ s.kind = "bad" /\ Ends(a, "unsure")
           \/ /\ HasHook(s)
              /\ Becomes(a, [act[a] EXCEPT !.at = "stripwrite", !.body = s])
              /\ UNCHANGED stands
           \/ /\ s.kind # "bad" /\ ~ HasHook(s)
              /\ NextFile(a)
              /\ UNCHANGED stands
    /\ UNCHANGED <<files, call>>

(* Mutant of StripWrite: an error of removeHook is dropped.                *)
StripWriteSoft(a) ==
    /\ At(a, "stripwrite")
    /\ NextFile(a)
    /\ Replaces(a, act[a].file, FALSE) \/ UNCHANGED settings
    /\ UNCHANGED <<shim, registry, secret, call, stands>>

StripWrite(a) ==
    /\ At(a, "stripwrite")
    /\ \/ /\ NextFile(a)
          /\ Replaces(a, act[a].file, FALSE)
          /\ UNCHANGED stands
       \/ Fails(a, "unsure") /\ UNCHANGED settings
    /\ UNCHANGED <<shim, registry, secret, call>>

RmShim(a) ==
    /\ At(a, "rmshim")
    /\ \/ /\ Goes(a, "regread")
          /\ shim' = [shim EXCEPT ![Mine(a)] = "none"]
          /\ UNCHANGED stands
       \/ Fails(a, "unsure") /\ UNCHANGED shim
    /\ UNCHANGED <<settings, registry, secret, call>>

-----------------------------------------------------------------------------
(* A Bash call.  "raw": it runs as it was written because the hook command *)
(* failed; "passed": because the handler said so; "running": wrapped.      *)

(* On the skip list (cchook.Match); inside a command that is masked.       *)
Form == {"plain", "skipped", "nested"}

Outcome == {"none", "raw", "passed", "refused", "running"}

Hooked(p) == \E f \in File : HasHook(settings[p][f])
Settles(c, where) == call' = [call EXCEPT ![c].at = where]
Over(c, where) == call' = [call EXCEPT ![c] = NoCall(where)]
CallAt(c, where) == call[c].at = where

Fire(c) ==
    /\ call[c].at \in Outcome
    /\ \E p \in Project :
           Hooked(p) /\ call' = [call EXCEPT ![c] = [NoCall("fired") EXCEPT !.project = p]]
    /\ UNCHANGED <<files, act, stands>>

(* Claude Code runs the shim; a hook that cannot run blocks nothing.       *)
RunShim(c) ==
    /\ CallAt(c, "fired")
    /\ IF shim[call[c].project] = "whole"
       THEN \E form \in Form : call' = [call EXCEPT ![c].at = "handle", ![c].form = form]
       ELSE Over(c, "raw")
    /\ UNCHANGED <<files, act, stands>>

(* Mutant of Handle: a project that is not registered is left alone.       *)
HandleOpen(c) ==
    /\ CallAt(c, "handle")
    /\ IF call[c].form # "plain" \/ call[c].project \notin registry THEN Over(c, "passed")
       ELSE Settles(c, "sign")
    /\ UNCHANGED <<files, act, stands>>

(* Handle, to the skip list.                                               *)
Handle(c) ==
    /\ CallAt(c, "handle")
    /\ IF call[c].form = "nested" THEN Over(c, "passed")
       ELSE IF call[c].project \notin registry THEN Over(c, "refused")
       ELSE IF call[c].form = "skipped" THEN Over(c, "passed")
       ELSE Settles(c, "sign")
    /\ UNCHANGED <<files, act, stands>>

(* Mutant of SignCommand: the length of the secret is not looked at.       *)
SignShort(c) ==
    /\ CallAt(c, "sign")
    /\ \/ secret # NoKey /\ call' = [call EXCEPT ![c].at = "signed", ![c].key = secret]
       \/ secret = NoKey /\ Over(c, "refused")
    /\ UNCHANGED <<files, act, stands>>

(* Handle, from LoadSecret: a short secret or none is refused.             *)
SignCommand(c) ==
    /\ CallAt(c, "sign")
    /\ \/ secret \in Actor /\ call' = [call EXCEPT ![c].at = "signed", ![c].key = secret]
       \/ secret \notin Actor /\ Over(c, "refused")
    /\ UNCHANGED <<files, act, stands>>

(* RunWrapped, in whatever project the shell is in by now.                 *)
CheckWrapped(c) ==
    /\ CallAt(c, "signed")
    /\ \E d \in Project :
           \/ d \in registry /\ call' = [call EXCEPT ![c].at = "verify", ![c].dir = d]
           \/ d \notin registry /\ Over(c, "refused")
    /\ UNCHANGED <<files, act, stands>>

(* Mutant of Signature: the project is not signed.                         *)
SignatureOfCommand(key, project) == <<key>>

(* Sign, of a command that stays as it is on the way.                      *)
Signature(key, project) == <<key, project>>

VerifyCommand(c) ==
    /\ CallAt(c, "verify")
    /\ Over(c, IF secret \in Actor
                  /\ Signature(secret, call[c].dir) = Signature(call[c].key, call[c].project)
               THEN "running" ELSE "refused")
    /\ UNCHANGED <<files, act, stands>>

-----------------------------------------------------------------------------
ActorStep(a) ==
    \/ Start(a) \/ Crash(a) \/ FindSecret(a) \/ CutSecret(a) \/ WriteSecret(a)
    \/ CheckHook(a) \/ CutShim(a) \/ WriteShim(a) \/ AddRead(a) \/ AddWrite(a)
    \/ RegRead(a) \/ RegWrite(a) \/ UnhookRead(a) \/ UnhookWrite(a) \/ Unshim(a)
    \/ StripRead(a) \/ StripWrite(a) \/ RmShim(a)

CallStep(c) ==
    \/ Fire(c) \/ RunShim(c) \/ Handle(c) \/ SignCommand(c) \/ CheckWrapped(c) \/ VerifyCommand(c)

Next == (\E a \in Actor : ActorStep(a)) \/ (\E c \in Call : CallStep(c))

Spec == Init /\ [][Next]_vars

-----------------------------------------------------------------------------
(* Properties.                                                             *)

(* Every variable has its type.                                            *)
TypeOK ==
    /\ settings \in [Project -> [File -> Settings]]
    /\ shim \in [Project -> {"none", "cut", "whole"}]
    /\ registry \subseteq Project
    /\ secret \in Actor \union {NoKey, CutKey, LostKey}
    /\ act \in [Actor -> [at : Working \union {"idle"}, op : {"install", "uninstall"}, project : Project \union {NoProject},
                          mode : File, file : File, body : Settings, known : SUBSET Project,
                          faults : Nat]]
    /\ call \in [Call -> [at : Outcome \union {"fired", "handle", "sign", "signed", "verify"},
                          project : Project \union {NoProject}, dir : Project \union {NoProject},
                          form : Form, key : Actor \union {NoKey}]]
    /\ stands \in [Project -> {"unsure", "in", "out", "back", "left"}]

(* install.go:53-66, :97-110: a settings file never names a shim that is   *)
(* missing or half written, whichever write failed and whenever installers *)
(* died.  Claude Code runs a command as it is when its hook cannot run.    *)
HookHasShim == \A p \in Project : Hooked(p) => shim[p] = "whole"

(* What install and uninstall have answered stays so until the next one in *)
(* that project.  "in": a hook in place, its shim, and a secret to sign    *)
(* with; but a first install in another project that had found no secret   *)
(* either may have cut it since, on the way to its own (LostKey).  "out",  *)
(* "back": neither hook nor shim, after an uninstall or an install that    *)
(* failed and was undone.  "left": the install failed at its shim, of which*)
(* a part may be left behind, but no hook.                                 *)
StandsAsAnswered ==
    \A p \in Project :
        /\ stands[p] = "in" =>
              Hooked(p) /\ shim[p] = "whole" /\ secret \in Actor \union {LostKey}
        /\ stands[p] \in {"out", "back"} => ~ Hooked(p) /\ shim[p] = "none"
        /\ stands[p] = "left" => ~ Hooked(p)

(* The user's own hooks outlive every install, rollback and uninstall, and *)
(* a settings file that is not JSON is never replaced.                     *)
TheirsKept ==
    [][\A p \in Project, f \in File :
           /\ settings'[p][f].theirs = settings[p][f].theirs
           /\ settings[p][f].kind = "bad" => settings'[p][f].kind = "bad"]_vars

(* handler.go:51-65, the shim: while a project is hooked a command runs    *)
(* unmasked only inside a masked one, or from the skip list of a project   *)
(* that is registered; losing the registry, the secret or the shim to an   *)
(* installer meanwhile refuses it, or finds the hook gone as well.         *)
FailsClosed ==
    [][\A c \in Call :
           /\ call'[c].at = "raw" /\ call[c].at # "raw" => ~ Hooked(call[c].project)
           /\ call'[c].at = "passed" /\ call[c].at # "passed" =>
                  \/ call[c].form = "nested"
                  \/ call[c].form = "skipped" /\ call[c].project \in registry]_vars

(* README.md:261-264: what runs past the policy was signed by the handler  *)
(* for the project it runs in, under the secret that is still in place.    *)
RunsAuthorised ==
    [][\A c \in Call :
           call'[c].at = "running" /\ call[c].at # "running" =>
               /\ call[c].dir = call[c].project
               /\ call[c].form = "plain"
               /\ call[c].key = secret]_vars

(* Both: what a call comes to is what the hook decided about it.           *)
CallsSafe == FailsClosed /\ RunsAuthorised
=============================================================================
