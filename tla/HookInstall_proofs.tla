------------------------- MODULE HookInstall_proofs -------------------------
(***************************************************************************)
(* For any number of projects, installers and calls: what the hook keeps.  *)
(* The shim is safe (HookHasShim) only while one installer works in a      *)
(* project and at most one of its writes fails; the secret, the registry   *)
(* and other projects may change under it at any time.                     *)
(***************************************************************************)
EXTENDS HookInstall, TLAPS

USE DEF KeyDrawn

LEMMA SettingsFields ==
    ASSUME NEW s \in Settings
    PROVE  /\ s.kind \in {"none", "bad", "plain", "hooks"}
           /\ s.mine \in BOOLEAN /\ s.theirs \subseteq Entry
BY DEF Settings

(* The record of what a process does.                                      *)
ActType ==
    [at : Working \union {"idle"}, op : {"install", "uninstall"}, project : Project \union {NoProject},
     mode : File, file : File, body : Settings, known : SUBSET Project, faults : Nat]

LEMMA IdleType == Idle \in ActType
BY DEF Idle, ActType, NoSettings, Settings, File

(* Inductive: the types, and that a process that works has a project.      *)
TInv == TypeOK /\ \A a \in Actor : Busy(a) => Mine(a) \in Project

LEMMA TypeInit == Init => TInv
<1> SUFFICES ASSUME Init PROVE TInv
  OBVIOUS
<1>1. act \in [Actor -> ActType]
  BY IdleType DEF Init
<1>2. settings \in [Project -> [File -> Settings]]
  BY HookAssumption DEF Init
<1>3. \A a \in Actor : ~ Busy(a)
  BY DEF Init, Busy, Idle, Working
<1> QED
  BY <1>1, <1>2, <1>3 DEF Init, TInv, TypeOK, ActType, NoCall, Form, Outcome

(* What a step of a process that works may do: its own record, the files   *)
(* of its own project, the secret and the registry.                        *)
Moved(a) == \E r \in ActType : (r.at \in Working => r.project = Mine(a)) /\ Becomes(a, r)

Shims == {"none", "cut", "whole"}
Standings == {"unsure", "in", "out", "back", "left"}

Frame(a) ==
    /\ Moved(a)
    /\ \/ settings' = settings
       \/ \E f \in File, s \in Settings : settings' = [settings EXCEPT ![Mine(a)][f] = s]
    /\ shim' = shim \/ \E v \in Shims : shim' = [shim EXCEPT ![Mine(a)] = v]
    /\ registry' \subseteq Project
    /\ secret' \in {secret, LostKey, a} \/ (secret' = CutKey /\ ~ KeyDrawn)
    /\ stands' = stands \/ \E v \in Standings : stands' = [stands EXCEPT ![Mine(a)] = v]
    /\ call' = call

LEMMA RecordType == ASSUME TInv, NEW a \in Actor PROVE act[a] \in ActType
BY DEF TInv, TypeOK, ActType

LEMMA MovedGoes ==
    ASSUME TInv, NEW a \in Actor, NEW where \in Working, Goes(a, where) PROVE Moved(a)
<1> DEFINE r == [act[a] EXCEPT !.at = where]
<1>1. r \in ActType
  BY RecordType DEF ActType
<1>2. r.project = Mine(a)
  BY RecordType DEF ActType, Mine
<1> QED
  BY <1>1, <1>2 DEF Goes, Moved

LEMMA MovedFault ==
    ASSUME TInv, NEW a \in Actor, NEW where \in Working, Fault(a, where) PROVE Moved(a)
<1> DEFINE r == [act[a] EXCEPT !.at = where, !.body = NoSettings, !.known = {}, !.faults = @ + 1]
<1>1. r \in ActType
  <2>1. NoSettings \in Settings /\ act[a] \in ActType
    BY RecordType DEF NoSettings, Settings
  <2>2. act[a].faults + 1 \in Nat /\ {} \in SUBSET Project
    BY <2>1 DEF ActType
  <2> QED
    BY <2>1, <2>2 DEF ActType
<1>2. r.project = Mine(a)
  BY RecordType DEF ActType, Mine
<1> QED
  BY <1>1, <1>2 DEF Fault, Moved

LEMMA MovedLeaves ==
    ASSUME NEW a \in Actor, Leaves(a) PROVE Moved(a)
<1>1. Idle.at \notin Working
  BY DEF Idle, Working
<1> QED
  BY <1>1, IdleType DEF Leaves, Moved

LEMMA MovedBody ==
    ASSUME TInv, NEW a \in Actor, NEW where \in Working, NEW s \in Settings,
           Becomes(a, [act[a] EXCEPT !.at = where, !.body = s])
    PROVE  Moved(a)
<1> DEFINE r == [act[a] EXCEPT !.at = where, !.body = s]
<1>1. r \in ActType
  BY RecordType DEF ActType
<1>2. r.project = Mine(a)
  BY RecordType DEF ActType, Mine
<1> QED
  BY <1>1, <1>2 DEF Moved

LEMMA MovedFile ==
    ASSUME TInv, NEW a \in Actor, Busy(a),
           \/ Becomes(a, [act[a] EXCEPT !.file = "shared"])
           \/ Becomes(a, [act[a] EXCEPT !.at = "stripread", !.file = "shared"])
    PROVE  Moved(a)
<1>1. /\ [act[a] EXCEPT !.file = "shared"] \in ActType
      /\ [act[a] EXCEPT !.at = "stripread", !.file = "shared"] \in ActType
  BY RecordType DEF ActType, File, Working
<1>2. /\ [act[a] EXCEPT !.file = "shared"].project = Mine(a)
      /\ [act[a] EXCEPT !.at = "stripread", !.file = "shared"].project = Mine(a)
  BY RecordType DEF ActType, Mine
<1> QED
  BY <1>1, <1>2 DEF Moved

LEMMA MovedKnown ==
    ASSUME TInv, NEW a \in Actor,
           Becomes(a, [act[a] EXCEPT !.at = "regwrite", !.known = registry])
    PROVE  Moved(a)
<1> DEFINE r == [act[a] EXCEPT !.at = "regwrite", !.known = registry]
<1>1. r \in ActType
  <2>1. registry \in SUBSET Project /\ "regwrite" \in Working /\ act[a] \in ActType
    BY RecordType DEF TInv, TypeOK, Working
  <2> QED
    BY <2>1 DEF ActType
<1>2. r.project = Mine(a)
  BY RecordType DEF ActType, Mine
<1> QED
  BY <1>1, <1>2 DEF Moved

LEMMA MovedNext ==
    ASSUME TInv, NEW a \in Actor, Busy(a), NextFile(a) PROVE Moved(a)
<1>1. NoSettings \in Settings /\ "rmshim" \in Working
  BY DEF NoSettings, Settings, Working
<1> QED
  BY <1>1, MovedFile, MovedBody DEF NextFile

LEMMA ReplacesType ==
    ASSUME TInv, NEW a \in Actor, NEW f \in File, NEW mine \in BOOLEAN, Replaces(a, f, mine)
    PROVE  \E s \in Settings : settings' = [settings EXCEPT ![Mine(a)][f] = s]
<1>1. [kind |-> "hooks", mine |-> mine, theirs |-> act[a].body.theirs] \in Settings
  BY RecordType DEF ActType, Settings
<1> QED
  BY <1>1 DEF Replaces

LEMMA MovedKeeps ==
    ASSUME TInv, NEW a \in Actor, Busy(a), Moved(a)
    PROVE  /\ act' \in [Actor -> ActType]
           /\ \A b \in Actor : Busy(b)' => Mine(b)' \in Project
           /\ \A b \in Actor \ {a} : act'[b] = act[b]
           /\ Busy(a)' => Mine(a)' = Mine(a)
<1>1. PICK r \in ActType : (r.at \in Working => r.project = Mine(a)) /\ act' = [act EXCEPT ![a] = r]
  BY DEF Moved, Becomes
<1>2. act \in [Actor -> ActType] /\ Mine(a) \in Project
  BY DEF TInv, TypeOK, ActType
<1>3. act'[a] = r /\ \A b \in Actor \ {a} : act'[b] = act[b]
  BY <1>1, <1>2
<1>4. \A b \in Actor : Busy(b)' => Mine(b)' \in Project
  BY <1>1, <1>2, <1>3 DEF Busy, Mine, TInv
<1> QED
  BY <1>1, <1>2, <1>3, <1>4 DEF Busy, Mine

LEMMA FrameTypes == ASSUME TInv, NEW a \in Actor, Busy(a), Frame(a) PROVE TInv'
<1>1. act' \in [Actor -> ActType] /\ \A b \in Actor : Busy(b)' => Mine(b)' \in Project
  BY MovedKeeps DEF Frame
<1>2. settings' \in [Project -> [File -> Settings]]
  <2>1. CASE settings' = settings
    BY <2>1 DEF TInv, TypeOK
  <2>2. CASE \E f \in File, s \in Settings : settings' = [settings EXCEPT ![Mine(a)][f] = s]
    <3>1. PICK f \in File, s \in Settings : settings' = [settings EXCEPT ![Mine(a)][f] = s]
      BY <2>2
    <3>2. settings \in [Project -> [File -> Settings]] /\ Mine(a) \in Project
      BY DEF TInv, TypeOK
    <3>3. [settings[Mine(a)] EXCEPT ![f] = s] \in [File -> Settings]
      BY <3>2
    <3> QED
      BY <3>1, <3>2, <3>3
  <2> QED
    BY <2>1, <2>2 DEF Frame
<1>3. shim' \in [Project -> Shims]
  BY DEF Frame, TInv, TypeOK, Shims
<1>4. stands' \in [Project -> Standings]
  BY DEF Frame, TInv, TypeOK, Standings
<1>5. secret' \in Actor \union {NoKey, CutKey, LostKey}
  BY DEF Frame, TInv, TypeOK
<1>6. registry' \subseteq Project /\ call' = call
  BY DEF Frame
<1> QED
  BY <1>1, <1>2, <1>3, <1>4, <1>5, <1>6 DEF TInv, TypeOK, ActType, Shims, Standings

-----------------------------------------------------------------------------
(* Every step of a process that works stays in its frame.                  *)

Work(a) ==
    \/ Crash(a) \/ FindSecret(a) \/ CutSecret(a) \/ WriteSecret(a)
    \/ CheckHook(a) \/ CutShim(a) \/ WriteShim(a) \/ AddRead(a) \/ AddWrite(a)
    \/ RegRead(a) \/ RegWrite(a) \/ UnhookRead(a) \/ UnhookWrite(a) \/ Unshim(a)
    \/ StripRead(a) \/ StripWrite(a) \/ RmShim(a)

LEMMA WorkBusy == ASSUME NEW a \in Actor, Work(a) PROVE Busy(a)
BY DEF Work, Busy, At, Working, Crash, FindSecret, CutSecret, WriteSecret, CheckHook, CutShim, WriteShim,
       AddRead, AddWrite, RegRead, RegWrite, UnhookRead, UnhookWrite, Unshim, StripRead, StripWrite, RmShim

LEMMA WorkFrame == ASSUME TInv, NEW a \in Actor, Work(a) PROVE Frame(a)
<1> USE DEF Shims, Standings
<1>w. /\ {"check", "cutkey", "cutshim", "writekey", "writeshim", "addread", "unshim", "regread",
          "unhookread", "addwrite", "unhookwrite", "stripwrite"} \subseteq Working
      /\ NoSettings \in Settings /\ registry \subseteq Project
      /\ secret \in Actor \union {NoKey, CutKey, LostKey}
  BY DEF Working, NoSettings, Settings, TInv, TypeOK
<1>b. Busy(a)
  BY WorkBusy
<1>s. \A f \in File : settings[Mine(a)][f] \in Settings
  BY <1>b DEF TInv, TypeOK
<1>m. act[a].mode \in File /\ act[a].file \in File /\ act[a].known \subseteq Project
  BY RecordType DEF ActType
<1>1. CASE Crash(a)
  BY <1>1, <1>w, MovedLeaves DEF Crash, Frame, files
<1>2. CASE FindSecret(a)
  BY <1>2, <1>w, MovedLeaves, MovedGoes DEF FindSecret, Frame, files
<1>3. CASE CutSecret(a)
  BY <1>3, <1>w, MovedLeaves, MovedGoes DEF CutSecret, Frame, GivesUp
<1>4. CASE WriteSecret(a)
  BY <1>4, <1>w, MovedLeaves, MovedGoes DEF WriteSecret, Frame, GivesUp
<1>5. CASE CheckHook(a)
  BY <1>5, <1>b, <1>w, MovedLeaves, MovedGoes, MovedFile DEF CheckHook, Frame, files
<1>6. CASE CutShim(a)
  BY <1>6, <1>w, MovedLeaves, MovedGoes DEF CutShim, Frame, Fails
<1>7. CASE WriteShim(a)
  BY <1>7, <1>w, MovedLeaves, MovedGoes DEF WriteShim, Frame, Fails
<1>8. CASE AddRead(a)
  BY <1>8, <1>w, <1>s, <1>m, MovedGoes, MovedBody DEF AddRead, Frame, files
<1>9. CASE AddWrite(a)
  BY <1>9, <1>w, <1>m, MovedBody, MovedFault, ReplacesType DEF AddWrite, Frame
<1>10. CASE RegRead(a)
  BY <1>10, <1>w, MovedKnown DEF RegRead, Frame, files
<1>11. CASE RegWrite(a)
  <2>1. (act[a].known \union {Mine(a)}) \subseteq Project /\ (act[a].known \ {Mine(a)}) \subseteq Project
    BY <1>m, <1>b DEF TInv
  <2> QED
    BY <1>11, <1>w, <2>1, MovedLeaves, MovedFault DEF RegWrite, Frame, Fails, Ends
<1>12. CASE UnhookRead(a)
  BY <1>12, <1>w, <1>s, <1>m, MovedLeaves, MovedGoes, MovedBody DEF UnhookRead, Frame, files
<1>13. CASE UnhookWrite(a)
  BY <1>13, <1>w, <1>m, MovedGoes, MovedFault, ReplacesType DEF UnhookWrite, Frame
<1>14. CASE Unshim(a)
  BY <1>14, <1>w, MovedLeaves DEF Unshim, Frame, Fails, Ends
<1>15. CASE StripRead(a)
  BY <1>15, <1>b, <1>w, <1>s, <1>m, MovedLeaves, MovedBody, MovedNext DEF StripRead, Frame, files, Ends
<1>16. CASE StripWrite(a)
  BY <1>16, <1>b, <1>w, <1>m, MovedLeaves, MovedNext, ReplacesType DEF StripWrite, Frame, Fails
<1>17. CASE RmShim(a)
  BY <1>17, <1>w, MovedLeaves, MovedGoes DEF RmShim, Frame, Fails
<1> QED
  BY <1>1, <1>2, <1>3, <1>4, <1>5, <1>6, <1>7, <1>8, <1>9, <1>10, <1>11, <1>12, <1>13, <1>14,
     <1>15, <1>16, <1>17 DEF Work

LEMMA TypeStart == ASSUME TInv, NEW a \in Actor, Start(a) PROVE TInv'
<1>1. PICK p \in Project :
        /\ \/ \E mode \in File :
                 Becomes(a, [Idle EXCEPT !.project = p, !.mode = mode, !.at = "secret"])
           \/ Becomes(a, [Idle EXCEPT !.project = p, !.op = "uninstall", !.at = "stripread"])
        /\ stands' = [stands EXCEPT ![p] = "unsure"]
  BY DEF Start
<1>2. \E r \in ActType : r.project = p /\ act' = [act EXCEPT ![a] = r]
  <2>1. NoSettings \in Settings
    BY DEF NoSettings, Settings
  <2>2. /\ \A mode \in File : [Idle EXCEPT !.project = p, !.mode = mode, !.at = "secret"] \in ActType
        /\ [Idle EXCEPT !.project = p, !.op = "uninstall", !.at = "stripread"] \in ActType
    BY <2>1 DEF Idle, ActType, File, Working
  <2>3. /\ \A mode \in File : [Idle EXCEPT !.project = p, !.mode = mode, !.at = "secret"].project = p
        /\ [Idle EXCEPT !.project = p, !.op = "uninstall", !.at = "stripread"].project = p
    BY DEF Idle
  <2> QED
    BY <1>1, <2>2, <2>3 DEF Becomes
<1>3. act \in [Actor -> ActType] /\ stands \in [Project -> Standings]
  BY DEF TInv, TypeOK, ActType, Standings
<1>4. act' \in [Actor -> ActType] /\ \A b \in Actor : Busy(b)' => Mine(b)' \in Project
  BY <1>2, <1>3 DEF TInv, Busy, Mine
<1>5. stands' \in [Project -> Standings]
  BY <1>1, <1>3 DEF Standings
<1> QED
  BY <1>4, <1>5 DEF Start, files, TInv, TypeOK, ActType, Standings

CallType ==
    [at : Outcome \union {"fired", "handle", "sign", "signed", "verify"},
     project : Project \union {NoProject}, dir : Project \union {NoProject},
     form : Form, key : Actor \union {NoKey}]

LEMMA TypeCall == ASSUME TInv, NEW c \in Call, CallStep(c) PROVE TInv'
<1>1. call \in [Call -> CallType] /\ call[c] \in CallType
  BY DEF TInv, TypeOK, CallType
<1>2. \A where \in Outcome : NoCall(where) \in CallType
  BY DEF NoCall, CallType, Form
<1>3. {"raw", "passed", "refused", "running", "none"} \subseteq Outcome
  BY DEF Outcome
<1>4. call' \in [Call -> CallType]
  <2>1. CASE Fire(c)
    <3>1. \A p \in Project : [NoCall("fired") EXCEPT !.project = p] \in CallType
      BY DEF NoCall, CallType, Form
    <3> QED
      BY <1>1, <2>1, <3>1 DEF Fire
  <2>2. CASE RunShim(c)
    <3>1. \A form \in Form : [call[c] EXCEPT !.at = "handle", !.form = form] \in CallType
      BY <1>1 DEF CallType
    <3> QED
      BY <1>1, <1>2, <1>3, <2>2, <3>1 DEF RunShim, Over
  <2>3. CASE Handle(c)
    <3>1. [call[c] EXCEPT !.at = "sign"] \in CallType
      BY <1>1 DEF CallType
    <3> QED
      BY <1>1, <1>2, <1>3, <2>3, <3>1 DEF Handle, Over, Settles
  <2>4. CASE SignCommand(c)
    <3>1. secret \in Actor => [call[c] EXCEPT !.at = "signed", !.key = secret] \in CallType
      BY <1>1 DEF CallType
    <3> QED
      BY <1>1, <1>2, <1>3, <2>4, <3>1 DEF SignCommand, Over
  <2>5. CASE CheckWrapped(c)
    <3>1. \A d \in Project : [call[c] EXCEPT !.at = "verify", !.dir = d] \in CallType
      BY <1>1 DEF CallType
    <3> QED
      BY <1>1, <1>2, <1>3, <2>5, <3>1 DEF CheckWrapped, Over
  <2>6. CASE VerifyCommand(c)
    BY <1>1, <1>2, <1>3, <2>6 DEF VerifyCommand, Over
  <2> QED
    BY <2>1, <2>2, <2>3, <2>4, <2>5, <2>6 DEF CallStep
<1>5. UNCHANGED <<files, act, stands>>
  BY DEF CallStep, Fire, RunShim, Handle, SignCommand, CheckWrapped, VerifyCommand
<1> QED
  BY <1>4, <1>5 DEF files, TInv, TypeOK, CallType, Busy, Mine

LEMMA TypeStep == TInv /\ [Next]_vars => TInv'
<1> SUFFICES ASSUME TInv, [Next]_vars PROVE TInv'
  OBVIOUS
<1>1. ASSUME NEW a \in Actor, Work(a) PROVE TInv'
  BY <1>1, WorkBusy, WorkFrame, FrameTypes
<1>2. CASE UNCHANGED vars
  BY <1>2 DEF vars, files, TInv, TypeOK, Busy, Mine
<1> QED
  BY <1>1, <1>2, TypeStart, TypeCall DEF Next, ActorStep, Work

(* Every variable keeps its type, whatever settings the projects had.      *)
THEOREM HookTyping == Spec => []TypeOK
<1>1. TInv => TypeOK
  BY DEF TInv
<1> QED
  BY <1>1, TypeInit, TypeStep, PTL DEF Spec

-----------------------------------------------------------------------------
(* The shim.  Where a process is says what it has found and done; nobody   *)
(* else changes it, because no other process works in the project.         *)

Installs == {"secret", "cutkey", "writekey", "check", "cutshim", "writeshim", "addread", "addwrite"}
Removes == {"stripread", "stripwrite", "rmshim"}
Unhooked == {"cutshim", "writeshim", "addread", "addwrite", "unshim", "rmshim"}
Undoes == {"unhookread", "unhookwrite"}
Registers == {"regread", "regwrite"}

(* The one file with our entry, and the shim it names.                     *)
InPlace(a) ==
    /\ HasHook(settings[Mine(a)][act[a].mode])
    /\ \A f \in File \ {act[a].mode} : ~ HasHook(settings[Mine(a)][f])
    /\ KeyDrawn

Located(a) ==
    LET p == Mine(a)
        at == act[a].at
        install == act[a].op = "install"
    IN  /\ at \in Working => stands[p] = "unsure"
        /\ at \in Installs => install
        /\ at \in Removes => ~ install
        /\ at \in {"secret", "cutkey", "writekey"} => act[a].file = "local"
        /\ at \in {"check", "cutshim", "writeshim", "addread", "addwrite"} => KeyDrawn
        /\ at \in {"check", "stripread", "stripwrite"} /\ act[a].file = "shared" =>
               ~ HasHook(settings[p]["local"])
        /\ at \in Unhooked => ~ Hooked(p)
        /\ at = "writeshim" => shim[p] = "cut"
        /\ at \in {"addread", "addwrite"} => shim[p] = "whole"
        /\ at \in Undoes => InPlace(a) /\ act[a].faults > 0
        /\ at \in Registers /\ install => InPlace(a)
        /\ at \in Registers /\ ~ install => ~ Hooked(p) /\ shim[p] = "none"

Turns == \A a, b \in Actor : a # b /\ Busy(a) /\ Busy(b) => Mine(a) # Mine(b)

(* HookHasShim and StandsAsAnswered, of one project.                       *)
Sound(p) ==
    /\ Hooked(p) => shim[p] = "whole"
    /\ stands[p] = "in" => Hooked(p) /\ shim[p] = "whole" /\ KeyDrawn
    /\ stands[p] \in {"out", "back"} => ~ Hooked(p) /\ shim[p] = "none"
    /\ stands[p] = "left" => ~ Hooked(p)

IInv ==
    /\ TInv
    /\ Turns
    /\ \A a \in Actor : Located(a)
    /\ \A p \in Project : Sound(p)

LEMMA InvInit == Init => IInv
<1> SUFFICES ASSUME Init PROVE IInv
  OBVIOUS
<1>1. TInv
  BY TypeInit
<1>2. \A a \in Actor : act[a].at = "idle"
  BY DEF Init, Idle
<1>3. \A p \in Project : ~ Hooked(p) /\ stands[p] = "unsure"
  <2>1. settings \in [Project -> [File -> {s \in Settings : ~ s.mine}]]
    BY HookAssumption DEF Init
  <2> QED
    BY <2>1 DEF Init, Hooked, HasHook
<1> QED
  BY <1>1, <1>2, <1>3 DEF IInv, Turns, Located, Sound, Busy, Working, Installs, Removes, Unhooked,
                          Undoes, Registers

(* What a process sees of a step of another one.                           *)
LEMMA OthersLocated ==
    ASSUME NEW b \in Actor, Located(b), act'[b] = act[b],
           Busy(b) => /\ settings'[Mine(b)] = settings[Mine(b)]
                      /\ shim'[Mine(b)] = shim[Mine(b)]
                      /\ stands'[Mine(b)] = stands[Mine(b)],
           KeyDrawn => KeyDrawn'
    PROVE  Located(b)'
<1>1. CASE Busy(b)
  BY <1>1 DEF Located, InPlace, Mine, Hooked, Busy
<1>2. CASE ~ Busy(b)
  BY <1>2 DEF Located, Busy, Working, Installs, Removes, Unhooked, Undoes, Registers
<1> QED
  BY <1>1, <1>2

LEMMA FrameKeeps ==
    ASSUME IInv, NEW a \in Actor, NEW p \in Project, p = Mine(a), Busy(a), Frame(a),
           Located(a)', Sound(p)'
    PROVE  IInv'
<1>1. TInv'
  BY FrameTypes DEF IInv
<1>2. (\A b \in Actor \ {a} : act'[b] = act[b]) /\ (Busy(a)' => Mine(a)' = Mine(a))
  BY MovedKeeps DEF IInv, Frame
<1>3. \A q \in Project \ {p} :
          settings'[q] = settings[q] /\ shim'[q] = shim[q] /\ stands'[q] = stands[q]
  BY DEF IInv, TInv, TypeOK, Frame
<1>4. KeyDrawn => KeyDrawn'
  BY HookAssumption DEF Frame
<1>5. Turns'
  BY <1>2 DEF IInv, Turns, Busy, Mine
<1>6. ASSUME NEW b \in Actor \ {a} PROVE Located(b)'
  <2>1. Busy(b) => Mine(b) \in Project \ {p}
    BY DEF IInv, TInv, Turns
  <2> QED
    BY <1>2, <1>3, <1>4, <2>1, OthersLocated DEF IInv
<1>7. ASSUME NEW q \in Project \ {p} PROVE Sound(q)'
  BY <1>3, <1>4 DEF IInv, Sound, Hooked
<1> QED
  BY <1>1, <1>5, <1>6, <1>7 DEF IInv

LEMMA LocatedIdle == ASSUME TInv, NEW a \in Actor, Leaves(a) PROVE Located(a)'
<1>1. act'[a] = Idle
  BY DEF TInv, TypeOK, Leaves, Becomes
<1> QED
  BY <1>1 DEF Idle, Located, Working, Installs, Removes, Unhooked, Undoes, Registers

(* What is known when process a, in project p, takes a step.               *)
Context(a, p) ==
    /\ IInv /\ p \in Project /\ p = Mine(a)
    /\ act[a] \in ActType /\ act \in [Actor -> ActType]
    /\ settings \in [Project -> [File -> Settings]]
    /\ shim \in [Project -> Shims] /\ stands \in [Project -> Standings]
    /\ Located(a) /\ Sound(p)

LEMMA HasContext ==
    ASSUME IInv, NEW a \in Actor, Busy(a) PROVE Context(a, Mine(a))
BY RecordType DEF IInv, TInv, TypeOK, Context, Shims, Standings, ActType

LEMMA CrashKeeps ==
    ASSUME NEW a \in Actor, NEW p \in Project, Context(a, p), Crash(a)
    PROVE  Located(a)' /\ Sound(p)'
<1>1. Located(a)'
  BY LocatedIdle DEF Crash, Context, IInv
<1> QED
  BY <1>1 DEF Crash, Context, Sound, Hooked, files

LEMMA SecretKeeps ==
    ASSUME NEW a \in Actor, NEW p \in Project, Context(a, p),
           FindSecret(a) \/ CutSecret(a) \/ WriteSecret(a)
    PROVE  Located(a)' /\ Sound(p)'
<1>1. Sound(p)'
  BY HookAssumption DEF FindSecret, CutSecret, WriteSecret, Context, Sound, Hooked, files
<1>2. CASE Leaves(a)
  BY <1>1, <1>2, LocatedIdle DEF Context, IInv
<1>3. ASSUME NEW where \in {"check", "cutkey", "writekey"}, Goes(a, where), UNCHANGED <<settings, shim, stands>>,
             act[a].at \in {"secret", "cutkey", "writekey"}, where = "check" => KeyDrawn',
             act[a].file = "local"
      PROVE  Located(a)'
  BY <1>3 DEF Goes, Becomes, Context, Located, ActType, Mine, Hooked, Installs, Removes, Unhooked,
              Undoes, Registers, Working
<1>4. act[a].at \in {"secret", "cutkey", "writekey"} => act[a].file = "local"
  BY DEF Context, Located
<1>5. CASE FindSecret(a)
  BY <1>1, <1>2, <1>3, <1>4, <1>5, HookAssumption DEF FindSecret, files, At
<1>6. CASE CutSecret(a)
  BY <1>1, <1>2, <1>3, <1>4, <1>6 DEF CutSecret, GivesUp, At
<1>7. CASE WriteSecret(a)
  BY <1>1, <1>2, <1>3, <1>4, <1>7, HookAssumption DEF WriteSecret, GivesUp, At
<1> QED
  BY <1>5, <1>6, <1>7

LEMMA CheckKeeps ==
    ASSUME NEW a \in Actor, NEW p \in Project, Context(a, p), CheckHook(a)
    PROVE  Located(a)' /\ Sound(p)'
<1>1. Sound(p)'
  BY DEF CheckHook, Context, Sound, Hooked, files
<1>2. CASE Leaves(a)
  BY <1>1, <1>2, LocatedIdle DEF Context, IInv
<1>3. CASE /\ ~ HasHook(settings[p][act[a].file]) /\ act[a].file = "local"
           /\ Becomes(a, [act[a] EXCEPT !.file = "shared"])
  BY <1>1, <1>3 DEF CheckHook, At, Becomes, Context, Located, ActType, Mine, Hooked, files, File, Installs, Removes, Unhooked, Undoes, Registers, Working
<1>4. CASE ~ HasHook(settings[p][act[a].file]) /\ act[a].file # "local" /\ Goes(a, "cutshim")
  <2>1. ~ Hooked(p)
    BY <1>4 DEF CheckHook, At, Context, Located, ActType, Mine, Hooked, File
  <2> QED
    BY <1>1, <1>4, <2>1 DEF CheckHook, At, Goes, Becomes, Context, Located, ActType, Mine, Hooked, files, Installs, Removes, Unhooked, Undoes, Registers, Working
<1> QED
  BY <1>1, <1>2, <1>3, <1>4 DEF CheckHook, Context

LEMMA ShimKeeps ==
    ASSUME NEW a \in Actor, NEW p \in Project, Context(a, p), CutShim(a)
    PROVE  Located(a)' /\ Sound(p)'
<1>1. /\ ~ Hooked(p) /\ stands[p] = "unsure" /\ act[a].op = "install"
      /\ KeyDrawn
  BY DEF CutShim, At, Context, Located, Mine, Installs, Removes, Unhooked, Undoes, Registers, Working
<1>2. CASE Fails(a, "left") /\ UNCHANGED shim
  BY <1>1, <1>2, LocatedIdle DEF CutShim, Fails, Context, Sound, Hooked, IInv, Mine
<1>3. CASE Goes(a, "writeshim") /\ shim' = [shim EXCEPT ![Mine(a)] = "cut"] /\ UNCHANGED stands
  <2>1. Located(a)'
    BY <1>1, <1>3 DEF CutShim, Goes, Becomes, Context, Located, ActType, Mine, Hooked, Installs, Removes, Unhooked, Undoes, Registers, Working
  <2>2. Sound(p)'
    BY <1>1, <1>3 DEF CutShim, Context, Sound, Hooked
  <2> QED
    BY <2>1, <2>2
<1> QED
  BY <1>2, <1>3 DEF CutShim

LEMMA FillKeeps ==
    ASSUME NEW a \in Actor, NEW p \in Project, Context(a, p), WriteShim(a)
    PROVE  Located(a)' /\ Sound(p)'
<1>1. /\ ~ Hooked(p) /\ stands[p] = "unsure" /\ act[a].op = "install"
      /\ KeyDrawn /\ shim[p] = "cut"
  BY DEF WriteShim, At, Context, Located, Mine, Installs, Removes, Unhooked, Undoes, Registers, Working
<1>2. CASE Fails(a, "left") /\ UNCHANGED shim
  BY <1>1, <1>2, LocatedIdle DEF WriteShim, Fails, Context, Sound, Hooked, IInv, Mine
<1>3. CASE Goes(a, "addread") /\ shim' = [shim EXCEPT ![Mine(a)] = "whole"] /\ UNCHANGED stands
  <2>1. Located(a)'
    BY <1>1, <1>3 DEF WriteShim, Goes, Becomes, Context, Located, ActType, Mine, Hooked, Installs, Removes, Unhooked, Undoes, Registers, Working
  <2>2. Sound(p)'
    BY <1>1, <1>3 DEF WriteShim, Context, Sound, Hooked
  <2> QED
    BY <2>1, <2>2
<1> QED
  BY <1>2, <1>3 DEF WriteShim

LEMMA ReadKeeps ==
    ASSUME NEW a \in Actor, NEW p \in Project, Context(a, p), AddRead(a)
    PROVE  Located(a)' /\ Sound(p)'
<1>1. Sound(p)'
  BY DEF AddRead, Context, Sound, Hooked, files
<1>2. ASSUME NEW where \in {"unshim", "addwrite"}, act'[a].at = where, act'[a].op = act[a].op,
             act'[a].project = p
      PROVE  Located(a)'
  BY <1>2 DEF AddRead, At, Context, Located, Mine, Hooked, files, Installs, Removes, Unhooked, Undoes, Registers, Working
<1>3. CASE Goes(a, "unshim")
  BY <1>1, <1>2, <1>3 DEF Goes, Becomes, Context, ActType, Mine
<1>4. CASE Becomes(a, [act[a] EXCEPT !.at = "addwrite", !.body = settings[Mine(a)][act[a].mode]])
  BY <1>1, <1>2, <1>4 DEF Becomes, Context, ActType, Mine
<1> QED
  BY <1>3, <1>4 DEF AddRead

LEMMA HookKeeps ==
    ASSUME NEW a \in Actor, NEW p \in Project, Context(a, p), AddWrite(a)
    PROVE  Located(a)' /\ Sound(p)'
<1>1. /\ ~ Hooked(p) /\ stands[p] = "unsure" /\ act[a].op = "install"
      /\ KeyDrawn /\ shim[p] = "whole" /\ act[a].mode \in File
  BY DEF AddWrite, At, Context, Located, Mine, ActType, Installs, Removes, Unhooked, Undoes, Registers, Working
<1>2. CASE Fault(a, "unshim") /\ UNCHANGED settings
  <2>1. act'[a].at = "unshim" /\ act'[a].project = p
    BY <1>2 DEF Fault, Becomes, Context, ActType, Mine
  <2>2. Located(a)'
    BY <1>1, <1>2, <2>1 DEF AddWrite, Located, Mine, Hooked, Installs, Removes, Unhooked, Undoes, Registers, Working
  <2> QED
    BY <1>1, <1>2, <2>2 DEF AddWrite, Context, Sound, Hooked
<1>3. CASE /\ Becomes(a, [act[a] EXCEPT !.at = "regread", !.body = NoSettings])
           /\ Replaces(a, act[a].mode, TRUE)
  <2>1. act'[a].at = "regread" /\ act'[a].project = p /\ act'[a].op = "install" /\ act'[a].mode = act[a].mode
    BY <1>1, <1>3 DEF Becomes, Context, ActType, Mine
  <2>2. /\ HasHook(settings'[p][act[a].mode])
        /\ \A f \in File \ {act[a].mode} : settings'[p][f] = settings[p][f]
    BY <1>1, <1>3 DEF Replaces, Context, HasHook
  <2>3. Hooked(p)' /\ \A f \in File \ {act[a].mode} : ~ HasHook(settings'[p][f])
    BY <1>1, <2>2 DEF Hooked
  <2>4. Located(a)'
    BY <1>1, <2>1, <2>2, <2>3 DEF AddWrite, Located, InPlace, Mine, Installs, Removes, Unhooked, Undoes, Registers, Working
  <2> QED
    BY <1>1, <2>3, <2>4 DEF AddWrite, Sound
<1> QED
  BY <1>2, <1>3 DEF AddWrite

LEMMA RegReadKeeps ==
    ASSUME NEW a \in Actor, NEW p \in Project, Context(a, p), RegRead(a)
    PROVE  Located(a)' /\ Sound(p)'
<1>1. Sound(p)'
  BY DEF RegRead, Context, Sound, Hooked, files
<1>2. /\ act'[a].at = "regwrite" /\ act'[a].project = p
      /\ act'[a].op = act[a].op /\ act'[a].mode = act[a].mode
  BY DEF RegRead, Becomes, Context, ActType, Mine
<1> QED
  BY <1>1, <1>2 DEF RegRead, At, Context, Located, InPlace, Mine, Hooked, files, Installs, Removes, Unhooked, Undoes, Registers, Working

LEMMA RegWriteKeeps ==
    ASSUME NEW a \in Actor, NEW p \in Project, Context(a, p), RegWrite(a)
    PROVE  Located(a)' /\ Sound(p)'
<1>1. CASE act[a].op = "install"
  <2>1. InPlace(a) /\ shim[p] = "whole" /\ stands[p] = "unsure" /\ Hooked(p)
    BY <1>1 DEF RegWrite, At, Context, Located, InPlace, Sound, Hooked, Mine, ActType, Installs, Removes, Unhooked, Undoes, Registers, Working
  <2>2. CASE Ends(a, "in")
    BY <2>1, <2>2, LocatedIdle DEF RegWrite, Ends, Context, Sound, Hooked, InPlace, IInv, Mine, Standings
  <2>3. CASE Fault(a, "unhookread") /\ UNCHANGED stands
    <3>1. /\ act'[a].at = "unhookread" /\ act'[a].project = p /\ act'[a].mode = act[a].mode
          /\ act'[a].faults > 0
      BY <2>3 DEF Fault, Becomes, Context, ActType, Mine
    <3>2. UNCHANGED <<settings, shim, secret, stands>> /\ p = act[a].project
      BY <2>3 DEF RegWrite, Context, Mine
    <3>3. Located(a)'
      BY <2>1, <3>1, <3>2 DEF Located, InPlace, Mine, Installs, Removes, Unhooked, Undoes, Registers, Working
    <3> QED
      BY <2>1, <3>2, <3>3 DEF Context, Sound, Hooked
  <2> QED
    BY <1>1, <2>2, <2>3 DEF RegWrite
<1>2. CASE act[a].op = "uninstall"
  <2>1. ~ Hooked(p) /\ shim[p] = "none"
    BY <1>2 DEF RegWrite, At, Context, Located, Mine, Installs, Removes, Unhooked, Undoes, Registers, Working
  <2>2. CASE Ends(a, "out")
    BY <2>1, <2>2, LocatedIdle DEF RegWrite, Ends, Context, Sound, Hooked, IInv, Mine, Standings
  <2>3. CASE Fails(a, "unsure")
    BY <2>1, <2>3, LocatedIdle DEF RegWrite, Fails, Context, Sound, Hooked, IInv, Mine, Standings
  <2> QED
    BY <1>2, <2>2, <2>3 DEF RegWrite
<1> QED
  BY <1>1, <1>2 DEF Context, ActType

LEMMA UnhookReadKeeps ==
    ASSUME NEW a \in Actor, NEW p \in Project, Context(a, p), UnhookRead(a)
    PROVE  Located(a)' /\ Sound(p)'
<1>1. Sound(p)'
  BY DEF UnhookRead, Context, Sound, Hooked, files
<1>2. InPlace(a) /\ settings[p][act[a].mode].kind = "hooks" /\ stands[p] = "unsure" /\ act[a].faults > 0
  BY DEF UnhookRead, At, Context, Located, InPlace, HasHook, Mine, Installs, Removes, Unhooked, Undoes, Registers, Working
<1>3. /\ act'[a].at = "unhookwrite" /\ act'[a].project = p /\ act'[a].mode = act[a].mode
      /\ act'[a].faults = act[a].faults
  <2> DEFINE s == settings[p][act[a].mode]
  <2>1. act' = [act EXCEPT ![a] = [act[a] EXCEPT !.at = "unhookwrite", !.body = s]]
    BY <1>2 DEF UnhookRead, Becomes, Context, Mine
  <2>2. act \in [Actor -> ActType] /\ act[a] \in ActType /\ act[a].project = p
    BY DEF Context, Mine
  <2> HIDE DEF s
  <2> QED
    BY <2>1, <2>2 DEF ActType
<1>4. UNCHANGED <<settings, shim, secret, stands>> /\ p = act[a].project
  BY DEF UnhookRead, files, Context, Mine
<1> QED
  BY <1>1, <1>2, <1>3, <1>4 DEF Located, InPlace, Mine, Installs, Removes, Unhooked, Undoes, Registers, Working

LEMMA UnhookWriteKeeps ==
    ASSUME NEW a \in Actor, NEW p \in Project, Context(a, p), UnhookWrite(a), MaxFaults <= 1
    PROVE  Located(a)' /\ Sound(p)'
<1>1. InPlace(a) /\ stands[p] = "unsure" /\ act[a].faults > 0 /\ act[a].mode \in File
  BY DEF UnhookWrite, At, Context, Located, Mine, ActType, Installs, Removes, Unhooked, Undoes, Registers, Working
<1>2. ~ Fault(a, "unshim")
  BY <1>1, HookAssumption DEF Fault, Context, ActType
<1>3. Goes(a, "unshim") /\ Replaces(a, act[a].mode, FALSE)
  BY <1>2 DEF UnhookWrite
<1>4. act'[a].at = "unshim" /\ act'[a].project = p
  BY <1>3 DEF Goes, Becomes, Context, ActType, Mine
<1>5. \A f \in File : ~ HasHook(settings'[p][f])
  BY <1>1, <1>3 DEF Replaces, Context, HasHook, InPlace
<1>6. Located(a)'
  BY <1>1, <1>4, <1>5 DEF UnhookWrite, Located, Mine, Hooked, Installs, Removes, Unhooked, Undoes, Registers, Working
<1> QED
  BY <1>1, <1>5, <1>6 DEF UnhookWrite, Sound, Hooked

LEMMA UnshimKeeps ==
    ASSUME NEW a \in Actor, NEW p \in Project, Context(a, p), Unshim(a)
    PROVE  Located(a)' /\ Sound(p)'
<1>1. ~ Hooked(p) /\ stands[p] = "unsure"
  BY DEF Unshim, At, Context, Located, Mine, Installs, Removes, Unhooked, Undoes, Registers, Working
<1>2. Located(a)'
  BY LocatedIdle DEF Unshim, Ends, Fails, Context, IInv
<1>3. CASE Ends(a, "back") /\ shim' = [shim EXCEPT ![Mine(a)] = "none"]
  BY <1>1, <1>2, <1>3 DEF Unshim, Ends, Context, Sound, Hooked, Standings, Shims
<1>4. CASE Fails(a, "left") /\ UNCHANGED shim
  BY <1>1, <1>2, <1>4 DEF Unshim, Fails, Context, Sound, Hooked, Standings
<1> QED
  BY <1>3, <1>4 DEF Unshim

LEMMA StripReadKeeps ==
    ASSUME NEW a \in Actor, NEW p \in Project, Context(a, p), StripRead(a)
    PROVE  Located(a)' /\ Sound(p)'
<1>1. stands[p] = "unsure" /\ act[a].op = "uninstall"
      /\ (act[a].file = "shared" => ~ HasHook(settings[p]["local"]))
  BY DEF StripRead, At, Context, Located, Mine, ActType, Installs, Removes, Unhooked, Undoes, Registers, Working
<1>2. CASE Ends(a, "unsure")
  BY <1>1, <1>2, LocatedIdle DEF StripRead, Ends, Context, Sound, Hooked, IInv, files, Standings
<1>3. CASE /\ Becomes(a, [act[a] EXCEPT !.at = "stripwrite", !.body = settings[Mine(a)][act[a].file]])
           /\ UNCHANGED stands
  <2>1. /\ act'[a].at = "stripwrite" /\ act'[a].project = p /\ act'[a].op = "uninstall"
        /\ act'[a].file = act[a].file
    BY <1>1, <1>3 DEF Becomes, Context, ActType, Mine
  <2> QED
    BY <1>1, <1>3, <2>1 DEF StripRead, Context, Located, Sound, Hooked, Mine, files, Installs, Removes, Unhooked, Undoes, Registers, Working
<1>4. CASE /\ ~ HasHook(settings[p][act[a].file]) /\ act[a].file = "local" /\ UNCHANGED stands
           /\ Becomes(a, [act[a] EXCEPT !.at = "stripread", !.file = "shared"])
  <2>1. act'[a].at = "stripread" /\ act'[a].project = p /\ act'[a].op = "uninstall"
    BY <1>1, <1>4 DEF Becomes, Context, ActType, Mine
  <2> QED
    BY <1>1, <1>4, <2>1 DEF StripRead, Context, Located, Sound, Hooked, Mine, files, Installs, Removes, Unhooked, Undoes, Registers, Working
<1>5. CASE /\ ~ HasHook(settings[p][act[a].file]) /\ act[a].file # "local" /\ UNCHANGED stands
           /\ Becomes(a, [act[a] EXCEPT !.at = "rmshim", !.body = NoSettings])
  <2>1. act'[a].at = "rmshim" /\ act'[a].project = p /\ act'[a].op = "uninstall"
    BY <1>1, <1>5 DEF Becomes, Context, ActType, Mine
  <2>2. ~ Hooked(p)
    BY <1>1, <1>5 DEF Hooked, File, Context, ActType
  <2> QED
    BY <1>1, <1>5, <2>1, <2>2 DEF StripRead, Context, Located, Sound, Hooked, Mine, files, Installs, Removes, Unhooked, Undoes, Registers, Working
<1> QED
  BY <1>2, <1>3, <1>4, <1>5 DEF StripRead, NextFile, Context

LEMMA StripWriteKeeps ==
    ASSUME NEW a \in Actor, NEW p \in Project, Context(a, p), StripWrite(a)
    PROVE  Located(a)' /\ Sound(p)'
<1>1. stands[p] = "unsure" /\ act[a].op = "uninstall" /\ act[a].file \in File
      /\ (act[a].file = "shared" => ~ HasHook(settings[p]["local"]))
  BY DEF StripWrite, At, Context, Located, Mine, ActType, Installs, Removes, Unhooked, Undoes, Registers, Working
<1>2. CASE Fails(a, "unsure") /\ UNCHANGED settings
  BY <1>1, <1>2, LocatedIdle DEF StripWrite, Fails, Context, Sound, Hooked, IInv, Standings
<1>3. CASE NextFile(a) /\ Replaces(a, act[a].file, FALSE) /\ UNCHANGED stands
  <2>1. /\ ~ HasHook(settings'[p][act[a].file])
        /\ \A f \in File \ {act[a].file} : settings'[p][f] = settings[p][f]
    BY <1>1, <1>3 DEF Replaces, Context, HasHook
  <2>2. Sound(p)'
    BY <1>1, <1>3, <2>1 DEF StripWrite, Context, Sound, Hooked
  <2>3. CASE act[a].file = "local" /\ Becomes(a, [act[a] EXCEPT !.at = "stripread", !.file = "shared"])
    <3>1. act'[a].at = "stripread" /\ act'[a].project = p /\ act'[a].op = "uninstall"
      BY <1>1, <2>3 DEF Becomes, Context, ActType, Mine
    <3> QED
      BY <1>1, <1>3, <2>1, <2>2, <2>3, <3>1 DEF StripWrite, Located, Mine, Installs, Removes, Unhooked, Undoes, Registers, Working
  <2>4. CASE act[a].file # "local" /\ Becomes(a, [act[a] EXCEPT !.at = "rmshim", !.body = NoSettings])
    <3>1. act'[a].at = "rmshim" /\ act'[a].project = p /\ act'[a].op = "uninstall"
      BY <1>1, <2>4 DEF Becomes, Context, ActType, Mine
    <3>2. ~ Hooked(p)'
      BY <1>1, <2>1, <2>4 DEF Hooked, File
    <3> QED
      BY <1>1, <1>3, <2>2, <3>1, <3>2 DEF StripWrite, Located, Mine, Installs, Removes, Unhooked, Undoes, Registers, Working
  <2> QED
    BY <1>3, <2>3, <2>4 DEF NextFile
<1> QED
  BY <1>2, <1>3 DEF StripWrite

LEMMA RmShimKeeps ==
    ASSUME NEW a \in Actor, NEW p \in Project, Context(a, p), RmShim(a)
    PROVE  Located(a)' /\ Sound(p)'
<1>1. ~ Hooked(p) /\ stands[p] = "unsure" /\ act[a].op = "uninstall"
  BY DEF RmShim, At, Context, Located, Mine, ActType, Installs, Removes, Unhooked, Undoes, Registers, Working
<1>2. CASE Fails(a, "unsure") /\ UNCHANGED shim
  BY <1>1, <1>2, LocatedIdle DEF RmShim, Fails, Context, Sound, Hooked, IInv, Standings
<1>3. CASE Goes(a, "regread") /\ shim' = [shim EXCEPT ![Mine(a)] = "none"] /\ UNCHANGED stands
  <2>1. act'[a].at = "regread" /\ act'[a].project = p /\ act'[a].op = "uninstall"
    BY <1>1, <1>3 DEF Goes, Becomes, Context, ActType, Mine
  <2>2. shim'[p] = "none"
    BY <1>3 DEF Context
  <2>3. Located(a)'
    BY <1>1, <1>3, <2>1, <2>2 DEF RmShim, Located, Mine, Hooked, Installs, Removes, Unhooked, Undoes, Registers, Working
  <2> QED
    BY <1>1, <1>3, <2>2, <2>3 DEF RmShim, Sound, Hooked
<1> QED
  BY <1>2, <1>3 DEF RmShim

-----------------------------------------------------------------------------
(* The start of an installer: no other one is in the project.              *)
LEMMA StartKeeps ==
    ASSUME IInv, NEW a \in Actor, Start(a), Exclusive PROVE IInv'
<1>1. PICK p \in Project :
        /\ \A b \in Actor : Busy(b) => Mine(b) # p
        /\ \/ \E mode \in File :
                 Becomes(a, [Idle EXCEPT !.project = p, !.mode = mode, !.at = "secret"])
           \/ Becomes(a, [Idle EXCEPT !.project = p, !.op = "uninstall", !.at = "stripread"])
        /\ stands' = [stands EXCEPT ![p] = "unsure"]
  BY DEF Start
<1>2. act \in [Actor -> ActType] /\ stands \in [Project -> Standings]
  BY DEF IInv, TInv, TypeOK, ActType, Standings
<1>3. /\ act'[a].project = p /\ act'[a].file = "local"
      /\ \/ act'[a].at = "secret" /\ act'[a].op = "install"
         \/ act'[a].at = "stripread" /\ act'[a].op = "uninstall"
      /\ \A b \in Actor \ {a} : act'[b] = act[b]
  BY <1>1, <1>2 DEF Becomes, Idle
<1>4. UNCHANGED files /\ stands'[p] = "unsure" /\ \A q \in Project \ {p} : stands'[q] = stands[q]
  BY <1>1, <1>2 DEF Start
<1>5. TInv'
  BY TypeStart DEF IInv
<1>6. Turns'
  BY <1>1, <1>3 DEF IInv, Turns, Busy, Mine
<1>7. Located(a)'
  BY <1>3, <1>4 DEF Located, Mine, Installs, Removes, Unhooked, Undoes, Registers, Working
<1>8. ASSUME NEW b \in Actor \ {a} PROVE Located(b)'
  <2>1. Busy(b) => Mine(b) \in Project \ {p}
    BY <1>1 DEF IInv, TInv
  <2> QED
    BY <1>3, <1>4, <2>1, OthersLocated DEF IInv, files
<1>9. ASSUME NEW q \in Project PROVE Sound(q)'
  BY <1>4 DEF IInv, Sound, Hooked, files
<1> QED
  BY <1>5, <1>6, <1>7, <1>8, <1>9 DEF IInv

LEMMA CallKeeps == ASSUME IInv, NEW c \in Call, CallStep(c) PROVE IInv'
<1>1. UNCHANGED <<files, act, stands>>
  BY DEF CallStep, Fire, RunShim, Handle, SignCommand, CheckWrapped, VerifyCommand
<1>2. TInv'
  BY TypeCall DEF IInv
<1> QED
  BY <1>1, <1>2 DEF files, IInv, Turns, Located, InPlace, Sound, Hooked, Busy, Mine

LEMMA WorkKeeps ==
    ASSUME IInv, NEW a \in Actor, Work(a), MaxFaults <= 1 PROVE IInv'
<1> DEFINE p == Mine(a)
<1>1. Busy(a) /\ p \in Project
  BY WorkBusy DEF IInv, TInv
<1>2. Context(a, p)
  BY <1>1, HasContext
<1>3. Frame(a)
  BY WorkFrame DEF IInv
<1>4. ASSUME NEW q \in Project, q = p PROVE Located(a)' /\ Sound(q)'
  <2>1. Context(a, q)
    BY <1>2, <1>4
  <2> QED
    BY <2>1, CrashKeeps, SecretKeeps, CheckKeeps, ShimKeeps, FillKeeps, ReadKeeps, HookKeeps, RegReadKeeps,
       RegWriteKeeps, UnhookReadKeeps, UnhookWriteKeeps, UnshimKeeps, StripReadKeeps, StripWriteKeeps,
       RmShimKeeps DEF Work
<1> QED
  BY <1>1, <1>3, <1>4, FrameKeeps

LEMMA InvStep ==
    ASSUME Exclusive, MaxFaults <= 1 PROVE IInv /\ [Next]_vars => IInv'
<1> SUFFICES ASSUME IInv, [Next]_vars PROVE IInv'
  OBVIOUS
<1>1. CASE UNCHANGED vars
  BY <1>1 DEF vars, files, IInv, TInv, TypeOK, Turns, Located, InPlace, Sound, Hooked, Busy, Mine
<1> QED
  BY <1>1, StartKeeps, CallKeeps, WorkKeeps DEF Next, ActorStep, Work

(* With one installer at a time in a project and at most one failed write  *)
(* in each: whatever crashes, no settings file names a broken shim.        *)
THEOREM HookSafe == ASSUME Exclusive, MaxFaults <= 1 PROVE Spec => []HookHasShim
<1>1. IInv => HookHasShim
  BY DEF IInv, Sound, HookHasShim
<1>2. IInv /\ [Next]_vars => IInv'
  BY InvStep
<1> QED
  BY <1>1, <1>2, InvInit, PTL DEF Spec

(* And what install and uninstall answered stays so until the next one in  *)
(* the project: after "in" a hook, a whole shim, and a secret that was     *)
(* drawn, which a first install in another project may have cut since;     *)
(* after "out" and "back" neither hook nor shim; after "left" no hook.     *)
THEOREM HookStands == ASSUME Exclusive, MaxFaults <= 1 PROVE Spec => []StandsAsAnswered
<1>1. IInv => StandsAsAnswered
  BY DEF IInv, Sound, StandsAsAnswered
<1>2. IInv /\ [Next]_vars => IInv'
  BY InvStep
<1> QED
  BY <1>1, <1>2, InvInit, PTL DEF Spec

-----------------------------------------------------------------------------
(* The calls.  A command is signed only outside of masked ones and of the  *)
(* skip list, whoever installs what meanwhile.                             *)
Underway == {"fired", "handle", "sign", "signed", "verify"}

CallInv ==
    \A c \in Call :
        /\ call[c].at \in {"sign", "signed", "verify"} => call[c].form = "plain"
        /\ call[c].at \in Underway => call[c].project \in Project

LEMMA CallInvStep == TInv /\ CallInv /\ [Next]_vars => CallInv'
<1> SUFFICES ASSUME TInv, CallInv, [Next]_vars PROVE CallInv'
  OBVIOUS
<1>1. call \in [Call -> CallType]
  BY DEF TInv, TypeOK, CallType
<1>2. ASSUME NEW c \in Call, CallStep(c) PROVE CallInv'
  <2>1. \A where \in Outcome : NoCall(where).at = where
    BY DEF NoCall
  <2>2. \A d \in Call \ {c} : call'[d] = call[d]
    BY <1>1, <1>2 DEF CallStep, Fire, RunShim, Handle, SignCommand, CheckWrapped, VerifyCommand, Over, Settles
  <2>3. /\ call'[c].at \in {"sign", "signed", "verify"} => call'[c].form = "plain"
        /\ call'[c].at \in Underway => call'[c].project \in Project
    BY <1>1, <1>2 DEF CallInv, CallStep, Fire, RunShim, Handle, SignCommand, CheckWrapped, VerifyCommand,
                      Over, Settles, NoCall, CallAt, CallType, Form, Outcome, Underway
  <2> QED
    BY <2>2, <2>3 DEF CallInv
<1>3. CASE UNCHANGED call
  BY <1>3 DEF CallInv
<1>4. ASSUME NEW a \in Actor, ActorStep(a) PROVE UNCHANGED call
  BY <1>4, WorkFrame DEF ActorStep, Work, Start, Frame
<1> QED
  BY <1>2, <1>3, <1>4 DEF Next, vars

(* Nothing runs past the policy but what was signed for its project under  *)
(* the secret still in place.                                              *)
THEOREM HookAuthorises == Spec => RunsAuthorised
<1> DEFINE Run(c) == call'[c].at = "running" /\ call[c].at # "running" =>
                         /\ call[c].dir = call[c].project
                         /\ call[c].form = "plain"
                         /\ call[c].key = secret
<1>1. Init => CallInv
  BY DEF Init, CallInv, NoCall, Underway
<1>2. TInv /\ CallInv /\ [Next]_vars => [\A c \in Call : Run(c)]_vars
  <2> SUFFICES ASSUME TInv, CallInv, Next PROVE \A c \in Call : Run(c)
    BY DEF Run, vars
  <2>1. call \in [Call -> CallType]
    BY DEF TInv, TypeOK, CallType
  <2>2. ASSUME NEW d \in Call, CallStep(d), NEW c \in Call PROVE Run(c)
    <3>1. CASE c # d
      BY <2>1, <2>2, <3>1 DEF CallStep, Fire, RunShim, Handle, SignCommand, CheckWrapped, VerifyCommand,
                              Over, Settles
    <3>2. CASE c = d /\ VerifyCommand(d)
      BY <2>1, <3>2 DEF VerifyCommand, Over, NoCall, Signature, CallInv, CallAt
    <3>3. CASE c = d /\ ~ VerifyCommand(d)
      <4>1. ASSUME Fire(d) PROVE call'[c].at = "fired"
        BY <2>1, <3>3, <4>1 DEF Fire, NoCall
      <4>2. ASSUME RunShim(d) \/ Handle(d) \/ SignCommand(d) \/ CheckWrapped(d) PROVE call'[c].at # "running"
        BY <2>1, <3>3, <4>2 DEF RunShim, Handle, SignCommand, CheckWrapped, Over, Settles, NoCall, CallType
      <4> QED
        BY <2>2, <3>3, <4>1, <4>2 DEF CallStep
    <3> QED
      BY <3>1, <3>2, <3>3
  <2>3. ASSUME NEW a \in Actor, ActorStep(a) PROVE UNCHANGED call
    BY <2>3, WorkFrame DEF ActorStep, Work, Start, Frame
  <2> QED
    BY <2>2, <2>3 DEF Next
<1> QED
  BY <1>1, <1>2, TypeInit, TypeStep, CallInvStep, PTL DEF Spec, RunsAuthorised

(* A hooked project's command runs unmasked only as the handler allows.    *)
THEOREM HookFailsClosed == ASSUME Exclusive, MaxFaults <= 1 PROVE Spec => FailsClosed
<1> DEFINE Closed(c) ==
        /\ call'[c].at = "raw" /\ call[c].at # "raw" => ~ Hooked(call[c].project)
        /\ call'[c].at = "passed" /\ call[c].at # "passed" =>
               \/ call[c].form = "nested"
               \/ call[c].form = "skipped" /\ call[c].project \in registry
<1>1. IInv /\ CallInv /\ [Next]_vars => [\A c \in Call : Closed(c)]_vars
  <2> SUFFICES ASSUME IInv, CallInv, Next PROVE \A c \in Call : Closed(c)
    BY DEF Closed, vars
  <2>1. call \in [Call -> CallType]
    BY DEF IInv, TInv, TypeOK, CallType
  <2>2. ASSUME NEW d \in Call, CallStep(d), NEW c \in Call PROVE Closed(c)
    <3>1. CASE c # d
      BY <2>1, <2>2, <3>1 DEF CallStep, Fire, RunShim, Handle, SignCommand, CheckWrapped, VerifyCommand,
                              Over, Settles
    <3>2. ASSUME c = d, RunShim(d) PROVE Closed(c)
      <4>1. call[d].project \in Project
        BY <3>2 DEF RunShim, CallAt, CallInv, Underway
      <4>2. Hooked(call[d].project) => shim[call[d].project] = "whole"
        BY <4>1 DEF IInv, Sound
      <4>3. CASE shim[call[d].project] = "whole"
        <5>1. PICK form \in Form : call' = [call EXCEPT ![d].at = "handle", ![d].form = form]
          BY <3>2, <4>3 DEF RunShim
        <5>2. call[d] \in CallType /\ call'[d] = [call[d] EXCEPT !.at = "handle", !.form = form]
          BY <2>1, <5>1
        <5>3. call'[d].at = "handle"
          BY <5>2 DEF CallType
        <5> QED
          BY <3>2, <5>3
      <4>4. CASE shim[call[d].project] # "whole"
        <5>1. call'[c] = NoCall("raw") /\ ~ Hooked(call[c].project)
          BY <2>1, <3>2, <4>2, <4>4 DEF RunShim, Over
        <5> QED
          BY <5>1 DEF NoCall
      <4> QED
        BY <4>3, <4>4
    <3>3. ASSUME c = d, Handle(d) PROVE Closed(c)
      BY <2>1, <3>3 DEF Handle, Over, Settles, NoCall, CallType, CallAt
    <3>4. ASSUME c = d, Fire(d) PROVE call'[c].at = "fired"
      BY <2>1, <3>4 DEF Fire, NoCall
    <3>5. ASSUME c = d, SignCommand(d) \/ CheckWrapped(d) \/ VerifyCommand(d)
          PROVE  call'[c].at \notin {"raw", "passed"}
      BY <2>1, <3>5 DEF SignCommand, CheckWrapped, VerifyCommand, Over, NoCall, CallType
    <3> QED
      BY <2>2, <3>1, <3>2, <3>3, <3>4, <3>5 DEF CallStep
  <2>3. ASSUME NEW a \in Actor, ActorStep(a) PROVE UNCHANGED call
    BY <2>3, WorkFrame DEF ActorStep, Work, Start, Frame, IInv
  <2> QED
    BY <2>2, <2>3 DEF Next
<1>2. IInv /\ [Next]_vars => IInv'
  BY InvStep
<1>3. Init => CallInv
  BY DEF Init, CallInv, NoCall, Underway
<1>4. IInv => TInv
  BY DEF IInv
<1> QED
  BY <1>1, <1>2, <1>3, <1>4, InvInit, CallInvStep, PTL DEF Spec, FailsClosed

(* The two together: what a call comes to is what the hook decided.        *)
THEOREM HookCallsSafe == ASSUME Exclusive, MaxFaults <= 1 PROVE Spec => CallsSafe
BY HookFailsClosed, HookAuthorises DEF CallsSafe

-----------------------------------------------------------------------------
(* The user's own hooks.  Who is about to write a file has read it, and    *)
(* nobody has written it since: no limit on what fails is needed for that. *)

Fresh(a, f) == act[a].body = settings[Mine(a)][f] /\ act[a].body.kind # "bad"

Held(a) ==
    /\ act[a].at \in {"addwrite", "unhookwrite"} => Fresh(a, act[a].mode)
    /\ act[a].at = "stripwrite" => Fresh(a, act[a].file)

Writing == {"addwrite", "unhookwrite", "stripwrite"}

KInv == TInv /\ Turns /\ \A a \in Actor : Held(a)

KeepsTheirs ==
    \A p \in Project, f \in File :
        /\ settings'[p][f].theirs = settings[p][f].theirs
        /\ settings[p][f].kind = "bad" => settings'[p][f].kind = "bad"

LEMMA KInit == Init => KInv
<1>1. Init => \A a \in Actor : act[a].at = "idle"
  BY DEF Init, Idle
<1> QED
  BY <1>1, TypeInit DEF KInv, Turns, Held, Busy, Working

LEMMA NotWriting == ASSUME NEW a \in Actor, act'[a].at \notin Writing PROVE Held(a)'
<1>1. act'[a].at # "addwrite" /\ act'[a].at # "unhookwrite" /\ act'[a].at # "stripwrite"
  BY DEF Writing
<1> QED
  BY <1>1 DEF Held

(* Where the other steps lead.                                             *)
LEMMA WhereTo ==
    ASSUME act \in [Actor -> ActType], NEW a \in Actor
    PROVE  /\ Leaves(a) => act'[a].at = "idle"
           /\ \A where \in Working : Goes(a, where) \/ Fault(a, where) => act'[a].at = where
           /\ NextFile(a) => act'[a].at \in {"stripread", "rmshim"}
<1>1. act[a] \in ActType
  OBVIOUS
<1>2. \A r : Becomes(a, r) => act'[a] = r
  BY DEF Becomes
<1>3. Leaves(a) => act'[a].at = "idle"
  BY <1>2 DEF Leaves, Idle
<1>4. ASSUME NEW where \in Working, Goes(a, where) \/ Fault(a, where) PROVE act'[a].at = where
  BY <1>1, <1>2, <1>4 DEF Goes, Fault, ActType
<1>5. NextFile(a) => act'[a].at \in {"stripread", "rmshim"}
  BY <1>1, <1>2 DEF NextFile, ActType
<1> QED
  BY <1>3, <1>4, <1>5

LEMMA WhereElse ==
    ASSUME act \in [Actor -> ActType], NEW a \in Actor
    PROVE  /\ Becomes(a, [act[a] EXCEPT !.at = "regread", !.body = NoSettings]) => act'[a].at = "regread"
           /\ Becomes(a, [act[a] EXCEPT !.at = "regwrite", !.known = registry]) => act'[a].at = "regwrite"
           /\ Becomes(a, [act[a] EXCEPT !.file = "shared"]) => act'[a].at = act[a].at
BY DEF Becomes, ActType

(* The reads.                                                              *)
LEMMA ReadHolds ==
    ASSUME KInv, NEW a \in Actor, AddRead(a) \/ UnhookRead(a) \/ StripRead(a)
    PROVE  Held(a)' /\ UNCHANGED settings
<1>1. act \in [Actor -> ActType] /\ act[a] \in ActType
  BY RecordType DEF KInv, TInv, TypeOK, ActType
<1>2. UNCHANGED settings
  BY DEF AddRead, UnhookRead, StripRead, files
<1>3. ASSUME NEW where \in {"addwrite", "unhookwrite"},
             Becomes(a, [act[a] EXCEPT !.at = where, !.body = settings[Mine(a)][act[a].mode]]),
             settings[Mine(a)][act[a].mode].kind # "bad"
      PROVE  Held(a)'
  <2>1. /\ act'[a].at = where /\ act'[a].mode = act[a].mode /\ act'[a].project = act[a].project
        /\ act'[a].body = settings[Mine(a)][act[a].mode]
    BY <1>1, <1>3 DEF Becomes, ActType
  <2> QED
    BY <1>2, <1>3, <2>1 DEF Held, Fresh, Mine
<1>4. CASE /\ Becomes(a, [act[a] EXCEPT !.at = "stripwrite", !.body = settings[Mine(a)][act[a].file]])
           /\ settings[Mine(a)][act[a].file].kind # "bad"
  <2>1. /\ act'[a].at = "stripwrite" /\ act'[a].file = act[a].file /\ act'[a].project = act[a].project
        /\ act'[a].body = settings[Mine(a)][act[a].file]
    BY <1>1, <1>4 DEF Becomes, ActType
  <2> QED
    BY <1>2, <1>4, <2>1 DEF Held, Fresh, Mine
<1>6. CASE Leaves(a) \/ Goes(a, "unshim") \/ NextFile(a)
  <2>0. "unshim" \in Working
    BY DEF Working
  <2>1. act'[a].at \in {"idle", "unshim", "stripread", "rmshim"}
    BY <1>1, <1>6, <2>0, WhereTo
  <2>2. act'[a].at \notin Writing
    BY <2>1 DEF Writing
  <2> QED
    BY <1>2, <2>2, NotWriting
<1>7. CASE AddRead(a)
  BY <1>2, <1>3, <1>6, <1>7 DEF AddRead
<1>8. CASE UnhookRead(a)
  BY <1>2, <1>3, <1>6, <1>8 DEF UnhookRead
<1>9. CASE StripRead(a)
  BY <1>2, <1>4, <1>6, <1>9 DEF StripRead, Ends, HasHook
<1> QED
  BY <1>7, <1>8, <1>9

(* The writes.                                                             *)
LEMMA ReplacesKeeps ==
    ASSUME KInv, NEW a \in Actor, Busy(a), NEW f \in File, NEW mine, Fresh(a, f), Replaces(a, f, mine)
    PROVE  KeepsTheirs
<1>1. settings \in [Project -> [File -> Settings]] /\ Mine(a) \in Project
  BY DEF KInv, TInv, TypeOK
<1>2. settings'[Mine(a)][f] = [kind |-> "hooks", mine |-> mine, theirs |-> settings[Mine(a)][f].theirs]
  BY <1>1 DEF Replaces, Fresh
<1>3. \A p \in Project, g \in File : p # Mine(a) \/ g # f => settings'[p][g] = settings[p][g]
  BY <1>1 DEF Replaces
<1>4. settings[Mine(a)][f].kind # "bad"
  BY DEF Fresh
<1> QED
  BY <1>2, <1>3, <1>4 DEF KeepsTheirs

LEMMA WriteKeeps ==
    ASSUME KInv, NEW a \in Actor, AddWrite(a) \/ UnhookWrite(a) \/ StripWrite(a)
    PROVE  Held(a)' /\ KeepsTheirs
<1>1. act \in [Actor -> ActType] /\ act[a] \in ActType
  BY RecordType DEF KInv, TInv, TypeOK, ActType
<1>2. Busy(a) /\ act[a].mode \in File /\ act[a].file \in File
  BY <1>1, WorkBusy DEF Work, ActType
<1>3. UNCHANGED settings => KeepsTheirs
  BY DEF KeepsTheirs
<1>4. act'[a].at \notin Writing
  BY <1>1, WhereTo, WhereElse DEF AddWrite, UnhookWrite, StripWrite, Fails, Writing, Working
<1>5. Held(a)'
  BY <1>4, NotWriting
<1>6. CASE AddWrite(a)
  BY <1>2, <1>3, <1>5, <1>6, ReplacesKeeps DEF AddWrite, At, KInv, Held
<1>7. CASE UnhookWrite(a)
  BY <1>2, <1>3, <1>5, <1>7, ReplacesKeeps DEF UnhookWrite, At, KInv, Held
<1>8. CASE StripWrite(a)
  BY <1>2, <1>3, <1>5, <1>8, ReplacesKeeps DEF StripWrite, At, KInv, Held
<1> QED
  BY <1>6, <1>7, <1>8

(* Everything else an installer does.                                      *)
LEMMA RestKeeps ==
    ASSUME KInv, NEW a \in Actor, Work(a),
           ~ (AddRead(a) \/ UnhookRead(a) \/ StripRead(a) \/ AddWrite(a) \/ UnhookWrite(a) \/ StripWrite(a))
    PROVE  Held(a)' /\ UNCHANGED settings
<1>1. act \in [Actor -> ActType] /\ act[a] \in ActType
  BY RecordType DEF KInv, TInv, TypeOK, ActType
<1>2. UNCHANGED settings
  BY DEF Work, Crash, FindSecret, CutSecret, WriteSecret, CheckHook, CutShim, WriteShim, RegRead, RegWrite,
         Unshim, RmShim, files
<1>3. act'[a].at \notin Writing
  <2>1. CASE CheckHook(a)
    BY <1>1, <2>1, WhereTo, WhereElse DEF CheckHook, At, Writing, Working
  <2>2. CASE RegRead(a)
    BY <1>1, <2>2, WhereElse DEF RegRead, Writing
  <2>3. CASE Crash(a) \/ FindSecret(a) \/ CutSecret(a) \/ WriteSecret(a) \/ CutShim(a) \/ WriteShim(a)
             \/ RegWrite(a) \/ Unshim(a) \/ RmShim(a)
    BY <1>1, <2>3, WhereTo DEF Crash, FindSecret, CutSecret, WriteSecret, CutShim, WriteShim, RegWrite, Unshim,
                               RmShim, Ends, Fails, GivesUp, Writing, Working
  <2> QED
    BY <2>1, <2>2, <2>3 DEF Work
<1> QED
  BY <1>2, <1>3, NotWriting

LEMMA KWork == ASSUME KInv, NEW a \in Actor, Work(a) PROVE KInv' /\ KeepsTheirs
<1>1. Busy(a) /\ Frame(a)
  BY WorkBusy, WorkFrame DEF KInv
<1>2. TInv'
  BY <1>1, FrameTypes DEF KInv
<1>3. (\A b \in Actor \ {a} : act'[b] = act[b]) /\ (Busy(a)' => Mine(a)' = Mine(a))
  BY <1>1, MovedKeeps DEF KInv, Frame
<1>4. Turns'
  BY <1>1, <1>3 DEF KInv, Turns, Busy, Mine
<1>5. Held(a)' /\ KeepsTheirs
  <2>1. UNCHANGED settings => KeepsTheirs
    BY DEF KeepsTheirs
  <2> QED
    BY <2>1, ReadHolds, WriteKeeps, RestKeeps
<1>6. ASSUME NEW b \in Actor \ {a} PROVE Held(b)'
  <2>1. CASE Busy(b)
    <3>1. Mine(b) \in Project \ {Mine(a)}
      BY <1>1, <2>1 DEF KInv, TInv, Turns
    <3>2. settings'[Mine(b)] = settings[Mine(b)]
      BY <1>1, <3>1 DEF Frame, KInv, TInv, TypeOK
    <3> QED
      BY <1>3, <3>2 DEF KInv, Held, Fresh, Mine
  <2>2. CASE ~ Busy(b)
    BY <1>3, <2>2 DEF Held, Busy, Working
  <2> QED
    BY <2>1, <2>2
<1> QED
  BY <1>2, <1>4, <1>5, <1>6 DEF KInv

LEMMA KStart == ASSUME Exclusive, KInv, NEW a \in Actor, Start(a) PROVE KInv' /\ KeepsTheirs
<1>1. PICK p \in Project :
        /\ \A b \in Actor : Busy(b) => Mine(b) # p
        /\ \/ \E mode \in File :
                 Becomes(a, [Idle EXCEPT !.project = p, !.mode = mode, !.at = "secret"])
           \/ Becomes(a, [Idle EXCEPT !.project = p, !.op = "uninstall", !.at = "stripread"])
  BY DEF Start
<1>2. /\ act'[a].project = p /\ act'[a].at \notin Writing
      /\ \A b \in Actor \ {a} : act'[b] = act[b]
  <2>1. act \in [Actor -> ActType]
    BY DEF KInv, TInv, TypeOK, ActType
  <2>2. \A r : Becomes(a, r) => act'[a] = r /\ \A b \in Actor \ {a} : act'[b] = act[b]
    BY <2>1 DEF Becomes
  <2>3. CASE \E mode \in File : Becomes(a, [Idle EXCEPT !.project = p, !.mode = mode, !.at = "secret"])
    <3>1. \A mode : LET r == [Idle EXCEPT !.project = p, !.mode = mode, !.at = "secret"]
                    IN  r.project = p /\ r.at = "secret"
      BY DEF Idle
    <3> QED
      BY <2>2, <2>3, <3>1 DEF Writing
  <2>4. CASE Becomes(a, [Idle EXCEPT !.project = p, !.op = "uninstall", !.at = "stripread"])
    <3>1. LET r == [Idle EXCEPT !.project = p, !.op = "uninstall", !.at = "stripread"]
          IN  r.project = p /\ r.at = "stripread"
      BY DEF Idle
    <3> QED
      BY <2>2, <2>4, <3>1 DEF Writing
  <2> QED
    BY <1>1, <2>3, <2>4
<1>3. TInv' /\ UNCHANGED settings
  BY TypeStart DEF KInv, Start, files
<1>4. Turns'
  BY <1>1, <1>2 DEF KInv, Turns, Busy, Mine
<1>5. \A b \in Actor : Held(b)'
  BY <1>2, <1>3 DEF KInv, Held, Fresh, Mine, Writing
<1> QED
  BY <1>3, <1>4, <1>5 DEF KInv, KeepsTheirs

LEMMA KStep == ASSUME Exclusive PROVE KInv /\ [Next]_vars => KInv' /\ [KeepsTheirs]_vars
<1> SUFFICES ASSUME KInv, [Next]_vars PROVE KInv' /\ (KeepsTheirs \/ UNCHANGED vars)
  OBVIOUS
<1>1. CASE UNCHANGED vars
  BY <1>1 DEF vars, files, KInv, TInv, TypeOK, Turns, Held, Fresh, Busy, Mine
<1>2. ASSUME NEW a \in Actor, ActorStep(a) PROVE KInv' /\ KeepsTheirs
  BY <1>2, KStart, KWork DEF ActorStep, Work
<1>3. ASSUME NEW c \in Call, CallStep(c) PROVE KInv' /\ KeepsTheirs
  <2>1. UNCHANGED <<files, act, stands>>
    BY <1>3 DEF CallStep, Fire, RunShim, Handle, SignCommand, CheckWrapped, VerifyCommand
  <2>2. TInv'
    BY <1>3, TypeCall DEF KInv
  <2> QED
    BY <2>1, <2>2 DEF files, KInv, Turns, Held, Fresh, Busy, Mine, KeepsTheirs
<1> QED
  BY <1>1, <1>2, <1>3 DEF Next

(* With one installer at a time in a project, whatever fails and dies: the *)
(* user's hooks outlive it, and a file that is not JSON is left as it is.  *)
THEOREM HookTheirsKept == ASSUME Exclusive PROVE Spec => TheirsKept
<1>1. KInv /\ [Next]_vars => KInv' /\ [KeepsTheirs]_vars
  BY KStep
<1> QED
  BY <1>1, KInit, PTL DEF Spec, TheirsKept, KeepsTheirs
=============================================================================
