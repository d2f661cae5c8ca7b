------------------------------ MODULE ExecRun ------------------------------
(***************************************************************************)
(* exec.Run (internal/exec/run.go, run_unix.go): one call that starts a    *)
(* child in a process group of its own, masks its two output streams in a  *)
(* goroutine each, waits for the child, for the timeout or for ctx, and    *)
(* stops the group with SIGTERM and then SIGKILL.                          *)
(*                                                                         *)
(* The child may write, start helpers that inherit its pipes, and exit, in *)
(* any order.  What happens inside engine.Process is StreamEngine's; here  *)
(* a masker takes what is in the pipe until EOF, or gives up.              *)
(***************************************************************************)
EXTENDS Integers, FiniteSets

CONSTANTS
    Child,     \* the process Run starts
    Helpers,   \* processes the child may start
    Parent,    \* the process of Run, as a holder of pipe ends
    Streams,   \* stdout and stderr
    Capacity,  \* what a pipe holds
    MaxSent    \* bound: what the processes write to each stream

Procs == {Child} \union Helpers

ASSUME RunAssumption ==
    /\ Parent \notin Procs
    /\ Child \notin Helpers
    /\ Capacity \in Nat \ {0}
    /\ MaxSent \in [Streams -> Nat \ {0}]
    /\ IsFiniteSet(Streams) /\ IsFiniteSet(Helpers)

VARIABLES
    at,        \* where Run is
    ends,      \* [Streams -> who holds the write end of the pipe]
    open,      \* streams whose read end is open
    sent,      \* [Streams -> written to the pipe so far]
    seen,      \* [Streams -> taken from the pipe by its masker]
    masker,    \* [Streams -> "idle", "launched", "reading", "eof" or "failed"]
    refused,   \* streams Process gave up: a long line, a store error, ctx
    alive,     \* running processes
    born,      \* helpers started so far
    group,     \* running processes in the group of the child
    deaf,      \* running processes that ignore SIGTERM
    termed,    \* processes that were sent SIGTERM
    status,    \* exit status of the child, "none" while it runs
    waitCh,    \* the channel cmd.Wait answers on: "empty", "full", "taken"
    waitErr,   \* the answer is an error that is not an ExitError
    timer,     \* opts.Timeout: "off", "armed" or "fired"
    graced,    \* the grace timer has fired
    cancelled, \* ctx is done
    timedOut,  \* second result of waitForChild
    class      \* RunResult.ErrorClass, "?" before Run returns

pipeVars == <<ends, open, sent, seen, masker, refused>>
procVars == <<alive, born, group, deaf, termed, status>>
clockVars == <<timer, graced, cancelled>>
runVars == <<at, waitCh, waitErr, timedOut, class>>
vars == <<pipeVars, procVars, clockVars, runVars>>

Init ==
    /\ at = "new"
    /\ ends = [s \in Streams |-> {}]
    /\ open = {}
    /\ sent = [s \in Streams |-> 0]
    /\ seen = [s \in Streams |-> 0]
    /\ masker = [s \in Streams |-> "idle"]
    /\ refused = {}
    /\ alive = {} /\ born = {} /\ group = {} /\ termed = {}
    /\ deaf = {}
    /\ status = "none"
    /\ waitCh = "empty"
    /\ waitErr = FALSE
    /\ timer \in {"off", "armed"}
    /\ graced = FALSE
    /\ cancelled = FALSE
    /\ timedOut = FALSE
    /\ class = "?"

Held(s) == sent[s] - seen[s]
EOF(s) == ends[s] = {} /\ Held(s) = 0

Released(gone) == [s \in Streams |-> ends[s] \ gone]

-----------------------------------------------------------------------------
(* The processes.                                                          *)

Write(p, s) ==
    /\ p \in alive /\ p \in ends[s]
    /\ s \in open
    /\ Held(s) < Capacity
    /\ sent[s] < MaxSent[s]
    /\ sent' = [sent EXCEPT ![s] = @ + 1]
    /\ UNCHANGED <<ends, open, seen, masker, refused, procVars, clockVars, runVars>>

Ended(gone, how) ==
    /\ alive' = alive \ gone
    /\ group' = group \ gone
    /\ deaf' = deaf \ gone
    /\ ends' = Released(gone)
    /\ status' = IF Child \in alive \intersect gone THEN how ELSE status

Exit(p) ==
    /\ p \in alive
    /\ \E code \in {"zero", "nonzero"} : Ended({p}, code)
    /\ UNCHANGED <<open, sent, seen, masker, refused, born, termed, clockVars, runVars>>

(* The default action of SIGTERM, and of SIGPIPE for a write to a pipe     *)
(* nobody reads any more.                                                  *)
DieOfSignal(p) ==
    /\ p \in alive
    /\ p \in termed \ deaf \/ \E s \in Streams \ open : p \in ends[s]
    /\ Ended({p}, "signal")
    /\ UNCHANGED <<open, sent, seen, masker, refused, born, termed, clockVars, runVars>>

(* A helper inherits what its parent has open or redirects all of it,      *)
(* stays in the group or leaves it (setsid), obeys SIGTERM or not.         *)
Spawn(h) ==
    /\ Child \in alive
    /\ h \in Helpers \ born
    /\ alive' = alive \union {h}
    /\ born' = born \union {h}
    /\ group' \in {group, group \union {h}}
    /\ deaf' \in {deaf, deaf \union {h}}
    /\ \/ ends' = [s \in Streams |-> IF Child \in ends[s] THEN ends[s] \union {h} ELSE ends[s]]
       \/ UNCHANGED ends
    /\ UNCHANGED <<open, sent, seen, masker, refused, termed, status, clockVars, runVars>>

ProcStep ==
    \/ \E p \in Procs, s \in Streams : Write(p, s)
    \/ \E p \in Procs : Exit(p)
    \/ \E h \in Helpers : Spawn(h)

-----------------------------------------------------------------------------
(* Clocks and the caller.                                                  *)

TimerFires ==
    /\ at = "select" /\ timer = "armed"
    /\ timer' = "fired"
    /\ UNCHANGED <<pipeVars, procVars, graced, cancelled, runVars>>

GraceFires ==
    /\ at = "grace" /\ ~ graced
    /\ graced' = TRUE
    /\ UNCHANGED <<pipeVars, procVars, timer, cancelled, runVars>>

Cancel ==
    /\ at # "returned" /\ ~ cancelled
    /\ cancelled' = TRUE
    /\ UNCHANGED <<pipeVars, procVars, timer, graced, runVars>>

-----------------------------------------------------------------------------
(* Run up to the start of the child.                                       *)

(* Mutant of OpenPipes: the first pipe stays open when the second fails.   *)
OpenPipesLeaks ==
    /\ at = "new"
    /\ \/ /\ at' = "piped"
          /\ open' = Streams
          /\ ends' = [s \in Streams |-> {Parent}]
          /\ UNCHANGED class
       \/ /\ at' = "returned"
          /\ class' = "wrapper"
          /\ \E s \in Streams : open' = {s} /\ ends' = [ends EXCEPT ![s] = {Parent}]
    /\ UNCHANGED <<sent, seen, masker, refused, procVars, clockVars, waitCh, waitErr, timedOut>>

OpenPipes ==
    /\ at = "new"
    /\ \/ /\ at' = "piped"
          /\ open' = Streams
          /\ ends' = [s \in Streams |-> {Parent}]
          /\ UNCHANGED class
       \/ /\ at' = "returned"
          /\ class' = "wrapper"
          /\ UNCHANGED <<open, ends>>
    /\ UNCHANGED <<sent, seen, masker, refused, procVars, clockVars, waitCh, waitErr, timedOut>>

Start ==
    /\ at = "piped"
    /\ at' = "started"
    /\ alive' = {Child}
    /\ group' = {Child}
    /\ deaf' \in {{}, {Child}}
    /\ ends' = [s \in Streams |-> ends[s] \union {Child}]
    /\ UNCHANGED <<open, sent, seen, masker, refused, born, termed, status, clockVars, waitCh, waitErr, timedOut, class>>

StartFails ==
    /\ at = "piped"
    /\ at' = "returned"
    /\ class' \in {"wrapper", "not_found"}
    /\ open' = {}
    /\ ends' = Released({Parent})
    /\ UNCHANGED <<sent, seen, masker, refused, procVars, clockVars, waitCh, waitErr, timedOut>>

(* Mutant of Launch: the parent keeps its own write ends.                  *)
LaunchKeepsEnds ==
    /\ at = "started"
    /\ at' = "select"
    /\ masker' = [s \in Streams |-> "launched"]
    /\ UNCHANGED <<ends, open, sent, seen, refused, procVars, clockVars, waitCh, waitErr, timedOut, class>>

(* The parent's write ends are closed and the goroutines start.            *)
Launch ==
    /\ at = "started"
    /\ at' = "select"
    /\ ends' = Released({Parent})
    /\ masker' = [s \in Streams |-> "launched"]
    /\ UNCHANGED <<open, sent, seen, refused, procVars, clockVars, waitCh, waitErr, timedOut, class>>

-----------------------------------------------------------------------------
(* The goroutines.                                                         *)

(* Process tests ctx before it reads, and after what it read filled a      *)
(* chunk; while it waits for more it sees neither ctx nor an error.        *)
(* Mutant of Hangup: the read end stays open behind a masker that is gone. *)
HangupKeepsPipe(s, how) ==
    /\ masker' = [masker EXCEPT ![s] = how]
    /\ UNCHANGED open

(* A stream that is given up is closed for the child too.                  *)
Hangup(s, how) ==
    /\ masker' = [masker EXCEPT ![s] = how]
    /\ open' = open \ {s}

Refuse(s) == Hangup(s, "failed") /\ refused' = refused \union {s}

MaskBegins(s) ==
    /\ masker[s] = "launched"
    /\ IF cancelled THEN Refuse(s)
       ELSE masker' = [masker EXCEPT ![s] = "reading"] /\ UNCHANGED <<open, refused>>
    /\ UNCHANGED <<ends, sent, seen, procVars, clockVars, runVars>>

(* Mutant of Mask: reading goes on after EOF.                              *)
MaskPastEOF(s) ==
    /\ masker[s] = "reading" /\ s \in open /\ (Held(s) > 0 \/ ends[s] = {})
    /\ seen' = [seen EXCEPT ![s] = @ + 1]
    /\ UNCHANGED <<masker, open, refused, ends, sent, procVars, clockVars, runVars>>

Mask(s) ==
    /\ masker[s] = "reading" /\ s \in open /\ Held(s) > 0
    /\ seen' = [seen EXCEPT ![s] = @ + 1]
    /\ \/ UNCHANGED <<masker, open, refused>>
       \/ Refuse(s)
    /\ UNCHANGED <<ends, sent, procVars, clockVars, runVars>>

(* maskStream drops the error of Process; a read end that was closed under *)
(* it is one more error it drops.                                          *)
MaskEnds(s) ==
    /\ masker[s] = "reading"
    /\ \/ s \in open /\ EOF(s) /\ Hangup(s, "eof") /\ UNCHANGED refused
       \/ s \in open /\ EOF(s) /\ seen[s] > 0 /\ Refuse(s)
       \/ s \notin open /\ Hangup(s, "failed") /\ UNCHANGED refused
    /\ UNCHANGED <<ends, sent, seen, procVars, clockVars, runVars>>

(* Mutant of Reap: Wait closes the pipes, as it does those of StdoutPipe.  *)
ReapClosesPipes ==
    /\ at \notin {"new", "piped", "started"}
    /\ status # "none" /\ waitCh = "empty"
    /\ waitCh' = "full"
    /\ open' = {}
    /\ UNCHANGED <<ends, sent, seen, masker, refused, procVars, clockVars, at, waitErr, timedOut, class>>

(* cmd.Wait answers: the exit status, or that waiting itself or the copy   *)
(* of stdin went wrong.                                                    *)
Reap ==
    /\ at \notin {"new", "piped", "started"}
    /\ status # "none" /\ waitCh = "empty"
    /\ waitCh' = "full"
    /\ waitErr' \in BOOLEAN
    /\ UNCHANGED <<pipeVars, procVars, clockVars, at, timedOut, class>>

-----------------------------------------------------------------------------
(* waitForChild and the end of Run.                                        *)

(* waitForChild returns, and stops its grace timer.                        *)
TakeAnswer(late) ==
    /\ waitCh = "full"
    /\ waitCh' = "taken"
    /\ timedOut' = late
    /\ graced' = FALSE
    /\ at' = "drain"
    /\ UNCHANGED <<pipeVars, procVars, timer, cancelled, waitErr, class>>

Answered == at = "select" /\ TakeAnswer(FALSE)

(* signalGroup(SIGTERM); the grace timer starts.                           *)
Terminate ==
    /\ at = "select"
    /\ timer = "fired" \/ cancelled
    /\ termed' = termed \union (alive \intersect group)
    /\ at' = "grace"
    /\ UNCHANGED <<pipeVars, alive, born, group, deaf, status, clockVars, waitCh, waitErr, timedOut, class>>

(* Mutant of AnsweredLate: a child that obeys SIGTERM did not time out.    *)
AnsweredLateIsAnswer == at = "grace" /\ TakeAnswer(FALSE)

AnsweredLate == at \in {"grace", "killed"} /\ TakeAnswer(TRUE)

(* Mutant of Kill: SIGTERM is sent a second time.                          *)
KillAsksAgain ==
    /\ at = "grace" /\ graced
    /\ at' = "killed"
    /\ termed' = termed \union (alive \intersect group)
    /\ UNCHANGED <<pipeVars, alive, born, group, deaf, status, clockVars, waitCh, waitErr, timedOut, class>>

(* signalGroup(SIGKILL).                                                   *)
Kill ==
    /\ at = "grace" /\ graced
    /\ at' = "killed"
    /\ Ended(alive \intersect group, "signal")
    /\ UNCHANGED <<open, sent, seen, masker, refused, born, termed, clockVars, waitCh, waitErr, timedOut, class>>

(* streamWg.Wait, and the result.                                          *)
Return ==
    /\ at = "drain"
    /\ \A s \in Streams : masker[s] \in {"eof", "failed"}
    /\ at' = "returned"
    /\ class' = CASE timedOut -> "timeout"
                  [] ~ timedOut /\ waitErr -> "wrapper"
                  [] ~ timedOut /\ ~ waitErr -> IF status = "zero" THEN "" ELSE "non_zero"
    /\ UNCHANGED <<pipeVars, procVars, clockVars, waitCh, waitErr, timedOut>>

RunStep ==
    \/ OpenPipes \/ Start \/ StartFails \/ Launch
    \/ Answered \/ Terminate \/ AnsweredLate \/ Kill \/ Return

Signals == \E p \in Procs : DieOfSignal(p)
MaskStep(s) == MaskBegins(s) \/ Mask(s) \/ MaskEnds(s)

Next ==
    \/ RunStep
    \/ Reap
    \/ \E s \in Streams : MaskStep(s)
    \/ ProcStep
    \/ Signals
    \/ TimerFires
    \/ GraceFires
    \/ Cancel

Spec == Init /\ [][Next]_vars

(* The goroutines are scheduled, their writers take what they are given,   *)
(* the kernel reaps and the grace timer fires.  Nothing is assumed of the  *)
(* child: it may run, or sleep, for ever.                                  *)
FairSpec ==
    /\ Spec
    /\ WF_vars(RunStep)
    /\ WF_vars(Reap)
    /\ WF_vars(GraceFires)
    /\ \A s \in Streams : WF_vars(MaskStep(s))

-----------------------------------------------------------------------------
(* Properties.                                                             *)

(* Every variable has its type, and a pipe never holds more than it can.   *)
PipeTypes ==
    /\ ends \in [Streams -> SUBSET (Procs \union {Parent})]
    /\ open \subseteq Streams /\ refused \subseteq Streams
    /\ masker \in [Streams -> {"idle", "launched", "reading", "eof", "failed"}]
    /\ sent \in [Streams -> Nat] /\ seen \in [Streams -> Nat]
    /\ \A s \in Streams : seen[s] <= sent[s] /\ sent[s] <= seen[s] + Capacity /\ sent[s] <= MaxSent[s]

ProcTypes ==
    /\ alive \subseteq Procs /\ born \subseteq Helpers
    /\ group \subseteq alive /\ deaf \subseteq alive /\ termed \subseteq Procs
    /\ status \in {"none", "zero", "nonzero", "signal"}

RunTypes ==
    /\ at \in {"new", "piped", "started", "select", "grace", "killed", "drain", "returned"}
    /\ waitCh \in {"empty", "full", "taken"}
    /\ timer \in {"off", "armed", "fired"}
    /\ graced \in BOOLEAN /\ cancelled \in BOOLEAN
    /\ waitErr \in BOOLEAN /\ timedOut \in BOOLEAN
    /\ class \in {"?", "", "non_zero", "timeout", "wrapper", "not_found"}

TypeOK == PipeTypes /\ ProcTypes /\ RunTypes

(* When Run returns nothing of it is left: both goroutines have ended, the *)
(* child is reaped and no end of a pipe is open in this process, whichever *)
(* return it took.                                                         *)
ReturnsClean ==
    at = "returned" =>
        /\ open = {}
        /\ \A s \in Streams : Parent \notin ends[s] /\ masker[s] \notin {"launched", "reading"}
        /\ alive \union born = {} \/ waitCh = "taken"

(* The pipes outlive the child (the comment at run.go:51-55): unless       *)
(* Process refused the stream, every byte the child or a helper wrote has  *)
(* been masked when Run returns, after a timeout as well.                  *)
OutputComplete ==
    at = "returned" =>
        \A s \in Streams \ refused : seen[s] = sent[s] /\ ends[s] = {}

(* The error class tells what happened: success only for a child that Run  *)
(* never signalled, that exited with 0 and was waited for without an error,*)
(* a timeout only after a timer or ctx, a fault of the wrapper itself only *)
(* if there was one, and none of them while the child is running.          *)
ResultTrue ==
    /\ class = "" => status = "zero" /\ Child \notin termed /\ ~ waitErr
    /\ class = "non_zero" => /\ status \in {"nonzero", "signal"}
                             /\ Child \notin termed /\ ~ waitErr
    /\ class = "timeout" => status # "none" /\ (timer = "fired" \/ cancelled)
    /\ class \in {"wrapper", "not_found"} =>
          alive \union born = {} \/ (status # "none" /\ waitErr /\ Child \notin termed)

(* No process waits for ever on a full pipe, whichever stream it fills     *)
(* first and whatever becomes of the other, read, refused or closed: the   *)
(* masker reads or hangs up.                                               *)
WritersAdvance == \A s \in Streams : Held(s) = Capacity ~> (Held(s) < Capacity \/ s \notin open)

(* Once every process that could write is gone, Run returns.               *)
ReturnsWhenAlone == (status # "none" /\ alive = {}) ~> at = "returned"

(* A child that ignores SIGTERM is killed: from the timeout or the cancel  *)
(* on, whatever it does, it is dead in the end and Run has its status.     *)
StopKills == at = "grace" ~> waitCh = "taken"

(* docs/plans/2026-04-30-001-feat-mcp-server-plan.md:356: "For exec the    *)
(* input pipes are closed when the subprocess is signaled, which unblocks  *)
(* the read", so Run returns after a timeout or a cancel.                  *)
StopReturns == at = "grace" ~> at = "returned"
=============================================================================
