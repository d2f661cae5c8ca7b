--------------------------- MODULE ExecRun_proofs ---------------------------
(* Proofs about ExecRun, for any number of streams, helpers, pipe sizes.   *)
EXTENDS ExecRun, TLAPS

(* Until the child is started there is nothing but the pipes.              *)
Fresh ==
    at \in {"new", "piped"} =>
        /\ alive = {} /\ born = {} /\ termed = {} /\ group = {} /\ refused = {}
        /\ status = "none" /\ waitCh = "empty"
        /\ \A s \in Streams : masker[s] = "idle" /\ sent[s] = 0 /\ seen[s] = 0
        /\ \A s \in Streams : ends[s] = IF at = "new" THEN {} ELSE {Parent}
        /\ at = "new" => open = {}

(* A return before the child was started leaves nothing behind.            *)
Unstarted ==
    at = "returned" /\ waitCh # "taken" =>
        /\ alive = {} /\ born = {} /\ open = {} /\ status = "none" /\ waitCh = "empty"
        /\ class \in {"wrapper", "not_found"}
        /\ \A s \in Streams : masker[s] = "idle" /\ sent[s] = 0 /\ seen[s] = 0 /\ ends[s] = {}

(* Who reads a pipe, and who may still write to it.                        *)
Ends ==
    \A s \in Streams :
        /\ masker[s] = "eof" => ends[s] = {} /\ seen[s] = sent[s]
        /\ masker[s] \in {"launched", "reading"} <=> (s \in open /\ at \notin {"new", "piped", "started"})
        /\ masker[s] = "failed" => s \in refused
        /\ at \notin {"new", "piped", "started"} => Parent \notin ends[s]
        /\ at \in {"piped", "started"} => masker[s] = "idle" /\ s \in open
        /\ masker[s] = "idle" => at \in {"new", "piped", "started"} \/ (at = "returned" /\ waitCh = "empty")

(* What the supervisor knows of the child.                                 *)
Verdict ==
    /\ status # "none" => Child \notin alive
    /\ waitCh # "empty" => status # "none"
    /\ waitCh = "taken" => at \in {"drain", "returned"}
    /\ at = "drain" => waitCh = "taken"
    /\ at = "returned" /\ class \notin {"wrapper", "not_found"} => waitCh = "taken"
    /\ waitCh = "taken" /\ class \in {"wrapper", "not_found"} => waitErr /\ termed = {}
    /\ class = "?" <=> at # "returned"
    /\ at \in {"new", "piped", "started", "select"} => termed = {} /\ ~ timedOut
    /\ at \in {"grace", "killed"} => timer = "fired" \/ cancelled
    /\ timedOut => timer = "fired" \/ cancelled
    /\ at = "drain" /\ ~ timedOut => termed = {}
    /\ class \in {"", "non_zero"} => termed = {} /\ ~ waitErr
    /\ class = "" => status = "zero"
    /\ class = "non_zero" => status # "zero"
    /\ class = "timeout" => timedOut
    /\ at \in {"drain", "returned"} /\ waitCh = "taken" => at = "drain" \/ \A s \in Streams : masker[s] \in {"eof", "failed"}

IInv == TypeOK /\ Fresh /\ Unstarted /\ Ends /\ Verdict

-----------------------------------------------------------------------------
(* Every step keeps the types.                                               *)
LEMMA PipeTypesNext == PipeTypes /\ ProcTypes /\ [Next]_vars => PipeTypes'
<1> SUFFICES ASSUME PipeTypes, ProcTypes, [Next]_vars PROVE PipeTypes'
    OBVIOUS
<1> USE RunAssumption DEF PipeTypes, ProcTypes, Procs, pipeVars, procVars, clockVars, runVars
<1>1. CASE OpenPipes
  BY <1>1 DEF OpenPipes
<1>2. CASE Start
  BY <1>2 DEF Start
<1>3. CASE StartFails
  BY <1>3 DEF StartFails, Released
<1>4. CASE Launch
  BY <1>4 DEF Launch, Released
<1>5. CASE Kill
  BY <1>5 DEF Kill, Ended, Released
<1>6. ASSUME NEW s \in Streams, MaskBegins(s) PROVE PipeTypes'
  BY <1>6 DEF MaskBegins, Refuse, Hangup
<1>7. ASSUME NEW s \in Streams, Mask(s) PROVE PipeTypes'
  BY <1>7 DEF Mask, Refuse, Hangup, Held
<1>8. ASSUME NEW s \in Streams, MaskEnds(s) PROVE PipeTypes'
  BY <1>8 DEF MaskEnds, Refuse, Hangup, EOF
<1>9. ASSUME NEW p \in Procs, NEW s \in Streams, Write(p, s) PROVE PipeTypes'
  BY <1>9 DEF Write, Held
<1>10. ASSUME NEW p \in Procs, Exit(p) PROVE PipeTypes'
  BY <1>10 DEF Exit, Ended, Released
<1>11. ASSUME NEW h \in Helpers, Spawn(h) PROVE PipeTypes'
  BY <1>11 DEF Spawn
<1>12. ASSUME NEW p \in Procs, DieOfSignal(p) PROVE PipeTypes'
  BY <1>12 DEF DieOfSignal, Ended, Released
<1>13. CASE UNCHANGED pipeVars
  BY <1>13 DEF pipeVars
<1> QED
  BY <1>1, <1>2, <1>3, <1>4, <1>5, <1>6, <1>7, <1>8, <1>9, <1>10, <1>11, <1>12, <1>13
     DEF Next, RunStep, ProcStep, Signals, MaskStep, Answered, AnsweredLate, Cancel, GraceFires, Reap, Return, TakeAnswer, Terminate, TimerFires, vars

LEMMA ProcTypesNext == ProcTypes /\ Fresh /\ [Next]_vars => ProcTypes'
<1> SUFFICES ASSUME ProcTypes, Fresh, [Next]_vars PROVE ProcTypes'
    OBVIOUS
<1> USE RunAssumption DEF ProcTypes, Procs, pipeVars, procVars, clockVars, runVars
<1>1. CASE Start
  BY <1>1 DEF Start, Fresh
<1>2. CASE Terminate
  BY <1>2 DEF Terminate
<1>3. CASE Kill
  BY <1>3 DEF Kill, Ended, Released
<1>4. ASSUME NEW p \in Procs, Exit(p) PROVE ProcTypes'
  BY <1>4 DEF Exit, Ended, Released
<1>5. ASSUME NEW h \in Helpers, Spawn(h) PROVE ProcTypes'
  BY <1>5 DEF Spawn
<1>6. ASSUME NEW p \in Procs, DieOfSignal(p) PROVE ProcTypes'
  BY <1>6 DEF DieOfSignal, Ended, Released
<1>7. CASE UNCHANGED procVars
  BY <1>7 DEF procVars
<1> QED
  BY <1>1, <1>2, <1>3, <1>4, <1>5, <1>6, <1>7
     DEF Next, RunStep, ProcStep, Signals, MaskStep, Answered, AnsweredLate, Cancel, GraceFires, Hangup, Launch, Mask, MaskBegins, MaskEnds, OpenPipes, Reap, Refuse, Return, StartFails, TakeAnswer, TimerFires, Write, vars

LEMMA RunTypesNext == RunTypes /\ [Next]_vars => RunTypes'
<1> SUFFICES ASSUME RunTypes, [Next]_vars PROVE RunTypes'
    OBVIOUS
<1> USE RunAssumption DEF RunTypes, pipeVars, procVars, clockVars, runVars
<1>1. CASE OpenPipes
  BY <1>1 DEF OpenPipes
<1>2. CASE Start
  BY <1>2 DEF Start
<1>3. CASE StartFails
  BY <1>3 DEF StartFails, Released
<1>4. CASE Launch
  BY <1>4 DEF Launch, Released
<1>5. CASE Answered
  BY <1>5 DEF Answered, TakeAnswer
<1>6. CASE Terminate
  BY <1>6 DEF Terminate
<1>7. CASE AnsweredLate
  BY <1>7 DEF AnsweredLate, TakeAnswer
<1>8. CASE Kill
  BY <1>8 DEF Kill, Ended, Released
<1>9. CASE Return
  BY <1>9 DEF Return
<1>10. CASE Reap
  BY <1>10 DEF Reap
<1>11. ASSUME NEW s \in Streams, MaskBegins(s) PROVE RunTypes'
  BY <1>11 DEF MaskBegins, Refuse, Hangup
<1>12. ASSUME NEW s \in Streams, Mask(s) PROVE RunTypes'
  BY <1>12 DEF Mask, Refuse, Hangup, Held
<1>13. ASSUME NEW s \in Streams, MaskEnds(s) PROVE RunTypes'
  BY <1>13 DEF MaskEnds, Refuse, Hangup, EOF
<1>14. ASSUME NEW p \in Procs, NEW s \in Streams, Write(p, s) PROVE RunTypes'
  BY <1>14 DEF Write, Held
<1>15. ASSUME NEW p \in Procs, Exit(p) PROVE RunTypes'
  BY <1>15 DEF Exit, Ended, Released
<1>16. ASSUME NEW h \in Helpers, Spawn(h) PROVE RunTypes'
  BY <1>16 DEF Spawn
<1>17. ASSUME NEW p \in Procs, DieOfSignal(p) PROVE RunTypes'
  BY <1>17 DEF DieOfSignal, Ended, Released
<1>18. CASE TimerFires
  BY <1>18 DEF TimerFires
<1>19. CASE GraceFires
  BY <1>19 DEF GraceFires
<1>20. CASE Cancel
  BY <1>20 DEF Cancel
<1>21. CASE UNCHANGED vars
  BY <1>21 DEF vars
<1> QED
  BY <1>1, <1>2, <1>3, <1>4, <1>5, <1>6, <1>7, <1>8, <1>9, <1>10, <1>11, <1>12, <1>13, <1>14, <1>15, <1>16, <1>17, <1>18, <1>19, <1>20, <1>21
     DEF Next, RunStep, ProcStep, Signals, MaskStep

(* Nothing happens before the child is started. *)
LEMMA FreshNext == TypeOK /\ Fresh /\ Unstarted /\ Verdict /\ [Next]_vars => Fresh' /\ Unstarted'
<1> SUFFICES ASSUME TypeOK, Fresh, Unstarted, Verdict, [Next]_vars PROVE Fresh' /\ Unstarted'
    OBVIOUS
<1> USE RunAssumption DEF TypeOK, PipeTypes, ProcTypes, RunTypes, Fresh, Unstarted, Verdict, pipeVars, procVars, clockVars, runVars, Held, Procs
<1>1. CASE OpenPipes
  BY <1>1 DEF OpenPipes
<1>2. CASE Start
  BY <1>2 DEF Start
<1>3. CASE StartFails
  BY <1>3 DEF StartFails, Released
<1>4. CASE Launch
  BY <1>4 DEF Launch, Released
<1>5. CASE Answered
  BY <1>5 DEF Answered, TakeAnswer
<1>6. CASE Terminate
  BY <1>6 DEF Terminate
<1>7. CASE AnsweredLate
  BY <1>7 DEF AnsweredLate, TakeAnswer
<1>8. CASE Kill
  BY <1>8 DEF Kill, Ended, Released
<1>9. CASE Return
  BY <1>9 DEF Return
<1>10. CASE Reap
  BY <1>10 DEF Reap
<1>11. ASSUME NEW s \in Streams, MaskBegins(s) PROVE Fresh' /\ Unstarted'
  BY <1>11 DEF MaskBegins, Refuse, Hangup
<1>12. ASSUME NEW s \in Streams, Mask(s) PROVE Fresh' /\ Unstarted'
  BY <1>12 DEF Mask, Refuse, Hangup
<1>13. ASSUME NEW s \in Streams, MaskEnds(s) PROVE Fresh' /\ Unstarted'
  BY <1>13 DEF MaskEnds, Refuse, Hangup, EOF
<1>14. ASSUME NEW p \in Procs, NEW s \in Streams, Write(p, s) PROVE Fresh' /\ Unstarted'
  BY <1>14 DEF Write
<1>15. ASSUME NEW p \in Procs, Exit(p) PROVE Fresh' /\ Unstarted'
  BY <1>15 DEF Exit, Ended, Released
<1>16. ASSUME NEW h \in Helpers, Spawn(h) PROVE Fresh' /\ Unstarted'
  BY <1>16 DEF Spawn
<1>17. ASSUME NEW p \in Procs, DieOfSignal(p) PROVE Fresh' /\ Unstarted'
  BY <1>17 DEF DieOfSignal, Ended, Released
<1>18. CASE TimerFires \/ GraceFires \/ Cancel
  BY <1>18 DEF TimerFires, GraceFires, Cancel
<1>19. CASE UNCHANGED vars
  BY <1>19 DEF vars
<1> QED
  BY <1>1, <1>2, <1>3, <1>4, <1>5, <1>6, <1>7, <1>8, <1>9, <1>10, <1>11, <1>12, <1>13, <1>14, <1>15, <1>16, <1>17, <1>18, <1>19
     DEF Next, RunStep, ProcStep, Signals, MaskStep

(* No step writes to a pipe that was found empty. *)
LEMMA EndsNext == PipeTypes /\ Fresh /\ Unstarted /\ Ends /\ [Next]_vars => Ends'
<1> SUFFICES ASSUME PipeTypes, Fresh, Unstarted, Ends, [Next]_vars PROVE Ends'
    OBVIOUS
<1> USE RunAssumption DEF PipeTypes, Fresh, Unstarted, Ends, pipeVars, procVars, clockVars, runVars, Held, Procs
<1>1. CASE OpenPipes
  BY <1>1 DEF OpenPipes
<1>2. CASE Start
  BY <1>2 DEF Start
<1>3. CASE StartFails
  BY <1>3 DEF StartFails, Released
<1>4. CASE Launch
  BY <1>4 DEF Launch, Released
<1>5. CASE Answered
  BY <1>5 DEF Answered, TakeAnswer
<1>6. CASE Terminate
  BY <1>6 DEF Terminate
<1>7. CASE AnsweredLate
  BY <1>7 DEF AnsweredLate, TakeAnswer
<1>8. CASE Kill
  BY <1>8 DEF Kill, Ended, Released
<1>9. CASE Return
  BY <1>9 DEF Return
<1>10. CASE Reap
  BY <1>10 DEF Reap
<1>11. ASSUME NEW s \in Streams, MaskBegins(s) PROVE Ends'
  BY <1>11 DEF MaskBegins, Refuse, Hangup
<1>12. ASSUME NEW s \in Streams, Mask(s) PROVE Ends'
  BY <1>12 DEF Mask, Refuse, Hangup
<1>13. ASSUME NEW s \in Streams, MaskEnds(s) PROVE Ends'
  BY <1>13 DEF MaskEnds, Refuse, Hangup, EOF
<1>14. ASSUME NEW p \in Procs, NEW s \in Streams, Write(p, s) PROVE Ends'
  BY <1>14 DEF Write
<1>15. ASSUME NEW p \in Procs, Exit(p) PROVE Ends'
  BY <1>15 DEF Exit, Ended, Released
<1>16. ASSUME NEW h \in Helpers, Spawn(h) PROVE Ends'
  BY <1>16 DEF Spawn
<1>17. ASSUME NEW p \in Procs, DieOfSignal(p) PROVE Ends'
  BY <1>17 DEF DieOfSignal, Ended, Released
<1>18. CASE TimerFires \/ GraceFires \/ Cancel
  BY <1>18 DEF TimerFires, GraceFires, Cancel
<1>19. CASE UNCHANGED vars
  BY <1>19 DEF vars
<1> QED
  BY <1>1, <1>2, <1>3, <1>4, <1>5, <1>6, <1>7, <1>8, <1>9, <1>10, <1>11, <1>12, <1>13, <1>14, <1>15, <1>16, <1>17, <1>18, <1>19
     DEF Next, RunStep, ProcStep, Signals, MaskStep

(* The supervisor keeps track of the child. *)
LEMMA VerdictNext == IInv /\ [Next]_vars => Verdict'
<1> SUFFICES ASSUME IInv, [Next]_vars PROVE Verdict'
    OBVIOUS
<1> USE RunAssumption DEF IInv, TypeOK, PipeTypes, ProcTypes, RunTypes, Fresh, Unstarted, Ends, Verdict, pipeVars, procVars, clockVars, runVars, Held, Procs
<1>1. CASE OpenPipes
  BY <1>1 DEF OpenPipes
<1>2. CASE Start
  BY <1>2 DEF Start
<1>3. CASE StartFails
  BY <1>3 DEF StartFails, Released
<1>4. CASE Launch
  BY <1>4 DEF Launch, Released
<1>5. CASE Answered
  BY <1>5 DEF Answered, TakeAnswer
<1>6. CASE Terminate
  BY <1>6 DEF Terminate
<1>7. CASE AnsweredLate
  BY <1>7 DEF AnsweredLate, TakeAnswer
<1>8. CASE Kill
  BY <1>8 DEF Kill, Ended, Released
<1>9. CASE Return
  BY <1>9 DEF Return
<1>10. CASE Reap
  BY <1>10 DEF Reap
<1>11. ASSUME NEW s \in Streams, MaskBegins(s) PROVE Verdict'
  BY <1>11 DEF MaskBegins, Refuse, Hangup
<1>12. ASSUME NEW s \in Streams, Mask(s) PROVE Verdict'
  BY <1>12 DEF Mask, Refuse, Hangup
<1>13. ASSUME NEW s \in Streams, MaskEnds(s) PROVE Verdict'
  BY <1>13 DEF MaskEnds, Refuse, Hangup, EOF
<1>14. ASSUME NEW p \in Procs, NEW s \in Streams, Write(p, s) PROVE Verdict'
  BY <1>14 DEF Write
<1>15. ASSUME NEW p \in Procs, Exit(p) PROVE Verdict'
  BY <1>15 DEF Exit, Ended, Released
<1>16. ASSUME NEW h \in Helpers, Spawn(h) PROVE Verdict'
  BY <1>16 DEF Spawn
<1>17. ASSUME NEW p \in Procs, DieOfSignal(p) PROVE Verdict'
  BY <1>17 DEF DieOfSignal, Ended, Released
<1>18. CASE TimerFires \/ GraceFires \/ Cancel
  <2>1. (timer = "fired" => timer' = "fired") /\ (cancelled => cancelled')
    BY <1>18 DEF TimerFires, GraceFires, Cancel
  <2>2. UNCHANGED <<alive, waitCh, waitErr, at, class, status, termed, timedOut, masker>>
    BY <1>18 DEF TimerFires, GraceFires, Cancel
  <2> QED
    BY <2>1, <2>2
<1>19. CASE UNCHANGED vars
  BY <1>19 DEF vars
<1> QED
  BY <1>1, <1>2, <1>3, <1>4, <1>5, <1>6, <1>7, <1>8, <1>9, <1>10, <1>11, <1>12, <1>13, <1>14, <1>15, <1>16, <1>17, <1>18, <1>19
     DEF Next, RunStep, ProcStep, Signals, MaskStep

LEMMA IInvHolds == Spec => []IInv
<1>1. Init => IInv
  <2> SUFFICES ASSUME Init PROVE IInv
      OBVIOUS
  <2>1. PipeTypes
    BY RunAssumption DEF Init, PipeTypes
  <2>2. ProcTypes /\ RunTypes
    BY DEF Init, ProcTypes, RunTypes
  <2>3. Fresh /\ Unstarted /\ Ends
    BY DEF Init, Fresh, Unstarted, Ends
  <2>4. Verdict
    BY DEF Init, Verdict
  <2> QED
    BY <2>1, <2>2, <2>3, <2>4 DEF IInv, TypeOK
<1>2. IInv /\ [Next]_vars => IInv'
  <2> SUFFICES ASSUME IInv, [Next]_vars PROVE IInv'
      OBVIOUS
  <2>1. TypeOK'
    BY PipeTypesNext, ProcTypesNext, RunTypesNext DEF IInv, TypeOK
  <2>2. Fresh' /\ Unstarted'
    BY FreshNext DEF IInv
  <2>3. Ends'
    BY EndsNext DEF IInv, TypeOK
  <2>4. Verdict'
    BY VerdictNext
  <2> QED
    BY <2>1, <2>2, <2>3, <2>4 DEF IInv
<1> QED
  BY <1>1, <1>2, PTL DEF Spec

-----------------------------------------------------------------------------
(* Every variable of run.go keeps its type, for any number of streams,     *)
(* helpers and any pipe capacity.                                          *)
THEOREM RunTyping == Spec => []TypeOK
BY IInvHolds, PTL DEF IInv

(* Run returns with its goroutines ended, the child reaped and no end of a *)
(* pipe open, on every path out of run.go:42-127.                          *)
THEOREM RunReturnsClean == Spec => []ReturnsClean
<1>1. IInv => ReturnsClean
  BY DEF IInv, Unstarted, Ends, Verdict, ReturnsClean, TypeOK, RunTypes, PipeTypes
<1> QED
  BY IInvHolds, <1>1, PTL

(* No output of the child or of its helpers is lost, unless Process        *)
(* refused the stream: the pipes outlive the child.                        *)
THEOREM RunOutputComplete == Spec => []OutputComplete
<1>1. IInv => OutputComplete
  BY DEF IInv, Unstarted, Ends, Verdict, OutputComplete, TypeOK, RunTypes, PipeTypes
<1> QED
  BY IInvHolds, <1>1, PTL

(* The error class Run reports tells what happened to the child.           *)
THEOREM RunResultTrue == Spec => []ResultTrue
<1>1. IInv => ResultTrue
  BY DEF IInv, Unstarted, Verdict, ResultTrue, TypeOK, RunTypes, ProcTypes
<1> QED
  BY IInvHolds, <1>1, PTL
=============================================================================
