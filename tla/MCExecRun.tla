----------------------------- MODULE MCExecRun -----------------------------
(* A child that may start one helper.  Both write to both streams; stdout  *)
(* takes one unit more than its pipe holds.                                *)
EXTENDS ExecRun, TLC

CONSTANTS stdout, stderr

MCMaxSent == stdout :> 2 @@ stderr :> 1
MCMaxSentOnly == stdout :> 1
=============================================================================
