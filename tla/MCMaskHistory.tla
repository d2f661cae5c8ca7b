--------------------------- MODULE MCMaskHistory ----------------------------
(* Two streams of one process that mask the same value.                    *)
EXTENDS MaskHistory, TLC

CONSTANTS p1, w1, w2, a, t1, email

MCProcOf == w1 :> p1 @@ w2 :> p1
MCToken == a :> t1
MCTypeOf == a :> email
MCBatches == {{a}}
=============================================================================
