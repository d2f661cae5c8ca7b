--------------------------- MODULE MCMaskPipeline ---------------------------
(* Two streams of one process mask the same two values.                    *)
EXTENDS MaskPipeline, TLC

CONSTANTS p1, w1, w2, a, b, t1, t2, email

MCOneProcess == w1 :> p1 @@ w2 :> p1
MCToken == a :> t1 @@ b :> t2
MCTypeOf == a :> email @@ b :> email
MCBatches == {{a, b}}
=============================================================================
