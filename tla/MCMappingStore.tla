--------------------------- MODULE MCMappingStore ---------------------------
(* A worker in each of two processes; a and b collide on their token, c    *)
(* does not.                                                               *)
EXTENDS MappingStore, TLC

CONSTANTS p1, p2, w1, w2, a, b, c, t1, t2, email, host

MCTwoProcesses == w1 :> p1 @@ w2 :> p2
MCToken == a :> t1 @@ b :> t1 @@ c :> t2
MCTypeOf == a :> email @@ b :> email @@ c :> host
MCBatches == {{a, c}, {b}}
=============================================================================
