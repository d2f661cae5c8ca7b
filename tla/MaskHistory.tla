---------------------------- MODULE MaskHistory -----------------------------
(***************************************************************************)
(* MaskPipeline with a history variable, to say when a value was last      *)
(* remembered relative to the segment that shows its token.                *)
(***************************************************************************)
EXTENDS MaskPipeline

VARIABLE missing    \* values of each worker's segment that had no row at any
                    \* moment since the segment was planned

historyVars == <<vars, missing>>

HistoryInit == Init /\ missing = [w \in Workers |-> {}]

HistoryNext ==
    /\ Next
    /\ missing' = [w \in Workers |->
            IF at'[w] = "read" THEN {}
            ELSE (IF at[w] = "read" THEN plan'[w] ELSE missing[w]) \ Rows']

HistorySpec == HistoryInit /\ [][HistoryNext]_historyVars

(* README.md:382 says a pseudonymized value is "mapped to a stable token   *)
(* and remembered in the mapping store".  When the tokens of a segment are *)
(* about to be written, each of its values has had a row at some moment    *)
(* since the segment was planned.                                          *)
RememberedWhenMasked == \A w \in Workers : at[w] = "write" => missing[w] = {}
=============================================================================
