---------------------------- MODULE PseudonymMap ----------------------------
(***************************************************************************)
(* What pseudonymization promises, with no process, transaction or cache   *)
(* in sight (internal/store/store.go is the contract of the store): a      *)
(* token is shown only for a value that was remembered under it, a token   *)
(* stands for one remembered value, and a value is lost only by being      *)
(* forgotten.                                                              *)
(***************************************************************************)
CONSTANTS Values, Token

VARIABLES
    known,      \* values the map restores now
    forgotten,  \* values it once restored and does not restore now
    shown       \* values whose token was written for a reader

mapVars == <<known, forgotten, shown>>

MapInit ==
    /\ known = {}
    /\ forgotten = {}
    /\ shown = {}

(* A batch becomes known as a whole, and no token becomes ambiguous.       *)
Remember(vs) ==
    /\ \A u \in vs, v \in known \union vs : Token[u] = Token[v] => u = v
    /\ known' = known \union vs
    /\ forgotten' = forgotten \ vs
    /\ UNCHANGED shown

Forget(vs) ==
    /\ vs \subseteq known
    /\ known' = known \ vs
    /\ forgotten' = forgotten \union vs
    /\ UNCHANGED shown

Show(vs) ==
    /\ vs \subseteq known \union forgotten
    /\ shown' = shown \union vs
    /\ UNCHANGED <<known, forgotten>>

MapNext == \E vs \in SUBSET Values : Remember(vs) \/ Forget(vs) \/ Show(vs)

MapSpec == MapInit /\ [][MapNext]_mapVars
=============================================================================
