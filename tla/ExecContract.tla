---------------------------- MODULE ExecContract ----------------------------
(***************************************************************************)
(* What the fronts of exec rely on, with no gate, word, policy, disk or    *)
(* file in sight (exec/orchestrate.go is the contract of the orchestrator):*)
(* a call is traced once before its child starts and once after it ended;  *)
(* it starts at most one child, with the argv granted, and is answered     *)
(* once.  A refused call has started none and left one trace or none.      *)
(***************************************************************************)
EXTENDS Naturals

CONSTANTS
    Calls,
    Ruling      \* of each request: whether it is granted, and the argv that is

VARIABLES
    req,        \* what a call asks for
    ran,        \* what its child was started with
    child,      \* "none", "running" or "over"
    traces,     \* how many records of it are in the log
    told        \* what its caller knows

contractVars == <<req, ran, child, traces, told>>

ContractInit ==
    /\ req \in [Calls -> DOMAIN Ruling]
    /\ child = [c \in Calls |-> "none"]
    /\ traces = [c \in Calls |-> 0]
    /\ told = [c \in Calls |-> "nothing"]

Waiting(c, n) == told[c] = "nothing" /\ traces[c] = n

(* Nothing ran, and nothing will.                                          *)
TurnDown(c) ==
    /\ Waiting(c, 0)
    /\ told' = [told EXCEPT ![c] = "refused"]
    /\ \E n \in {0, 1} : traces' = [traces EXCEPT ![c] = n]
    /\ UNCHANGED <<req, ran, child>>

Trace(c) ==
    /\ Waiting(c, 0)
    /\ traces' = [traces EXCEPT ![c] = 1]
    /\ Ruling[req[c]].granted
    /\ UNCHANGED <<req, ran, child, told>>

Begin(c) ==
    /\ Waiting(c, 1) /\ child[c] = "none"
    /\ child' = [child EXCEPT ![c] = "running"]
    /\ ran' = [ran EXCEPT ![c] = Ruling[req[c]].argv]
    /\ UNCHANGED <<req, traces, told>>

End(c) ==
    /\ Waiting(c, 1) /\ child[c] = "running"
    /\ child' = [child EXCEPT ![c] = "over"]
    /\ UNCHANGED <<req, ran, traces, told>>

(* The child has ended, or could not be started.                           *)
Report(c) ==
    /\ Waiting(c, 1) /\ child[c] # "running"
    /\ \/ told' = [told EXCEPT ![c] = "done"] /\ traces' = [traces EXCEPT ![c] = 2]
       \/ told' = [told EXCEPT ![c] = "unrecorded"] /\ UNCHANGED traces
    /\ UNCHANGED <<req, ran, child>>

ContractNext ==
    \E c \in Calls : TurnDown(c) \/ Trace(c) \/ Begin(c) \/ End(c) \/ Report(c)

ContractSpec == ContractInit /\ [][ContractNext]_contractVars
=============================================================================
