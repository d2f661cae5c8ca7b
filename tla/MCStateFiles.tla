---------------------------- MODULE MCStateFiles ----------------------------
(* Two processes in one project and a third in another, whose configuration*)
(* is there: trust.json then names one project, the other, or both.        *)
EXTENDS StateFiles

CONSTANTS m1, m2, m3, q1, q2

MCInit ==
    /\ Init
    /\ proc[m1].project = q1 /\ proc[m2].project = q1 /\ proc[m3].project = q2
    /\ config[q2] = "rules"

MCSpec == MCInit /\ [][Next]_vars /\ Fairness
=============================================================================
