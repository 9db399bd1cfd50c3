------------------------- MODULE MC_GovernedDispatch --------------------------
(***************************************************************************)
(* Instances of GovernedDispatch: one case and two approvals, the first of *)
(* update_case_status and asked for by an external agent, the second of    *)
(* another tool and asked for from the web.                                *)
(***************************************************************************)
EXTENDS GovernedDispatch, TLC

CONSTANTS c1, a1, a2, agent, w1, w2

TwoApprovals == {a1, a2}
OneCase == [a \in Approvals |-> c1]
\* The two dispatcher processes are interchangeable (safety runs only).
WorkerSymmetry == Permutations(Workers)

FirstByAgent == [a \in Approvals |-> IF a = a1 THEN agent ELSE NoInstallation]
================================================================================
