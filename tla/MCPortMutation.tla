----------------------------- MODULE MCPortMutation -----------------------------
(***************************************************************************)
(* PortMutation with small constants.                                      *)
(***************************************************************************)
EXTENDS PortMutation, TLC

CONSTANTS c1, n1

MCBackup == [o \in Op |-> <<"backup", o>>]

\* One service, deployed in c1.
OneHome == [c \in ContainerId |-> IF c = c1 THEN n1 ELSE NoName]

\* Everything may fail, and every command may report failure after its effect.
AllFaults == Fallible
AllLateFaults == {"rename", "stop", "start", "create", "rm"}

\* Transactions, deployments and the IDs not in use at the start are
\* interchangeable.
Interchangeable ==
  Permutations(Op) \cup Permutations(Deployment)
    \cup Permutations({c \in ContainerId : Home[c] = NoName})
===============================================================================
