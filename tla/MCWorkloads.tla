------------------------------ MODULE MCWorkloads ------------------------------
(***************************************************************************)
(* Workloads with small constants.                                         *)
(***************************************************************************)
EXTENDS Workloads, TLC

CONSTANTS c1, n1, n2

MCBackup == [o \in Op |-> <<"backup", o>>]
MCHome == [c \in ContainerId |-> IF c = c1 THEN n1 ELSE NoName]
MCPortsOf == [d \in Deployment |-> d]

AllFaults == Fallible
AllLateFaults == {"rename", "stop", "start", "create", "rm"}
NoListFaults == Fallible \ {"list"}
NoLateCreate == AllLateFaults \ {"create"}

Interchangeable ==
  Permutations(Op) \cup Permutations(Deployment)
    \cup Permutations({c \in ContainerId : Home[c] = NoName})
===============================================================================
