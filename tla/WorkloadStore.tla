------------------------------ MODULE WorkloadStore ------------------------------
(***************************************************************************)
(* What Podder promises about its workloads, without containers' names and *)
(* lifecycles, transactions, or steps that fail: make before break.  A     *)
(* spec becomes authoritative only for what is there already, and what the *)
(* authoritative spec describes does not go away while it does.            *)
(***************************************************************************)
CONSTANTS Name, Deployment, NoSpec

VARIABLES
  specs,     \* specs[n]: what the authoritative spec of service n asks for
  present    \* present[n]: the deployments that containers of n embody

store == <<specs, present>>

Init ==
  /\ specs \in [Name -> Deployment \cup {NoSpec}]
  /\ present = [n \in Name |-> {specs[n]} \ {NoSpec}]

\* A container of service n comes to be.
Bring(n, d) ==
  /\ present' = [present EXCEPT ![n] = @ \cup {d}]
  /\ UNCHANGED specs

\* The authoritative spec changes to something that is there.
Promote(n, d) ==
  /\ d \in present[n]
  /\ specs' = [specs EXCEPT ![n] = d]
  /\ UNCHANGED present

\* The last container of a deployment goes; it is not the authoritative one.
Retire(n, d) ==
  /\ d # specs[n]
  /\ present' = [present EXCEPT ![n] = @ \ {d}]
  /\ UNCHANGED specs

\* A service without containers is forgotten.
Forget(n) ==
  /\ present[n] = {}
  /\ specs' = [specs EXCEPT ![n] = NoSpec]
  /\ UNCHANGED present

Next ==
  \E n \in Name :
    \/ \E d \in Deployment : Bring(n, d) \/ Promote(n, d) \/ Retire(n, d)
    \/ Forget(n)

Spec == Init /\ [][Next]_store
===============================================================================
