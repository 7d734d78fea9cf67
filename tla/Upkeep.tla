--------------------------------- MODULE Upkeep ---------------------------------
(***************************************************************************)
(* What takes workloads apart: DeleteSpec, and the removals of containers  *)
(* a user asks for.  Each looks before it acts, in two separate steps.     *)
(***************************************************************************)
EXTENDS PortMutation

UpkeepSteps == {"unlink", "erase"}

Labelled(n) == \E c \in ContainerId : Exists(c) /\ containers[c].service = n

\* Mutant: nothing is looked at.
DeleteUnseen(o, n) ==
  /\ pc[o] = "idle"
  /\ svc' = [svc EXCEPT ![o] = n]
  /\ Goto(o, "unlink")
  /\ UNCHANGED <<containers, storeVars, orig, life, want, progress>>

\* DeleteSpec(n): refused while a container carries the service's labels, and
\* when that cannot be seen.
DeleteRequest(o, n) ==
  /\ pc[o] = "idle"
  /\ svc' = [svc EXCEPT ![o] = n]
  /\ \/ ~Labelled(n) /\ Goto(o, "unlink")
     \/ (Labelled(n) \/ ListingMayFail) /\ Finish(o, "refused")
  /\ UNCHANGED <<containers, storeVars, orig, life, want, progress>>

DeleteFile(o) ==
  /\ pc[o] = "unlink"
  /\ \/ RemoveSpec(svc[o]) /\ Finish(o, "success")
     \/ "unlink" \in Faults /\ Finish(o, "failed") /\ StoreUnchanged
  /\ UNCHANGED <<containers, transaction, progress>>

\* RemoveContainer(c): refused while it runs, and when that cannot be seen.
RemoveRequest(o, c) ==
  /\ pc[o] = "idle"
  /\ Exists(c)
  /\ orig' = [orig EXCEPT ![o] = c]
  /\ svc' = [svc EXCEPT ![o] = containers[c].name]
  /\ \/ containers[c].life # "running" /\ Goto(o, "erase")
     \/ /\ containers[c].life = "running" \/ ListingMayFail
        /\ Finish(o, "refused")
  /\ UNCHANGED <<containers, storeVars, life, want, progress>>

\* StopAndRemoveContainer(c): podman stop; its failure ends the call.
StopToRemove(o, c) ==
  /\ pc[o] = "idle"
  /\ Exists(c)
  /\ orig' = [orig EXCEPT ![o] = c]
  /\ svc' = [svc EXCEPT ![o] = containers[c].name]
  /\ \E ok \in BOOLEAN :
       /\ PodmanStop(c, ok)
       /\ \/ ok /\ Goto(o, "erase")
          \/ ~ok /\ Finish(o, "failed")
  /\ UNCHANGED <<storeVars, life, want, progress>>

\* podman rm <id>, without -f: a container that runs is not removed.
PodmanRemove(c, ok) ==
  \/ containers[c].life = "stopped" /\ SetLife(c, "removed") /\ Reports("rm", ok)
  \/ FailsCleanly("rm", containers[c].life = "stopped", ok)

Erase(o) ==
  /\ pc[o] = "erase"
  /\ \E ok \in BOOLEAN :
       /\ PodmanRemove(orig[o], ok)
       /\ Finish(o, IF ok THEN "success" ELSE "failed")
  /\ UNCHANGED <<storeVars, transaction, progress>>

Maintain(o) == DeleteFile(o) \/ Erase(o)
===============================================================================
