------------------------------- MODULE Deployment -------------------------------
(***************************************************************************)
(* DeploySpec: run a service from its stored spec.  Without a container    *)
(* under the service's name it creates one and, if that fails, cleans up   *)
(* after itself; with one, it replaces it the way a port mutation does,    *)
(* but stages no candidate file, since the stored spec does not change.    *)
(***************************************************************************)
EXTENDS PortMutation

\* The steps a deployment takes beside those of a mutation.
DeploySteps == {"survey", "run", "leftover", "leftStop", "leftRemove", "leftGone",
                "prove", "undoStop", "undoRemove", "undoGone", "gone"}

\* DeploySpec(n): GetSpec, and the check that the spec can be replayed.
DeployRequest(o, n) ==
  /\ pc[o] = "idle"
  /\ specs[n] # NoSpec
  /\ svc' = [svc EXCEPT ![o] = n]
  /\ want' = [want EXCEPT ![o] = specs[n]]
  /\ Goto(o, "survey")
  /\ UNCHANGED <<containers, storeVars, orig, life, progress>>

\* The container to replace is the service's, runs what the spec says, and is in
\* a lifecycle that can be reproduced.
Replaceable(o, c) ==
  /\ Holds(c, svc[o])
  /\ containers[c].service = svc[o]
  /\ containers[c].deployment = want[o]
  /\ containers[c].life \in {"running", "stopped"}

\* The listing, the validation of the ports (which may refuse, as may the listing
\* and the building of arguments), and the gates of the replacement.
Survey(o) ==
  /\ pc[o] = "survey"
  /\ \/ ~Taken(svc[o]) /\ Goto(o, "run") /\ UNCHANGED <<orig, life>>
     \/ \E c \in ContainerId :
          /\ Replaceable(o, c)
          /\ orig' = [orig EXCEPT ![o] = c]
          /\ life' = [life EXCEPT ![o] = containers[c].life]
          /\ Goto(o, "rename")
     \/ Finish(o, "refused") /\ UNCHANGED <<orig, life>>
  /\ UNCHANGED <<containers, storeVars, svc, want, progress>>

\* podman run or podman create; NewContainerID is what it printed.
Creates(o, lifecycle, next, probe) ==
  /\ \/ \E c \in ContainerId, ok \in BOOLEAN, printed \in BOOLEAN :
          /\ PodmanCreate(c, svc[o], svc[o], want[o], lifecycle, ok)
          /\ ok /\ ~printed => "anonymous" \in Faults
          /\ stdout' = [stdout EXCEPT ![o] = IF printed THEN c ELSE NoId]
          /\ candidateID' = [candidateID EXCEPT ![o] = IF printed THEN c ELSE NoId]
          /\ spawned' = [spawned EXCEPT ![o] = @ \cup {c}]
          /\ Goto(o, IF ok THEN next ELSE probe)
     \/ /\ PodmanCreateFails(svc[o])
        /\ Goto(o, probe)
        /\ UNCHANGED progress
  /\ UNCHANGED <<storeVars, transaction>>

Deployed(o, lifecycle) ==
  /\ stdout[o] # NoId
  /\ Exists(stdout[o])
  /\ containers[stdout[o]].life = lifecycle
  /\ Matches(o)

StopBy(o, at, ident, next) ==
  /\ pc[o] = at
  /\ \E ok \in BOOLEAN : PodmanStop(ident, ok)
  /\ Goto(o, next)
  /\ UNCHANGED <<storeVars, transaction, progress>>

RemoveBy(o, at, ident, next) ==
  /\ pc[o] = at
  /\ \E ok \in BOOLEAN : PodmanForceRemove(ident, ok)
  /\ Goto(o, next)
  /\ UNCHANGED <<storeVars, transaction, progress>>

\* A pollUntil on containerAbsent.
AwaitAbsent(o, at, absent, result, otherwise) ==
  /\ pc[o] = at
  /\ \/ absent /\ Finish(o, result)
     \/ /\ ~absent \/ ListingMayFail
        /\ PollAgain(o) \/ (LastPoll(o) /\ Finish(o, otherwise))
  /\ UNCHANGED <<containers, storeVars, transaction, progress>>

-------------------------------------------------------------------------------
(* No container to replace.                                                *)

RunNew(o) == pc[o] = "run" /\ Creates(o, "running", "prove", "leftover")

\* After a failed run: what the printed ID names is removed by that ID; a name
\* that is taken without one is left for the user to look at.
LookForLeftover(o) ==
  /\ pc[o] = "leftover"
  /\ \/ stdout[o] # NoId /\ Found(stdout[o]) /\ Goto(o, "leftStop")
     \/ /\ stdout[o] = NoId \/ ~Found(stdout[o])
        /\ Finish(o, IF Taken(svc[o]) THEN "manual" ELSE "unchanged")
     \/ ListingMayFail /\ Finish(o, "manual")
  /\ UNCHANGED <<containers, storeVars, transaction, progress>>

StopLeftover(o) == StopBy(o, "leftStop", stdout[o], "leftRemove")
RemoveLeftover(o) == RemoveBy(o, "leftRemove", stdout[o], "leftGone")
AwaitLeftoverGone(o) ==
  AwaitAbsent(o, "leftGone", ~Found(stdout[o]), "removed", "manual")

\* Mutant: what was created is not looked at.
ProveNewUnseen(o) ==
  /\ pc[o] = "prove"
  /\ Finish(o, "success")
  /\ UNCHANGED <<containers, storeVars, transaction, progress>>

ProveNew(o) ==
  /\ pc[o] = "prove"
  /\ \/ Deployed(o, "running") /\ Finish(o, "success")
     \/ /\ ~Deployed(o, "running") \/ ListingMayFail
        /\ PollAgain(o) \/ (LastPoll(o) /\ Goto(o, "undoStop"))
  /\ UNCHANGED <<containers, storeVars, transaction, progress>>

\* A run that does not verify is undone under the service's name.
UndoStop(o) == StopBy(o, "undoStop", svc[o], "undoRemove")
UndoRemove(o) == RemoveBy(o, "undoRemove", svc[o], "undoGone")
AwaitUndone(o) ==
  AwaitAbsent(o, "undoGone", ~Found(stdout[o]) /\ ~Taken(svc[o]), "removed", "manual")

-------------------------------------------------------------------------------
(* A container to replace.  RenameAway and StopOriginal, from Replacement,  *)
(* come first; the candidate file they discard does not exist.             *)

\* Unlike the mutation, the deployment looks at the ID of the backup.
AwaitHalted(o) ==
  /\ pc[o] = "stopping"
  /\ LET halted == /\ Holds(orig[o], Backup[o])
                   /\ containers[orig[o]].life = "stopped"
     IN \/ halted /\ Goto(o, "create")
        \/ /\ ~halted \/ ListingMayFail
           /\ PollAgain(o) \/ (LastPoll(o) /\ EnterRollback(o, FALSE))
  /\ UNCHANGED <<containers, storeVars, transaction, progress>>

Recreate(o) == pc[o] = "create" /\ Creates(o, life[o], "verify", "probe")

\* Only a printed ID that is listed counts as a candidate that was created.
TraceCandidate(o) ==
  /\ pc[o] = "probe"
  /\ LET seen == stdout[o] # NoId /\ Found(stdout[o])
     IN \/ EnterRollback(o, seen)
        \/ ListingMayFail /\ EnterRollback(o, FALSE)
  /\ UNCHANGED <<containers, storeVars, transaction, progress>>

ProveReplacement(o) ==
  /\ pc[o] = "verify"
  /\ \/ Deployed(o, life[o]) /\ Goto(o, "cleanup")
     \/ /\ ~Deployed(o, life[o]) \/ ListingMayFail
        /\ PollAgain(o) \/ (LastPoll(o) /\ EnterRollback(o, TRUE))
  /\ UNCHANGED <<containers, storeVars, transaction, progress>>

RetireBackup(o) == RemoveBy(o, "cleanup", Backup[o], "gone")

AwaitRetired(o) ==
  AwaitAbsent(o, "gone", ~Found(orig[o]) /\ ~Taken(Backup[o]), "success", "backupLeft")

Deploy(o) ==
  \/ Survey(o) \/ RunNew(o) \/ LookForLeftover(o) \/ StopLeftover(o)
  \/ RemoveLeftover(o) \/ AwaitLeftoverGone(o) \/ ProveNew(o) \/ UndoStop(o)
  \/ UndoRemove(o) \/ AwaitUndone(o)
  \/ RenameAway(o) \/ StopOriginal(o) \/ AwaitHalted(o) \/ Recreate(o)
  \/ TraceCandidate(o) \/ ProveReplacement(o) \/ RetireBackup(o)
  \/ AwaitRetired(o) \/ Rollback(o)
===============================================================================
