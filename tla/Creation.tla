-------------------------------- MODULE Creation --------------------------------
(***************************************************************************)
(* CreateContainer: run a container from a request.  A managed creation    *)
(* stages a candidate spec first and commits it once the container was     *)
(* seen to be what was asked for; an unmanaged one is a single command.    *)
(***************************************************************************)
EXTENDS PortMutation

CreationSteps == {"plain", "stage", "launch", "seek", "check", "settle", "clear",
                  "cleared"}

\* CreateContainer(n, d): resolving (and pulling) the image, ValidateSpec, the
\* validation of the ports and the building of arguments may each refuse.
CreateRequest(o, n, d, managed) ==
  /\ pc[o] = "idle"
  /\ svc' = [svc EXCEPT ![o] = n]
  /\ want' = [want EXCEPT ![o] = d]
  /\ \/ Goto(o, IF managed THEN "stage" ELSE "plain")
     \/ Finish(o, "refused")
  /\ UNCHANGED <<containers, storeVars, orig, life, progress>>

\* An unmanaged creation: an error is passed on, and what there may be is neither
\* looked at nor cleaned up.
CreatePlain(o) ==
  /\ pc[o] = "plain"
  /\ \/ \E c \in ContainerId, ok \in BOOLEAN :
          /\ PodmanCreate(c, svc[o], Unmanaged, want[o], "running", ok)
          /\ spawned' = [spawned EXCEPT ![o] = @ \cup {c}]
          /\ Finish(o, IF ok THEN "success" ELSE "failed")
     \/ PodmanCreateFails(svc[o]) /\ Finish(o, "failed") /\ UNCHANGED spawned
  /\ UNCHANGED <<storeVars, transaction, stdout, candidateID>>

StageCandidate(o) ==
  /\ pc[o] = "stage"
  /\ \/ WriteCandidateSpec(o, want[o]) /\ Goto(o, "launch")
     \/ "candidate" \in Faults /\ Finish(o, "refused") /\ StoreUnchanged
  /\ UNCHANGED <<containers, transaction, progress>>

CreateManaged(o) ==
  /\ pc[o] = "launch"
  /\ \/ \E c \in ContainerId, ok \in BOOLEAN, printed \in BOOLEAN :
          /\ PodmanCreate(c, svc[o], svc[o], want[o], "running", ok)
          /\ ok /\ ~printed => "anonymous" \in Faults
          /\ stdout' = [stdout EXCEPT ![o] = IF printed THEN c ELSE NoId]
          /\ spawned' = [spawned EXCEPT ![o] = @ \cup {c}]
          /\ Goto(o, IF ok THEN "check" ELSE "seek")
     \/ /\ PodmanCreateFails(svc[o])
        /\ Goto(o, "seek")
        /\ UNCHANGED <<stdout, spawned>>
  /\ UNCHANGED <<storeVars, transaction, candidateID>>

\* containerExistsByIdentity after a failed run.  When nothing is seen, or the
\* listing fails, the candidate file goes and the error is passed on.
SeekLeftover(o) ==
  /\ pc[o] = "seek"
  /\ LET seen == Taken(svc[o]) \/ Found(stdout[o])
     IN \/ seen /\ Goto(o, "clear") /\ StoreUnchanged
        \/ /\ ~seen \/ ListingMayFail
           /\ Finish(o, "unchanged")
           /\ DiscardCandidateSpec(o)
  /\ UNCHANGED <<containers, transaction, progress>>

\* verifyCreatedManagedContainer: by the printed ID, running, and as requested.
Verified(o) ==
  /\ stdout[o] # NoId
  /\ Exists(stdout[o])
  /\ containers[stdout[o]].life = "running"
  /\ Matches(o)
  /\ Taken(svc[o])

CheckCreated(o) ==
  /\ pc[o] = "check"
  /\ \/ Verified(o) /\ Goto(o, "settle")
     \/ /\ ~Verified(o) \/ ListingMayFail
        /\ PollAgain(o) \/ (LastPoll(o) /\ Goto(o, "clear"))
  /\ UNCHANGED <<containers, storeVars, transaction, progress>>

CommitCreated(o) ==
  /\ pc[o] = "settle"
  /\ \/ CommitCandidateSpec(o, svc[o]) /\ Finish(o, "success")
     \/ "commit" \in Faults /\ Goto(o, "clear") /\ StoreUnchanged
  /\ UNCHANGED <<containers, transaction, progress>>

\* cleanupFailedManagedCreate: rm -f of the printed ID, and no command without
\* one; then a poll for both the ID and the name.
ClearCreated(o) ==
  /\ pc[o] = "clear"
  /\ \/ stdout[o] = NoId /\ UNCHANGED containers
     \/ stdout[o] # NoId /\ \E ok \in BOOLEAN : PodmanForceRemove(stdout[o], ok)
  /\ Goto(o, "cleared")
  /\ UNCHANGED <<storeVars, transaction, progress>>

\* Mutant: the exit status of the removal is believed.
AwaitClearedBlindly(o) ==
  /\ pc[o] = "cleared"
  /\ Finish(o, "removed")
  /\ DiscardCandidateSpec(o)
  /\ UNCHANGED <<containers, transaction, progress>>

\* A container that cannot be seen to be gone keeps its candidate file.
AwaitCleared(o) ==
  /\ pc[o] = "cleared"
  /\ LET absent == ~Found(stdout[o]) /\ ~Taken(svc[o])
     IN \/ absent /\ Finish(o, "removed") /\ DiscardCandidateSpec(o)
        \/ /\ ~absent \/ ListingMayFail
           /\ PollAgain(o) \/ (LastPoll(o) /\ Finish(o, "manual"))
           /\ StoreUnchanged
  /\ UNCHANGED <<containers, transaction, progress>>

Create(o) ==
  \/ CreatePlain(o) \/ StageCandidate(o) \/ CreateManaged(o) \/ SeekLeftover(o)
  \/ CheckCreated(o) \/ CommitCreated(o) \/ ClearCreated(o) \/ AwaitCleared(o)
===============================================================================
