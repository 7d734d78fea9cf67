-------------------------------- MODULE Adoption --------------------------------
(***************************************************************************)
(* AdoptContainer: turn a container Podder does not own into a workload by *)
(* replacing it with a labelled one.  Staging, the look for a leftover and *)
(* the rollback are those of the port mutation; the checks, the order in   *)
(* which the candidate file goes, and the end differ: the original is kept *)
(* as a backup, stopped, whatever happens.                                 *)
(***************************************************************************)
EXTENDS PortMutation

CONSTANTS
  Replayable,   \* the deployments assessRepresentability has nothing against
  PortsOf       \* PortsOf[d]: the port mappings of a deployment

ASSUME AdoptionAssumption ==
  /\ Replayable \subseteq Deployment
  /\ DOMAIN PortsOf = Deployment

\* ParseInspectToAssessment: containers somebody owns are refused, and those that
\* run what a spec cannot say.
CanAdopt(c) ==
  /\ containers[c].service = Unmanaged
  /\ containers[c].deployment \in Replayable

\* AdoptContainer(c), up to its second look: one `podman inspect`, whose result is
\* the proposed spec.  A name a spec cannot have is refused as well.
AdoptRequest(o, c) ==
  /\ pc[o] = "idle"
  /\ Exists(c)
  /\ orig' = [orig EXCEPT ![o] = c]
  /\ svc' = [svc EXCEPT ![o] = containers[c].name]
  /\ want' = [want EXCEPT ![o] = containers[c].deployment]
  /\ IF CanAdopt(c) /\ containers[c].name \in Name
       THEN Goto(o, "resolve")
       ELSE Finish(o, "refused")
  /\ UNCHANGED <<containers, storeVars, life, progress>>

\* The second look, with a listing: name, image and ports must still be what was
\* inspected, and the lifecycle reproducible.  Validation of the ports may refuse.
ReviewTarget(o) ==
  /\ pc[o] = "resolve"
  /\ \/ /\ Holds(orig[o], svc[o])
        /\ containers[orig[o]].deployment = want[o]
        /\ containers[orig[o]].life \in {"running", "stopped"}
        /\ life' = [life EXCEPT ![o] = containers[orig[o]].life]
        /\ Goto(o, "snapshot")
     \/ Finish(o, "refused") /\ UNCHANGED life
  /\ UNCHANGED <<containers, storeVars, orig, svc, want, progress>>

\* podman run or create.  A failure discards the candidate file before the look
\* for a leftover; a success without an ID is rolled back with nothing to remove.
Reproduce(o) ==
  /\ pc[o] = "create"
  /\ \/ \E c \in ContainerId, ok \in BOOLEAN, printed \in BOOLEAN :
          /\ PodmanCreate(c, svc[o], svc[o], want[o], life[o], ok)
          /\ ok /\ ~printed => "anonymous" \in Faults
          /\ stdout' = [stdout EXCEPT ![o] = IF printed THEN c ELSE NoId]
          /\ spawned' = [spawned EXCEPT ![o] = @ \cup {c}]
          /\ candidateID' = IF ok /\ printed THEN [candidateID EXCEPT ![o] = c]
                                             ELSE candidateID
          /\ \/ ok /\ printed /\ Goto(o, "verify") /\ StoreUnchanged
             \/ ok /\ ~printed /\ Fail(o, FALSE)
             \/ ~ok /\ Goto(o, "probe") /\ DiscardCandidateSpec(o)
     \/ /\ PodmanCreateFails(svc[o])
        /\ Goto(o, "probe")
        /\ DiscardCandidateSpec(o)
        /\ UNCHANGED progress
  /\ UNCHANGED transaction

\* The replacement is looked up by ID and, failing that, by name.
Replica(o, c) ==
  \/ Refers(c, stdout[o])
  \/ ~Found(stdout[o]) /\ Holds(c, svc[o])

\* Ports and ownership labels are compared; the image is not.
Faithful(o, c) ==
  /\ PortsOf[containers[c].deployment] = PortsOf[want[o]]
  /\ containers[c].service = svc[o]

VerifyReplica(o) ==
  /\ pc[o] = "verify"
  /\ LET up == {c \in ContainerId : Replica(o, c) /\ containers[c].life = life[o]}
     IN \/ \E c \in up :
             \/ Faithful(o, c) /\ Goto(o, "commit") /\ StoreUnchanged
             \/ ~Faithful(o, c) /\ Fail(o, TRUE)
        \/ /\ up = {} \/ ListingMayFail
           /\ \/ PollAgain(o) /\ StoreUnchanged
              \/ LastPoll(o) /\ Fail(o, TRUE)
  /\ UNCHANGED <<containers, transaction, progress>>

\* Mutant: the original goes once the spec is committed.
CommitAdoptionAndCleanUp(o) ==
  /\ pc[o] = "commit"
  /\ CommitCandidateSpec(o, svc[o]) /\ Finish(o, "backupLeft")
  /\ SetLife(orig[o], "removed")
  /\ UNCHANGED <<transaction, progress>>

\* A commit that fails is rolled back, and its candidate file stays behind.
CommitAdoption(o) ==
  /\ pc[o] = "commit"
  /\ \/ CommitCandidateSpec(o, svc[o]) /\ Finish(o, "backupLeft")
     \/ "commit" \in Faults /\ EnterRollback(o, TRUE) /\ StoreUnchanged
  /\ UNCHANGED <<containers, transaction, progress>>

Adopt(o) ==
  \/ ReviewTarget(o) \/ Snapshot(o) \/ RenameAway(o) \/ StopOriginal(o)
  \/ AwaitStopped(o) \/ ArgumentsFail(o) \/ Reproduce(o) \/ ProbeCandidate(o)
  \/ VerifyReplica(o) \/ CommitAdoption(o) \/ Rollback(o)
===============================================================================
