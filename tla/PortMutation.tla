------------------------------ MODULE PortMutation ------------------------------
(***************************************************************************)
(* MutateContainerPorts: change the published ports of a Podder-managed    *)
(* container by replacing it.  PREFLIGHT, SNAPSHOT, QUIESCE, CREATE,       *)
(* VERIFY, COMMIT, and ROLLBACK on any failure from QUIESCE onward.        *)
(***************************************************************************)
EXTENDS Replacement

\* A managed transaction on service n is under way.
Busy(n) == \E o \in Op : pc[o] \notin Ended /\ svc[o] = n

\* MutateContainerPorts(ContainerID c, NewPorts): the first listing finds the
\* target.  d is the stored spec with its ports replaced by the new ones.
Request(o, c, d) ==
  /\ pc[o] = "idle"
  /\ Exists(c)
  /\ Serial => ~Busy(containers[c].name)
  /\ orig' = [orig EXCEPT ![o] = c]
  /\ svc' = [svc EXCEPT ![o] = containers[c].name]
  /\ want' = [want EXCEPT ![o] = d]
  /\ IF containers[c].service # Unmanaged /\ containers[c].life # "unsupported"
       THEN /\ life' = [life EXCEPT ![o] = containers[c].life]
            /\ Goto(o, "resolve")
       ELSE Finish(o, "refused") /\ UNCHANGED life
  /\ UNCHANGED <<containers, storeVars, progress>>

\* The stored spec of the target's own service label must describe the target
\* as it was listed: its name, and its image and ports.
Authoritative(o) ==
  /\ containers[orig[o]].service = svc[o]
  /\ svc[o] \in Name
  /\ specs[svc[o]] = containers[orig[o]].deployment

\* GetSpec and the rest of the preflight.  The validation of the new ports
\* against the host and the registry may refuse them for reasons of its own.
Resolve(o) ==
  /\ pc[o] = "resolve"
  /\ \/ Authoritative(o) /\ Goto(o, "snapshot")
     \/ Finish(o, "refused")
  /\ UNCHANGED <<containers, storeVars, transaction, progress>>

\* SNAPSHOT: stage the candidate spec.
Snapshot(o) ==
  /\ pc[o] = "snapshot"
  /\ \/ WriteCandidateSpec(o, want[o]) /\ Goto(o, "rename")
     \/ /\ "candidate" \in Faults
        /\ Finish(o, "refused")
        /\ StoreUnchanged
  /\ UNCHANGED <<containers, transaction, progress>>

-------------------------------------------------------------------------------
(* CREATE.                                                                 *)

\* The bind paths are looked at again as the arguments are built.
ArgumentsFail(o) ==
  /\ pc[o] = "create"
  /\ "arguments" \in Faults
  /\ Fail(o, FALSE)
  /\ UNCHANGED <<containers, transaction, progress>>

\* podman run -d (or create, for a stopped original) under the service's name.
\* With an ID on stdout the transaction goes on; without one it gives up and
\* leaves whatever was created alone.  An error leads to a look for leftovers.
CreateReplacement(o) ==
  /\ pc[o] = "create"
  /\ \E c \in ContainerId, ok \in BOOLEAN, printed \in BOOLEAN :
       /\ PodmanCreate(c, svc[o], svc[o], want[o], life[o], ok)
       /\ ok /\ ~printed => "anonymous" \in Faults
       /\ stdout' = [stdout EXCEPT ![o] = IF printed THEN c ELSE NoId]
       /\ spawned' = [spawned EXCEPT ![o] = @ \cup {c}]
       /\ candidateID' = IF ok /\ printed THEN [candidateID EXCEPT ![o] = c]
                                          ELSE candidateID
       /\ \/ ok /\ printed /\ Goto(o, "verify") /\ StoreUnchanged
          \/ ok /\ ~printed /\ Fail(o, FALSE)
          \/ ~ok /\ Goto(o, "probe") /\ StoreUnchanged
  /\ UNCHANGED transaction

\* Mutant: a creation that fails is tried again.
CreateRetried(o) ==
  /\ pc[o] = "create"
  /\ PodmanCreateFails(svc[o])
  /\ Goto(o, "stopping")
  /\ UNCHANGED <<storeVars, transaction, progress>>

CreateFails(o) ==
  /\ pc[o] = "create"
  /\ PodmanCreateFails(svc[o])
  /\ Goto(o, "probe")
  /\ UNCHANGED <<storeVars, transaction, progress>>

\* containerExistsByIdentity(stdout, name): whatever now has the name is taken
\* for the candidate, and will be removed by that name.  A listing that fails
\* counts as "nothing there".
ProbeCandidate(o) ==
  /\ pc[o] = "probe"
  /\ LET seen == Taken(svc[o]) \/ (stdout[o] # NoId /\ Found(stdout[o]))
     IN \/ /\ seen
           /\ candidateID' = [candidateID EXCEPT ![o] = svc[o]]
           /\ Fail(o, TRUE)
        \/ /\ ~seen \/ ListingMayFail
           /\ UNCHANGED candidateID
           /\ Fail(o, FALSE)
  /\ UNCHANGED <<containers, transaction, stdout, spawned>>

-------------------------------------------------------------------------------
(* VERIFY and COMMIT.                                                      *)

\* The replacement is there, by ID, in the lifecycle of the original.
Up(o) == Exists(stdout[o]) /\ containers[stdout[o]].life = life[o]

\* Its image, its ownership labels and its configured ports are the candidate's.
Matches(o) ==
  /\ containers[stdout[o]].deployment = want[o]
  /\ containers[stdout[o]].service = svc[o]

\* Mutant: a replacement that is up will do.
VerifyUp(o) ==
  /\ pc[o] = "verify"
  /\ \/ /\ Up(o)
        /\ Goto(o, IF life[o] = "running" THEN "health" ELSE "commit")
        /\ StoreUnchanged
     \/ /\ ~Up(o) \/ ListingMayFail
        /\ \/ PollAgain(o) /\ StoreUnchanged
           \/ LastPoll(o) /\ Fail(o, TRUE)
  /\ UNCHANGED <<containers, transaction, progress>>

VerifyReplacement(o) ==
  /\ pc[o] = "verify"
  /\ \/ /\ Up(o) /\ Matches(o)
        /\ Goto(o, IF life[o] = "running" THEN "health" ELSE "commit")
        /\ StoreUnchanged
     \/ Up(o) /\ ~Matches(o) /\ Fail(o, TRUE)
     \/ /\ ~Up(o) \/ ListingMayFail
        /\ \/ PollAgain(o) /\ StoreUnchanged
           \/ LastPoll(o) /\ Fail(o, TRUE)
  /\ UNCHANGED <<containers, transaction, progress>>

\* Mutants: the rollback is not told of the replacement; the backup goes before
\* the commit.
CheckHealthForgetful(o) ==
  /\ pc[o] = "health"
  /\ \/ Goto(o, "commit") /\ StoreUnchanged
     \/ "health" \in Faults /\ Fail(o, FALSE)
  /\ UNCHANGED <<containers, transaction, progress>>
CheckHealthAndCleanUp(o) ==
  /\ pc[o] = "health"
  /\ \E ok \in BOOLEAN : PodmanForceRemove(Backup[o], ok)
  /\ Goto(o, "commit")
  /\ UNCHANGED <<storeVars, transaction, progress>>

\* Listeners are observed but never fatal; a health check that reports
\* unhealthy is.
CheckHealth(o) ==
  /\ pc[o] = "health"
  /\ \/ Goto(o, "commit") /\ StoreUnchanged
     \/ "health" \in Faults /\ Fail(o, TRUE)
  /\ UNCHANGED <<containers, transaction, progress>>

\* Mutant: the result of the commit is not looked at.
CommitUnchecked(o) ==
  /\ pc[o] = "commit"
  /\ Goto(o, "cleanup")
  /\ CommitCandidateSpec(o, svc[o]) \/ ("commit" \in Faults /\ StoreUnchanged)
  /\ UNCHANGED <<containers, transaction, progress>>

Commit(o) ==
  /\ pc[o] = "commit"
  /\ \/ CommitCandidateSpec(o, svc[o]) /\ Goto(o, "cleanup")
     \/ /\ "commit" \in Faults \/ candidates[o] = NoSpec
        /\ Fail(o, TRUE)
  /\ UNCHANGED <<containers, transaction, progress>>

\* Mutant: the result of the removal is not looked at.
RemoveBackupUnchecked(o) ==
  /\ pc[o] = "cleanup"
  /\ \E ok \in BOOLEAN : PodmanForceRemove(Backup[o], ok)
  /\ Finish(o, "success")
  /\ UNCHANGED <<storeVars, transaction, progress>>

\* Only now may the original go.
RemoveBackup(o) ==
  /\ pc[o] = "cleanup"
  /\ \E ok \in BOOLEAN :
       /\ PodmanForceRemove(Backup[o], ok)
       /\ Finish(o, IF ok THEN "success" ELSE "backupLeft")
  /\ UNCHANGED <<storeVars, transaction, progress>>

-------------------------------------------------------------------------------

Mutation(o) ==
  \/ Resolve(o) \/ Snapshot(o) \/ RenameAway(o) \/ StopOriginal(o)
  \/ AwaitStopped(o) \/ ArgumentsFail(o) \/ CreateReplacement(o) \/ CreateFails(o)
  \/ ProbeCandidate(o) \/ VerifyReplacement(o) \/ CheckHealth(o) \/ Commit(o)
  \/ RemoveBackup(o) \/ Rollback(o)

MutateContainerPorts(o) ==
  \/ \E c \in ContainerId, d \in Deployment : Request(o, c, d)
  \/ Mutation(o)

Next ==
  \/ \E o \in Op : MutateContainerPorts(o)
  \/ Environment
  \/ Crash

Spec == Init /\ [][Next]_vars

\* A transaction runs in a goroutine of its own to its end: each command
\* returns, and what can be done next is done.  Nothing obliges a user to ask,
\* the host to move or the process to die.
FairSpec == Spec /\ \A o \in Op : WF_vars(Mutation(o))

-------------------------------------------------------------------------------
(* Correctness.                                                            *)

\* The steps from the moment the target is resolved to the commit, or to the
\* end of the rollback.
Uncommitted == (Preflight \ {"resolve"}) \cup Forward \cup Backward

\* Whatever fails, and whenever Podder dies, the container being replaced is
\* not removed before the replacement's spec is committed.
OriginalKept ==
  \A o \in Op : pc[o] \in Uncommitted => Exists(orig[o])

\* Every stored spec is backed by a container of its service that runs, or ran,
\* exactly what the spec says: nothing that fails, crashes or interferes leaves
\* a service with a spec and no workload, or with a spec that lies.
SpecBacked ==
  \A n \in Name : specs[n] # NoSpec =>
    \E c \in ContainerId :
      /\ Exists(c)
      /\ containers[c].service = n
      /\ containers[c].deployment = specs[n]

\* The original and its replacement never run at the same time, which could have
\* both write the same bind mounts: the replacement is created after the stop
\* was seen, and the original restarted after the replacement was gone.
NeverBothRunning ==
  \A c, d \in ContainerId :
    /\ containers[c].life = "running"
    /\ containers[d].life = "running"
    /\ containers[c].service = containers[d].service
    /\ containers[c].service # Unmanaged
    => c = d

\* A transaction that has returned leaves no candidate file behind.
CandidateSettled ==
  \A o \in Op : pc[o] = "done" => candidates[o] = NoSpec

Reported(o, result) == outcome[o] # result /\ outcome'[o] = result

\* "Rolled back" is true when it is said: the original is back under its name
\* in its lifecycle, the stored spec still describes it, and no container the
\* transaction created is left.
RolledBackTruly ==
  \A o \in Op : Reported(o, "rolledBack") =>
    /\ Holds(orig[o], svc[o])
    /\ containers[orig[o]].life = life[o]
    /\ specs[svc[o]] = containers[orig[o]].deployment
    /\ \A c \in spawned[o] : ~Exists(c)

RollbackTruthful == [][RolledBackTruly]_vars

\* "Success" is true when it is said: the stored spec is the candidate, the
\* container created for it carries the service's name and runs exactly that,
\* and the original is gone, or is reported as left behind.
SucceededTruly ==
  \A o \in Op : Reported(o, "success") \/ Reported(o, "backupLeft") =>
    /\ specs[svc[o]] = want[o]
    /\ Holds(stdout[o], svc[o])
    /\ containers[stdout[o]].deployment = want[o]
    /\ outcome'[o] = "success" => containers'[orig[o]].life = "removed"

SuccessTruthful == [][SucceededTruly]_vars

\* No transaction on service n is past its preflight, or died.
Untouched(n) ==
  \A o \in Op : svc[o] = n => pc[o] = "done" \/ pc[o] \in Preflight

\* When only the forward half of a transaction can fail, a return means service:
\* as long as nobody has gone to work on it again, the service's name is held by
\* a container in the original's lifecycle that runs what the stored spec says.
ServesAsStored ==
  \A o \in Op : pc[o] = "done" /\ svc[o] \in Name /\ Untouched(svc[o]) =>
    \E c \in ContainerId :
      /\ Holds(c, svc[o])
      /\ containers[c].life = life[o]
      /\ containers[c].deployment = specs[svc[o]]

\* Every transaction that is asked for returns, unless Podder dies: each wait is
\* bounded and no failure leaves it without a next step.
Returns ==
  \A o \in Op : pc[o] = "resolve" ~> pc[o] \in Ended

-------------------------------------------------------------------------------
(* Why: the invariant that carries SpecBacked, for transactions that do not *)
(* overlap on a service.                                                    *)

\* A managed container carries the name of its service, or a backup name.
NamedForService ==
  \A c \in ContainerId :
    /\ containers[c].service \in Name \cup {Unmanaged}
    /\ Exists(c) /\ containers[c].service # Unmanaged /\ containers[c].name \in Name
       => containers[c].name = containers[c].service

OneAtATime ==
  \A o, p \in Op : pc[o] \notin Ended /\ pc[p] \notin Ended /\ svc[o] = svc[p]
                  => o = p

Renamed == Forward \cup {"dropStop", "dropRemove", "dropCheck", "restore", "cleanup"}
Restored == {"inspect", "restart", "restarting"}
Created == {"verify", "health", "commit", "cleanup"}

\* The original is where the transaction left it.
OriginalPlaced(o) ==
  /\ pc[o] = "resolve" /\ svc[o] \in Name =>
       Holds(orig[o], svc[o]) /\ containers[orig[o]].service = svc[o]
  /\ pc[o] \notin Ended \cup {"resolve"} =>
       /\ svc[o] \in Name
       /\ Exists(orig[o])
       /\ containers[orig[o]].service = svc[o]
  /\ pc[o] \in {"snapshot", "rename"} => containers[orig[o]].name = svc[o]
  /\ pc[o] \in Renamed => containers[orig[o]].name = Backup[o]
  /\ pc[o] \in Restored => containers[orig[o]].name \in {svc[o], Backup[o]}
  /\ pc[o] \in Uncommitted => containers[orig[o]].deployment = specs[svc[o]]

\* What the transaction creates is never the original, and stays where it was
\* created until it is removed.
SpawnedPlaced(o) ==
  /\ pc[o] = "idle" => spawned[o] = {}
  /\ pc[o] \notin Ended => \A c \in spawned[o] :
       /\ c # orig[o]
       /\ containers[c].service = svc[o]
       /\ Exists(c) => containers[c].name = svc[o]

\* What is committed was seen to match, and what is removed is the transaction's.
ReplacementPlaced(o) ==
  /\ pc[o] \in Created => candidateID[o] = stdout[o] /\ stdout[o] \in spawned[o]
  /\ pc[o] \in {"health", "commit", "cleanup"} =>
       Exists(stdout[o]) /\ containers[stdout[o]].deployment = want[o]
  /\ pc[o] \in {"dropStop", "dropRemove", "dropCheck"} =>
       candidateID[o] \in {svc[o]} \cup spawned[o]

CandidateStaged(o) ==
  /\ pc[o] \in {"rename"} \cup Forward => candidates[o] = want[o]
  /\ pc[o] = "cleanup" => specs[svc[o]] = want[o]

TransactionOK(o) ==
  /\ OriginalPlaced(o)
  /\ SpawnedPlaced(o)
  /\ ReplacementPlaced(o)
  /\ CandidateStaged(o)

IInv ==
  /\ TypeOK
  /\ NamesUnique
  /\ NamedForService
  /\ OneAtATime
  /\ \A o \in Op : TransactionOK(o)
  /\ SpecBacked

-------------------------------------------------------------------------------
(* What all this is for: make before break, for every service.             *)

Managed(c) == Exists(c) /\ containers[c].service # Unmanaged

\* The services on this host, seen as a store of workloads.
Present == [n \in Name |->
  {containers[c].deployment : c \in {x \in ContainerId : Managed(x) /\ containers[x].service = n}}]

Store == INSTANCE WorkloadStore WITH present <- Present

\* Every step of every transaction, on the way forward or back, and everything
\* that happens on the host is one of the steps WorkloadStore allows, or none.
ImplementsStore == Store!Spec

-------------------------------------------------------------------------------
(* What the code says of itself and does not do.                           *)

\* MutateContainerPorts is "genuinely transactional", and "the backup is never
\* deleted unless rollback is verified successful": so a deployed service is never
\* left without a container at all.
NeverWithoutWorkload ==
  \A n \in Name : specs[n] # NoSpec =>
    \E c \in ContainerId : Exists(c) /\ containers[c].service = n
===============================================================================
