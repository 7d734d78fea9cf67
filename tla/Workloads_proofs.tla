---------------------------- MODULE Workloads_proofs ----------------------------
(***************************************************************************)
(* All of Podder's operations together, for any number of transactions of  *)
(* every kind, of services and of containers, and whatever fails.          *)
(* Overlapping or not: types are kept, and no staged spec file is left     *)
(* behind in silence.  When they do not overlap on a service, from an      *)
(* invariant of all of them, WInv: managed containers are accounted for,   *)
(* settled services are as stored, reports are true, nobody disposes of    *)
(* what is not theirs, every spec is backed, and the whole implements the  *)
(* store of workloads.                                                     *)
(***************************************************************************)
EXTENDS Workloads, PortMutation_proofs

-------------------------------------------------------------------------------
(* Types.                                                                  *)

AllSteps == Steps \cup DeploySteps \cup CreationSteps \cup UpkeepSteps
AllOutcomes == Outcomes \cup {"removed", "failed"}

ControlOK ==
  /\ pc \in [Op -> AllSteps]
  /\ polls \in [Op -> 0 .. PollAttempts]
  /\ outcome \in [Op -> AllOutcomes]

\* What an operation was asked for is there as soon as it has a kind.
MemoryOK ==
  /\ kind \in [Op -> Operations \cup {"none"}]
  /\ orig \in [Op -> ContainerId \cup {NoId}]
  /\ svc \in [Op -> ContainerName \cup {NoName}]
  /\ life \in [Op -> {"running", "stopped"}]
  /\ want \in [Op -> Deployment \cup {NoSpec}]
  /\ \A o \in Op : kind[o] # "none" => svc[o] \in ContainerName
  /\ \A o \in Op : kind[o] \in {"mutate", "deploy", "adopt", "create"} =>
       want[o] \in Deployment

ProgressOK ==
  /\ stdout \in [Op -> ContainerId \cup {NoId}]
  /\ candidateID \in [Op -> ContainerId \cup ContainerName \cup {NoId}]
  /\ spawned \in [Op -> SUBSET ContainerId]

AllTypeOK == HostTypeOK /\ StoreTypeOK /\ ControlOK /\ MemoryOK /\ ProgressOK

\* An operation goes on to another step, polls once more, or returns.
Proceeds(o) ==
  \/ \E step \in AllSteps : Goto(o, step)
  \/ \E result \in AllOutcomes : Finish(o, result)
  \/ PollAgain(o)
  \/ \E created \in BOOLEAN : EnterRollback(o, created)
  \/ pc' = [pc EXCEPT ![o] = "restore"] /\ UNCHANGED <<polls, outcome>>

LEMMA ProceedsType ==
  ASSUME ControlOK, NEW o \in Op, Proceeds(o)
  PROVE  ControlOK'
<1>1. PollAttempts \in Nat \ {0}
  BY ReplacementAssumption
<1>2. CASE \E step \in AllSteps : Goto(o, step)
  BY <1>1, <1>2 DEF Goto, ControlOK
<1>3. CASE \E result \in AllOutcomes : Finish(o, result)
  BY <1>3 DEF Finish, ControlOK, AllSteps, Steps, Ended
<1>4. CASE PollAgain(o)
  BY <1>1, <1>4 DEF PollAgain, ControlOK
<1>5. CASE \E created \in BOOLEAN : EnterRollback(o, created)
  BY <1>1, <1>5 DEF EnterRollback, ControlOK, AllSteps, Steps, Backward
<1>6. CASE pc' = [pc EXCEPT ![o] = "restore"] /\ UNCHANGED <<polls, outcome>>
  BY <1>6 DEF ControlOK, AllSteps, Steps, Backward
<1> QED
  BY <1>2, <1>3, <1>4, <1>5, <1>6 DEF Proceeds

LEMMA FailProceeds ==
  ASSUME NEW o, NEW created \in BOOLEAN, Fail(o, created)
  PROVE  Proceeds(o)
BY DEF Fail, Proceeds

\* Every step of every operation proceeds.
LEMMA RollbackProceeds ==
  ASSUME NEW o \in Op, Rollback(o)
  PROVE  Proceeds(o)
BY DEF Rollback, StopCandidate, RemoveCandidate, CheckCandidateGone, RestoreName,
   InspectRestored, RestartOriginal, AwaitRestored, Proceeds, AllSteps, AllOutcomes,
   Steps, Backward, Outcomes

LEMMA QuiesceProceeds ==
  ASSUME NEW o \in Op, Snapshot(o) \/ RenameAway(o) \/ StopOriginal(o) \/ AwaitStopped(o)
                      \/ ArgumentsFail(o)
  PROVE  Proceeds(o)
BY FailProceeds DEF Snapshot, RenameAway, StopOriginal, AwaitStopped, ArgumentsFail,
   Proceeds, AllSteps, AllOutcomes, Steps, Preflight, Forward, Outcomes

LEMMA MutationProceeds ==
  ASSUME NEW o \in Op, Mutation(o)
  PROVE  Proceeds(o)
<1>1. CASE Resolve(o)
  BY <1>1 DEF Resolve, Proceeds, AllSteps, AllOutcomes, Steps, Preflight, Outcomes
<1>2. CASE CreateReplacement(o) \/ CreateFails(o) \/ ProbeCandidate(o)
  BY <1>2, FailProceeds DEF CreateReplacement, CreateFails, ProbeCandidate, Proceeds,
     AllSteps, Steps, Forward
<1>3. CASE VerifyReplacement(o) \/ CheckHealth(o) \/ Commit(o) \/ RemoveBackup(o)
  BY <1>3, FailProceeds DEF VerifyReplacement, CheckHealth, Commit, RemoveBackup, Proceeds,
     AllSteps, AllOutcomes, Steps, Forward, Outcomes
<1> QED
  BY <1>1, <1>2, <1>3, QuiesceProceeds, RollbackProceeds DEF Mutation

LEMMA DeployProceeds ==
  ASSUME NEW o \in Op, Deploy(o)
  PROVE  Proceeds(o)
<1>1. CASE Survey(o) \/ RunNew(o) \/ LookForLeftover(o) \/ ProveNew(o)
  BY <1>1 DEF Survey, RunNew, LookForLeftover, ProveNew, Creates, Proceeds, AllSteps,
     AllOutcomes, Steps, Preflight, DeploySteps, Outcomes
<1>2. CASE \/ StopLeftover(o) \/ RemoveLeftover(o) \/ AwaitLeftoverGone(o) \/ UndoStop(o)
           \/ UndoRemove(o) \/ AwaitUndone(o) \/ RetireBackup(o) \/ AwaitRetired(o)
  BY <1>2 DEF StopLeftover, RemoveLeftover, AwaitLeftoverGone, UndoStop, UndoRemove,
     AwaitUndone, RetireBackup, AwaitRetired, StopBy, RemoveBy, AwaitAbsent, Proceeds,
     AllSteps, AllOutcomes, DeploySteps, Outcomes
<1>3. CASE AwaitHalted(o) \/ Recreate(o) \/ TraceCandidate(o) \/ ProveReplacement(o)
  BY <1>3 DEF AwaitHalted, Recreate, TraceCandidate, ProveReplacement, Creates, Proceeds,
     AllSteps, Steps, Forward
<1> QED
  BY <1>1, <1>2, <1>3, QuiesceProceeds, RollbackProceeds DEF Deploy

LEMMA AdoptProceeds ==
  ASSUME NEW o \in Op, Adopt(o)
  PROVE  Proceeds(o)
<1>1. CASE ReviewTarget(o) \/ CommitAdoption(o)
  BY <1>1 DEF ReviewTarget, CommitAdoption, Proceeds, AllSteps, AllOutcomes, Steps,
     Preflight, Outcomes
<1>2. CASE Reproduce(o) \/ ProbeCandidate(o) \/ VerifyReplica(o)
  BY <1>2, FailProceeds DEF Reproduce, ProbeCandidate, VerifyReplica, Proceeds, AllSteps,
     Steps, Forward
<1> QED
  BY <1>1, <1>2, QuiesceProceeds, RollbackProceeds DEF Adopt

LEMMA CreateProceeds ==
  ASSUME NEW o \in Op, Create(o)
  PROVE  Proceeds(o)
BY DEF Create, CreatePlain, StageCandidate, CreateManaged, SeekLeftover, CheckCreated,
   CommitCreated, ClearCreated, AwaitCleared, Proceeds, AllSteps, AllOutcomes,
   CreationSteps, Outcomes

LEMMA MaintainProceeds ==
  ASSUME NEW o \in Op, Maintain(o)
  PROVE  Proceeds(o)
BY DEF Maintain, DeleteFile, Erase, Proceeds, AllOutcomes, Outcomes

LEMMA StepProceeds ==
  ASSUME NEW o \in Op, Step(o)
  PROVE  Proceeds(o)
BY MutationProceeds, DeployProceeds, AdoptProceeds, CreateProceeds, MaintainProceeds
   DEF Step

-------------------------------------------------------------------------------
(* The host and the directory keep their types.                            *)

\* The step made container c, as it was asked to, and touched no other.
Made(c, name, service, deployment) ==
  /\ \A d \in ContainerId : d # c => Kept(d) /\ containers'[d] = containers[d]
  /\ containers[c] = Unborn
  /\ containers'[c].name = name
  /\ containers'[c].service = service
  /\ containers'[c].deployment = deployment \/ "drift" \in Faults
  /\ Exists(c)'

\* A creation, labelled or not.
LEMMA CreationFacts ==
  ASSUME HostTypeOK, NEW c \in ContainerId, NEW name \in ContainerName,
         NEW service \in ContainerName \cup {Unmanaged}, NEW deployment,
         NEW l \in {"running", "stopped"}, NEW ok,
         PodmanCreate(c, name, service, deployment, l, ok)
  PROVE  /\ HostTypeOK'
         /\ NamesUnique => NamesUnique'
         /\ Made(c, name, service, deployment)
<1>1. PICK d \in Deployment :
        /\ d = deployment \/ "drift" \in Faults
        /\ containers' = [containers EXCEPT ![c] =
             [life |-> IF ok THEN l ELSE "stopped", name |-> name,
              service |-> service, deployment |-> d]]
  BY DEF PodmanCreate
<1>2. /\ containers'[c] = [life |-> IF ok THEN l ELSE "stopped", name |-> name,
                           service |-> service, deployment |-> d]
      /\ \A e \in ContainerId : e # c => containers'[e] = containers[e]
  BY <1>1 DEF HostTypeOK
<1>3. (IF ok THEN l ELSE "stopped") \in {"running", "stopped"}
  OBVIOUS
<1>4. containers'[c] \in Container
  BY <1>2, <1>3 DEF Container, Life, Alive
<1>5. HostTypeOK'
  BY <1>1, <1>2, <1>4 DEF HostTypeOK
<1>6. \A e \in ContainerId : e # c => Kept(e) /\ containers'[e] = containers[e]
  BY <1>2 DEF Kept, SameRecord, SameExistence, Exists
<1>7. containers[c] = Unborn
  BY DEF PodmanCreate, HostTypeOK, Container
<1>8. /\ containers'[c].name = name
      /\ containers'[c].service = service
      /\ containers'[c].deployment = deployment \/ "drift" \in Faults
      /\ Exists(c)'
  BY <1>1, <1>2, <1>3 DEF Exists, Alive
<1>9. NamesUnique => NamesUnique'
  BY <1>2, <1>8 DEF NamesUnique, PodmanCreate, Taken, Holds, Exists
<1>10. QED
  BY <1>5, <1>6, <1>7, <1>8, <1>9 DEF Made

LEMMA FailedCreateKeepsType ==
  ASSUME HostTypeOK, NEW name, PodmanCreateFails(name)
  PROVE  HostTypeOK'
BY DEF PodmanCreateFails, FailsCleanly, HostTypeOK

\* What a step of an operation removes by force, and when.
Discards(o, ident) ==
  \/ pc[o] = "dropRemove" /\ ident = candidateID[o] /\ ident # NoId
  \/ pc[o] = "leftRemove" /\ ident = stdout[o]
  \/ pc[o] = "undoRemove" /\ ident = svc[o]
  \/ pc[o] = "cleanup" /\ ident = Backup[o]
  \/ pc[o] = "clear" /\ ident = stdout[o] /\ ident # NoId

\* The names and IDs an operation gives to its commands.
Identities(o) == {svc[o], Backup[o], candidateID[o], stdout[o]}

\* What a step of an operation may do to the host.
Commands(o) ==
  \/ UNCHANGED containers
  \/ \E ident \in Identities(o) : \E ok : PodmanStop(ident, ok) \/ PodmanStart(ident, ok)
  \/ \E ident, ok : Discards(o, ident) /\ PodmanForceRemove(ident, ok)
  \/ \E ok : PodmanRename(svc[o], Backup[o], ok) \/ PodmanRename(Backup[o], svc[o], ok)
  \/ \E c \in ContainerId, service \in {svc[o], Unmanaged}, l \in {"running", life[o]},
       ok \in BOOLEAN :
       PodmanCreate(c, svc[o], service, want[o], l, ok)
  \/ PodmanCreateFails(svc[o])

LEMMA CommandsType ==
  ASSUME AllTypeOK, NEW o \in Op, kind[o] # "none", Commands(o)
  PROVE  HostTypeOK'
<1>1. /\ HostTypeOK
      /\ svc[o] \in ContainerName /\ Backup[o] \in ContainerName
      /\ life[o] \in {"running", "stopped"}
  BY DEF AllTypeOK, MemoryOK, ContainerName
<1>2. CASE UNCHANGED containers
  BY <1>1, <1>2 DEF HostTypeOK
<1>3. CASE \E ident, ok : PodmanStop(ident, ok) \/ PodmanStart(ident, ok)
                          \/ PodmanForceRemove(ident, ok)
  BY <1>1, <1>3, StopKeeps, StartKeeps, RemoveFacts
<1>4. CASE \E ok : PodmanRename(svc[o], Backup[o], ok) \/ PodmanRename(Backup[o], svc[o], ok)
  BY <1>1, <1>4, RenameFacts
<1>5. CASE \E c \in ContainerId, service \in {svc[o], Unmanaged}, l \in {"running", life[o]},
       ok \in BOOLEAN :
             PodmanCreate(c, svc[o], service, want[o], l, ok)
  <2>1. PICK c \in ContainerId, service \in {svc[o], Unmanaged}, l \in {"running", life[o]},
       ok \in BOOLEAN :
             PodmanCreate(c, svc[o], service, want[o], l, ok)
    BY <1>5
  <2>2. service \in ContainerName \cup {Unmanaged} /\ l \in {"running", "stopped"}
    BY <1>1
  <2> QED
    BY <1>1, <2>1, <2>2, CreationFacts
<1>6. CASE PodmanCreateFails(svc[o])
  BY <1>1, <1>6, FailedCreateKeepsType
<1> QED
  BY <1>2, <1>3, <1>4, <1>5, <1>6 DEF Commands

LEMMA SharedCommands ==
  ASSUME NEW o \in Op,
         \/ Rollback(o) \/ Snapshot(o) \/ RenameAway(o) \/ StopOriginal(o)
         \/ AwaitStopped(o) \/ ArgumentsFail(o) \/ ProbeCandidate(o)
  PROVE  Commands(o)
<1>1. CASE Rollback(o)
  BY <1>1 DEF Rollback, StopCandidate, RemoveCandidate, CheckCandidateGone, RestoreName,
     InspectRestored, RestartOriginal, AwaitRestored, Commands, Discards, Identities
<1>2. CASE Snapshot(o) \/ RenameAway(o) \/ StopOriginal(o) \/ AwaitStopped(o)
           \/ ArgumentsFail(o) \/ ProbeCandidate(o)
  BY <1>2 DEF Snapshot, RenameAway, StopOriginal, AwaitStopped, ArgumentsFail,
     ProbeCandidate, Commands, Identities
<1> QED
  BY <1>1, <1>2

LEMMA MutationCommands ==
  ASSUME NEW o \in Op, Mutation(o)
  PROVE  Commands(o)
<1>1. CASE CreateReplacement(o)
  BY <1>1 DEF CreateReplacement, Commands
<1>2. CASE Resolve(o) \/ CreateFails(o) \/ VerifyReplacement(o) \/ CheckHealth(o)
           \/ Commit(o) \/ RemoveBackup(o)
  BY <1>2 DEF Resolve, CreateFails, VerifyReplacement, CheckHealth, Commit, RemoveBackup,
     Commands, Discards, Identities
<1> QED
  BY <1>1, <1>2, SharedCommands DEF Mutation

LEMMA DeployCommands ==
  ASSUME NEW o \in Op, Deploy(o)
  PROVE  Commands(o)
<1>1. CASE RunNew(o) \/ Recreate(o)
  BY <1>1 DEF RunNew, Recreate, Creates, Commands
<1>2. CASE \/ Survey(o) \/ LookForLeftover(o) \/ ProveNew(o) \/ AwaitLeftoverGone(o)
           \/ AwaitUndone(o) \/ AwaitHalted(o) \/ TraceCandidate(o)
           \/ ProveReplacement(o) \/ AwaitRetired(o)
  BY <1>2 DEF Survey, LookForLeftover, ProveNew, AwaitLeftoverGone, AwaitUndone,
     AwaitHalted, TraceCandidate, ProveReplacement, AwaitRetired, AwaitAbsent, Commands
<1>3. CASE \/ StopLeftover(o) \/ RemoveLeftover(o) \/ UndoStop(o) \/ UndoRemove(o)
           \/ RetireBackup(o)
  BY <1>3 DEF StopLeftover, RemoveLeftover, UndoStop, UndoRemove, RetireBackup, StopBy,
     RemoveBy, Commands, Discards, Identities
<1> QED
  BY <1>1, <1>2, <1>3, SharedCommands DEF Deploy

LEMMA AdoptCommands ==
  ASSUME NEW o \in Op, Adopt(o)
  PROVE  Commands(o)
<1>1. CASE Reproduce(o)
  BY <1>1 DEF Reproduce, Commands
<1>2. CASE ReviewTarget(o) \/ VerifyReplica(o) \/ CommitAdoption(o)
  BY <1>2 DEF ReviewTarget, VerifyReplica, CommitAdoption, Commands
<1> QED
  BY <1>1, <1>2, SharedCommands DEF Adopt

LEMMA CreateCommands ==
  ASSUME NEW o \in Op, Create(o)
  PROVE  Commands(o)
<1>1. CASE CreatePlain(o) \/ CreateManaged(o)
  BY <1>1 DEF CreatePlain, CreateManaged, Commands
<1>2. CASE StageCandidate(o) \/ SeekLeftover(o) \/ CheckCreated(o) \/ CommitCreated(o)
           \/ ClearCreated(o) \/ AwaitCleared(o)
  BY <1>2 DEF StageCandidate, SeekLeftover, CheckCreated, CommitCreated, ClearCreated,
     AwaitCleared, Commands, Discards, Identities
<1> QED
  BY <1>1, <1>2 DEF Create

LEMMA MaintainHostType ==
  ASSUME HostTypeOK, NEW o \in Op, Maintain(o)
  PROVE  HostTypeOK'
<1>1. CASE UNCHANGED containers
  BY <1>1 DEF HostTypeOK
<1>2. CASE containers[orig[o]].life = "stopped" /\ SetLife(orig[o], "removed")
  <2>1. CASE orig[o] \in ContainerId
    BY <1>2, <2>1, SetLifeFacts DEF Life
  <2>2. CASE orig[o] \notin ContainerId
    BY <1>2, <2>2 DEF SetLife, HostTypeOK
  <2> QED
    BY <2>1, <2>2
<1> QED
  BY <1>1, <1>2 DEF Maintain, DeleteFile, Erase, PodmanRemove, FailsCleanly

LEMMA StepHostType ==
  ASSUME AllTypeOK, NEW o \in Op, Step(o)
  PROVE  HostTypeOK'
<1>1. CASE kind[o] \in {"mutate", "deploy", "adopt", "create"}
  BY <1>1, MutationCommands, DeployCommands, AdoptCommands, CreateCommands, CommandsType
     DEF Step
<1>2. CASE kind[o] \in {"delete", "remove"}
  BY <1>2, MaintainHostType DEF Step, AllTypeOK
<1> QED
  BY <1>1, <1>2 DEF Step

\* What a step of an operation may do to the directory.
FileSteps(o) ==
  \/ StoreUnchanged
  \/ WriteCandidateSpec(o, want[o])
  \/ CommitCandidateSpec(o, svc[o])
  \/ DiscardCandidateSpec(o)
  \/ pc[o] = "unlink" /\ RemoveSpec(svc[o])

LEMMA StepFiles ==
  ASSUME NEW o \in Op, Step(o)
  PROVE  FileSteps(o)
<1> USE DEF FileSteps, StoreUnchanged, storeVars
<1>1. Rollback(o) => FileSteps(o)
  BY DEF Rollback, StopCandidate, RemoveCandidate, CheckCandidateGone, RestoreName,
     InspectRestored, RestartOriginal, AwaitRestored
<1>2. Snapshot(o) \/ RenameAway(o) \/ StopOriginal(o) \/ AwaitStopped(o)
        \/ ArgumentsFail(o) \/ ProbeCandidate(o) => FileSteps(o)
  BY DEF Snapshot, RenameAway, StopOriginal, AwaitStopped, ArgumentsFail, ProbeCandidate,
     Fail
<1>3. Mutation(o) => FileSteps(o)
  BY <1>1, <1>2 DEF Mutation, Resolve, CreateReplacement, CreateFails, VerifyReplacement,
     CheckHealth, Commit, RemoveBackup, Fail
<1>4. Deploy(o) => FileSteps(o)
  BY <1>1, <1>2 DEF Deploy, Survey, RunNew, LookForLeftover, StopLeftover, RemoveLeftover,
     AwaitLeftoverGone, ProveNew, UndoStop, UndoRemove, AwaitUndone, AwaitHalted, Recreate,
     TraceCandidate, ProveReplacement, RetireBackup, AwaitRetired, Creates, StopBy,
     RemoveBy, AwaitAbsent
<1>5. Adopt(o) => FileSteps(o)
  BY <1>1, <1>2 DEF Adopt, ReviewTarget, Reproduce, VerifyReplica, CommitAdoption, Fail
<1>6. Create(o) => FileSteps(o)
  BY DEF Create, CreatePlain, StageCandidate, CreateManaged, SeekLeftover, CheckCreated,
     CommitCreated, ClearCreated, AwaitCleared
<1>7. Maintain(o) => FileSteps(o)
  BY DEF Maintain, DeleteFile, Erase
<1> QED
  BY <1>3, <1>4, <1>5, <1>6, <1>7 DEF Step

LEMMA StepStoreType ==
  ASSUME AllTypeOK, NEW o \in Op, Step(o)
  PROVE  StoreTypeOK'
<1>1. want[o] \in Deployment \cup {NoSpec} /\ StoreTypeOK
  BY DEF AllTypeOK, MemoryOK
<1> QED
  BY <1>1, StepFiles DEF FileSteps, StoreTypeOK, StoreUnchanged, WriteCandidateSpec,
     CommitCandidateSpec, DiscardCandidateSpec, RemoveSpec

-------------------------------------------------------------------------------
(* The memory of an operation.                                             *)

\* A step changes nothing of what was asked; a deployment and an adoption note the
\* target and its lifecycle as they first list it.
LEMMA StepRemembers ==
  ASSUME NEW o \in Op, Step(o)
  PROVE  /\ UNCHANGED <<kind, svc, want>>
         /\ UNCHANGED orig \/ \E c \in ContainerId : orig' = [orig EXCEPT ![o] = c]
         /\ \/ UNCHANGED life
            \/ \E l \in {"running", "stopped"} : life' = [life EXCEPT ![o] = l]
<1> USE DEF transaction
<1>1. CASE Rollback(o) \/ Snapshot(o) \/ RenameAway(o) \/ StopOriginal(o)
           \/ AwaitStopped(o) \/ ArgumentsFail(o) \/ ProbeCandidate(o)
  BY <1>1 DEF Step, Rollback, StopCandidate, RemoveCandidate, CheckCandidateGone,
     RestoreName, InspectRestored, RestartOriginal, AwaitRestored, Snapshot, RenameAway,
     StopOriginal, AwaitStopped, ArgumentsFail, ProbeCandidate
<1>2. CASE \/ Resolve(o) \/ CreateReplacement(o) \/ CreateFails(o) \/ VerifyReplacement(o)
           \/ CheckHealth(o) \/ Commit(o) \/ RemoveBackup(o)
  BY <1>2 DEF Step, Resolve, CreateReplacement, CreateFails, VerifyReplacement,
     CheckHealth, Commit, RemoveBackup
<1>3. CASE Survey(o) \/ ReviewTarget(o)
  BY <1>3 DEF Step, Survey, ReviewTarget, Replaceable
<1>4. CASE \/ RunNew(o) \/ LookForLeftover(o) \/ StopLeftover(o) \/ RemoveLeftover(o)
           \/ AwaitLeftoverGone(o) \/ ProveNew(o) \/ UndoStop(o) \/ UndoRemove(o)
           \/ AwaitUndone(o) \/ AwaitHalted(o) \/ Recreate(o) \/ TraceCandidate(o)
           \/ ProveReplacement(o) \/ RetireBackup(o) \/ AwaitRetired(o)
  BY <1>4 DEF Step, RunNew, LookForLeftover, StopLeftover, RemoveLeftover,
     AwaitLeftoverGone, ProveNew, UndoStop, UndoRemove, AwaitUndone, AwaitHalted,
     Recreate, TraceCandidate, ProveReplacement, RetireBackup, AwaitRetired, Creates,
     StopBy, RemoveBy, AwaitAbsent
<1>5. CASE Reproduce(o) \/ VerifyReplica(o) \/ CommitAdoption(o)
  BY <1>5 DEF Step, Reproduce, VerifyReplica, CommitAdoption
<1>6. CASE Create(o) \/ Maintain(o)
  BY <1>6 DEF Step, Create, CreatePlain, StageCandidate, CreateManaged, SeekLeftover,
     CheckCreated, CommitCreated, ClearCreated, AwaitCleared, Maintain, DeleteFile, Erase
<1> QED
  BY <1>1, <1>2, <1>3, <1>4, <1>5, <1>6 DEF Step, Mutation, Deploy, Adopt

LEMMA StepMemory ==
  ASSUME AllTypeOK, NEW o \in Op, Step(o)
  PROVE  MemoryOK'
BY StepRemembers DEF AllTypeOK, MemoryOK

\* What it makes of its progress: nothing, a container, or the name of one.
LEMMA StepProgresses ==
  ASSUME NEW o \in Op, Step(o)
  PROVE  \/ UNCHANGED progress
         \/ /\ UNCHANGED <<stdout, spawned>>
            /\ candidateID' = [candidateID EXCEPT ![o] = svc[o]]
         \/ \E c \in ContainerId :
              /\ \/ UNCHANGED stdout
                 \/ stdout' = [stdout EXCEPT ![o] = c]
                 \/ stdout' = [stdout EXCEPT ![o] = NoId]
              /\ \/ UNCHANGED candidateID
                 \/ candidateID' = [candidateID EXCEPT ![o] = c]
                 \/ candidateID' = [candidateID EXCEPT ![o] = NoId]
              /\ spawned' = [spawned EXCEPT ![o] = @ \cup {c}]
<1> USE DEF progress
<1>1. CASE Rollback(o) \/ Snapshot(o) \/ RenameAway(o) \/ StopOriginal(o)
           \/ AwaitStopped(o) \/ ArgumentsFail(o) \/ ProbeCandidate(o)
  BY <1>1 DEF Rollback, StopCandidate, RemoveCandidate, CheckCandidateGone,
     RestoreName, InspectRestored, RestartOriginal, AwaitRestored, Snapshot, RenameAway,
     StopOriginal, AwaitStopped, ArgumentsFail, ProbeCandidate
<1>2. CASE \/ Resolve(o) \/ CreateFails(o) \/ VerifyReplacement(o)
           \/ CheckHealth(o) \/ Commit(o) \/ RemoveBackup(o)
  BY <1>2 DEF Resolve, CreateFails, VerifyReplacement, CheckHealth, Commit, RemoveBackup
<1>3. CASE \/ CreateReplacement(o) \/ RunNew(o) \/ Recreate(o) \/ Reproduce(o)
           \/ CreatePlain(o) \/ CreateManaged(o)
  BY <1>3 DEF CreateReplacement, RunNew, Recreate, Creates, Reproduce, CreatePlain,
     CreateManaged
<1>4. CASE \/ Survey(o) \/ LookForLeftover(o) \/ StopLeftover(o) \/ RemoveLeftover(o)
           \/ AwaitLeftoverGone(o) \/ ProveNew(o) \/ UndoStop(o) \/ UndoRemove(o)
           \/ AwaitUndone(o) \/ AwaitHalted(o) \/ TraceCandidate(o)
           \/ ProveReplacement(o) \/ RetireBackup(o) \/ AwaitRetired(o)
  BY <1>4 DEF Survey, LookForLeftover, StopLeftover, RemoveLeftover,
     AwaitLeftoverGone, ProveNew, UndoStop, UndoRemove, AwaitUndone, AwaitHalted,
     TraceCandidate, ProveReplacement, RetireBackup, AwaitRetired,
     StopBy, RemoveBy, AwaitAbsent
<1>5. CASE ReviewTarget(o) \/ VerifyReplica(o) \/ CommitAdoption(o)
  BY <1>5 DEF ReviewTarget, VerifyReplica, CommitAdoption
<1>6. CASE \/ StageCandidate(o) \/ SeekLeftover(o) \/ CheckCreated(o)
           \/ CommitCreated(o) \/ ClearCreated(o) \/ AwaitCleared(o) \/ Maintain(o)
  BY <1>6 DEF StageCandidate, SeekLeftover, CheckCreated, CommitCreated,
     ClearCreated, AwaitCleared, Maintain, DeleteFile, Erase
<1> QED
  BY <1>1, <1>2, <1>3, <1>4, <1>5, <1>6 DEF Step, Mutation, Deploy, Adopt, Create

LEMMA StepProgress ==
  ASSUME AllTypeOK, NEW o \in Op, Step(o)
  PROVE  ProgressOK'
<1>1. svc[o] \in ContainerName
  BY DEF Step, AllTypeOK, MemoryOK
<1> QED
  BY <1>1, StepProgresses DEF AllTypeOK, ProgressOK, progress

-------------------------------------------------------------------------------
(* The beginning of an operation, and what goes on around it.              *)

\* What a request sets: the operation's target, service and spec.
LEMMA ExistingTyped ==
  ASSUME HostTypeOK, NEW c \in ContainerId, Exists(c)
  PROVE  /\ containers[c].name \in ContainerName
         /\ containers[c].deployment \in Deployment
         /\ containers[c].life \in Alive
BY DEF HostTypeOK, Container, Unborn, Exists, Alive

Requests(o) ==
  /\ pc[o] = "idle"
  /\ Proceeds(o)
  /\ UNCHANGED progress
  /\ UNCHANGED orig \/ \E c \in ContainerId : orig' = [orig EXCEPT ![o] = c]
  /\ \E n \in ContainerName : svc' = [svc EXCEPT ![o] = n]
  /\ \/ UNCHANGED life
     \/ \E l \in {"running", "stopped"} : life' = [life EXCEPT ![o] = l]
  /\ \/ UNCHANGED want /\ kind'[o] \in {"delete", "remove"}
     \/ \E d \in Deployment : want' = [want EXCEPT ![o] = d]
  /\ \E k \in Operations : kind' = [kind EXCEPT ![o] = k]

LEMMA AsksRequests ==
  ASSUME AllTypeOK, NEW o \in Op, Asks(o)
  PROVE  Requests(o) /\ HostTypeOK' /\ UNCHANGED storeVars
<1>1. /\ HostTypeOK
      /\ kind \in [Op -> Operations \cup {"none"}]
      /\ Kinds \subseteq Operations
      /\ Name \subseteq ContainerName
  BY WorkloadsAssumption DEF AllTypeOK, MemoryOK, ContainerName
<1>2. \A k : Begins(o, k) => kind' = [kind EXCEPT ![o] = k] /\ kind'[o] = k /\ k \in Operations
  BY <1>1 DEF Begins
<1>3. CASE \E c \in ContainerId, d \in Deployment : Begins(o, "mutate") /\ Request(o, c, d)
  <2>1. PICK c \in ContainerId, d \in Deployment : Begins(o, "mutate") /\ Request(o, c, d)
    BY <1>3
  <2>2. Proceeds(o)
    BY <2>1 DEF Request, Proceeds, AllSteps, AllOutcomes, Steps, Preflight, Outcomes
  <2>3. UNCHANGED life \/ \E l \in {"running", "stopped"} : life' = [life EXCEPT ![o] = l]
    BY <1>1, <2>1, ExistingTyped DEF Request, Alive
  <2>4. HostTypeOK' /\ containers[c].name \in ContainerName
    BY <1>1, <2>1, ExistingTyped DEF Request, HostTypeOK
  <2> QED
    BY <1>2, <2>1, <2>2, <2>3, <2>4 DEF Request, Requests, progress
<1>4. CASE \E n \in Name : Begins(o, "deploy") /\ DeployRequest(o, n)
  <2>1. PICK n \in Name : Begins(o, "deploy") /\ DeployRequest(o, n)
    BY <1>4
  <2>2. Proceeds(o)
    BY <2>1 DEF DeployRequest, Proceeds, AllSteps, DeploySteps
  <2>3. specs[n] \in Deployment /\ HostTypeOK'
    BY <1>1, <2>1 DEF DeployRequest, AllTypeOK, StoreTypeOK, HostTypeOK
  <2> QED
    BY <1>1, <1>2, <2>1, <2>2, <2>3 DEF DeployRequest, Requests, progress
<1>5. CASE \E c \in ContainerId : Begins(o, "adopt") /\ AdoptRequest(o, c)
  <2>1. PICK c \in ContainerId : Begins(o, "adopt") /\ AdoptRequest(o, c)
    BY <1>5
  <2>2. Proceeds(o)
    BY <2>1 DEF AdoptRequest, Proceeds, AllSteps, AllOutcomes, Steps, Preflight, Outcomes
  <2>3. /\ HostTypeOK' /\ containers[c].name \in ContainerName
        /\ containers[c].deployment \in Deployment
    BY <1>1, <2>1, ExistingTyped DEF AdoptRequest, HostTypeOK
  <2> QED
    BY <1>2, <2>1, <2>2, <2>3 DEF AdoptRequest, Requests, progress
<1>6. CASE \E n \in Name, d \in Deployment, managed \in BOOLEAN :
             Begins(o, "create") /\ CreateRequest(o, n, d, managed)
  <2>1. PICK n \in Name, d \in Deployment, managed \in BOOLEAN :
             Begins(o, "create") /\ CreateRequest(o, n, d, managed)
    BY <1>6
  <2>2. Proceeds(o)
    BY <2>1 DEF CreateRequest, Proceeds, AllSteps, AllOutcomes, CreationSteps, Outcomes
  <2>3. HostTypeOK'
    BY <1>1, <2>1 DEF CreateRequest, HostTypeOK
  <2> QED
    BY <1>1, <1>2, <2>1, <2>2, <2>3 DEF CreateRequest, Requests, progress
<1>7. CASE \E n \in Name : Begins(o, "delete") /\ DeleteRequest(o, n)
  <2>1. PICK n \in Name : Begins(o, "delete") /\ DeleteRequest(o, n)
    BY <1>7
  <2>2. Proceeds(o)
    BY <2>1 DEF DeleteRequest, Proceeds, AllSteps, AllOutcomes, UpkeepSteps, Outcomes
  <2>3. HostTypeOK'
    BY <1>1, <2>1 DEF DeleteRequest, HostTypeOK
  <2> QED
    BY <1>1, <1>2, <2>1, <2>2, <2>3 DEF DeleteRequest, Requests, progress
<1>8. CASE \E c \in ContainerId :
             Begins(o, "remove") /\ (RemoveRequest(o, c) \/ StopToRemove(o, c))
  <2>1. PICK c \in ContainerId :
             Begins(o, "remove") /\ (RemoveRequest(o, c) \/ StopToRemove(o, c))
    BY <1>8
  <2>2. Proceeds(o)
    BY <2>1 DEF RemoveRequest, StopToRemove, Proceeds, AllSteps, AllOutcomes, UpkeepSteps,
       Outcomes
  <2>3. HostTypeOK'
    BY <1>1, <2>1, StopKeeps DEF RemoveRequest, StopToRemove, HostTypeOK
  <2>4. containers[c].name \in ContainerName
    BY <1>1, <2>1, ExistingTyped DEF RemoveRequest, StopToRemove
  <2> QED
    BY <1>2, <2>1, <2>2, <2>3, <2>4 DEF RemoveRequest, StopToRemove, Requests, progress
<1> QED
  BY <1>3, <1>4, <1>5, <1>6, <1>7, <1>8 DEF Asks

LEMMA AsksType ==
  ASSUME AllTypeOK, NEW o \in Op, Asks(o)
  PROVE  AllTypeOK'
<1>1. Requests(o) /\ HostTypeOK' /\ UNCHANGED storeVars
  BY AsksRequests
<1>2. StoreTypeOK'
  BY <1>1 DEF AllTypeOK, StoreTypeOK, storeVars
<1>3. ControlOK'
  BY <1>1, ProceedsType DEF Requests, AllTypeOK
<1>4. ProgressOK'
  BY <1>1 DEF Requests, AllTypeOK, ProgressOK, progress
<1>5. MemoryOK'
  <2>1. /\ kind' \in [Op -> Operations \cup {"none"}]
        /\ orig' \in [Op -> ContainerId \cup {NoId}]
        /\ svc' \in [Op -> ContainerName \cup {NoName}]
        /\ life' \in [Op -> {"running", "stopped"}]
        /\ want' \in [Op -> Deployment \cup {NoSpec}]
    BY <1>1 DEF Requests, AllTypeOK, MemoryOK
  <2>2. \A p \in Op : kind'[p] # "none" => svc'[p] \in ContainerName
    BY <1>1 DEF Requests, AllTypeOK, MemoryOK
  <2>3. \A p \in Op : kind'[p] \in {"mutate", "deploy", "adopt", "create"} =>
          want'[p] \in Deployment
    BY <1>1 DEF Requests, AllTypeOK, MemoryOK
  <2> QED
    BY <2>1, <2>2, <2>3 DEF MemoryOK
<1> QED
  BY <1>1, <1>2, <1>3, <1>4, <1>5 DEF AllTypeOK

LEMMA StepType ==
  ASSUME AllTypeOK, NEW o \in Op, Step(o)
  PROVE  AllTypeOK'
BY StepHostType, StepStoreType, StepProceeds, ProceedsType, StepMemory, StepProgress
   DEF AllTypeOK

LEMMA InitAllTypeOK == WorkloadsInit => AllTypeOK
<1> SUFFICES ASSUME WorkloadsInit PROVE AllTypeOK
  OBVIOUS
<1>1. PICK deployed \in [Name -> Deployment], owned \in SUBSET Name,
           up \in [Name -> {"running", "stopped"}] :
       /\ containers = [c \in ContainerId |->
            IF Home[c] = NoName THEN Unborn
            ELSE [life |-> up[Home[c]], name |-> Home[c],
                  service |-> IF Home[c] \in owned THEN Home[c] ELSE Unmanaged,
                  deployment |-> deployed[Home[c]]]]
       /\ specs = [n \in Name |->
            IF n \in Lost \/ \E c \in ContainerId : Home[c] = n /\ n \in owned
              THEN deployed[n] ELSE NoSpec]
  BY DEF WorkloadsInit
<1>2. HostTypeOK
  <2>1. ASSUME NEW c \in ContainerId PROVE containers[c] \in Container
    <3>1. CASE Home[c] = NoName
      BY <1>1, <3>1 DEF Container
    <3>2. CASE Home[c] # NoName
      <4>1. Home[c] \in Name /\ Home[c] \in ContainerName
        BY <3>2, ReplacementAssumption DEF ContainerName
      <4>2. up[Home[c]] \in Life \ {"unborn"} /\ deployed[Home[c]] \in Deployment
        BY <4>1 DEF Life, Alive
      <4>3. (IF Home[c] \in owned THEN Home[c] ELSE Unmanaged) \in ContainerName \cup {Unmanaged}
        BY <4>1
      <4> QED
        BY <1>1, <3>2, <4>1, <4>2, <4>3 DEF Container
    <3> QED
      BY <3>1, <3>2
  <2> QED
    BY <1>1, <2>1 DEF HostTypeOK
<1>3. StoreTypeOK
  BY <1>1 DEF StoreTypeOK, WorkloadsInit, Quiet
<1>4. ControlOK /\ ProgressOK
  BY ReplacementAssumption
     DEF ControlOK, ProgressOK, WorkloadsInit, Quiet, AllSteps, Steps, Ended, AllOutcomes,
         Outcomes
<1>5. MemoryOK
  BY DEF MemoryOK, WorkloadsInit, Quiet
<1> QED
  BY <1>2, <1>3, <1>4, <1>5 DEF AllTypeOK

LEMMA AroundType ==
  ASSUME AllTypeOK,
         \/ Environment /\ UNCHANGED kind
         \/ Crash /\ UNCHANGED kind
         \/ UNCHANGED allVars
  PROVE  AllTypeOK'
<1>1. CASE Environment /\ UNCHANGED kind
  <2>1. HostTypeOK'
    BY <1>1, HostMovesFacts DEF Environment, AllTypeOK
  <2>2. StoreTypeOK' /\ ControlOK' /\ MemoryOK' /\ ProgressOK'
    BY <1>1 DEF Environment, AllTypeOK, StoreTypeOK, ControlOK, MemoryOK, ProgressOK,
       storeVars, transaction, progress
  <2> QED
    BY <2>1, <2>2 DEF AllTypeOK
<1>2. CASE Crash /\ UNCHANGED kind
  BY <1>2 DEF Crash, AllTypeOK, HostTypeOK, StoreTypeOK, ControlOK, MemoryOK, ProgressOK,
     storeVars, transaction, progress, AllSteps, Steps, Ended
<1>3. CASE UNCHANGED allVars
  BY <1>3 DEF allVars, vars, AllTypeOK, HostTypeOK, StoreTypeOK, ControlOK, MemoryOK,
     ProgressOK
<1> QED
  BY <1>1, <1>2, <1>3

LEMMA AllTyped == WorkloadsSpec => []AllTypeOK
<1>1. AllTypeOK /\ [WorkloadsNext]_allVars => AllTypeOK'
  BY AsksType, StepType, AroundType DEF WorkloadsNext
<1> QED
  BY <1>1, InitAllTypeOK, PTL DEF WorkloadsSpec

\* Every variable keeps its type, whatever operations run, overlap and fail.
THEOREM WorkloadsTypeCorrect == WorkloadsSpec => []WorkloadsTypeOK
<1>1. AllTypeOK => WorkloadsTypeOK
  BY DEF AllTypeOK, WorkloadsTypeOK, ControlOK, MemoryOK, ProgressOK, AllSteps, AllOutcomes
<1> QED
  BY <1>1, AllTyped, PTL

-------------------------------------------------------------------------------
(* Staged files.                                                           *)

\* Where an operation may have a file staged.
HasStaged(o) ==
  \/ pc[o] = "crashed"
  \/ kind[o] = "mutate" /\ pc[o] \in {"rename"} \cup Forward
  \/ /\ kind[o] = "adopt"
     /\ \/ pc[o] \in {"rename"} \cup Forward \cup Backward
        \/ pc[o] = "done" /\ outcome[o] \in {"manual", "rolledBack"}
  \/ /\ kind[o] = "create"
     /\ \/ pc[o] \in CreationSteps \ {"plain", "stage"}
        \/ pc[o] = "done" /\ outcome[o] = "manual"

FilesKnown == \A o \in Op : candidates[o] # NoSpec => HasStaged(o)

\* What each step does to its own file and to where it stands.
StagesWell(o) == candidates'[o] # NoSpec => HasStaged(o)'

LEMMA OthersStay ==
  ASSUME AllTypeOK, NEW o \in Op, Proceeds(o), FileSteps(o), UNCHANGED kind,
         NEW p \in Op \ {o}
  PROVE  /\ candidates'[p] = candidates[p]
         /\ HasStaged(p) => HasStaged(p)'
<1>1. pc'[p] = pc[p] /\ outcome'[p] = outcome[p] /\ kind'[p] = kind[p]
  BY DEF Proceeds, Goto, Finish, PollAgain, EnterRollback, AllTypeOK, ControlOK
<1>2. candidates'[p] = candidates[p]
  BY DEF FileSteps, StoreUnchanged, WriteCandidateSpec, CommitCandidateSpec,
     DiscardCandidateSpec, RemoveSpec, AllTypeOK, StoreTypeOK
<1> QED
  BY <1>1, <1>2 DEF HasStaged

LEMMA RollbackStages ==
  ASSUME AllTypeOK, FilesKnown, NEW o \in Op, UNCHANGED kind, Rollback(o),
         kind[o] \in {"mutate", "deploy", "adopt"}
  PROVE  StagesWell(o)
<1>1. candidates' = candidates /\ pc[o] \in Backward
  BY DEF Rollback, StopCandidate, RemoveCandidate, CheckCandidateGone, RestoreName,
     InspectRestored, RestartOriginal, AwaitRestored, Backward, storeVars
<1>2. candidates[o] # NoSpec => kind[o] = "adopt"
  BY <1>1 DEF FilesKnown, HasStaged, Backward, Forward
<1>3. pc'[o] \in Backward \/ (pc'[o] = "done" /\ outcome'[o] \in {"manual", "rolledBack"})
  BY <1>1 DEF Rollback, StopCandidate, RemoveCandidate, CheckCandidateGone, RestoreName,
     InspectRestored, RestartOriginal, AwaitRestored, Backward, Goto, Finish, PollAgain,
     AllTypeOK, ControlOK
<1> QED
  BY <1>1, <1>2, <1>3 DEF StagesWell, HasStaged

\* The steps all replacing operations share.
LEMMA QuiesceStages ==
  ASSUME AllTypeOK, FilesKnown, NEW o \in Op, UNCHANGED kind,
         \/ RenameAway(o) \/ StopOriginal(o)
         \/ kind[o] # "deploy" /\ \/ Snapshot(o) \/ AwaitStopped(o) \/ ArgumentsFail(o)
                                  \/ ProbeCandidate(o),
         kind[o] \in {"mutate", "deploy", "adopt"}
  PROVE  StagesWell(o)
<1>1. /\ pc[o] \in Steps /\ pc \in [Op -> AllSteps] /\ DOMAIN candidates = Op
      /\ candidates[o] # NoSpec => HasStaged(o)
  BY DEF RenameAway, StopOriginal, Snapshot, AwaitStopped, ArgumentsFail, ProbeCandidate,
     Steps, Preflight, Forward, AllTypeOK, ControlOK, StoreTypeOK, FilesKnown
<1>2. CASE RenameAway(o) \/ StopOriginal(o)
  BY <1>1, <1>2 DEF RenameAway, StopOriginal, Goto, Finish, Fail, EnterRollback,
     StoreUnchanged, DiscardCandidateSpec, StagesWell, HasStaged, Forward, Backward
<1>3. CASE kind[o] # "deploy" /\ (Snapshot(o) \/ ArgumentsFail(o) \/ ProbeCandidate(o))
  BY <1>1, <1>3 DEF Snapshot, ArgumentsFail, ProbeCandidate, Goto, Finish, Fail,
     EnterRollback, StoreUnchanged, WriteCandidateSpec, DiscardCandidateSpec, StagesWell,
     HasStaged, Forward, Backward
<1>4. CASE kind[o] # "deploy" /\ AwaitStopped(o)
  BY <1>1, <1>4 DEF AwaitStopped, Goto, PollAgain, Fail, EnterRollback, StoreUnchanged,
     DiscardCandidateSpec, StagesWell, HasStaged, Forward
<1> QED
  BY <1>2, <1>3, <1>4

LEMMA MutationStages ==
  ASSUME AllTypeOK, FilesKnown, NEW o \in Op, UNCHANGED kind, kind[o] = "mutate",
         Mutation(o)
  PROVE  StagesWell(o)
<1>1. /\ pc \in [Op -> AllSteps] /\ DOMAIN candidates = Op
      /\ candidates[o] # NoSpec => HasStaged(o)
  BY DEF AllTypeOK, ControlOK, StoreTypeOK, FilesKnown
<1>2. CASE Resolve(o) \/ CreateReplacement(o) \/ CreateFails(o)
  BY <1>1, <1>2 DEF Resolve, CreateReplacement, CreateFails, Goto, Finish, Fail,
     EnterRollback, StoreUnchanged, storeVars, DiscardCandidateSpec, StagesWell, HasStaged,
     Forward
<1>3. CASE VerifyReplacement(o)
  BY <1>1, <1>3 DEF VerifyReplacement, Goto, PollAgain, Fail, EnterRollback,
     StoreUnchanged, DiscardCandidateSpec, StagesWell, HasStaged, Forward
<1>4. CASE CheckHealth(o) \/ Commit(o) \/ RemoveBackup(o)
  BY <1>1, <1>4 DEF CheckHealth, Commit, RemoveBackup, Goto, Finish, Fail, EnterRollback,
     StoreUnchanged, storeVars, CommitCandidateSpec, DiscardCandidateSpec, StagesWell,
     HasStaged, Forward
<1> QED
  BY <1>2, <1>3, <1>4, QuiesceStages, RollbackStages DEF Mutation

LEMMA DeployStages ==
  ASSUME AllTypeOK, FilesKnown, NEW o \in Op, UNCHANGED kind, kind[o] = "deploy",
         Deploy(o)
  PROVE  StagesWell(o)
<1>1. /\ pc \in [Op -> AllSteps] /\ DOMAIN candidates = Op
      /\ candidates[o] # NoSpec => pc[o] = "crashed"
  BY DEF AllTypeOK, ControlOK, StoreTypeOK, FilesKnown, HasStaged
<1>2. CASE RenameAway(o) \/ StopOriginal(o)
  BY <1>2, QuiesceStages
<1>3. CASE Rollback(o)
  BY <1>3, RollbackStages
<1>4. CASE ~RenameAway(o) /\ ~StopOriginal(o) /\ ~Rollback(o)
  <2>1. pc[o] # "crashed" /\ candidates' = candidates
    BY <1>4 DEF Deploy, Survey, RunNew, LookForLeftover, StopLeftover, RemoveLeftover,
       AwaitLeftoverGone, ProveNew, UndoStop, UndoRemove, AwaitUndone, AwaitHalted, Recreate,
       TraceCandidate, ProveReplacement, RetireBackup, AwaitRetired, Creates, StopBy,
       RemoveBy, AwaitAbsent, storeVars
  <2> QED
    BY <1>1, <2>1 DEF StagesWell
<1> QED
  BY <1>2, <1>3, <1>4

LEMMA AdoptStages ==
  ASSUME AllTypeOK, FilesKnown, NEW o \in Op, UNCHANGED kind, kind[o] = "adopt", Adopt(o)
  PROVE  StagesWell(o)
<1>1. /\ pc \in [Op -> AllSteps] /\ DOMAIN candidates = Op
      /\ candidates[o] # NoSpec => HasStaged(o)
  BY DEF AllTypeOK, ControlOK, StoreTypeOK, FilesKnown
<1>2. CASE ReviewTarget(o) \/ Reproduce(o)
  BY <1>1, <1>2 DEF ReviewTarget, Reproduce, Goto, Finish, Fail, EnterRollback,
     StoreUnchanged, storeVars, DiscardCandidateSpec, StagesWell, HasStaged, Forward, Backward
<1>3. CASE VerifyReplica(o)
  BY <1>1, <1>3 DEF VerifyReplica, Goto, PollAgain, Fail, EnterRollback,
     StoreUnchanged, DiscardCandidateSpec, StagesWell, HasStaged, Forward
<1>4. CASE CommitAdoption(o)
  BY <1>1, <1>4 DEF CommitAdoption, Finish, EnterRollback, StoreUnchanged,
     CommitCandidateSpec, StagesWell, HasStaged, Forward, Backward
<1> QED
  BY <1>2, <1>3, <1>4, QuiesceStages, RollbackStages DEF Adopt

LEMMA CreateStages ==
  ASSUME AllTypeOK, FilesKnown, NEW o \in Op, UNCHANGED kind, kind[o] = "create", Create(o)
  PROVE  StagesWell(o)
<1>1. /\ pc \in [Op -> AllSteps] /\ DOMAIN candidates = Op
      /\ candidates[o] # NoSpec => HasStaged(o)
      /\ outcome \in [Op -> AllOutcomes]
  BY DEF AllTypeOK, ControlOK, StoreTypeOK, FilesKnown
<1>2. CASE CreatePlain(o) \/ StageCandidate(o) \/ CreateManaged(o) \/ SeekLeftover(o)
  BY <1>1, <1>2 DEF CreatePlain, StageCandidate, CreateManaged, SeekLeftover, Goto, Finish,
     StoreUnchanged, storeVars, WriteCandidateSpec, DiscardCandidateSpec, StagesWell,
     HasStaged, CreationSteps
<1>3. CASE CheckCreated(o) \/ CommitCreated(o) \/ ClearCreated(o) \/ AwaitCleared(o)
  BY <1>1, <1>3 DEF CheckCreated, CommitCreated, ClearCreated, AwaitCleared, Goto, Finish,
     PollAgain, StoreUnchanged, storeVars, CommitCandidateSpec, DiscardCandidateSpec,
     StagesWell, HasStaged, CreationSteps
<1> QED
  BY <1>2, <1>3 DEF Create

LEMMA MaintainStages ==
  ASSUME AllTypeOK, FilesKnown, NEW o \in Op, kind[o] \in {"delete", "remove"}, Maintain(o)
  PROVE  StagesWell(o)
<1>1. candidates[o] # NoSpec => pc[o] = "crashed"
  BY DEF FilesKnown, HasStaged
<1>2. candidates' = candidates /\ pc[o] # "crashed"
  BY DEF Maintain, DeleteFile, Erase, RemoveSpec, StoreUnchanged, storeVars
<1> QED
  BY <1>1, <1>2 DEF StagesWell

LEMMA StepStages ==
  ASSUME AllTypeOK, FilesKnown, NEW o \in Op, Step(o)
  PROVE  FilesKnown'
<1>1. UNCHANGED kind /\ Proceeds(o) /\ FileSteps(o)
  BY StepProceeds, StepFiles DEF Step
<1>2. StagesWell(o)
  BY <1>1, MutationStages, DeployStages, AdoptStages, CreateStages, MaintainStages DEF Step
<1>3. \A p \in Op \ {o} : candidates'[p] # NoSpec => HasStaged(p)'
  BY <1>1, OthersStay DEF FilesKnown
<1> QED
  BY <1>2, <1>3 DEF FilesKnown, StagesWell

LEMMA AsksStages ==
  ASSUME AllTypeOK, FilesKnown, NEW o \in Op, Asks(o)
  PROVE  FilesKnown'
<1>1. Requests(o) /\ UNCHANGED candidates
  BY AsksRequests DEF storeVars
<1>2. candidates[o] = NoSpec
  BY <1>1 DEF Requests, FilesKnown, HasStaged, Forward, Backward, CreationSteps
<1>3. \A p \in Op \ {o} : pc'[p] = pc[p] /\ outcome'[p] = outcome[p] /\ kind'[p] = kind[p]
  BY <1>1 DEF Requests, Proceeds, Goto, Finish, PollAgain, EnterRollback, AllTypeOK,
     ControlOK, MemoryOK
<1> QED
  BY <1>1, <1>2, <1>3 DEF FilesKnown, HasStaged

\* No operation returns with a spec file still staged, unless it tells the user to
\* recover by hand, or is an adoption that could not commit it.
THEOREM FilesAlwaysAccountedFor == WorkloadsSpec => []FilesAccountedFor
<1>1. WorkloadsInit => FilesKnown
  BY DEF WorkloadsInit, Quiet, FilesKnown
<1>2. AllTypeOK /\ FilesKnown /\ [WorkloadsNext]_allVars => FilesKnown'
  <2> SUFFICES ASSUME AllTypeOK, FilesKnown, [WorkloadsNext]_allVars PROVE FilesKnown'
    OBVIOUS
  <2>1. CASE \E o \in Op : Asks(o) \/ Step(o)
    BY <2>1, AsksStages, StepStages
  <2>2. CASE Environment /\ UNCHANGED kind
    BY <2>2 DEF Environment, FilesKnown, HasStaged, storeVars
  <2>3. CASE Crash /\ UNCHANGED kind
    <3>1. \A o \in Op : /\ candidates'[o] = candidates[o] /\ outcome'[o] = outcome[o]
                        /\ kind'[o] = kind[o]
                        /\ pc'[o] = pc[o] \/ pc'[o] = "crashed"
      BY <2>3 DEF Crash, storeVars
    <3> QED
      BY <3>1 DEF FilesKnown, HasStaged
  <2>4. CASE UNCHANGED allVars
    BY <2>4 DEF allVars, vars, FilesKnown, HasStaged
  <2> QED
    BY <2>1, <2>2, <2>3, <2>4 DEF WorkloadsNext
<1>3. FilesKnown => FilesAccountedFor
  BY DEF FilesKnown, HasStaged, FilesAccountedFor, Forward, Backward, CreationSteps
<1> QED
  BY <1>1, <1>2, <1>3, AllTyped, PTL DEF WorkloadsSpec

-------------------------------------------------------------------------------
(* Operations that do not overlap on a service: the invariant.             *)

\* The operations that replace a container by another of the same service, and
\* those that put a container aside to do so.
Replacing == {"mutate", "deploy"}
Quiescing == {"mutate", "deploy", "adopt"}

\* The operation has begun and not returned.
Working(o) == pc[o] \notin Ended

\* The steps of an operation of kind k, as its code orders them.
StepsOf(k) ==
  CASE k = "mutate" -> Steps
    [] k = "deploy" -> (Steps \ {"resolve", "snapshot", "health", "commit"}) \cup DeploySteps
    [] k = "adopt" -> Steps \ {"health", "cleanup"}
    [] k = "create" -> Ended \cup CreationSteps
    [] k = "delete" -> Ended \cup {"unlink"}
    [] k = "remove" -> Ended \cup {"erase"}
    [] k = "none" -> {"idle"}

\* The steps before an operation has touched anything but its own memory, and those
\* before it creates anything.
Early == Preflight \cup {"survey", "run", "plain", "stage", "launch"} \cup UpkeepSteps
Uncreated == Early \cup {"idle", "stop", "stopping", "create"}

\* The container has existed, and whose it is.
AliveOnce(c) == containers[c].name # NoId
OwnedBy(c, n) == containers[c].service = n

\* What the operation remembers: containers that have existed, nothing created
\* before the step that creates, a step of its own kind.
RefersOK(o) ==
  /\ orig[o] # NoId => AliveOnce(orig[o])
  /\ \A c \in spawned[o] : AliveOnce(c)
  /\ pc[o] = "idle" => orig[o] = NoId /\ kind[o] = "none"
  /\ pc[o] \in Uncreated => spawned[o] = {} /\ stdout[o] = NoId /\ candidateID[o] = NoId
  /\ kind[o] \in {"deploy", "adopt", "create", "delete"} /\ Working(o) => svc[o] \in Name
  /\ kind[o] = "mutate" /\ Working(o) /\ pc[o] # "resolve" => svc[o] \in Name
  /\ pc[o] \in StepsOf(kind[o])

\* What the operation created is not its original, has its label, and has its
\* name while it exists.
SpawnOK(o) == Working(o) =>
  /\ stdout[o] # NoId => spawned[o] = {stdout[o]}
  /\ candidateID[o] \in {NoId, svc[o]} \cup spawned[o]
  /\ \A c \in spawned[o] :
       /\ c # orig[o]
       /\ OwnedBy(c, svc[o])
       /\ Exists(c) => containers[c].name = svc[o]

\* The original of a mutation or a deployment: its service's container, under its
\* name, then its backup's, then either; until the commit it runs what the spec says.
TargetOK(o) ==
  /\ kind[o] = "mutate" /\ pc[o] = "resolve" /\ svc[o] \in Name =>
       orig[o] \in ContainerId /\ Holds(orig[o], svc[o]) /\ ~OwnedBy(orig[o], Unmanaged)
  /\ kind[o] \in Replacing /\ pc[o] \in Steps \ (Ended \cup {"resolve"}) =>
       orig[o] \in ContainerId /\ Exists(orig[o]) /\ OwnedBy(orig[o], svc[o])
  /\ kind[o] \in Replacing /\ pc[o] \in {"snapshot", "rename"} =>
       containers[orig[o]].name = svc[o]
  /\ kind[o] \in Replacing /\ pc[o] \in Renamed =>
       containers[orig[o]].name = Backup[o]
  /\ kind[o] \in Replacing /\ pc[o] \in Restored =>
       containers[orig[o]].name \in {svc[o], Backup[o]}
  /\ kind[o] \in Replacing /\ pc[o] \in Uncommitted =>
       containers[orig[o]].deployment = specs[svc[o]]

\* The original of an adoption is unlabelled.
AdoptedOK(o) ==
  /\ kind[o] = "adopt" /\ Working(o) => orig[o] \in ContainerId /\ OwnedBy(orig[o], Unmanaged)
  /\ kind[o] = "adopt" /\ pc[o] \in Preflight =>
       \A c \in ContainerId : Holds(c, svc[o]) => OwnedBy(c, Unmanaged)

\* From the rename on, who has the service's name was created by the operation, or
\* is a stranger's, should there be strangers.
ClearedOK(o) ==
  \/ kind[o] \in Quiescing /\ pc[o] \in Renamed
  \/ kind[o] = "deploy" /\ pc[o] \in DeploySteps \ {"survey"}
  => \A c \in ContainerId : Holds(c, svc[o]) =>
       c \in spawned[o] \/ (OwnedBy(c, Unmanaged) /\ "foreign" \in Ambient)

\* The staged candidate, and for a deployment the stored spec, is what is asked for.
FilesOK(o) ==
  /\ kind[o] \in {"mutate", "adopt"}
       /\ pc[o] \in {"rename", "stop", "stopping", "create", "verify", "health", "commit"} =>
       candidates[o] = want[o]
  /\ kind[o] = "create" /\ pc[o] \in {"launch", "check", "settle"} => candidates[o] = want[o]
  /\ kind[o] = "deploy" /\ Working(o) => specs[svc[o]] = want[o]
  /\ kind[o] = "mutate" /\ pc[o] = "cleanup" => specs[svc[o]] = want[o]

\* The container the operation created is known and exists; it runs what was
\* asked for.
Built(o) == stdout[o] # NoId /\ Exists(stdout[o])
Runs(o) == containers[stdout[o]].deployment = want[o]

\* What has been created and seen, by the step the operation has reached.
BuiltOK(o) ==
  /\ kind[o] \in {"mutate", "adopt"} /\ pc[o] \in Created => Built(o)
  /\ kind[o] = "mutate" /\ pc[o] \in {"health", "commit", "cleanup"} => Runs(o)
  /\ kind[o] = "deploy" /\ pc[o] \in {"cleanup", "gone"} => Built(o) /\ Runs(o)
  /\ kind[o] = "create" /\ pc[o] = "settle" => Built(o) /\ Runs(o)
  /\ kind[o] = "adopt" /\ pc[o] = "commit" =>
       PortsOf[containers[stdout[o]].deployment] = PortsOf[want[o]]
  /\ kind[o] = "adopt" /\ pc[o] \in {"verify", "commit"} /\ "drift" \notin Faults => Runs(o)
  /\ kind[o] = "deploy" /\ pc[o] \in {"prove", "undoStop", "undoRemove"} =>
       \E c \in spawned[o] : Exists(c)
  /\ kind[o] = "deploy" /\ pc[o] \in {"leftStop", "leftRemove", "leftGone"} => stdout[o] # NoId
  /\ kind[o] = "create" /\ pc[o] = "seek" /\ spawned[o] # {} => "create" \in LateFaults

\* A deletion has seen no container with the label; what is to be erased is nobody
\* else's, and under its own name if it is managed.
UpkeepOK(o) ==
  /\ kind[o] = "delete" /\ pc[o] = "unlink" => ~Labelled(svc[o])
  /\ kind[o] = "remove" /\ pc[o] = "erase" =>
       /\ orig[o] \in ContainerId
       /\ Managed(orig[o]) => containers[orig[o]].name = svc[o]
       /\ \A p \in Op \ {o} : Working(p) => orig[p] # orig[o] /\ orig[o] \notin spawned[p]

\* All that is claimed of one operation.
OpOK(o) ==
  /\ RefersOK(o) /\ SpawnOK(o) /\ TargetOK(o) /\ AdoptedOK(o) /\ ClearedOK(o)
  /\ FilesOK(o) /\ BuiltOK(o) /\ UpkeepOK(o)

\* Only mutations and deployments put managed containers under a backup name.
BackupsOK ==
  \A o \in Op, c \in ContainerId :
    Holds(c, Backup[o]) /\ ~OwnedBy(c, Unmanaged) => kind[o] \in Replacing

\* The invariant of operations that do not overlap on a service.  None of what is
\* to be shown of services and containers follows from itself: a report is true, a
\* removal the operation's own, because of what the operation remembers, which is
\* right because nobody else touches the containers it remembers.
WInv ==
  /\ AllTypeOK
  /\ LabelsOK
  /\ NamesUnique
  /\ OneAtATime
  /\ BackupsOK
  /\ \A o \in Op : OpOK(o)

\* The operation has touched nothing yet, or has returned without a word of
\* warning; a search that follows a creation that created nothing is calm too.
Calm(o) ==
  \/ pc[o] \in Early \cup {"idle"}
  \/ pc[o] = "done" /\ outcome[o] # "manual"
  \/ pc[o] = "seek" /\ spawned[o] = {}

\* With only calm operations on a service, its container is as its spec says: what
\* carries SettledAsStored through the steps between settled states.
StoredInv ==
  \A c \in ContainerId : \A n \in Name :
    Managed(c) /\ containers[c].name = n /\ OwnedBy(c, n) /\ (\A o \in Op : svc[o] = n => Calm(o))
      => specs[n] = containers[c].deployment

\* A container that has existed is typed.
LEMMA AliveFacts ==
  ASSUME HostTypeOK, NEW c \in ContainerId
  PROVE  /\ Exists(c) => AliveOnce(c)
         /\ AliveOnce(c) <=> containers[c].life # "unborn"
         /\ AliveOnce(c) => /\ containers[c].name \in ContainerName
                            /\ containers[c].deployment \in Deployment
         /\ ~AliveOnce(c) => containers[c].service = Unmanaged
BY NamesDistinct DEF HostTypeOK, Container, Unborn, Exists, Alive, AliveOnce

\* What a step of operation o may do to container c: nothing but to its lifecycle;
\* erase it; remove it by a name of the operation's own; move it between its two
\* names; make it.
Touched(o, c) ==
  \/ Kept(c)
  \/ /\ kind[o] = "remove" /\ pc[o] = "erase" /\ c = orig[o]
     /\ SameRecord(c) /\ (Exists(c)' => Exists(c))
  \/ /\ svc[o] \in Name
     /\ containers[c].name \in {svc[o], Backup[o]}
     /\ SameRecord(c) /\ (Exists(c)' => Exists(c))
  \/ /\ svc[o] \in Name
     /\ kind[o] \in Quiescing
     /\ Exists(c) /\ Exists(c)'
     /\ containers'[c].service = containers[c].service
     /\ containers'[c].deployment = containers[c].deployment
     /\ containers[c].name \in {svc[o], Backup[o]}
     /\ \/ pc[o] = "rename" /\ containers'[c].name = Backup[o]
        \/ pc'[o] = "inspect" /\ containers'[c].name = svc[o]
     /\ c = orig[o] \/ OwnedBy(c, Unmanaged)
  \/ /\ svc[o] \in Name
     /\ ~AliveOnce(c) /\ AliveOnce(c)'
     /\ containers'[c].name = svc[o]
     /\ containers'[c].service \in {svc[o], Unmanaged}
     /\ containers'[c].service # Unmanaged => c \in spawned'[o] /\ pc'[o] # "done"

\* The step leaves the memory and the files of every other operation alone.
Alone(o) ==
  /\ \A p \in Op \ {o} : LocalsKept(p) /\ outcome'[p] = outcome[p] /\ kind'[p] = kind[p]
  /\ \A m \in Name : m # svc[o] => specs'[m] = specs[m]

\* What the operation takes on: the container of its service, or a fresh one.
Gains(o) ==
  /\ svc'[o] = svc[o]
  /\ \/ orig'[o] = orig[o]
     \/ /\ svc[o] \in Name
        /\ orig'[o] \in ContainerId /\ Exists(orig'[o])
        /\ OwnedBy(orig'[o], svc[o]) /\ containers[orig'[o]].name = svc[o]
  /\ \A c \in spawned'[o] : c \in spawned[o] \/ ~AliveOnce(c)

\* A step of operation o, as the others see it.
Acts(o) ==
  /\ Working(o)
  /\ HostTypeOK'
  /\ \A c \in ContainerId : Touched(o, c)
  /\ Alone(o)
  /\ Gains(o)

\* A working operation has a kind and a name to work on.
LEMMA WorkingNamed ==
  ASSUME WInv, NEW o \in Op, Working(o)
  PROVE  kind[o] # "none" /\ svc[o] \in ContainerName
BY DEF WInv, OpOK, RefersOK, StepsOf, Working, Ended, AllTypeOK, MemoryOK

\* The names of two working operations are apart.
LEMMA ServicesApart ==
  ASSUME WInv, NEW o \in Op, NEW p \in Op \ {o}, Working(o), Working(p),
         svc[o] \in Name, svc[p] \in Name
  PROVE  {svc[o], Backup[o]} \cap {svc[p], Backup[p]} = {}
BY NamesDistinct DEF WInv, OneAtATime, Working

\* Containers under the names of operation p are no concern of operation o.
LEMMA NamedKept ==
  ASSUME WInv, NEW o \in Op, NEW p \in Op \ {o}, Working(o), Working(p),
         svc[p] \in Name, NEW c \in ContainerId, Touched(o, c),
         containers[c].name \in {svc[p], Backup[p]}
  PROVE  Kept(c) \/ (/\ kind[o] = "remove" /\ pc[o] = "erase" /\ c = orig[o]
                     /\ SameRecord(c) /\ (Exists(c)' => Exists(c)))
<1>1. containers[c].name # NoId
  BY NamesFacts, NamesDistinct
<1> QED
  BY <1>1, ServicesApart DEF Touched, AliveOnce

\* A container that comes under p's names was there before.
LEMMA NamedBefore ==
  ASSUME WInv, NEW o \in Op, NEW p \in Op \ {o}, Working(o), Working(p),
         svc[p] \in Name, NEW c \in ContainerId, Touched(o, c),
         containers'[c].name \in {svc[p], Backup[p]}
  PROVE  SameRecord(c) /\ (Exists(c)' => Exists(c))
BY ServicesApart DEF Touched, Kept, SameExistence

\* What was ever alive keeps its labels.
LEMMA LabelsLast ==
  ASSUME NEW o, NEW c \in ContainerId, Touched(o, c), AliveOnce(c), svc[o] \in Name => NoId \notin {svc[o], Backup[o]}
  PROVE  /\ AliveOnce(c)'
         /\ containers'[c].service = containers[c].service
         /\ containers'[c].deployment = containers[c].deployment
         /\ Exists(c)' => Exists(c)
BY DEF Touched, Kept, SameRecord, SameExistence, AliveOnce

\* An operation's names are names.
LEMMA OwnNames ==
  ASSUME NEW o \in Op, svc[o] \in Name
  PROVE  NoId \notin {svc[o], Backup[o]}
BY NamesFacts, NamesDistinct

\* What is claimed of another operation p survives a step of o, clause by clause.
LEMMA OthersRefer ==
  ASSUME WInv, NEW o \in Op, Acts(o), NEW p \in Op \ {o}
  PROVE  RefersOK(p)'
<1>1. /\ OpOK(p) /\ RefersOK(p) /\ LocalsKept(p) /\ kind'[p] = kind[p] /\ pc'[p] = pc[p]
      /\ spawned[p] \subseteq ContainerId /\ orig[p] \in ContainerId \cup {NoId}
  BY DEF WInv, OpOK, Acts, Alone, AllTypeOK, ProgressOK, MemoryOK, LocalsKept
<1>2. \A c \in ContainerId : AliveOnce(c) => AliveOnce(c)'
  BY LabelsLast, OwnNames DEF Acts
<1>3. StepsOf(kind[p])' = StepsOf(kind[p])
  BY <1>1 DEF StepsOf
<1> QED
  BY <1>1, <1>2, <1>3 DEF RefersOK, LocalsKept, Working

LEMMA OthersSpawn ==
  ASSUME WInv, NEW o \in Op, Acts(o), NEW p \in Op \ {o}
  PROVE  SpawnOK(p)'
<1>1. /\ SpawnOK(p) /\ RefersOK(p) /\ LocalsKept(p) /\ pc'[p] = pc[p]
      /\ spawned[p] \subseteq ContainerId
  BY DEF WInv, OpOK, Acts, Alone, AllTypeOK, ProgressOK, LocalsKept
<1> SUFFICES ASSUME Working(p) PROVE SpawnOK(p)'
  BY <1>1 DEF SpawnOK, Working
<1>2. ASSUME NEW c \in spawned[p]
      PROVE  containers'[c].service = svc[p] /\ (Exists(c)' => containers'[c].name = svc[p])
  <2>1. c \in ContainerId /\ AliveOnce(c) /\ OwnedBy(c, svc[p]) /\ Touched(o, c)
    BY <1>1 DEF RefersOK, SpawnOK, Acts
  <2>2. containers'[c].service = svc[p] /\ (Exists(c)' => Exists(c))
    BY <2>1, LabelsLast, OwnNames DEF OwnedBy
  <2>3. svc[p] \in ContainerName
    BY WorkingNamed
  <2>4. ASSUME Exists(c)' PROVE containers'[c].name = svc[p]
    <3>1. containers[c].name = svc[p]
      BY <1>1, <2>2, <2>4 DEF SpawnOK
    <3>2. svc[p] \in Name
      BY <2>1, <2>3, NamesFacts DEF OwnedBy, WInv, LabelsOK
    <3>3. SameRecord(c)
      BY <2>1, <3>1, <3>2, NamedKept DEF Acts, Kept
    <3> QED
      BY <3>1, <3>3 DEF SameRecord
  <2> QED
    BY <2>2, <2>4
<1> QED
  BY <1>1, <1>2 DEF SpawnOK, Working, LocalsKept, OwnedBy, Exists

\* What one operation erases, no other remembers.
LEMMA OriginalsApart ==
  ASSUME WInv, NEW o \in Op, NEW p \in Op \ {o}, Working(p),
         kind[o] = "remove", pc[o] = "erase"
  PROVE  orig[p] # orig[o] /\ orig[o] \notin spawned[p]
BY DEF WInv, OpOK, UpkeepOK

LEMMA OthersTarget ==
  ASSUME WInv, NEW o \in Op, Acts(o), NEW p \in Op \ {o}
  PROVE  TargetOK(p)'
<1>1. /\ TargetOK(p) /\ RefersOK(p) /\ LocalsKept(p) /\ pc'[p] = pc[p] /\ kind'[p] = kind[p]
      /\ orig[p] \in ContainerId \cup {NoId}
  BY DEF WInv, OpOK, Acts, Alone, AllTypeOK, MemoryOK, LocalsKept
<1>2. ASSUME Working(p), svc[p] \in Name, orig[p] \in ContainerId,
             containers[orig[p]].name \in {svc[p], Backup[p]}
      PROVE  Kept(orig[p]) /\ specs'[svc[p]] = specs[svc[p]]
  BY <1>2, NamedKept, OriginalsApart, ServicesApart DEF Acts, Alone, WInv, OneAtATime, Working
<1>3. CASE kind[p] = "mutate" /\ pc[p] = "resolve" /\ svc[p] \in Name
  <2>1. Kept(orig[p])
    BY <1>1, <1>2, <1>3 DEF TargetOK, Holds, Working, Ended
  <2> QED
    BY <1>1, <1>3, <2>1 DEF TargetOK, LocalsKept, Kept, SameRecord, SameExistence, Holds,
       OwnedBy,
       Renamed, Restored, Uncommitted, Preflight, Forward, Backward, Ended
<1>4. CASE kind[p] \in Replacing /\ pc[p] \in Steps \ (Ended \cup {"resolve"})
  <2>1. /\ orig[p] \in ContainerId /\ svc[p] \in Name /\ Working(p)
        /\ containers[orig[p]].name \in {svc[p], Backup[p]}
    BY <1>1, <1>4 DEF TargetOK, RefersOK, Working, Replacing, Steps, Preflight, Renamed,
       Restored, Forward, Backward, Ended
  <2> QED
    BY <1>1, <1>2, <1>4, <2>1 DEF TargetOK, LocalsKept, Kept, SameRecord, SameExistence, OwnedBy
<1> QED
  BY <1>1, <1>3, <1>4 DEF TargetOK, LocalsKept, Replacing, Steps, Preflight, Renamed, Restored,
     Forward, Backward, Ended, Uncommitted

LEMMA OthersAdopted ==
  ASSUME WInv, NEW o \in Op, Acts(o), NEW p \in Op \ {o}
  PROVE  AdoptedOK(p)'
<1>1. /\ AdoptedOK(p) /\ RefersOK(p) /\ LocalsKept(p) /\ pc'[p] = pc[p] /\ kind'[p] = kind[p]
  BY DEF WInv, OpOK, Acts, Alone, LocalsKept
<1> SUFFICES ASSUME kind[p] = "adopt", Working(p) PROVE AdoptedOK(p)'
  BY <1>1 DEF AdoptedOK, Working, LocalsKept, Preflight, Ended
<1>2. /\ svc[p] \in Name /\ orig[p] \in ContainerId /\ OwnedBy(orig[p], Unmanaged)
      /\ AliveOnce(orig[p])
  BY <1>1, NamesDistinct DEF RefersOK, AdoptedOK
<1>3. containers'[orig[p]].service = Unmanaged
  BY <1>2, LabelsLast, OwnNames DEF Acts, OwnedBy
<1>4. ASSUME NEW c \in ContainerId, pc[p] \in Preflight, Exists(c)', containers'[c].name = svc[p]
      PROVE  containers'[c].service = Unmanaged
  BY <1>1, <1>2, <1>4, NamedBefore DEF Acts, AdoptedOK, SameRecord, Holds, OwnedBy
<1> QED
  BY <1>1, <1>2, <1>3, <1>4 DEF AdoptedOK, LocalsKept, OwnedBy, Holds

LEMMA OthersCleared ==
  ASSUME WInv, NEW o \in Op, Acts(o), NEW p \in Op \ {o}
  PROVE  ClearedOK(p)'
<1>1. /\ ClearedOK(p) /\ RefersOK(p) /\ LocalsKept(p) /\ pc'[p] = pc[p] /\ kind'[p] = kind[p]
      /\ pc[p] \in StepsOf(kind[p])
  BY DEF WInv, OpOK, Acts, Alone, LocalsKept, RefersOK
<1> DEFINE Clear == \/ kind[p] \in Quiescing /\ pc[p] \in Renamed
                    \/ kind[p] = "deploy" /\ pc[p] \in DeploySteps \ {"survey"}
<1> SUFFICES ASSUME Clear PROVE ClearedOK(p)'
  BY <1>1 DEF ClearedOK, LocalsKept
<1>2. Working(p) /\ svc[p] \in Name
  BY <1>1 DEF RefersOK, Working, Quiescing, Renamed, DeploySteps, Ended, Forward
<1>3. ASSUME NEW c \in ContainerId, Exists(c)', containers'[c].name = svc[p]
      PROVE  c \in spawned[p] \/ (containers'[c].service = Unmanaged /\ "foreign" \in Ambient)
  BY <1>1, <1>2, <1>3, NamedBefore DEF Acts, ClearedOK, SameRecord, Holds, OwnedBy
<1> QED
  BY <1>1, <1>3 DEF ClearedOK, LocalsKept, OwnedBy, Holds

LEMMA OthersFiles ==
  ASSUME WInv, NEW o \in Op, Acts(o), NEW p \in Op \ {o}
  PROVE  FilesOK(p)'
<1>1. /\ FilesOK(p) /\ RefersOK(p) /\ LocalsKept(p) /\ pc'[p] = pc[p] /\ kind'[p] = kind[p]
  BY DEF WInv, OpOK, Acts, Alone, LocalsKept, RefersOK
<1>2. Working(p) /\ svc[p] \in Name => specs'[svc[p]] = specs[svc[p]]
  BY DEF Acts, Alone, WInv, OneAtATime, Working
<1> QED
  BY <1>1, <1>2 DEF FilesOK, RefersOK, LocalsKept, Working, Ended

LEMMA OthersBuilt ==
  ASSUME WInv, NEW o \in Op, Acts(o), NEW p \in Op \ {o}
  PROVE  BuiltOK(p)'
<1>1. /\ BuiltOK(p) /\ SpawnOK(p) /\ RefersOK(p) /\ LocalsKept(p)
      /\ pc'[p] = pc[p] /\ kind'[p] = kind[p]
      /\ spawned[p] \subseteq ContainerId
  BY DEF WInv, OpOK, Acts, Alone, LocalsKept, AllTypeOK, ProgressOK
<1>2. ASSUME NEW c \in spawned[p], Working(p), svc[p] \in Name, Exists(c)
      PROVE  Exists(c)' /\ containers'[c].deployment = containers[c].deployment
  <2>1. c \in ContainerId /\ containers[c].name = svc[p]
    BY <1>1, <1>2 DEF SpawnOK
  <2>2. Kept(c)
    BY <1>2, <2>1, NamedKept, OriginalsApart DEF Acts
  <2> QED
    BY <1>2, <2>2 DEF Kept, SameRecord, SameExistence
<1>3. Working(p) /\ stdout[p] # NoId => stdout[p] \in spawned[p]
  BY <1>1 DEF SpawnOK
<1>4. /\ pc[p] \in Created \cup {"health", "commit", "cleanup", "gone", "settle", "verify"} =>
           Working(p)
      /\ pc[p] \in {"prove", "undoStop", "undoRemove"} => Working(p)
  BY DEF Created, Working, Ended
<1>5. /\ kind[p] = "mutate" /\ pc[p] \in Created => svc[p] \in Name
      /\ Working(p) /\ kind[p] \in {"deploy", "adopt", "create"} => svc[p] \in Name
  BY <1>1, <1>4 DEF RefersOK, Created
<1>6. ASSUME Working(p), svc[p] \in Name, Built(p)
      PROVE  /\ containers'[stdout[p]].life \in Alive
             /\ containers'[stdout[p]].deployment = containers[stdout[p]].deployment
  <2>1. stdout[p] \in spawned[p] /\ Exists(stdout[p])
    BY <1>3, <1>6 DEF Built
  <2> QED
    BY <1>2, <1>6, <2>1 DEF Exists
<1>7. /\ kind[p] \in {"mutate", "adopt"} /\ pc[p] \in Created =>
           stdout[p] # NoId /\ containers'[stdout[p]].life \in Alive
             /\ containers'[stdout[p]].deployment = containers[stdout[p]].deployment
      /\ kind[p] = "deploy" /\ pc[p] \in {"cleanup", "gone"} =>
           stdout[p] # NoId /\ containers'[stdout[p]].life \in Alive
             /\ containers'[stdout[p]].deployment = containers[stdout[p]].deployment
      /\ kind[p] = "create" /\ pc[p] = "settle" =>
           stdout[p] # NoId /\ containers'[stdout[p]].life \in Alive
             /\ containers'[stdout[p]].deployment = containers[stdout[p]].deployment
  BY <1>1, <1>4, <1>5, <1>6 DEF BuiltOK, Built
<1>8. kind[p] = "deploy" /\ pc[p] \in {"prove", "undoStop", "undoRemove"} =>
        \E c \in spawned[p] : Exists(c)'
  BY <1>1, <1>2, <1>4, <1>5 DEF BuiltOK
<1> QED
  BY <1>1, <1>7, <1>8 DEF BuiltOK, LocalsKept, Built, Runs, Created, Exists

LEMMA OthersUpkeep ==
  ASSUME WInv, NEW o \in Op, Acts(o), NEW p \in Op \ {o}
  PROVE  UpkeepOK(p)'
<1>1. /\ UpkeepOK(p) /\ RefersOK(p) /\ LocalsKept(p)
      /\ pc'[p] = pc[p] /\ kind'[p] = kind[p]
      /\ Working(o) /\ Gains(o)
  BY DEF WInv, OpOK, Acts, Alone, LocalsKept
<1>2. ASSUME kind[p] = "delete", pc[p] = "unlink", NEW c \in ContainerId,
             Exists(c)', containers'[c].service = svc[p]
      PROVE  FALSE
  <2>1. Working(p) /\ svc[p] \in Name /\ ~Labelled(svc[p])
    BY <1>1, <1>2 DEF RefersOK, UpkeepOK, Working, Ended
  <2>2. svc[o] \in Name => svc[p] \notin {svc[o], Unmanaged}
    BY <1>1, <2>1, ServicesApart, NamesFacts
  <2>3. svc[p] # Unmanaged
    BY <2>1, NamesFacts
  <2>4. Touched(o, c)
    BY DEF Acts
  <2> QED
    BY <1>2, <2>1, <2>2, <2>3, <2>4
       DEF Touched, Labelled, Kept, SameRecord, SameExistence
<1>3. ASSUME kind[p] = "remove", pc[p] = "erase"
      PROVE  /\ orig[p] \in ContainerId
             /\ containers'[orig[p]].life \in Alive /\ containers'[orig[p]].service # Unmanaged =>
                  containers'[orig[p]].name = svc[p]
             /\ \A q \in Op \ {p} : Working(q)' => orig'[q] # orig[p] /\ orig[p] \notin spawned'[q]
  <2>1. /\ Working(p) /\ orig[p] \in ContainerId /\ AliveOnce(orig[p])
        /\ Managed(orig[p]) => containers[orig[p]].name = svc[p]
        /\ \A q \in Op \ {p} : Working(q) => orig[q] # orig[p] /\ orig[p] \notin spawned[q]
    BY <1>1, <1>3, NamesDistinct DEF RefersOK, UpkeepOK, Working, Ended
  <2>2. PICK t \in ContainerId : t = orig[p]
    BY <2>1
  <2>3. /\ Touched(o, t) /\ AliveOnce(t) /\ t # orig[o]
        /\ Managed(t) => containers[t].name = svc[p]
    BY <1>1, <2>1, <2>2 DEF Acts
  <2>4. ASSUME Exists(t)', containers'[t].service # Unmanaged
        PROVE  containers'[t].name = svc[p]
    <3>1. /\ containers'[t].service = containers[t].service
          /\ Exists(t)' => Exists(t)
      BY <2>3, LabelsLast, OwnNames
    <3>2. Managed(t)
      BY <2>4, <3>1 DEF Managed
    <3>3. SameRecord(t)
      BY <1>1, <2>1, <2>2, <2>3, <3>2 DEF Touched, Kept, Managed, OwnedBy
    <3> QED
      BY <2>3, <3>2, <3>3 DEF SameRecord
  <2>5. orig'[o] # t /\ t \notin spawned'[o]
    <3>1. t \notin spawned[o]
      BY <1>1, <2>1, <2>2
    <3>2. t \notin spawned'[o]
      BY <1>1, <2>3, <3>1 DEF Gains
    <3>3. ASSUME svc[o] \in Name, Exists(t), OwnedBy(t, svc[o]), containers[t].name = svc[o]
          PROVE  FALSE
      <4>1. Managed(t)
        BY <3>3, NamesFacts DEF Managed, OwnedBy
      <4> QED
        BY <1>1, <2>1, <2>3, <3>3, <4>1 DEF WInv, OneAtATime, Working
    <3> QED
      BY <1>1, <2>3, <3>2, <3>3 DEF Gains
  <2>6. \A q \in Op \ {o, p} : Working(q)' => orig'[q] # orig[p] /\ orig[p] \notin spawned'[q]
    BY <2>1 DEF Acts, Alone, LocalsKept, Working
  <2> QED
    BY <2>1, <2>2, <2>4, <2>5, <2>6 DEF Exists
<1> QED
  BY <1>1, <1>2, <1>3 DEF UpkeepOK, LocalsKept, Labelled, Managed, Exists

LEMMA OthersOK ==
  ASSUME WInv, NEW o \in Op, Acts(o), NEW p \in Op \ {o}
  PROVE  OpOK(p)'
BY OthersRefer, OthersSpawn, OthersTarget, OthersAdopted, OthersCleared, OthersFiles,
   OthersBuilt, OthersUpkeep DEF OpOK

-------------------------------------------------------------------------------
(* A step of one operation.                                                *)

\* The step works.
LEMMA StepWorking ==
  ASSUME NEW o \in Op, Step(o)
  PROVE  Working(o)
<1> USE DEF Working, Ended
<1>1. Rollback(o) \/ Snapshot(o) \/ RenameAway(o) \/ StopOriginal(o) \/ AwaitStopped(o)
        \/ ArgumentsFail(o) \/ ProbeCandidate(o) => Working(o)
  BY DEF Rollback, StopCandidate, RemoveCandidate, CheckCandidateGone, RestoreName,
     InspectRestored, RestartOriginal, AwaitRestored, Snapshot, RenameAway,
     StopOriginal, AwaitStopped, ArgumentsFail, ProbeCandidate
<1>2. Mutation(o) => Working(o)
  BY <1>1 DEF Mutation, Resolve, CreateReplacement, CreateFails, VerifyReplacement,
     CheckHealth, Commit, RemoveBackup
<1>3. Deploy(o) => Working(o)
  BY <1>1 DEF Deploy, Survey, RunNew, LookForLeftover, StopLeftover, RemoveLeftover,
     AwaitLeftoverGone, ProveNew, UndoStop, UndoRemove, AwaitUndone, AwaitHalted, Recreate,
     TraceCandidate, ProveReplacement, RetireBackup, AwaitRetired, StopBy, RemoveBy,
     AwaitAbsent
<1>4. Adopt(o) => Working(o)
  BY <1>1 DEF Adopt, ReviewTarget, Reproduce, VerifyReplica, CommitAdoption
<1>5. Create(o) => Working(o)
  BY DEF Create, CreatePlain, StageCandidate, CreateManaged, SeekLeftover,
     CheckCreated, CommitCreated, ClearCreated, AwaitCleared
<1>6. Maintain(o) => Working(o)
  BY DEF Maintain, DeleteFile, Erase
<1> QED
  BY <1>2, <1>3, <1>4, <1>5, <1>6 DEF Step

\* A step changes no other operation's memory, and no other service's spec.
LEMMA StepAlone ==
  ASSUME AllTypeOK, NEW o \in Op, Step(o)
  PROVE  Alone(o)
<1>1. /\ UNCHANGED <<kind, svc, want>>
      /\ UNCHANGED orig \/ \E c \in ContainerId : orig' = [orig EXCEPT ![o] = c]
  BY StepRemembers
<1>2. \A p \in Op \ {o} : /\ stdout'[p] = stdout[p]
                          /\ candidateID'[p] = candidateID[p]
                          /\ spawned'[p] = spawned[p]
  BY StepProgresses DEF progress, AllTypeOK, ProgressOK
<1>3. \A p \in Op \ {o} : pc'[p] = pc[p] /\ outcome'[p] = outcome[p]
  BY StepProceeds DEF Proceeds, Goto, Finish, PollAgain, EnterRollback, AllTypeOK, ControlOK
<1>4. FileSteps(o)
  BY StepFiles
<1>5. \A p \in Op \ {o} : candidates'[p] = candidates[p]
  BY <1>4 DEF FileSteps, StoreUnchanged, WriteCandidateSpec, CommitCandidateSpec,
     DiscardCandidateSpec, RemoveSpec, AllTypeOK, StoreTypeOK
<1>6. \A m \in Name : m # svc[o] => specs'[m] = specs[m]
  BY <1>4 DEF FileSteps, StoreUnchanged, WriteCandidateSpec, CommitCandidateSpec,
     DiscardCandidateSpec, RemoveSpec, AllTypeOK, StoreTypeOK
<1>7. \A p \in Op \ {o} : orig'[p] = orig[p]
  BY <1>1 DEF AllTypeOK, MemoryOK
<1> QED
  BY <1>1, <1>2, <1>3, <1>5, <1>6, <1>7 DEF Alone, LocalsKept

\* What is left to show of a step.
Keeps(o) ==
  /\ \A c \in ContainerId : Touched(o, c)
  /\ Gains(o)
  /\ OpOK(o)'
  /\ NamesUnique'

\* A step that keeps what it claims of its own operation keeps the invariant.
LEMMA StepKeepsWInv ==
  ASSUME WInv, NEW o \in Op, Step(o), Keeps(o)
  PROVE  WInv'
<1>1. /\ AllTypeOK /\ Working(o) /\ Alone(o) /\ AllTypeOK'
      /\ kind' = kind /\ svc'[o] = svc[o]
  BY StepType, StepWorking, StepAlone, StepRemembers DEF WInv
<1>2. Acts(o)
  BY <1>1 DEF Acts, Keeps, AllTypeOK
<1>3. \A p \in Op : OpOK(p)'
  BY <1>2, OthersOK DEF Keeps
<1>4. LabelsOK'
  BY DEF Keeps, Touched, Kept, SameRecord, LabelsOK, WInv
<1>5. OneAtATime'
  BY <1>1 DEF Alone, LocalsKept, WInv, OneAtATime, Working
<1>6. BackupsOK'
  <2> SUFFICES ASSUME NEW p \in Op, NEW c \in ContainerId, Exists(c)',
                      containers'[c].name = Backup[p], containers'[c].service # Unmanaged
               PROVE  kind[p] \in Replacing
    BY <1>1 DEF BackupsOK, Holds, OwnedBy
  <2>1. Touched(o, c) /\ BackupsOK /\ AdoptedOK(o)
    BY DEF Keeps, WInv, OpOK
  <2>2. CASE SameRecord(c) /\ (Exists(c)' => Exists(c))
    BY <2>1, <2>2 DEF BackupsOK, Holds, OwnedBy, SameRecord
  <2>3. CASE /\ svc[o] \in Name
             /\ kind[o] \in Quiescing
             /\ containers'[c].service = containers[c].service
             /\ containers'[c].name \in {svc[o], Backup[o]}
             /\ c = orig[o] \/ OwnedBy(c, Unmanaged)
    <3>1. p = o
      BY <2>3, NamesDistinct
    <3> QED
      BY <1>1, <2>1, <2>3, <3>1 DEF AdoptedOK, OwnedBy, Quiescing, Replacing
  <2>4. CASE svc[o] \in Name /\ containers'[c].name = svc[o]
    BY <2>4, NamesDistinct
  <2> QED
    BY <2>1, <2>2, <2>3, <2>4 DEF Touched, Kept, SameExistence
<1> QED
  BY <1>1, <1>3, <1>4, <1>5, <1>6 DEF WInv, Keeps

\* A return claims nothing.
LEMMA FinishedOK ==
  ASSUME WInv, NEW o \in Op, pc'[o] = "done",
         \A c \in ContainerId : Touched(o, c), kind'[o] = kind[o], kind[o] # "none",
         orig'[o] = orig[o] \/ Gains(o), \A c \in spawned'[o] : c \in ContainerId /\ AliveOnce(c)'
  PROVE  OpOK(o)'
<1>1. orig'[o] # NoId => orig'[o] \in ContainerId /\ containers'[orig'[o]].name # NoId
  <2>1. CASE orig'[o] = orig[o] /\ orig[o] \in ContainerId
    <3>1. PICK t \in ContainerId : t = orig[o]
      BY <2>1
    <3>2. AliveOnce(t) /\ Touched(o, t)
      BY <2>1, <3>1, NamesDistinct DEF WInv, OpOK, RefersOK
    <3>3. AliveOnce(t)'
      BY <3>2, LabelsLast, OwnNames
    <3> QED
      BY <2>1, <3>1, <3>3 DEF AliveOnce
  <2>2. CASE Gains(o) /\ orig'[o] # orig[o]
    <3>1. PICK t \in ContainerId : t = orig'[o]
      BY <2>2 DEF Gains
    <3>2. AliveOnce(t) /\ Touched(o, t)
      BY <2>2, <3>1, AliveFacts DEF Gains, WInv, AllTypeOK
    <3>3. AliveOnce(t)'
      BY <3>2, LabelsLast, OwnNames
    <3> QED
      BY <3>1, <3>3 DEF AliveOnce
  <2> QED
    BY <2>1, <2>2 DEF WInv, AllTypeOK, MemoryOK
<1>2. RefersOK(o)'
  <2>1. "done" \in StepsOf(kind[o])
    BY DEF StepsOf, Steps, Ended, WInv, AllTypeOK, MemoryOK, Operations
  <2>2. StepsOf(kind[o])' = StepsOf(kind[o])
    BY DEF StepsOf
  <2> QED
    BY <1>1, <2>1, <2>2 DEF RefersOK, Working, Ended, Uncreated, Early, Preflight, UpkeepSteps,
       AliveOnce
<1> QED
  BY <1>2 DEF OpOK, SpawnOK, TargetOK, AdoptedOK, ClearedOK, FilesOK, BuiltOK, UpkeepOK,
     Working,
     Ended, Renamed, Restored, Uncommitted, Preflight, Forward, Backward, Created, DeploySteps,
     Steps

-------------------------------------------------------------------------------
(* The ways on from step to step that create, rename and remove nothing.   *)

\* Where each procedure goes from a step that leaves every container in place.
RollbackWays ==
  {<<"dropStop", "dropRemove">>, <<"dropCheck", "restore">>, <<"inspect", "restart">>,
   <<"inspect", "restarting">>, <<"restart", "restarting">>, <<"restarting", "restarting">>}

QuiesceWays ==
  {<<"stop", "stopping">>, <<"stop", "restore">>, <<"stopping", "stopping">>,
   <<"stopping", "create">>, <<"stopping", "restore">>, <<"create", "probe">>,
   <<"create", "restore">>, <<"probe", "dropStop">>, <<"probe", "restore">>,
   <<"verify", "verify">>, <<"verify", "dropStop">>}

MutationWays ==
  {<<"snapshot", "rename">>, <<"verify", "health">>, <<"verify", "commit">>,
   <<"health", "commit">>, <<"health", "dropStop">>, <<"commit", "dropStop">>}

DeployWays ==
  {<<"run", "leftover">>, <<"leftover", "leftStop">>, <<"leftStop", "leftRemove">>,
   <<"leftGone", "leftGone">>, <<"prove", "prove">>, <<"prove", "undoStop">>,
   <<"undoStop", "undoRemove">>, <<"undoGone", "undoGone">>, <<"verify", "cleanup">>,
   <<"gone", "gone">>}

AdoptWays ==
  {<<"resolve", "snapshot">>, <<"snapshot", "rename">>, <<"verify", "commit">>,
   <<"commit", "dropStop">>}

CreateWays ==
  {<<"stage", "launch">>, <<"launch", "seek">>, <<"seek", "clear">>, <<"check", "check">>,
   <<"check", "settle">>, <<"check", "clear">>, <<"settle", "clear">>,
   <<"cleared", "cleared">>}

\* The step takes one of these ways.
Goes(o, ways) == <<pc[o], pc'[o]>> \in ways

\* The ways of a kind of operation.
Way(o) ==
  \/ kind[o] \in Quiescing /\ Goes(o, RollbackWays)
  \/ kind[o] \in Quiescing /\ Goes(o, QuiesceWays)
  \/ kind[o] = "mutate" /\ Goes(o, MutationWays)
  \/ kind[o] = "deploy" /\ Goes(o, DeployWays)
  \/ kind[o] = "adopt" /\ Goes(o, AdoptWays)
  \/ kind[o] = "create" /\ Goes(o, CreateWays)

\* The steps that need the candidate file, and those that write it.
Filed == {"rename", "stop", "stopping", "create", "verify", "health", "commit",
          "launch", "check", "settle"}
\* The steps that stage a candidate file.
Filing == {"snapshot", "stage"}

\* What has to be seen before some steps.
Seen(o) ==
  /\ kind[o] = "mutate" /\ pc[o] = "verify" /\ pc'[o] \in {"health", "commit"} => Runs(o)
  /\ kind[o] = "deploy" /\ pc'[o] = "cleanup" => Built(o) /\ Runs(o)
  /\ kind[o] = "deploy" /\ pc'[o] = "leftStop" => stdout[o] # NoId
  /\ kind[o] = "create" /\ pc'[o] = "settle" => Built(o) /\ Runs(o)
  /\ kind[o] = "adopt" /\ pc'[o] = "commit" =>
       PortsOf[containers[stdout[o]].deployment] = PortsOf[want[o]]

\* A step that keeps every container and every spec, and goes one of these ways
\* having seen what it must have seen.
Harmless(o) ==
  /\ UNCHANGED <<kind, orig, svc, want, stdout, spawned, specs>>
  /\ \/ candidateID'[o] = candidateID[o]
     \/ candidateID'[o] = svc[o] /\ pc[o] = "probe"
  /\ \A c \in ContainerId : Kept(c)
  /\ \/ pc'[o] = "done"
     \/ /\ Way(o) /\ Seen(o)
        /\ pc'[o] \in Filed /\ kind[o] # "deploy" =>
             candidates'[o] = IF pc[o] \in Filing THEN want[o] ELSE candidates[o]

\* Where the ways lead, seen from the invariant's clauses.
Onward(o) ==
  /\ pc'[o] \in StepsOf(kind[o])
  /\ pc[o] \in StepsOf(kind[o])
  /\ pc[o] \notin Ended /\ pc'[o] \notin Ended
  /\ pc[o] = "resolve" => kind[o] = "adopt"
  /\ pc'[o] \notin {"resolve", "unlink", "erase"}
  /\ pc'[o] \in Uncreated => pc[o] \in Uncreated
  /\ pc'[o] \in {"snapshot", "rename"} => pc[o] \in {"snapshot", "rename"} \/ kind[o] = "adopt"
  /\ pc'[o] \in Renamed => pc[o] \in Renamed
  /\ pc'[o] \in Restored => pc[o] \in Restored
  /\ pc'[o] \in Uncommitted => pc[o] \in Uncommitted \/ kind[o] = "adopt"
  /\ pc'[o] \in Preflight => pc[o] \in Preflight
  /\ kind[o] = "deploy" /\ pc'[o] \in DeploySteps \ {"survey"} =>
       pc[o] \in DeploySteps \ {"survey"}

\* Every way stays within the clauses of the invariant.
LEMMA WaysOnward ==
  ASSUME NEW o, Way(o)
  PROVE  Onward(o)
<1> USE DEF Onward, Goes, StepsOf, Ended, Uncreated, Early, Renamed, Restored, Uncommitted,
            Preflight, Forward, Backward, Steps, DeploySteps, CreationSteps, UpkeepSteps
<1>1. CASE kind[o] \in Quiescing /\ Goes(o, RollbackWays)
  BY <1>1 DEF RollbackWays, Quiescing
<1>2. CASE kind[o] \in Quiescing /\ Goes(o, QuiesceWays)
  BY <1>2 DEF QuiesceWays, Quiescing
<1>3. CASE kind[o] = "mutate" /\ Goes(o, MutationWays)
  BY <1>3 DEF MutationWays
<1>4. CASE kind[o] = "deploy" /\ Goes(o, DeployWays)
  BY <1>4 DEF DeployWays
<1>5. CASE kind[o] = "adopt" /\ Goes(o, AdoptWays)
  BY <1>5 DEF AdoptWays
<1>6. CASE kind[o] = "create" /\ Goes(o, CreateWays)
  BY <1>6 DEF CreateWays
<1> QED
  BY <1>1, <1>2, <1>3, <1>4, <1>5, <1>6 DEF Way

LEMMA WaysFiled ==
  ASSUME NEW o, Way(o)
  PROVE  /\ kind[o] \in {"mutate", "adopt"} /\ pc'[o] \in Filed => pc[o] \in Filed \cup {"snapshot"}
         /\ kind[o] = "create" /\ pc'[o] \in Filed => pc[o] \in Filed \cup {"stage"}
         /\ kind[o] = "mutate" => pc'[o] # "cleanup"
         /\ kind[o] \in {"mutate", "adopt"} /\ pc'[o] \in Created => pc[o] \in Created
         /\ kind[o] = "mutate" /\ pc'[o] \in {"health", "commit", "cleanup"} =>
              pc[o] \in {"verify", "health"}
         /\ kind[o] = "deploy" /\ pc'[o] = "gone" => pc[o] = "gone"
         /\ kind[o] = "adopt" /\ pc'[o] \in {"verify", "commit"} => pc[o] = "verify"
         /\ kind[o] = "deploy" /\ pc'[o] \in {"prove", "undoStop", "undoRemove"} =>
              pc[o] \in {"prove", "undoStop"}
         /\ kind[o] = "deploy" /\ pc'[o] \in {"leftRemove", "leftGone"} =>
              pc[o] \in {"leftStop", "leftGone"}
         /\ kind[o] = "create" /\ pc'[o] = "seek" => pc[o] = "launch"
<1> USE DEF Goes, Filed, Created
<1>1. CASE kind[o] \in Quiescing /\ Goes(o, RollbackWays)
  BY <1>1 DEF RollbackWays, Quiescing
<1>2. CASE kind[o] \in Quiescing /\ Goes(o, QuiesceWays)
  BY <1>2 DEF QuiesceWays, Quiescing
<1>3. CASE kind[o] = "mutate" /\ Goes(o, MutationWays)
  BY <1>3 DEF MutationWays
<1>4. CASE kind[o] = "deploy" /\ Goes(o, DeployWays)
  BY <1>4 DEF DeployWays
<1>5. CASE kind[o] = "adopt" /\ Goes(o, AdoptWays)
  BY <1>5 DEF AdoptWays
<1>6. CASE kind[o] = "create" /\ Goes(o, CreateWays)
  BY <1>6 DEF CreateWays
<1> QED
  BY <1>1, <1>2, <1>3, <1>4, <1>5, <1>6 DEF Way

\* What the operation created is where it was.
LEMMA KeptSpawned ==
  ASSUME WInv, NEW o \in Op, Working(o), \A c \in ContainerId : Kept(c),
         spawned'[o] = spawned[o], svc'[o] = svc[o], orig'[o] = orig[o], stdout'[o] = stdout[o],
         candidateID'[o] \in {candidateID[o], svc[o]}
  PROVE  /\ SpawnOK(o)'
         /\ \A c \in spawned'[o] : c \in ContainerId /\ AliveOnce(c)'
<1>1. spawned[o] \subseteq ContainerId /\ SpawnOK(o) /\ RefersOK(o)
  BY DEF WInv, OpOK, AllTypeOK, ProgressOK
<1> QED
  BY <1>1 DEF SpawnOK, RefersOK, Kept, SameRecord, SameExistence, OwnedBy, AliveOnce, Exists

\* A harmless step keeps each clause.
LEMMA HarmlessRefers ==
  ASSUME WInv, NEW o \in Op, Working(o), Harmless(o), Onward(o)
  PROVE  RefersOK(o)'
<1>1. /\ RefersOK(o) /\ UNCHANGED <<kind, orig, svc, want, stdout, spawned>>
      /\ orig[o] \in ContainerId \cup {NoId} /\ candidateID'[o] \in {candidateID[o], svc[o]}
      /\ pc[o] \in Uncreated => candidateID'[o] = candidateID[o]
  BY DEF WInv, OpOK, AllTypeOK, MemoryOK, Harmless, Uncreated, Early, Preflight, UpkeepSteps
<1>2. \A c \in spawned'[o] : AliveOnce(c)'
  BY KeptSpawned DEF Harmless
<1>3. orig'[o] # NoId => containers'[orig'[o]].name # NoId
  BY <1>1, NamesDistinct DEF Harmless, RefersOK, Kept, SameRecord, AliveOnce
<1>4. StepsOf(kind[o])' = StepsOf(kind[o])
  BY <1>1 DEF StepsOf
<1> QED
  BY <1>1, <1>2, <1>3, <1>4 DEF RefersOK, Onward, Working, Ended, AliveOnce

LEMMA HarmlessTarget ==
  ASSUME WInv, NEW o \in Op, Working(o), Harmless(o), Onward(o)
  PROVE  TargetOK(o)'
<1>1. /\ TargetOK(o) /\ UNCHANGED <<kind, orig, svc, specs>>
      /\ kind[o] \in Replacing => kind[o] # "adopt"
  BY DEF WInv, OpOK, Harmless, Replacing
<1>2. CASE kind[o] \in Replacing /\ pc'[o] \in Steps \ (Ended \cup {"resolve"})
  <2>1. pc[o] \in Steps \ (Ended \cup {"resolve"}) \/ (kind[o] = "deploy" /\ pc[o] \in DeploySteps)
    BY <1>2 DEF Onward, StepsOf, Replacing, Steps
  <2>2. pc'[o] \in Renamed \cup Restored \cup Uncommitted
    BY <1>2 DEF Steps, Renamed, Restored, Uncommitted, Preflight, Forward, Backward
  <2>3. pc[o] \in Steps
    BY <1>1, <1>2, <2>2 DEF Onward, Renamed, Restored, Uncommitted, Steps, Preflight, Forward,
       Backward
  <2>4. pc[o] \notin Ended \cup {"resolve"}
    BY <1>2 DEF Onward, Replacing
  <2>5. orig[o] \in ContainerId /\ Exists(orig[o]) /\ OwnedBy(orig[o], svc[o])
    BY <1>1, <1>2, <2>3, <2>4 DEF TargetOK
  <2>6. PICK t \in ContainerId : t = orig[o]
    BY <2>5
  <2>7. Kept(t)
    BY DEF Harmless
  <2>8. /\ pc'[o] \in {"snapshot", "rename"} => containers[t].name = svc[o]
        /\ pc'[o] \in Renamed => containers[t].name = Backup[o]
        /\ pc'[o] \in Restored => containers[t].name \in {svc[o], Backup[o]}
        /\ pc'[o] \in Uncommitted => containers[t].deployment = specs[svc[o]]
    BY <1>1, <1>2, <2>6 DEF TargetOK, Onward
  <2> QED
    BY <1>1, <2>5, <2>6, <2>7, <2>8 DEF TargetOK, Onward, Kept, SameRecord, SameExistence,
       OwnedBy, Exists
<1>3. CASE kind[o] \notin Replacing \/ pc'[o] \notin Steps \ (Ended \cup {"resolve"})
  BY <1>1, <1>3 DEF TargetOK, Onward, Replacing, Steps, Renamed, Restored, Uncommitted,
     Preflight, Forward, Backward, Ended
<1> QED
  BY <1>2, <1>3

LEMMA HarmlessAdopted ==
  ASSUME WInv, NEW o \in Op, Working(o), Harmless(o), Onward(o)
  PROVE  AdoptedOK(o)' /\ ClearedOK(o)'
<1>1. /\ AdoptedOK(o) /\ ClearedOK(o) /\ UNCHANGED <<kind, orig, svc, spawned>>
  BY DEF WInv, OpOK, Harmless
<1>2. \A c \in ContainerId :
        /\ containers'[c].service = containers[c].service
        /\ containers'[c].name = containers[c].name
        /\ Exists(c)' <=> Exists(c)
  BY DEF Harmless, Kept, SameRecord, SameExistence
<1>3. AdoptedOK(o)'
  BY <1>1, <1>2 DEF AdoptedOK, Onward, Working, OwnedBy, Holds
<1>4. ClearedOK(o)'
  BY <1>1, <1>2 DEF ClearedOK, Onward, OwnedBy, Holds
<1> QED
  BY <1>3, <1>4

LEMMA HarmlessFiles ==
  ASSUME WInv, NEW o \in Op, Working(o), Harmless(o), Way(o), Onward(o), pc'[o] # "done"
  PROVE  FilesOK(o)'
<1>1. /\ FilesOK(o) /\ UNCHANGED <<kind, want, svc, specs>>
      /\ pc'[o] \in Filed /\ kind[o] # "deploy" =>
             candidates'[o] = IF pc[o] \in Filing THEN want[o] ELSE candidates[o]
  BY DEF WInv, OpOK, Harmless
<1>2. kind[o] \in {"mutate", "adopt"} /\ pc'[o] \in Filed =>
        pc[o] \in (Filed \ {"launch", "check", "settle"}) \cup {"snapshot"}
  BY WaysFiled DEF Onward, StepsOf, Filed, Steps, Preflight, Forward, Backward, Ended
<1>3. kind[o] = "create" /\ pc'[o] \in Filed => pc[o] \in {"launch", "check", "settle", "stage"}
  BY WaysFiled DEF Onward, StepsOf, Filed, CreationSteps, Ended
<1>4. kind[o] = "mutate" => pc'[o] # "cleanup"
  BY WaysFiled
<1> QED
  BY <1>1, <1>2, <1>3, <1>4 DEF FilesOK, Filed, Filing, Working, Onward, Ended

LEMMA HarmlessBuilt ==
  ASSUME WInv, NEW o \in Op, Working(o), Harmless(o), Way(o), Onward(o), pc'[o] # "done"
  PROVE  BuiltOK(o)'
<1>1. /\ BuiltOK(o) /\ RefersOK(o) /\ UNCHANGED <<kind, want, stdout, spawned>>
      /\ stdout[o] \in ContainerId \cup {NoId} /\ spawned[o] \subseteq ContainerId
      /\ Seen(o)
  BY DEF WInv, OpOK, Harmless, AllTypeOK, ProgressOK
<1>2. \A c \in ContainerId :
        /\ containers'[c].deployment = containers[c].deployment
        /\ Exists(c)' <=> Exists(c)
  BY DEF Harmless, Kept, SameRecord, SameExistence
<1>3. Built(o) => /\ containers'[stdout[o]].life \in Alive /\ stdout[o] # NoId
                  /\ containers'[stdout[o]].deployment = containers[stdout[o]].deployment
  BY <1>1, <1>2 DEF Built, Exists
<1>4. /\ kind[o] \in {"mutate", "adopt"} /\ pc'[o] \in Created => Built(o)
      /\ kind[o] = "mutate" /\ pc'[o] \in {"health", "commit", "cleanup"} => Runs(o) /\ Built(o)
      /\ kind[o] = "deploy" /\ pc'[o] \in {"cleanup", "gone"} => Built(o) /\ Runs(o)
      /\ kind[o] = "create" /\ pc'[o] = "settle" => Built(o) /\ Runs(o)
      /\ kind[o] = "adopt" /\ pc'[o] = "commit" => Built(o) /\
           PortsOf[containers[stdout[o]].deployment] = PortsOf[want[o]]
      /\ kind[o] = "adopt" /\ pc'[o] \in {"verify", "commit"} /\ "drift" \notin Faults =>
           Runs(o) /\ Built(o)
      /\ kind[o] = "deploy" /\ pc'[o] \in {"leftStop", "leftRemove", "leftGone"} => stdout[o] # NoId
  BY <1>1, WaysFiled DEF BuiltOK, Seen, Created
<1>5. kind[o] = "deploy" /\ pc'[o] \in {"prove", "undoStop", "undoRemove"} =>
        \E c \in spawned[o] : Exists(c)'
  BY <1>1, <1>2, WaysFiled DEF BuiltOK
<1>6. kind[o] = "create" /\ pc'[o] = "seek" => spawned[o] = {}
  BY <1>1, WaysFiled DEF RefersOK, Uncreated, Early
<1> QED
  BY <1>1, <1>3, <1>4, <1>5, <1>6 DEF BuiltOK, Built, Runs, Exists

\* A harmless step keeps the invariant.
LEMMA HarmlessKeeps ==
  ASSUME WInv, NEW o \in Op, Working(o), Harmless(o)
  PROVE  Keeps(o)
<1>1. \A c \in ContainerId : Touched(o, c)
  BY DEF Touched, Harmless
<1>2. Gains(o)
  BY DEF Gains, Harmless
<1>3. NamesUnique'
  BY KeptNamesUnique DEF Harmless, WInv
<1>4. /\ SpawnOK(o)'
      /\ \A c \in spawned'[o] : c \in ContainerId /\ AliveOnce(c)'
  BY KeptSpawned DEF Harmless
<1>5. CASE pc'[o] = "done"
  BY <1>1, <1>2, <1>3, <1>4, <1>5, FinishedOK, WorkingNamed DEF Keeps, Harmless
<1>6. CASE pc'[o] # "done"
  <2>1. Way(o)
    BY <1>6 DEF Harmless
  <2>2. Onward(o)
    BY <2>1, WaysOnward
  <2>3. UpkeepOK(o)'
    BY <2>2 DEF Onward, UpkeepOK
  <2>4. OpOK(o)'
    BY <1>4, <1>6, <2>1, <2>2, <2>3, HarmlessRefers, HarmlessTarget, HarmlessAdopted,
       HarmlessFiles, HarmlessBuilt
       DEF OpOK
  <2> QED
    BY <1>1, <1>2, <1>3, <2>4 DEF Keeps
<1> QED
  BY <1>5, <1>6

\* Where control is after a step.
LEMMA Arriving ==
  ASSUME AllTypeOK, NEW o \in Op
  PROVE  /\ \A step : Goto(o, step) => pc'[o] = step
         /\ \A result : Finish(o, result) => pc'[o] = "done" /\ outcome'[o] = result
         /\ PollAgain(o) => pc'[o] = pc[o]
         /\ \A created : EnterRollback(o, created) =>
              pc'[o] = IF created THEN "dropStop" ELSE "restore"
         /\ \A created : Fail(o, created) =>
              /\ pc'[o] = IF created THEN "dropStop" ELSE "restore"
              /\ specs' = specs
         /\ StoreUnchanged => specs' = specs /\ candidates' = candidates
         /\ DiscardCandidateSpec(o) => specs' = specs
BY DEF AllTypeOK, ControlOK, Goto, Finish, PollAgain, EnterRollback, Fail,
   DiscardCandidateSpec, StoreUnchanged

\* The parts of a quiet step.
Still(o) ==
  /\ UNCHANGED <<kind, orig, svc, want, stdout, candidateID, spawned, specs>>
  /\ \A c \in ContainerId : Kept(c)

LEMMA StillContainers ==
  ASSUME UNCHANGED containers
  PROVE  \A c \in ContainerId : Kept(c)
BY StillKeeps

\* What holds of containers that stay as they are.
LEMMA StillHarmless ==
  ASSUME NEW o, Still(o),
         \/ pc'[o] = "done"
         \/ /\ Way(o) /\ Seen(o)
            /\ pc'[o] \in Filed /\ kind[o] # "deploy" =>
                 candidates'[o] = IF pc[o] \in Filing THEN want[o] ELSE candidates[o]
  PROVE  Harmless(o)
BY DEF Still, Harmless

\* The steps that are harmless, procedure by procedure.
LEMMA RollbackHarmless ==
  ASSUME AllTypeOK, NEW o \in Op, UNCHANGED kind, kind[o] \in Quiescing,
         \/ StopCandidate(o) \/ CheckCandidateGone(o) \/ InspectRestored(o)
         \/ RestartOriginal(o) \/ AwaitRestored(o)
  PROVE  Harmless(o)
<1>1. Still(o)
  BY StopKeeps, StartKeeps, StillContainers
     DEF AllTypeOK, StopCandidate, CheckCandidateGone, InspectRestored, RestartOriginal,
         AwaitRestored, Still, storeVars, transaction, progress
<1>2. pc'[o] = "done" \/ Goes(o, RollbackWays)
  BY Arriving DEF AllTypeOK, ControlOK, StopCandidate, CheckCandidateGone, InspectRestored,
     RestartOriginal, AwaitRestored, Goes, RollbackWays
<1>3. Goes(o, RollbackWays) =>
        /\ pc[o] # "verify"
        /\ pc'[o] \notin {"cleanup", "leftStop", "settle", "commit"} \cup Filed
  BY DEF Goes, RollbackWays, Filed
<1> QED
  BY <1>1, <1>2, <1>3, StillHarmless DEF Way, Seen

LEMMA QuiesceHarmless ==
  ASSUME AllTypeOK, NEW o \in Op, UNCHANGED kind, kind[o] \in Quiescing,
         \/ StopOriginal(o)
         \/ AwaitStopped(o)
         \/ ArgumentsFail(o)
  PROVE  Harmless(o)
<1>1. Still(o)
  BY StopKeeps, StillContainers, Arriving
     DEF AllTypeOK, StopOriginal, AwaitStopped, ArgumentsFail, Still, transaction, progress
<1>2. /\ Goes(o, QuiesceWays)
      /\ pc[o] # "verify"
      /\ pc'[o] \in {"stopping", "create"} => candidates' = candidates
      /\ pc'[o] \in {"stopping", "create", "restore"}
      /\ pc[o] \in {"stop", "stopping", "create"}
  BY Arriving DEF AllTypeOK, StopOriginal, AwaitStopped, ArgumentsFail, Goes, QuiesceWays
<1> QED
  BY <1>1, <1>2, StillHarmless DEF Way, Seen, Filed, Filing

LEMMA ProbeHarmless ==
  ASSUME AllTypeOK, NEW o \in Op, UNCHANGED kind, kind[o] \in Quiescing,
         ProbeCandidate(o)
  PROVE  Harmless(o)
<1>1. /\ UNCHANGED <<kind, orig, svc, want, stdout, spawned>>
      /\ \A c \in ContainerId : Kept(c)
  BY StillContainers DEF ProbeCandidate, transaction
<1>2. /\ specs' = specs /\ pc[o] = "probe" /\ pc'[o] \in {"dropStop", "restore"}
      /\ candidateID'[o] = candidateID[o] \/ candidateID'[o] = svc[o]
  BY Arriving DEF AllTypeOK, ProgressOK, ProbeCandidate
<1>3. Goes(o, QuiesceWays) /\ Seen(o) /\ pc'[o] \notin Filed
  BY <1>2 DEF Goes, QuiesceWays, Seen, Filed
<1> QED
  BY <1>1, <1>2, <1>3 DEF Harmless, Way

LEMMA MutationHarmless ==
  ASSUME WInv, NEW o \in Op, UNCHANGED kind, kind[o] = "mutate",
         \/ CreateFails(o) \/ VerifyReplacement(o) \/ CheckHealth(o)
         \/ Snapshot(o)
         \/ Commit(o) /\ pc'[o] # "cleanup"
  PROVE  Harmless(o)
<1>1. AllTypeOK /\ BuiltOK(o) /\ kind[o] \in Quiescing
  BY DEF WInv, OpOK, Quiescing
<1>2. Still(o)
  BY <1>1, StillContainers, Arriving
     DEF CreateFails, PodmanCreateFails, FailsCleanly, VerifyReplacement, CheckHealth,
         Snapshot, WriteCandidateSpec, Commit, Still, transaction, progress, storeVars
<1>3. CASE CreateFails(o)
  <2>1. Goes(o, QuiesceWays) /\ Seen(o) /\ pc'[o] \notin Filed
    BY <1>1, <1>3, Arriving DEF CreateFails, Goes, QuiesceWays, Seen, Filed
  <2> QED
    BY <1>1, <1>2, <2>1, StillHarmless DEF Way
<1>4. CASE VerifyReplacement(o)
  <2>1. Goes(o, QuiesceWays) \/ Goes(o, MutationWays)
    BY <1>1, <1>4, Arriving DEF VerifyReplacement, Goes, QuiesceWays, MutationWays
  <2>2. Seen(o)
    BY <1>1, <1>4, Arriving DEF VerifyReplacement, Seen, Matches, Runs
  <2>3. /\ pc[o] \notin Filing
        /\ pc'[o] \in Filed => candidates' = candidates
    BY <1>1, <1>4, Arriving DEF VerifyReplacement, Filed, Filing
  <2> QED
    BY <1>1, <1>2, <2>1, <2>2, <2>3, StillHarmless DEF Way
<1>5. CASE CheckHealth(o) \/ (Commit(o) /\ pc'[o] # "cleanup")
  <2>1. Goes(o, MutationWays) /\ pc[o] \in {"health", "commit"}
    BY <1>1, <1>5, Arriving DEF CheckHealth, Commit, Goes, MutationWays
  <2>2. Seen(o)
    BY <1>1, <1>5, <2>1, Arriving DEF CheckHealth, Commit, Seen
  <2>3. /\ pc[o] \notin Filing
        /\ pc'[o] \in Filed => candidates' = candidates
    BY <1>1, <1>5, Arriving DEF CheckHealth, Commit, Filed, Filing
  <2> QED
    BY <1>1, <1>2, <2>1, <2>2, <2>3, StillHarmless DEF Way
<1>6. CASE Snapshot(o)
  <2>1. pc'[o] = "done" \/ (pc'[o] = "rename" /\ candidates'[o] = want[o])
    BY <1>1, <1>6, Arriving DEF Snapshot, WriteCandidateSpec, AllTypeOK, StoreTypeOK
  <2>2. pc[o] = "snapshot"
    BY <1>6 DEF Snapshot
  <2> QED
    BY <1>1, <1>2, <2>1, <2>2, StillHarmless DEF Way, Goes, MutationWays, Seen, Filing
<1> QED
  BY <1>3, <1>4, <1>5, <1>6

\* A creation that leaves nothing behind.
CreateFailsQuietly(o) ==
  /\ PodmanCreateFails(svc[o])
  /\ UNCHANGED progress

LEMMA DeployHarmless ==
  ASSUME WInv, NEW o \in Op, UNCHANGED kind, kind[o] = "deploy",
         \/ LookForLeftover(o) \/ StopLeftover(o) \/ AwaitLeftoverGone(o) \/ ProveNew(o)
         \/ UndoStop(o) \/ AwaitUndone(o) \/ AwaitHalted(o) \/ TraceCandidate(o)
         \/ ProveReplacement(o) \/ AwaitRetired(o)
         \/ (RunNew(o) \/ Recreate(o)) /\ CreateFailsQuietly(o)
            /\ pc'[o] \in {"leftover", "probe"}
  PROVE  Harmless(o)
<1>1. AllTypeOK /\ HostTypeOK
  BY DEF WInv, AllTypeOK
<1>2. Still(o)
  BY <1>1, StillContainers, StopKeeps
     DEF LookForLeftover, StopLeftover, AwaitLeftoverGone, ProveNew, UndoStop, AwaitUndone,
         AwaitHalted, TraceCandidate, ProveReplacement, AwaitRetired, StopBy, AwaitAbsent,
         RunNew, Recreate, Creates, CreateFailsQuietly, PodmanCreateFails, FailsCleanly,
         Still, storeVars, transaction, progress
<1>3. \/ pc'[o] = "done"
      \/ Goes(o, DeployWays) \/ Goes(o, QuiesceWays)
  <2>1. CASE LookForLeftover(o) \/ ProveNew(o)
    BY <1>1, <2>1, Arriving DEF LookForLeftover, ProveNew, Goes, DeployWays
  <2>2. CASE StopLeftover(o) \/ UndoStop(o)
    BY <1>1, <2>2, Arriving DEF StopLeftover, UndoStop, StopBy, Goes, DeployWays
  <2>3. CASE AwaitLeftoverGone(o) \/ AwaitUndone(o) \/ AwaitRetired(o)
    BY <1>1, <2>3, Arriving DEF AwaitLeftoverGone, AwaitUndone, AwaitRetired, AwaitAbsent,
       Goes, DeployWays
  <2>4. CASE AwaitHalted(o) \/ TraceCandidate(o)
    BY <1>1, <2>4, Arriving DEF AwaitHalted, TraceCandidate, Goes, QuiesceWays
  <2>5. CASE ProveReplacement(o)
    BY <1>1, <2>5, Arriving DEF ProveReplacement, Goes, DeployWays, QuiesceWays
  <2>6. CASE (RunNew(o) \/ Recreate(o)) /\ pc'[o] \in {"leftover", "probe"}
    <3>1. CASE pc[o] = "run" /\ pc'[o] \in {"prove", "leftover"}
      BY <2>6, <3>1 DEF Goes, DeployWays
    <3>2. CASE pc[o] = "create" /\ pc'[o] \in {"verify", "probe"}
      BY <2>6, <3>2 DEF Goes, QuiesceWays
    <3> QED
      BY <1>1, <2>6, <3>1, <3>2, Arriving DEF RunNew, Recreate, Creates
  <2> QED
    BY <2>1, <2>2, <2>3, <2>4, <2>5, <2>6
<1>4. /\ pc'[o] = "cleanup" => Built(o) /\ Runs(o)
      /\ pc'[o] = "leftStop" => stdout[o] # NoId
  BY <1>1, Arriving
     DEF LookForLeftover, StopLeftover, AwaitLeftoverGone, ProveNew, UndoStop, AwaitUndone,
         AwaitHalted, TraceCandidate, ProveReplacement, AwaitRetired, StopBy, AwaitAbsent,
         RunNew, Recreate, Deployed, Matches, Built, Runs
<1> QED
  BY <1>2, <1>3, <1>4, StillHarmless DEF Way, Seen, Quiescing

LEMMA AdoptHarmless ==
  ASSUME WInv, NEW o \in Op, UNCHANGED kind, kind[o] = "adopt",
         \/ ReviewTarget(o) \/ Snapshot(o) \/ VerifyReplica(o)
         \/ CommitAdoption(o) /\ pc'[o] # "done"
         \/ Reproduce(o) /\ CreateFailsQuietly(o) /\ pc'[o] = "probe"
  PROVE  Harmless(o)
<1>1. AllTypeOK /\ BuiltOK(o) /\ SpawnOK(o) /\ kind[o] \in Quiescing
  BY DEF WInv, OpOK, Quiescing
<1>2. Still(o)
  BY <1>1, StillContainers, Arriving
     DEF ReviewTarget, Snapshot, VerifyReplica, CommitAdoption, Reproduce,
         CreateFailsQuietly, PodmanCreateFails, FailsCleanly, WriteCandidateSpec,
         Still, storeVars, transaction, progress
<1>3. CASE ReviewTarget(o)
  <2>1. pc'[o] = "done" \/ (Goes(o, AdoptWays) /\ Seen(o) /\ pc'[o] \notin Filed)
    BY <1>1, <1>3, Arriving DEF ReviewTarget, Goes, AdoptWays, Seen, Filed
  <2> QED
    BY <1>1, <1>2, <2>1, StillHarmless DEF Way
<1>4. CASE Snapshot(o)
  <2>1. pc'[o] = "done" \/ (pc'[o] = "rename" /\ candidates'[o] = want[o])
    BY <1>1, <1>4, Arriving DEF Snapshot, WriteCandidateSpec, AllTypeOK, StoreTypeOK
  <2>2. pc[o] = "snapshot"
    BY <1>4 DEF Snapshot
  <2> QED
    BY <1>1, <1>2, <2>1, <2>2, StillHarmless DEF Way, Goes, AdoptWays, Seen, Filing
<1>5. CASE VerifyReplica(o)
  <2>1. Goes(o, AdoptWays) \/ Goes(o, QuiesceWays)
    BY <1>1, <1>5, Arriving DEF VerifyReplica, Goes, AdoptWays, QuiesceWays
  <2>2. /\ pc[o] \notin Filing
        /\ pc'[o] \in Filed => candidates' = candidates
    BY <1>1, <1>5, Arriving DEF VerifyReplica, Filed, Filing
  <2>3. ASSUME pc'[o] = "commit"
        PROVE  PortsOf[containers[stdout[o]].deployment] = PortsOf[want[o]]
    <3>1. PICK c \in ContainerId : Replica(o, c) /\ Faithful(o, c)
      BY <1>1, <1>5, <2>3, Arriving DEF VerifyReplica
    <3>2. pc[o] = "verify" /\ Built(o)
      BY <1>1, <1>5 DEF VerifyReplica, BuiltOK, Created
    <3>3. stdout[o] \in ContainerId /\ Found(stdout[o])
      BY <1>1, <3>2 DEF Built, Found, Refers, AllTypeOK, ProgressOK
    <3>4. c = stdout[o]
      BY <1>1, <3>1, <3>3, ExistingTyped, NamesDistinct DEF Replica, Refers, AllTypeOK
    <3> QED
      BY <3>1, <3>4 DEF Faithful
  <2> QED
    BY <1>1, <1>2, <2>1, <2>2, <2>3, StillHarmless DEF Way, Seen
<1>6. CASE CommitAdoption(o) /\ pc'[o] # "done"
  <2>1. Goes(o, AdoptWays) /\ pc[o] = "commit" /\ pc'[o] = "dropStop"
    BY <1>1, <1>6, Arriving DEF CommitAdoption, Goes, AdoptWays
  <2> QED
    BY <1>1, <1>2, <2>1, StillHarmless DEF Way, Seen, Filed
<1>7. CASE Reproduce(o) /\ CreateFailsQuietly(o) /\ pc'[o] = "probe"
  <2>1. Goes(o, QuiesceWays)
    BY <1>7 DEF Reproduce, Goes, QuiesceWays
  <2> QED
    BY <1>1, <1>2, <1>7, <2>1, StillHarmless DEF Way, Seen, Filed
<1> QED
  BY <1>3, <1>4, <1>5, <1>6, <1>7

LEMMA CreateHarmless ==
  ASSUME WInv, NEW o \in Op, UNCHANGED kind, kind[o] = "create",
         \/ StageCandidate(o) \/ SeekLeftover(o) \/ CheckCreated(o)
         \/ AwaitCleared(o)
         \/ CommitCreated(o) /\ pc'[o] # "done"
         \/ (CreatePlain(o) \/ CreateManaged(o)) /\ CreateFailsQuietly(o)
            /\ pc'[o] \in {"done", "seek"}
  PROVE  Harmless(o)
<1>1. AllTypeOK
  BY DEF WInv
<1>2. Still(o)
  BY <1>1, StillContainers, Arriving
     DEF StageCandidate, SeekLeftover, CheckCreated, AwaitCleared, CommitCreated,
         CreatePlain, CreateManaged,
         CreateFailsQuietly, PodmanCreateFails, FailsCleanly, WriteCandidateSpec,
         Still, storeVars, transaction, progress
<1>3. pc'[o] = "done" \/ Goes(o, CreateWays)
  BY <1>1, Arriving
     DEF StageCandidate, SeekLeftover, CheckCreated, AwaitCleared, CommitCreated,
         CreatePlain, CreateManaged, Goes, CreateWays
<1>4. Seen(o)
  BY <1>1, Arriving
     DEF StageCandidate, SeekLeftover, CheckCreated, AwaitCleared, CommitCreated,
         CreatePlain, CreateManaged, Seen, Verified, Matches, Built, Runs
<1>5. pc'[o] \in Filed => candidates'[o] = IF pc[o] \in Filing THEN want[o] ELSE candidates[o]
  BY <1>1, Arriving
     DEF StageCandidate, SeekLeftover, CheckCreated, AwaitCleared, CommitCreated,
         CreatePlain, CreateManaged, WriteCandidateSpec, Filed, Filing, AllTypeOK, StoreTypeOK,
         storeVars
<1> QED
  BY <1>2, <1>3, <1>4, <1>5, StillHarmless DEF Way

-------------------------------------------------------------------------------
(* The steps that take the target.                                         *)

\* A mutation finds its target and the spec that describes it.
LEMMA ResolveKeepsOp ==
  ASSUME WInv, NEW o \in Op, UNCHANGED kind, kind[o] = "mutate", Resolve(o)
  PROVE  Keeps(o)
<1>1. /\ AllTypeOK /\ OpOK(o) /\ pc[o] = "resolve" /\ Working(o)
      /\ UNCHANGED <<containers, kind, orig, svc, want, stdout, candidateID, spawned, specs>>
      /\ \A c \in ContainerId : Kept(c)
  BY StillKeeps DEF WInv, Resolve, Working, Ended, storeVars, transaction, progress
<1>2. CASE pc'[o] = "done"
  BY <1>1, <1>2, HarmlessKeeps DEF Harmless
<1>3. CASE Authoritative(o) /\ pc'[o] = "snapshot"
  <2>1. PICK t \in ContainerId : t = orig[o]
    BY <1>1, <1>3 DEF OpOK, TargetOK, Authoritative
  <2>2. /\ svc[o] \in Name /\ spawned[o] = {} /\ stdout[o] = NoId /\ candidateID[o] = NoId
        /\ Exists(t) /\ containers[t].name = svc[o] /\ containers[t].service = svc[o]
        /\ specs[svc[o]] = containers[t].deployment
    BY <1>1, <1>3, <2>1 DEF OpOK, TargetOK, RefersOK, Authoritative, Holds, Uncreated, Early,
       Preflight
  <2>3. RefersOK(o)'
    BY <1>1, <1>3, <2>1, <2>2, AliveFacts
       DEF OpOK, RefersOK, StepsOf, Steps, Preflight, AliveOnce, AllTypeOK
  <2>4. TargetOK(o)'
    BY <1>1, <1>3, <2>1, <2>2 DEF TargetOK, OwnedBy, Exists, Renamed, Restored, Forward,
       Backward
  <2>5. /\ SpawnOK(o)' /\ AdoptedOK(o)' /\ ClearedOK(o)' /\ FilesOK(o)' /\ BuiltOK(o)'
        /\ UpkeepOK(o)'
    BY <1>1, <1>3, <2>2 DEF SpawnOK, AdoptedOK, ClearedOK, FilesOK, BuiltOK, UpkeepOK, Renamed,
       Forward, Created
  <2> QED
    BY <1>1, <2>3, <2>4, <2>5, KeptNamesUnique DEF Keeps, OpOK, Touched, Gains, WInv
<1> QED
  BY <1>1, <1>2, <1>3, Arriving DEF Resolve

\* A deployment finds the container to replace, or none.
LEMMA SurveyKeeps ==
  ASSUME WInv, NEW o \in Op, UNCHANGED kind, kind[o] = "deploy", Survey(o)
  PROVE  Keeps(o)
<1>1. /\ AllTypeOK /\ OpOK(o) /\ pc[o] = "survey" /\ Working(o)
      /\ UNCHANGED <<containers, kind, svc, want, stdout, candidateID, spawned, specs>>
      /\ \A c \in ContainerId : Kept(c) /\ Touched(o, c)
      /\ NamesUnique'
  BY StillKeeps DEF WInv, Survey, Working, Ended, storeVars, progress, Touched
<1>2. /\ svc[o] \in Name /\ spawned[o] = {} /\ stdout[o] = NoId /\ candidateID[o] = NoId
      /\ specs[svc[o]] = want[o]
  BY <1>1 DEF OpOK, RefersOK, FilesOK, Uncreated, Early
<1>3. CASE pc'[o] = "done" /\ UNCHANGED orig
  BY <1>1, <1>3, HarmlessKeeps DEF Harmless
<1>4. CASE ~Taken(svc[o]) /\ pc'[o] = "run" /\ UNCHANGED orig
  <2>1. RefersOK(o)'
    BY <1>1, <1>2, <1>4 DEF OpOK, RefersOK, StepsOf, DeploySteps, AliveOnce
  <2>2. /\ SpawnOK(o)' /\ TargetOK(o)' /\ AdoptedOK(o)' /\ ClearedOK(o)' /\ FilesOK(o)'
        /\ BuiltOK(o)' /\ UpkeepOK(o)'
    BY <1>1, <1>2, <1>4 DEF SpawnOK, TargetOK, AdoptedOK, ClearedOK, FilesOK, BuiltOK, UpkeepOK,
       Renamed, Restored, Uncommitted, Preflight, Forward, Backward, Created, Steps, Taken,
       Holds, Exists
  <2> QED
    BY <1>1, <1>4, <2>1, <2>2 DEF Keeps, OpOK, Gains
<1>5. CASE \E c \in ContainerId : /\ Replaceable(o, c) /\ pc'[o] = "rename"
                                  /\ orig' = [orig EXCEPT ![o] = c]
  <2>1. PICK t \in ContainerId : /\ Replaceable(o, t) /\ orig' = [orig EXCEPT ![o] = t]
    BY <1>5
  <2>2. orig'[o] = t
    BY <1>1, <2>1 DEF AllTypeOK, MemoryOK
  <2>3. /\ Exists(t) /\ containers[t].name = svc[o] /\ containers[t].service = svc[o]
        /\ containers[t].deployment = specs[svc[o]] /\ AliveOnce(t)
    BY <1>1, <1>2, <2>1, AliveFacts DEF Replaceable, Holds, AllTypeOK
  <2>4. RefersOK(o)'
    BY <1>1, <1>2, <1>5, <2>2, <2>3 DEF OpOK, RefersOK, StepsOf, Steps, Preflight, AliveOnce
  <2>5. TargetOK(o)'
    BY <1>1, <1>5, <2>2, <2>3 DEF TargetOK, OwnedBy, Exists, Renamed, Restored, Forward,
       Backward
  <2>6. /\ SpawnOK(o)' /\ AdoptedOK(o)' /\ ClearedOK(o)' /\ FilesOK(o)' /\ BuiltOK(o)'
        /\ UpkeepOK(o)'
    BY <1>1, <1>2, <1>5 DEF SpawnOK, AdoptedOK, ClearedOK, FilesOK, BuiltOK, UpkeepOK, Renamed,
       Forward, Created, DeploySteps
  <2>7. Gains(o)
    BY <1>1, <1>2, <2>2, <2>3 DEF Gains, Exists, OwnedBy
  <2> QED
    BY <1>1, <2>4, <2>5, <2>6, <2>7 DEF Keeps, OpOK
<1> QED
  BY <1>1, <1>3, <1>4, <1>5, Arriving DEF Survey

-------------------------------------------------------------------------------
(* The two renames.                                                        *)

\* A rename that reports success leaves its old name free.
LEMMA RenameFrees ==
  ASSUME HostTypeOK, NamesUnique, NEW from \in ContainerName, NEW to \in ContainerName, from # to,
         PodmanRename(from, to, TRUE)
  PROVE  \A c \in ContainerId : ~(Exists(c)' /\ containers'[c].name = from)
<1>1. \A c \in ContainerId :
        /\ ~Holds(c, from) => Kept(c)
        /\ Holds(c, from) => Holds(c, to)'
  BY RenameFacts
<1> QED
  BY <1>1 DEF Kept, SameRecord, SameExistence, Holds

\* The original goes aside under its backup's name.
LEMMA RenameAwayKeepsOp ==
  ASSUME WInv, NEW o \in Op, UNCHANGED kind, kind[o] \in Quiescing, RenameAway(o)
  PROVE  Keeps(o)
<1>1. /\ AllTypeOK /\ HostTypeOK /\ NamesUnique /\ OpOK(o) /\ pc[o] = "rename" /\ Working(o)
      /\ UNCHANGED <<kind, orig, svc, want, stdout, candidateID, spawned, specs>>
  BY Arriving DEF WInv, AllTypeOK, RenameAway, Working, Ended, StoreUnchanged,
     DiscardCandidateSpec,
     transaction, progress
<1>2. /\ svc[o] \in Name /\ spawned[o] = {} /\ stdout[o] = NoId /\ candidateID[o] = NoId
      /\ orig[o] \in ContainerId /\ AliveOnce(orig[o])
      /\ svc[o] \in ContainerName /\ Backup[o] \in ContainerName /\ svc[o] # Backup[o]
  BY <1>1, NamesDistinct DEF OpOK, RefersOK, Uncreated, Early, Preflight, TargetOK, AdoptedOK,
     Steps, Ended,
     Quiescing, Replacing, ContainerName
<1>3. PICK t \in ContainerId : t = orig[o]
  BY <1>2
<1>4. PICK ok \in BOOLEAN :
        /\ PodmanRename(svc[o], Backup[o], ok)
        /\ \/ ok /\ pc'[o] \in {"stop", "create"} /\ UNCHANGED candidates
           \/ ~ok /\ pc'[o] = "done"
  BY <1>1, Arriving DEF RenameAway
<1>5. /\ NamesUnique'
      /\ \A c \in ContainerId : ~Holds(c, svc[o]) => Kept(c)
      /\ \A c \in ContainerId :
           /\ SameExistence(c)
           /\ containers'[c].service = containers[c].service
           /\ containers'[c].deployment = containers[c].deployment
           /\ containers'[c].name \in {containers[c].name, Backup[o]}
      /\ ok => \A c \in ContainerId : Holds(c, svc[o]) => Holds(c, Backup[o])'
  BY <1>1, <1>2, <1>4, RenameFacts
<1>6. \A c \in ContainerId : Holds(c, svc[o]) =>
        c = orig[o] \/ (kind[o] = "adopt" /\ OwnedBy(c, Unmanaged))
  BY <1>1, <1>2 DEF OpOK, TargetOK, AdoptedOK, Preflight, Steps, Ended, Replacing, Quiescing,
     NamesUnique, Holds
<1>7. \A c \in ContainerId : Touched(o, c)
  <2>1. ASSUME NEW c \in ContainerId, Holds(c, svc[o])  PROVE Touched(o, c)
    <3>1. CASE containers'[c].name = Backup[o]
      BY <1>1, <1>2, <1>5, <1>6, <2>1, <3>1 DEF Touched, Holds, SameExistence, Exists
    <3>2. CASE containers'[c].name = containers[c].name
      BY <1>1, <1>5, <3>2 DEF Touched, Kept, SameRecord, SameExistence
    <3> QED
      BY <1>5, <3>1, <3>2
  <2> QED
    BY <1>5, <2>1 DEF Touched
<1>8. Gains(o)
  BY <1>1 DEF Gains
<1>9. CASE pc'[o] = "done"
  BY <1>1, <1>2, <1>5, <1>7, <1>8, <1>9, FinishedOK DEF Keeps, Quiescing
<1>10. CASE ok /\ pc'[o] \in {"stop", "create"} /\ UNCHANGED candidates
  <2>1. AliveOnce(t)'
    BY <1>1, <1>2, <1>3, <1>7, LabelsLast, OwnNames
  <2>2. RefersOK(o)'
    BY <1>1, <1>2, <1>3, <1>10, <2>1 DEF OpOK, RefersOK, StepsOf, Steps, Forward, AliveOnce,
       Quiescing, Ended
  <2>3. TargetOK(o)'
    <3>1. kind[o] \in Replacing =>
            /\ Holds(t, svc[o]) /\ OwnedBy(t, svc[o]) /\ containers[t].deployment = specs[svc[o]]
      BY <1>1, <1>3 DEF OpOK, TargetOK, Steps, Preflight, Ended, Uncommitted, Holds
    <3>2. kind[o] \in Replacing =>
            /\ Exists(t)' /\ containers'[t].name = Backup[o] /\ containers'[t].service = svc[o]
            /\ containers'[t].deployment = specs[svc[o]]
      BY <1>5, <1>10, <3>1 DEF Holds, OwnedBy
    <3> QED
      BY <1>1, <1>2, <1>3, <1>10, <3>2 DEF TargetOK, OwnedBy, Exists, Restored
  <2>4. AdoptedOK(o)'
    BY <1>1, <1>2, <1>5, <1>10 DEF OpOK, AdoptedOK, OwnedBy, Preflight
  <2>5. ClearedOK(o)'
    BY <1>1, <1>2, <1>4, <1>10, RenameFrees DEF ClearedOK, Holds
  <2>6. FilesOK(o)' /\ SpawnOK(o)' /\ BuiltOK(o)' /\ UpkeepOK(o)'
    BY <1>1, <1>2, <1>10 DEF OpOK, FilesOK, SpawnOK, BuiltOK, UpkeepOK, Created, Working, Ended
  <2> QED
    BY <1>5, <1>7, <1>8, <2>2, <2>3, <2>4, <2>5, <2>6 DEF Keeps, OpOK
<1> QED
  BY <1>4, <1>9, <1>10

\* The rollback gives the original its name back.
LEMMA RestoreNameKeepsOp ==
  ASSUME WInv, NEW o \in Op, UNCHANGED kind, kind[o] \in Quiescing, RestoreName(o)
  PROVE  Keeps(o)
<1>1. /\ AllTypeOK /\ HostTypeOK /\ NamesUnique /\ OpOK(o) /\ pc[o] = "restore" /\ Working(o)
      /\ UNCHANGED <<kind, orig, svc, want, stdout, candidateID, spawned, specs, candidates>>
      /\ pc'[o] = "inspect"
  BY Arriving DEF WInv, AllTypeOK, RestoreName, Working, Ended, storeVars,
     transaction, progress
<1>2. /\ orig[o] \in ContainerId /\ AliveOnce(orig[o]) /\ svc[o] \in Name
      /\ svc[o] \in ContainerName /\ Backup[o] \in ContainerName /\ svc[o] # Backup[o]
  BY <1>1, NamesDistinct DEF OpOK, RefersOK, TargetOK, AdoptedOK, Steps, Ended, Backward,
     Forward,
     Quiescing, Replacing, ContainerName
<1>3. PICK t \in ContainerId : t = orig[o]
  BY <1>2
<1>4. PICK ok \in BOOLEAN : PodmanRename(Backup[o], svc[o], ok)
  BY DEF RestoreName
<1>5. /\ NamesUnique'
      /\ \A c \in ContainerId : ~Holds(c, Backup[o]) => Kept(c)
      /\ \A c \in ContainerId :
           /\ SameExistence(c)
           /\ containers'[c].service = containers[c].service
           /\ containers'[c].deployment = containers[c].deployment
           /\ containers'[c].name \in {containers[c].name, svc[o]}
  BY <1>1, <1>2, <1>4, RenameFacts
<1>6. \A c \in ContainerId : Holds(c, Backup[o]) => c = orig[o] \/ OwnedBy(c, Unmanaged)
  <2>1. CASE kind[o] = "adopt"
    BY <2>1 DEF WInv, BackupsOK, Replacing
  <2>2. CASE kind[o] \in Replacing
    BY <1>1, <1>2, <2>2 DEF OpOK, TargetOK, Renamed, Forward, Steps, Ended, Backward,
       NamesUnique, Holds
  <2> QED
    BY <2>1, <2>2 DEF Quiescing, Replacing
<1>7. \A c \in ContainerId : Touched(o, c)
  <2>1. ASSUME NEW c \in ContainerId, Holds(c, Backup[o])  PROVE Touched(o, c)
    <3>1. CASE containers'[c].name = svc[o]
      BY <1>1, <1>2, <1>5, <1>6, <2>1, <3>1 DEF Touched, Holds, SameExistence, Exists
    <3>2. CASE containers'[c].name = containers[c].name
      BY <1>1, <1>5, <3>2 DEF Touched, Kept, SameRecord, SameExistence
    <3> QED
      BY <1>5, <3>1, <3>2
  <2> QED
    BY <1>5, <2>1 DEF Touched
<1>8. Gains(o)
  BY <1>1 DEF Gains
<1>9. AliveOnce(t)' /\ \A c \in spawned[o] : AliveOnce(c)' /\ c \in ContainerId
  BY <1>1, <1>2, <1>3, <1>7, LabelsLast, OwnNames DEF OpOK, RefersOK, AllTypeOK, ProgressOK
<1>10. RefersOK(o)'
  BY <1>1, <1>2, <1>3, <1>9 DEF OpOK, RefersOK, StepsOf, Steps, Backward, AliveOnce,
     Quiescing, Ended, Uncreated, Early, Preflight, UpkeepSteps
<1>11. SpawnOK(o)'
  BY <1>1, <1>2, <1>5, <1>9 DEF OpOK, SpawnOK, OwnedBy, Holds, Kept, SameRecord, SameExistence,
     Working
<1>12. TargetOK(o)'
  <2>1. kind[o] \in Replacing =>
          /\ Exists(t) /\ OwnedBy(t, svc[o]) /\ containers[t].deployment = specs[svc[o]]
          /\ containers[t].name = Backup[o]
    BY <1>1, <1>3 DEF OpOK, TargetOK, Steps, Preflight, Forward, Backward, Ended, Uncommitted,
       Renamed
  <2>2. kind[o] \in Replacing =>
          /\ Exists(t)' /\ containers'[t].name \in {svc[o], Backup[o]}
          /\ containers'[t].service = svc[o]
          /\ containers'[t].deployment = specs[svc[o]]
    BY <1>5, <2>1 DEF OwnedBy, SameExistence
  <2> QED
    BY <1>1, <1>2, <1>3, <2>2 DEF TargetOK, OwnedBy, Exists, Renamed, Forward
<1>13. AdoptedOK(o)'
  BY <1>1, <1>2, <1>5 DEF OpOK, AdoptedOK, OwnedBy, Preflight
<1>14. ClearedOK(o)' /\ FilesOK(o)' /\ BuiltOK(o)' /\ UpkeepOK(o)'
  BY <1>1 DEF OpOK, ClearedOK, FilesOK, BuiltOK, UpkeepOK, Created, Working, Renamed, Forward,
     DeploySteps
<1> QED
  BY <1>5, <1>7, <1>8, <1>10, <1>11, <1>12, <1>13, <1>14 DEF Keeps, OpOK

-------------------------------------------------------------------------------
(* Creations.                                                              *)

\* Operation o creates container c for its service, and takes note of it.
Makes(o, c) ==
  /\ pc[o] \in Uncreated \ {"idle"}
  /\ svc[o] \in Name
  /\ \E l \in {"running", "stopped"}, ok \in BOOLEAN :
       PodmanCreate(c, svc[o], svc[o], want[o], l, ok)
  /\ UNCHANGED <<kind, orig, svc, want, specs>>
  /\ stdout'[o] \in {c, NoId}
  /\ candidateID'[o] \in {c, NoId}
  /\ spawned'[o] = {c}

\* Where that leads.
MakeWay(o, c) ==
  \/ kind[o] \in Quiescing /\ pc[o] = "create" /\ pc'[o] \in {"verify", "probe", "restore"}
  \/ kind[o] = "deploy" /\ pc[o] = "run" /\ pc'[o] \in {"prove", "leftover"}
  \/ kind[o] = "create" /\ pc[o] = "launch" /\ pc'[o] \in {"check", "seek"}

\* What the operation notes of what it made.
MakeNotes(o, c) ==
  /\ kind[o] \in {"mutate", "adopt"} /\ pc'[o] = "verify" => stdout'[o] = c
  /\ pc'[o] \in {"verify", "check"} /\ kind[o] # "deploy" => UNCHANGED candidates
  /\ pc'[o] = "seek" => "create" \in LateFaults

\* A creation keeps the invariant.
LEMMA MakesKeeps ==
  ASSUME WInv, NEW o \in Op, Working(o), NEW c \in ContainerId, Makes(o, c), MakeWay(o, c),
         MakeNotes(o, c)
  PROVE  Keeps(o)
<1>1. /\ AllTypeOK /\ HostTypeOK /\ NamesUnique /\ OpOK(o)
      /\ UNCHANGED <<kind, orig, svc, want, specs>>
      /\ svc[o] \in Name /\ svc[o] \in ContainerName /\ c # NoId
      /\ spawned[o] = {} /\ orig[o] \in ContainerId \cup {NoId}
  BY NamesDistinct DEF WInv, AllTypeOK, MemoryOK, Makes, ContainerName, OpOK, RefersOK
<1>2. PICK l \in {"running", "stopped"}, ok \in BOOLEAN :
        PodmanCreate(c, svc[o], svc[o], want[o], l, ok)
  BY DEF Makes
<1>3. /\ NamesUnique'
      /\ \A d \in ContainerId : d # c => Kept(d) /\ containers'[d] = containers[d]
      /\ containers[c] = Unborn
      /\ containers'[c].name = svc[o]
      /\ containers'[c].service = svc[o]
      /\ containers'[c].deployment = want[o] \/ "drift" \in Faults
      /\ Exists(c)'
  <2>1. NamesUnique' /\ Made(c, svc[o], svc[o], want[o])
    BY <1>1, <1>2, CreationFacts
  <2> QED
    BY <2>1 DEF Made
<1>4. ~AliveOnce(c) /\ AliveOnce(c)'
  BY <1>1, <1>3, NamesDistinct DEF AliveOnce, Unborn
<1>5. \A d \in ContainerId : Touched(o, d)
  BY <1>1, <1>3, <1>4 DEF Touched, Makes, MakeWay
<1>6. Gains(o)
  BY <1>1, <1>4 DEF Gains, Makes
<1>7. orig[o] # c
  BY <1>1, <1>4, NamesDistinct DEF OpOK, RefersOK
<1>8. orig[o] # NoId => containers'[orig[o]].name # NoId
  BY <1>1, <1>3, <1>7 DEF OpOK, RefersOK, AliveOnce
<1>9. RefersOK(o)'
  BY <1>1, <1>4, <1>8 DEF OpOK, RefersOK, MakeWay, Makes, StepsOf, Steps, DeploySteps,
     CreationSteps,
     Forward, Backward, Quiescing, Uncreated, Early, Preflight, UpkeepSteps, AliveOnce
<1>10. SpawnOK(o)'
  BY <1>1, <1>3, <1>7 DEF SpawnOK, Makes, OwnedBy
<1>11. TargetOK(o)'
  <2>1. CASE kind[o] \in Replacing /\ pc[o] = "create"
    <3>1. PICK t \in ContainerId : t = orig[o]
      BY <1>1, <2>1 DEF OpOK, TargetOK, Steps, Forward, Ended
    <3>2. /\ Exists(t) /\ OwnedBy(t, svc[o]) /\ containers[t].deployment = specs[svc[o]]
          /\ containers[t].name = Backup[o]
      BY <1>1, <2>1, <3>1 DEF OpOK, TargetOK, Steps, Forward, Ended, Uncommitted, Renamed
    <3>3. Exists(t)' /\ containers'[t] = containers[t]
      BY <1>3, <1>7, <3>1, <3>2 DEF Kept, SameExistence
    <3> QED
      BY <1>1, <2>1, <3>1, <3>2, <3>3 DEF TargetOK, MakeWay, OwnedBy, Exists, Restored
  <2>2. CASE ~(kind[o] \in Replacing /\ pc[o] = "create")
    BY <1>1, <2>2 DEF TargetOK, MakeWay, Replacing, Quiescing, Steps, Preflight, Forward,
       Backward,
       Ended, Renamed, Restored, Uncommitted
  <2> QED
    BY <2>1, <2>2
<1>12. AdoptedOK(o)'
  <2>1. kind[o] = "adopt" => orig[o] \in ContainerId /\ containers'[orig[o]].service = Unmanaged
    BY <1>1, <1>3, <1>7 DEF OpOK, AdoptedOK, OwnedBy
  <2> QED
    BY <1>1, <2>1 DEF AdoptedOK, OwnedBy, MakeWay, Preflight
<1>13. ClearedOK(o)'
  <2>1. \/ kind[o] \in Quiescing /\ pc[o] \in Renamed
        \/ kind[o] = "deploy" /\ pc[o] \in DeploySteps \ {"survey"}
        \/ kind[o] = "create"
    BY DEF MakeWay, Renamed, Forward, DeploySteps
  <2> QED
    BY <1>1, <1>3, <2>1
       DEF OpOK, ClearedOK, Makes, Holds, OwnedBy, Kept, SameRecord, SameExistence, Quiescing
<1>14. FilesOK(o)'
  BY <1>1 DEF OpOK, FilesOK, MakeWay, MakeNotes, Working, Quiescing, Ended
<1>15. BuiltOK(o)'
  BY <1>1, <1>3 DEF BuiltOK, MakeWay, MakeNotes, Makes, Built, Runs, Created, Exists, Quiescing
<1>16. UpkeepOK(o)'
  BY <1>1 DEF UpkeepOK, MakeWay, Quiescing
<1> QED
  BY <1>3, <1>5, <1>6, <1>9, <1>10, <1>11, <1>12, <1>13, <1>14, <1>15, <1>16 DEF Keeps, OpOK

\* The creations, operation by operation.
LEMMA ReplacementMade ==
  ASSUME WInv, NEW o \in Op, UNCHANGED kind,
         \/ kind[o] = "mutate" /\ CreateReplacement(o)
         \/ kind[o] = "adopt" /\ Reproduce(o) /\ ~UNCHANGED spawned
  PROVE  Keeps(o)
<1>1. /\ AllTypeOK /\ OpOK(o) /\ pc[o] = "create" /\ Working(o) /\ svc[o] \in Name
      /\ spawned[o] = {} /\ candidateID[o] = NoId /\ kind[o] \in Quiescing
      /\ life[o] \in {"running", "stopped"}
  BY DEF WInv, AllTypeOK, MemoryOK, OpOK, RefersOK, CreateReplacement, Reproduce, Working,
     Ended,
     Uncreated, Quiescing
<1>2. PICK c \in ContainerId, ok \in BOOLEAN, printed \in BOOLEAN :
        /\ PodmanCreate(c, svc[o], svc[o], want[o], life[o], ok)
        /\ stdout' = [stdout EXCEPT ![o] = IF printed THEN c ELSE NoId]
        /\ spawned' = [spawned EXCEPT ![o] = @ \cup {c}]
        /\ candidateID' = IF ok /\ printed THEN [candidateID EXCEPT ![o] = c]
                                           ELSE candidateID
        /\ \/ ok /\ printed /\ Goto(o, "verify") /\ StoreUnchanged
           \/ ok /\ ~printed /\ Fail(o, FALSE)
           \/ ~ok /\ Goto(o, "probe") /\ (StoreUnchanged \/ DiscardCandidateSpec(o))
  BY DEF CreateReplacement, Reproduce, progress
<1>3. UNCHANGED <<kind, orig, svc, want, specs>>
  BY <1>1, <1>2, Arriving DEF CreateReplacement, Reproduce, transaction
<1>4. /\ stdout'[o] = IF printed THEN c ELSE NoId
      /\ spawned'[o] = {c}
      /\ candidateID'[o] = IF ok /\ printed THEN c ELSE NoId
  BY <1>1, <1>2 DEF AllTypeOK, ProgressOK
<1>5. Makes(o, c)
  BY <1>1, <1>2, <1>3, <1>4 DEF Makes, Uncreated
<1>6. /\ pc'[o] \in {"verify", "probe", "restore"}
      /\ pc'[o] = "verify" => printed /\ UNCHANGED candidates
  BY <1>1, <1>2, Arriving
<1>7. MakeWay(o, c) /\ MakeNotes(o, c)
  BY <1>1, <1>4, <1>6 DEF MakeWay, MakeNotes
<1> QED
  BY <1>1, <1>5, <1>7, MakesKeeps

LEMMA DeploymentMade ==
  ASSUME WInv, NEW o \in Op, UNCHANGED kind, kind[o] = "deploy",
         RunNew(o) \/ Recreate(o), ~UNCHANGED spawned
  PROVE  Keeps(o)
<1>1. /\ AllTypeOK /\ OpOK(o) /\ pc[o] \in {"run", "create"} /\ Working(o) /\ svc[o] \in Name
      /\ spawned[o] = {} /\ kind[o] \in Quiescing
      /\ life[o] \in {"running", "stopped"}
  BY DEF WInv, AllTypeOK, MemoryOK, OpOK, RefersOK, RunNew, Recreate, Working, Ended,
     Uncreated, Early, Quiescing
<1>2. PICK c \in ContainerId, l \in {"running", life[o]}, ok \in BOOLEAN, printed \in BOOLEAN :
        /\ PodmanCreate(c, svc[o], svc[o], want[o], l, ok)
        /\ stdout' = [stdout EXCEPT ![o] = IF printed THEN c ELSE NoId]
        /\ spawned' = [spawned EXCEPT ![o] = @ \cup {c}]
        /\ candidateID' = [candidateID EXCEPT ![o] = IF printed THEN c ELSE NoId]
        /\ \/ pc[o] = "run" /\ (Goto(o, "prove") \/ Goto(o, "leftover"))
           \/ pc[o] = "create" /\ (Goto(o, "verify") \/ Goto(o, "probe"))
  BY DEF RunNew, Recreate, Creates, progress
<1>3. UNCHANGED <<kind, orig, svc, want, specs>>
  BY <1>1, Arriving DEF RunNew, Recreate, Creates, transaction, storeVars
<1>4. /\ stdout'[o] = IF printed THEN c ELSE NoId
      /\ spawned'[o] = {c}
      /\ candidateID'[o] = IF printed THEN c ELSE NoId
  BY <1>1, <1>2 DEF AllTypeOK, ProgressOK
<1>5. Makes(o, c)
  <2>1. l \in {"running", "stopped"}
    BY <1>1
  <2> QED
    BY <1>1, <1>2, <1>3, <1>4, <2>1 DEF Makes, Uncreated, Early
<1>6. MakeWay(o, c) /\ MakeNotes(o, c)
  BY <1>1, <1>2, Arriving DEF MakeWay, MakeNotes
<1> QED
  BY <1>1, <1>5, <1>6, MakesKeeps

LEMMA ManagedMade ==
  ASSUME WInv, NEW o \in Op, UNCHANGED kind, kind[o] = "create",
         CreateManaged(o), ~UNCHANGED spawned
  PROVE  Keeps(o)
<1>1. /\ AllTypeOK /\ OpOK(o) /\ pc[o] = "launch" /\ Working(o) /\ svc[o] \in Name
      /\ spawned[o] = {} /\ candidateID[o] = NoId
  BY DEF WInv, AllTypeOK, MemoryOK, OpOK, RefersOK, CreateManaged, Working, Ended,
     Uncreated, Early
<1>2. PICK c \in ContainerId, ok \in BOOLEAN, printed \in BOOLEAN :
        /\ PodmanCreate(c, svc[o], svc[o], want[o], "running", ok)
        /\ stdout' = [stdout EXCEPT ![o] = IF printed THEN c ELSE NoId]
        /\ spawned' = [spawned EXCEPT ![o] = @ \cup {c}]
        /\ Goto(o, IF ok THEN "check" ELSE "seek")
  BY DEF CreateManaged
<1>3. UNCHANGED <<kind, orig, svc, want, specs, candidates, candidateID>>
  BY <1>1, Arriving DEF CreateManaged, transaction, storeVars
<1>4. /\ stdout'[o] = IF printed THEN c ELSE NoId
      /\ spawned'[o] = {c}
  BY <1>1, <1>2 DEF AllTypeOK, ProgressOK
<1>5. Makes(o, c)
  BY <1>1, <1>2, <1>3, <1>4 DEF Makes, Uncreated, Early
<1>6. ~ok => "create" \in LateFaults
  BY <1>2 DEF PodmanCreate, Reports
<1>7. MakeWay(o, c) /\ MakeNotes(o, c)
  BY <1>1, <1>2, <1>3, <1>6, Arriving DEF MakeWay, MakeNotes
<1> QED
  BY <1>1, <1>5, <1>7, MakesKeeps

LEMMA PlainMade ==
  ASSUME WInv, NEW o \in Op, UNCHANGED kind, kind[o] = "create",
         CreatePlain(o)
  PROVE  Keeps(o)
<1>1. /\ AllTypeOK /\ HostTypeOK /\ NamesUnique /\ OpOK(o) /\ pc[o] = "plain" /\ Working(o)
      /\ svc[o] \in Name /\ svc[o] \in ContainerName
      /\ spawned[o] = {} /\ pc'[o] = "done"
      /\ UNCHANGED <<kind, orig, svc, want, specs, stdout, candidateID>>
  BY Arriving DEF WInv, AllTypeOK, MemoryOK, OpOK, RefersOK, CreatePlain, Working, Ended,
     Uncreated, Early, storeVars, transaction
<1>2. CASE PodmanCreateFails(svc[o]) /\ UNCHANGED spawned
  <2>1. NamesUnique' /\ \A c \in ContainerId : Touched(o, c)
    BY <1>1, <1>2, StillKeeps DEF PodmanCreateFails, FailsCleanly, Touched
  <2>2. Gains(o)
    BY <1>1, <1>2 DEF Gains
  <2> QED
    BY <1>1, <1>2, <2>1, <2>2, FinishedOK DEF Keeps
<1>3. CASE \E c \in ContainerId, ok \in BOOLEAN :
             /\ PodmanCreate(c, svc[o], Unmanaged, want[o], "running", ok)
             /\ spawned' = [spawned EXCEPT ![o] = @ \cup {c}]
  <2>1. PICK c \in ContainerId, ok \in BOOLEAN :
             /\ PodmanCreate(c, svc[o], Unmanaged, want[o], "running", ok)
             /\ spawned' = [spawned EXCEPT ![o] = @ \cup {c}]
    BY <1>3
  <2>2. /\ NamesUnique'
        /\ \A d \in ContainerId : d # c => Kept(d)
        /\ containers[c] = Unborn
        /\ containers'[c].name = svc[o]
        /\ containers'[c].service = Unmanaged
    <3>1. NamesUnique' /\ Made(c, svc[o], Unmanaged, want[o])
      BY <1>1, <2>1, CreationFacts
    <3> QED
      BY <3>1 DEF Made
  <2>3. ~AliveOnce(c) /\ AliveOnce(c)'
    BY <1>1, <2>2, NamesDistinct DEF AliveOnce, Unborn
  <2>4. \A d \in ContainerId : Touched(o, d)
    BY <1>1, <2>2, <2>3 DEF Touched
  <2>5. spawned'[o] = {c}
    BY <1>1, <2>1 DEF AllTypeOK, ProgressOK
  <2>6. Gains(o)
    BY <1>1, <2>3, <2>5 DEF Gains
  <2> QED
    BY <1>1, <2>2, <2>3, <2>4, <2>5, <2>6, FinishedOK DEF Keeps
<1> QED
  BY <1>2, <1>3 DEF CreatePlain

-------------------------------------------------------------------------------
(* Removals.                                                               *)

\* Operation o removes nothing but what has one of its names.
Removes(o, names) ==
  /\ HostTypeOK'
  /\ NamesUnique'
  /\ svc[o] \in Name
  /\ names \subseteq {svc[o], Backup[o]}
  /\ \A c \in ContainerId :
       /\ SameRecord(c) /\ (Exists(c)' => Exists(c))
       /\ containers[c].name \in names \/ Kept(c)

\* rm -f by the service's name, by its backup's, or by the ID of what was created.
LEMMA ForceRemoves ==
  ASSUME WInv, NEW o \in Op, Working(o), svc[o] \in Name,
         NEW ident, ident \in {svc[o], Backup[o]} \cup spawned[o], NEW ok,
         PodmanForceRemove(ident, ok)
  PROVE  Removes(o, {IF ident = Backup[o] THEN Backup[o] ELSE svc[o]})
<1>1. /\ HostTypeOK /\ NamesUnique /\ SpawnOK(o) /\ spawned[o] \subseteq ContainerId
      /\ {svc[o], Backup[o]} \subseteq ContainerName
  BY DEF WInv, OpOK, AllTypeOK, ProgressOK, ContainerName
<1>2. /\ HostTypeOK' /\ NamesUnique'
      /\ \A c \in ContainerId :
           /\ ~Refers(c, ident) => Kept(c)
           /\ SameRecord(c)
           /\ Exists(c)' => Exists(c)
  BY <1>1, RemoveFacts
<1>3. ASSUME NEW c \in ContainerId, Refers(c, ident)
      PROVE  containers[c].name = IF ident = Backup[o] THEN Backup[o] ELSE svc[o]
  <2>1. Exists(c) /\ containers[c].name \in ContainerName
    BY <1>1, <1>3, ExistingTyped DEF Refers
  <2>2. CASE ident \in {svc[o], Backup[o]}
    BY <1>1, <1>3, <2>1, <2>2, NamesDistinct DEF Refers
  <2>3. CASE ident \in spawned[o]
    BY <1>1, <1>3, <2>1, <2>3, NamesDistinct DEF Refers, SpawnOK
  <2> QED
    BY <2>2, <2>3
<1> QED
  BY <1>2, <1>3 DEF Removes

\* Where a removal leads, when the operation goes on.
RemovalWay(o) ==
  \/ kind[o] \in Quiescing /\ pc[o] = "dropRemove" /\ pc'[o] = "dropCheck"
  \/ kind[o] = "deploy" /\ pc[o] = "leftRemove" /\ pc'[o] = "leftGone"
  \/ kind[o] = "deploy" /\ pc[o] = "undoRemove" /\ pc'[o] = "undoGone"
  \/ kind[o] = "deploy" /\ pc[o] = "cleanup" /\ pc'[o] = "gone"
  \/ kind[o] = "create" /\ pc[o] = "clear" /\ pc'[o] = "cleared"

\* A removal by force keeps the invariant.
LEMMA RemovesKeeps ==
  ASSUME WInv, NEW o \in Op, Working(o), NEW names, Removes(o, names),
         UNCHANGED <<kind, orig, svc, want, stdout, candidateID, spawned, specs>>,
         \/ pc'[o] = "done"
         \/ /\ RemovalWay(o)
            /\ pc[o] = "dropRemove" => names \subseteq {svc[o]}
            /\ pc[o] = "cleanup" => names \subseteq {Backup[o]}
  PROVE  Keeps(o)
<1>1. /\ AllTypeOK /\ OpOK(o) /\ svc[o] \in Name /\ svc[o] # Backup[o]
      /\ spawned[o] \subseteq ContainerId /\ orig[o] \in ContainerId \cup {NoId}
      /\ stdout[o] \in ContainerId \cup {NoId} /\ kind[o] # "none"
  BY NamesDistinct, WorkingNamed DEF WInv, Removes, AllTypeOK, ProgressOK, MemoryOK
<1>2. \A c \in ContainerId : Touched(o, c)
  BY DEF Removes, Touched
<1>3. Gains(o)
  BY DEF Gains
<1>4. \A c \in ContainerId : AliveOnce(c) => AliveOnce(c)'
  BY <1>2, LabelsLast, OwnNames
<1>5. \A c \in spawned[o] : AliveOnce(c)' /\ c \in ContainerId
  BY <1>1, <1>4 DEF OpOK, RefersOK
<1>6. CASE pc'[o] = "done"
  BY <1>1, <1>2, <1>3, <1>5, <1>6, FinishedOK DEF Keeps, Removes
<1>7. CASE pc'[o] # "done"
  <2>1. /\ RemovalWay(o)
        /\ pc[o] = "dropRemove" => names \subseteq {svc[o]}
        /\ pc[o] = "cleanup" => names \subseteq {Backup[o]}
    BY <1>7
  <2>2. orig[o] # NoId => containers'[orig[o]].name # NoId
    BY <1>1, <1>4 DEF OpOK, RefersOK, AliveOnce
  <2>3. RefersOK(o)'
    BY <1>1, <1>5, <2>1, <2>2 DEF OpOK, RefersOK, RemovalWay, StepsOf, Steps, DeploySteps,
       CreationSteps,
     Forward, Backward, Quiescing, Uncreated, Early, Preflight, UpkeepSteps, AliveOnce, Ended
  <2>4. SpawnOK(o)'
    BY <1>1 DEF OpOK, SpawnOK, Removes, OwnedBy, SameRecord, Working
  <2>5. TargetOK(o)'
    <3>1. CASE kind[o] \in Replacing /\ pc[o] = "dropRemove"
      <4>1. PICK t \in ContainerId : t = orig[o]
        BY <1>1, <3>1 DEF OpOK, TargetOK, Steps, Backward, Ended
      <4>2. /\ Exists(t) /\ OwnedBy(t, svc[o]) /\ containers[t].deployment = specs[svc[o]]
            /\ containers[t].name = Backup[o]
        BY <1>1, <3>1, <4>1 DEF OpOK, TargetOK, Steps, Backward, Ended, Uncommitted, Renamed
      <4>3. Kept(t)
        BY <1>1, <2>1, <3>1, <4>2 DEF Removes
      <4> QED
        BY <2>1, <3>1, <4>1, <4>2, <4>3 DEF TargetOK, RemovalWay, OwnedBy, Exists, Restored,
           Kept,
           SameRecord, SameExistence
    <3>2. CASE ~(kind[o] \in Replacing /\ pc[o] = "dropRemove")
      BY <1>1, <2>1, <3>2 DEF TargetOK, RemovalWay, Replacing, Quiescing, Steps, Preflight,
         Forward,
         Backward, Ended, Renamed, Restored, Uncommitted
    <3> QED
      BY <3>1, <3>2
  <2>6. AdoptedOK(o)'
    <3>1. kind[o] = "adopt" => orig[o] \in ContainerId /\ containers'[orig[o]].service = Unmanaged
      BY <1>1 DEF OpOK, AdoptedOK, OwnedBy, Removes, SameRecord
    <3> QED
      BY <1>1, <2>1, <3>1 DEF AdoptedOK, OwnedBy, RemovalWay, Preflight
  <2>7. ClearedOK(o)'
    <3>1. \/ kind[o] \in Quiescing /\ pc[o] \in Renamed
          \/ kind[o] = "deploy" /\ pc[o] \in DeploySteps \ {"survey"}
          \/ kind[o] = "create"
      BY <2>1 DEF RemovalWay, Renamed, DeploySteps, Quiescing
    <3> QED
      BY <1>1, <3>1
         DEF OpOK, ClearedOK, Removes, Holds, OwnedBy, SameRecord, Quiescing
  <2>8. FilesOK(o)'
    BY <1>1, <2>1 DEF OpOK, FilesOK, RemovalWay, Working, Quiescing, Ended
  <2>9. BuiltOK(o)'
    <3>1. CASE kind[o] = "deploy" /\ pc[o] = "cleanup"
      <4>1. PICK r \in ContainerId : r = stdout[o]
        BY <1>1, <3>1 DEF OpOK, BuiltOK, Built
      <4>2. Exists(r) /\ containers[r].deployment = want[o] /\ containers[r].name = svc[o] /\ r # NoId
        BY <1>1, <3>1, <4>1 DEF OpOK, BuiltOK, SpawnOK, Built, Runs
      <4>3. Kept(r)
        BY <1>1, <2>1, <3>1, <4>2 DEF Removes
      <4> QED
        BY <2>1, <3>1, <4>1, <4>2, <4>3 DEF BuiltOK, RemovalWay, Built, Runs, Exists, Kept,
           SameRecord,
           SameExistence
    <3>2. CASE ~(kind[o] = "deploy" /\ pc[o] = "cleanup")
      BY <1>1, <2>1, <3>2 DEF OpOK, BuiltOK, RemovalWay, Created, Quiescing
    <3> QED
      BY <3>1, <3>2
  <2>10. UpkeepOK(o)'
    BY <2>1 DEF UpkeepOK, RemovalWay, Quiescing
  <2> QED
    BY <1>2, <1>3, <2>3, <2>4, <2>5, <2>6, <2>7, <2>8, <2>9, <2>10 DEF Keeps, OpOK, Removes
<1> QED
  BY <1>6, <1>7

\* A step that removes nothing after all.
LEMMA NothingRemoved ==
  ASSUME WInv, NEW o \in Op, svc[o] \in Name, UNCHANGED containers
  PROVE  Removes(o, {})
BY StillKeeps DEF WInv, AllTypeOK, Removes, Kept, SameExistence

\* The removals, step by step.
LEMMA CandidateRemoved ==
  ASSUME WInv, NEW o \in Op, UNCHANGED kind, kind[o] \in Quiescing, RemoveCandidate(o)
  PROVE  Keeps(o)
<1>1. /\ AllTypeOK /\ OpOK(o) /\ pc[o] = "dropRemove" /\ Working(o) /\ pc'[o] = "dropCheck"
      /\ svc[o] \in Name /\ svc[o] # Backup[o]
      /\ UNCHANGED <<kind, orig, svc, want, stdout, candidateID, spawned, specs>>
  BY Arriving, NamesDistinct DEF WInv, OpOK, RefersOK, RemoveCandidate, Working, Ended,
     storeVars, transaction,
     progress, Quiescing
<1>2. CASE UNCHANGED containers
  BY <1>1, <1>2, NothingRemoved, RemovesKeeps DEF RemovalWay
<1>3. CASE candidateID[o] # NoId /\ \E ok \in BOOLEAN : PodmanForceRemove(candidateID[o], ok)
  <2>1. candidateID[o] \in {svc[o]} \cup spawned[o] /\ spawned[o] \subseteq ContainerId
    BY <1>1, <1>3 DEF OpOK, SpawnOK, AllTypeOK, ProgressOK
  <2>2. candidateID[o] # Backup[o]
    BY <1>1, <2>1, NamesDistinct DEF ContainerName
  <2>3. Removes(o, {svc[o]})
    BY <1>1, <1>3, <2>1, <2>2, ForceRemoves
  <2> QED
    BY <1>1, <2>3, RemovesKeeps DEF RemovalWay
<1> QED
  BY <1>2, <1>3 DEF RemoveCandidate

LEMMA DeploymentRemoved ==
  ASSUME WInv, NEW o \in Op, UNCHANGED kind, kind[o] = "deploy",
         RemoveLeftover(o) \/ UndoRemove(o) \/ RetireBackup(o)
  PROVE  Keeps(o)
<1>1. /\ AllTypeOK /\ OpOK(o) /\ pc[o] \in {"leftRemove", "undoRemove", "cleanup"} /\ Working(o)
      /\ RemovalWay(o)
      /\ svc[o] \in Name /\ svc[o] # Backup[o] /\ stdout[o] # Backup[o]
      /\ UNCHANGED <<kind, orig, svc, want, stdout, candidateID, spawned, specs>>
  BY Arriving, NamesDistinct DEF WInv, OpOK, RefersOK, RemoveLeftover, UndoRemove,
     RetireBackup, RemoveBy,
     Working, Ended, storeVars, transaction, progress, RemovalWay, AllTypeOK, ProgressOK,
     ContainerName
<1>2. CASE RetireBackup(o)
  <2>1. Removes(o, {Backup[o]})
    BY <1>1, <1>2, ForceRemoves DEF RetireBackup, RemoveBy
  <2>2. pc[o] = "cleanup"
    BY <1>2 DEF RetireBackup, RemoveBy
  <2> QED
    BY <1>1, <2>1, <2>2, RemovesKeeps
<1>3. CASE UndoRemove(o)
  <2>1. Removes(o, {svc[o]})
    BY <1>1, <1>3, ForceRemoves DEF UndoRemove, RemoveBy
  <2>2. pc[o] = "undoRemove"
    BY <1>3 DEF UndoRemove, RemoveBy
  <2> QED
    BY <1>1, <2>1, <2>2, RemovesKeeps
<1>4. CASE RemoveLeftover(o)
  <2>1. pc[o] = "leftRemove" /\ stdout[o] \in spawned[o]
    BY <1>1, <1>4 DEF OpOK, BuiltOK, SpawnOK, RemoveLeftover, RemoveBy
  <2>2. Removes(o, {svc[o]})
    BY <1>1, <1>4, <2>1, ForceRemoves DEF RemoveLeftover, RemoveBy
  <2> QED
    BY <1>1, <2>1, <2>2, RemovesKeeps
<1> QED
  BY <1>2, <1>3, <1>4

LEMMA BackupRemoved ==
  ASSUME WInv, NEW o \in Op, UNCHANGED kind, kind[o] = "mutate", RemoveBackup(o)
  PROVE  Keeps(o)
<1>1. /\ AllTypeOK /\ OpOK(o) /\ Working(o) /\ pc'[o] = "done" /\ svc[o] \in Name
      /\ UNCHANGED <<kind, orig, svc, want, stdout, candidateID, spawned, specs>>
  BY Arriving DEF WInv, OpOK, RefersOK, RemoveBackup, Working, Ended, storeVars, transaction,
     progress
<1>2. Removes(o, {Backup[o]})
  BY <1>1, ForceRemoves DEF RemoveBackup
<1> QED
  BY <1>1, <1>2, RemovesKeeps

LEMMA CreatedRemoved ==
  ASSUME WInv, NEW o \in Op, UNCHANGED kind, kind[o] = "create", ClearCreated(o)
  PROVE  Keeps(o)
<1>1. /\ AllTypeOK /\ OpOK(o) /\ Working(o) /\ RemovalWay(o) /\ pc[o] = "clear"
      /\ svc[o] \in Name /\ svc[o] # Backup[o] /\ stdout[o] # Backup[o]
      /\ UNCHANGED <<kind, orig, svc, want, stdout, candidateID, spawned, specs>>
  BY Arriving, NamesDistinct DEF WInv, OpOK, RefersOK, ClearCreated, Working, Ended, storeVars,
     transaction,
     progress, RemovalWay, AllTypeOK, ProgressOK, ContainerName
<1>2. CASE UNCHANGED containers
  BY <1>1, <1>2, NothingRemoved, RemovesKeeps
<1>3. CASE stdout[o] # NoId /\ \E ok \in BOOLEAN : PodmanForceRemove(stdout[o], ok)
  <2>1. stdout[o] \in spawned[o]
    BY <1>1, <1>3 DEF OpOK, SpawnOK
  <2>2. Removes(o, {svc[o]})
    BY <1>1, <1>3, <2>1, ForceRemoves
  <2> QED
    BY <1>1, <2>2, RemovesKeeps
<1> QED
  BY <1>2, <1>3 DEF ClearCreated

\* podman rm of what the user asked to remove.
LEMMA EraseTakes ==
  ASSUME WInv, NEW o \in Op, kind[o] = "remove", Erase(o)
  PROVE  /\ HostTypeOK' /\ NamesUnique' /\ orig[o] \in ContainerId
         /\ \A c \in ContainerId : SameRecord(c) /\ (Exists(c)' => Exists(c))
         /\ \A c \in ContainerId : c # orig[o] => Kept(c)
<1>1. /\ HostTypeOK /\ NamesUnique /\ pc[o] = "erase" /\ UpkeepOK(o)
  BY DEF WInv, OpOK, AllTypeOK, Erase
<1>2. PICK t \in ContainerId : t = orig[o]
  BY <1>1 DEF UpkeepOK
<1>3. CASE UNCHANGED containers
  BY <1>1, <1>2, <1>3, StillKeeps DEF Kept, SameExistence
<1>4. CASE containers[t].life = "stopped" /\ SetLife(t, "removed")
  <2>1. /\ HostTypeOK'
        /\ \A d \in ContainerId : d # t => containers'[d] = containers[d]
        /\ SameRecord(t)
        /\ containers'[t].life = "removed"
    BY <1>1, <1>4, SetLifeFacts DEF Life, Alive
  <2>2. \A d \in ContainerId : d # t => Kept(d)
    BY <2>1 DEF Kept, SameRecord, SameExistence, Exists
  <2>3. ~Exists(t)'
    BY <2>1 DEF Exists, Alive
  <2>4. \A c \in ContainerId : SameRecord(c) /\ (Exists(c)' => Exists(c))
    BY <2>1, <2>2, <2>3 DEF Kept, SameExistence
  <2>5. NamesUnique'
    BY <1>1, <2>4 DEF NamesUnique, SameRecord
  <2> QED
    BY <1>2, <2>1, <2>2, <2>4, <2>5
<1> QED
  BY <1>2, <1>3, <1>4 DEF Erase, PodmanRemove, FailsCleanly

\* A removal a user asked for keeps the invariant.
LEMMA EraseKeeps ==
  ASSUME WInv, NEW o \in Op, UNCHANGED kind, kind[o] = "remove", Erase(o)
  PROVE  Keeps(o)
<1>1. /\ AllTypeOK /\ OpOK(o) /\ Working(o) /\ pc'[o] = "done" /\ pc[o] = "erase"
      /\ UNCHANGED <<kind, orig, svc, want, stdout, candidateID, spawned, specs>>
      /\ spawned[o] \subseteq ContainerId
  BY Arriving DEF WInv, Erase, Working, Ended, storeVars, transaction, progress, AllTypeOK,
     ProgressOK
<1>2. NamesUnique' /\ \A c \in ContainerId : Touched(o, c)
  BY <1>1, EraseTakes DEF Touched
<1>3. Gains(o)
  BY <1>1 DEF Gains
<1>4. \A c \in spawned[o] : AliveOnce(c)' /\ c \in ContainerId
  BY <1>1, <1>2, LabelsLast, OwnNames DEF OpOK, RefersOK
<1> QED
  BY <1>1, <1>2, <1>3, <1>4, FinishedOK DEF Keeps

-------------------------------------------------------------------------------
(* What makes a spec authoritative, or unmakes one.                        *)

\* The returns that commit or delete a spec.
LEMMA FilingReturns ==
  ASSUME WInv, NEW o \in Op, UNCHANGED kind, pc'[o] = "done", Working(o),
         \/ kind[o] = "adopt" /\ CommitAdoption(o)
         \/ kind[o] = "create" /\ CommitCreated(o)
         \/ kind[o] = "delete" /\ DeleteFile(o)
  PROVE  Keeps(o)
<1>1. /\ OpOK(o) /\ NamesUnique /\ kind[o] # "none"
      /\ UNCHANGED <<containers, kind, orig, svc, want, stdout, candidateID, spawned>>
      /\ spawned[o] \subseteq ContainerId
  BY WorkingNamed DEF WInv, AllTypeOK, ProgressOK, CommitAdoption, CommitCreated, DeleteFile,
     transaction, progress
<1>2. NamesUnique' /\ \A c \in ContainerId : Touched(o, c)
  BY <1>1, StillKeeps DEF Touched
<1>3. Gains(o)
  BY <1>1 DEF Gains
<1>4. \A c \in spawned[o] : AliveOnce(c)' /\ c \in ContainerId
  BY <1>1 DEF OpOK, RefersOK, AliveOnce
<1> QED
  BY <1>1, <1>2, <1>3, <1>4, FinishedOK DEF Keeps

\* A mutation's commit makes the candidate the spec.
LEMMA CommitKeepsOp ==
  ASSUME WInv, NEW o \in Op, UNCHANGED kind, kind[o] = "mutate", Commit(o), pc'[o] = "cleanup"
  PROVE  Keeps(o)
<1>1. /\ AllTypeOK /\ OpOK(o) /\ NamesUnique /\ Working(o) /\ pc[o] = "commit"
      /\ svc[o] \in Name
      /\ UNCHANGED <<containers, kind, orig, svc, want, stdout, candidateID, spawned>>
      /\ spawned[o] \subseteq ContainerId
  BY DEF WInv, AllTypeOK, ProgressOK, Commit, transaction, progress, Working, Ended, OpOK,
     RefersOK
<1>2. specs'[svc[o]] = want[o]
  <2>1. CommitCandidateSpec(o, svc[o])
    BY <1>1, Arriving DEF Commit
  <2> QED
    BY <1>1, <2>1 DEF CommitCandidateSpec, AllTypeOK, StoreTypeOK, OpOK, FilesOK
<1>3. NamesUnique' /\ \A c \in ContainerId : Touched(o, c)
  BY <1>1, StillKeeps DEF Touched
<1>4. Gains(o)
  BY <1>1 DEF Gains
<1>5. RefersOK(o)' /\ SpawnOK(o)' /\ AdoptedOK(o)' /\ UpkeepOK(o)'
  BY <1>1 DEF OpOK, RefersOK, SpawnOK, AdoptedOK, UpkeepOK, StepsOf, Steps, Uncreated, Early,
     Preflight,
     UpkeepSteps, AliveOnce, Exists, OwnedBy, Working, Ended
<1>6. TargetOK(o)'
  BY <1>1 DEF OpOK, TargetOK, Steps, Forward, Ended, Renamed, Restored, Uncommitted, Preflight,
     Backward,
     Exists, OwnedBy, Replacing
<1>7. ClearedOK(o)'
  BY <1>1 DEF OpOK, ClearedOK, Renamed, Forward, Holds, Exists, OwnedBy, Quiescing
<1>8. FilesOK(o)' /\ BuiltOK(o)'
  BY <1>1, <1>2 DEF OpOK, FilesOK, BuiltOK, Created, Built, Runs, Exists
<1> QED
  BY <1>3, <1>4, <1>5, <1>6, <1>7, <1>8 DEF Keeps, OpOK

-------------------------------------------------------------------------------
(* Every step of every operation.                                          *)

\* Every step of a mutation, and of each other kind of operation.
LEMMA MutationKeepsAll ==
  ASSUME WInv, NEW o \in Op, UNCHANGED kind, kind[o] = "mutate", Mutation(o), Working(o)
  PROVE  Keeps(o)
<1>1. AllTypeOK /\ kind[o] \in Quiescing
  BY DEF WInv, Quiescing
<1>2. CASE Rollback(o)
  BY <1>1, <1>2, RollbackHarmless, HarmlessKeeps, CandidateRemoved,
     RestoreNameKeepsOp DEF Rollback
<1>3. CASE RenameAway(o) \/ StopOriginal(o) \/ AwaitStopped(o) \/ ArgumentsFail(o) \/ ProbeCandidate(o)
  BY <1>1, <1>3, RenameAwayKeepsOp, QuiesceHarmless, ProbeHarmless, HarmlessKeeps
<1>4. CASE Resolve(o) \/ CreateReplacement(o) \/ RemoveBackup(o)
  BY <1>4, ResolveKeepsOp, ReplacementMade, BackupRemoved
<1>5. CASE CreateFails(o) \/ VerifyReplacement(o) \/ CheckHealth(o) \/ Snapshot(o)
  BY <1>5, MutationHarmless, HarmlessKeeps
<1>6. CASE Commit(o)
  BY <1>6, CommitKeepsOp, MutationHarmless, HarmlessKeeps
<1> QED
  BY <1>2, <1>3, <1>4, <1>5, <1>6 DEF Mutation

LEMMA DeployKeepsAll ==
  ASSUME WInv, NEW o \in Op, UNCHANGED kind, kind[o] = "deploy", Deploy(o), Working(o)
  PROVE  Keeps(o)
<1>1. AllTypeOK /\ kind[o] \in Quiescing
  BY DEF WInv, Quiescing
<1>2. CASE Rollback(o)
  BY <1>1, <1>2, RollbackHarmless, HarmlessKeeps, CandidateRemoved,
     RestoreNameKeepsOp DEF Rollback
<1>3. CASE RenameAway(o) \/ StopOriginal(o) \/ Survey(o)
  BY <1>1, <1>3, RenameAwayKeepsOp, QuiesceHarmless, HarmlessKeeps, SurveyKeeps
<1>4. CASE RemoveLeftover(o) \/ UndoRemove(o) \/ RetireBackup(o)
  BY <1>4, DeploymentRemoved
<1>5. CASE RunNew(o) \/ Recreate(o)
  <2>1. CASE ~UNCHANGED spawned
    BY <1>5, <2>1, DeploymentMade
  <2>2. CASE UNCHANGED spawned
    <3>1. pc[o] \in {"run", "create"} /\ spawned[o] = {} /\ spawned \in [Op -> SUBSET ContainerId]
      BY <1>1, <1>5 DEF WInv, OpOK, RefersOK, RunNew, Recreate, Uncreated, Early, AllTypeOK,
         ProgressOK
    <3>2. /\ PodmanCreateFails(svc[o]) /\ UNCHANGED progress
          /\ pc'[o] \in {"leftover", "probe"}
      BY <1>1, <1>5, <2>2, <3>1, Arriving DEF RunNew, Recreate, Creates
    <3> QED
      BY <1>5, <3>2, DeployHarmless, HarmlessKeeps DEF CreateFailsQuietly
  <2> QED
    BY <2>1, <2>2
<1>6. CASE \/ LookForLeftover(o) \/ StopLeftover(o) \/ AwaitLeftoverGone(o) \/ ProveNew(o)
           \/ UndoStop(o) \/ AwaitUndone(o) \/ AwaitHalted(o) \/ TraceCandidate(o)
           \/ ProveReplacement(o) \/ AwaitRetired(o)
  BY <1>6, DeployHarmless, HarmlessKeeps
<1> QED
  BY <1>2, <1>3, <1>4, <1>5, <1>6 DEF Deploy

LEMMA AdoptKeepsAll ==
  ASSUME WInv, NEW o \in Op, UNCHANGED kind, kind[o] = "adopt", Adopt(o), Working(o)
  PROVE  Keeps(o)
<1>1. AllTypeOK /\ kind[o] \in Quiescing
  BY DEF WInv, Quiescing
<1>2. CASE Rollback(o)
  BY <1>1, <1>2, RollbackHarmless, HarmlessKeeps, CandidateRemoved,
     RestoreNameKeepsOp DEF Rollback
<1>3. CASE RenameAway(o) \/ StopOriginal(o) \/ AwaitStopped(o) \/ ArgumentsFail(o) \/ ProbeCandidate(o)
  BY <1>1, <1>3, RenameAwayKeepsOp, QuiesceHarmless, ProbeHarmless, HarmlessKeeps
<1>4. CASE Reproduce(o)
  <2>1. CASE ~UNCHANGED spawned
    BY <1>4, <2>1, ReplacementMade
  <2>2. CASE UNCHANGED spawned
    <3>1. pc[o] = "create" /\ spawned[o] = {} /\ spawned \in [Op -> SUBSET ContainerId]
      BY <1>1, <1>4 DEF WInv, OpOK, RefersOK, Reproduce, Uncreated, Early, AllTypeOK, ProgressOK
    <3>2. \A c \in ContainerId : spawned' # [spawned EXCEPT ![o] = @ \cup {c}]
      BY <2>2, <3>1
    <3>3. PodmanCreateFails(svc[o]) /\ UNCHANGED progress /\ Goto(o, "probe")
      BY <1>4, <3>2 DEF Reproduce
    <3>4. pc'[o] = "probe"
      BY <1>1, <3>3, Arriving
    <3> QED
      BY <1>4, <3>3, <3>4, AdoptHarmless, HarmlessKeeps DEF CreateFailsQuietly
  <2> QED
    BY <2>1, <2>2
<1>5. CASE CommitAdoption(o)
  BY <1>5, FilingReturns, AdoptHarmless, HarmlessKeeps
<1>6. CASE ReviewTarget(o) \/ Snapshot(o) \/ VerifyReplica(o)
  BY <1>6, AdoptHarmless, HarmlessKeeps
<1> QED
  BY <1>2, <1>3, <1>4, <1>5, <1>6 DEF Adopt

LEMMA CreateKeepsAll ==
  ASSUME WInv, NEW o \in Op, UNCHANGED kind, kind[o] = "create", Create(o), Working(o)
  PROVE  Keeps(o)
<1>1. CASE CreatePlain(o)
  BY <1>1, PlainMade
<1>2. CASE CreateManaged(o)
  <2>1. CASE ~UNCHANGED spawned
    BY <1>2, <2>1, ManagedMade
  <2>2. CASE UNCHANGED spawned
    <3>1. /\ pc[o] = "launch" /\ spawned[o] = {} /\ spawned \in [Op -> SUBSET ContainerId]
          /\ AllTypeOK
      BY <1>2 DEF WInv, OpOK, RefersOK, CreateManaged, Uncreated, Early, AllTypeOK, ProgressOK
    <3>2. PodmanCreateFails(svc[o]) /\ UNCHANGED progress /\ pc'[o] = "seek"
      BY <1>2, <2>2, <3>1, Arriving DEF CreateManaged, progress
    <3> QED
      BY <1>2, <3>2, CreateHarmless, HarmlessKeeps DEF CreateFailsQuietly
  <2> QED
    BY <2>1, <2>2
<1>3. CASE CommitCreated(o)
  BY <1>3, FilingReturns, CreateHarmless, HarmlessKeeps
<1>4. CASE StageCandidate(o) \/ SeekLeftover(o) \/ CheckCreated(o) \/ AwaitCleared(o)
  BY <1>4, CreateHarmless, HarmlessKeeps
<1>5. CASE ClearCreated(o)
  BY <1>5, CreatedRemoved
<1> QED
  BY <1>1, <1>2, <1>3, <1>4, <1>5 DEF Create

LEMMA MaintainKeepsAll ==
  ASSUME WInv, NEW o \in Op, UNCHANGED kind, kind[o] \in {"delete", "remove"}, Maintain(o), Working(o)
  PROVE  Keeps(o)
<1>1. RefersOK(o) /\ AllTypeOK
  BY DEF WInv, OpOK
<1>2. CASE DeleteFile(o) /\ kind[o] = "delete"
  BY <1>1, <1>2, FilingReturns, Arriving DEF DeleteFile
<1>3. CASE Erase(o) /\ kind[o] = "remove"
  BY <1>3, EraseKeeps
<1>4. pc[o] \in StepsOf(kind[o]) /\ kind[o] \in {"delete", "remove"}
  BY <1>1 DEF RefersOK
<1>5. DeleteFile(o) => kind[o] = "delete"
  BY <1>4 DEF DeleteFile, StepsOf, Ended
<1>6. Erase(o) => kind[o] = "remove"
  BY <1>4 DEF Erase, StepsOf, Ended
<1> QED
  BY <1>2, <1>3, <1>5, <1>6 DEF Maintain

\* Every step of every operation.
LEMMA StepKeepsAll ==
  ASSUME WInv, NEW o \in Op, Step(o)
  PROVE  Keeps(o)
BY MutationKeepsAll, DeployKeepsAll, AdoptKeepsAll, CreateKeepsAll, MaintainKeepsAll, StepWorking
   DEF Step

-------------------------------------------------------------------------------
(* What goes on around an operation that does not take a step.             *)

\* Somebody else made or removed c, which is not Podder's.
Strayed(c) ==
  /\ "foreign" \in Ambient
  /\ OwnedBy(c, Unmanaged)
  /\ containers'[c].service = Unmanaged
  /\ AliveOnce(c) => SameRecord(c) /\ (Exists(c)' => Exists(c))

\* Operation p has done nothing, and its containers are as they were.
Spared(p) ==
  /\ LocalsKept(p) /\ kind'[p] = kind[p] /\ specs' = specs
  /\ \A c \in ContainerId : Kept(c) \/ Strayed(c)
  /\ \A q \in Op \ {p} : orig[p] \in ContainerId /\ Working(p) /\ Working(q)' =>
       \/ Working(q) /\ orig'[q] = orig[q] /\ spawned'[q] = spawned[q]
       \/ orig'[q] # orig[p] /\ orig[p] \notin spawned'[q]

\* What is claimed of a spared operation stays.
LEMMA SparedOK ==
  ASSUME WInv, NEW p \in Op, Spared(p)
  PROVE  OpOK(p)'
<1>1. /\ LocalsKept(p) /\ kind'[p] = kind[p] /\ specs' = specs /\ pc'[p] = pc[p]
      /\ OpOK(p) /\ RefersOK(p) /\ spawned[p] \subseteq ContainerId
      /\ orig[p] \in ContainerId \cup {NoId}
  BY DEF Spared, LocalsKept, WInv, OpOK, AllTypeOK, ProgressOK, MemoryOK
<1>2. \A c \in ContainerId : AliveOnce(c) =>
        AliveOnce(c)' /\ SameRecord(c) /\ (Exists(c)' => Exists(c))
  BY DEF Spared, Strayed, Kept, SameExistence, SameRecord, AliveOnce
<1>3. \A c \in ContainerId : ~OwnedBy(c, Unmanaged) => SameRecord(c) /\ (Exists(c)' <=> Exists(c))
  BY DEF Spared, Strayed, Kept, SameExistence
<1>4. \A c \in ContainerId : containers'[c].service # Unmanaged =>
        SameRecord(c) /\ (Exists(c)' <=> Exists(c))
  BY DEF Spared, Strayed, Kept, SameExistence
<1>5. \A c \in ContainerId : \/ SameRecord(c) /\ (Exists(c)' <=> Exists(c))
                             \/ "foreign" \in Ambient /\ containers'[c].service = Unmanaged
  BY DEF Spared, Strayed, Kept, SameExistence
<1>6. Working(p) => svc[p] # Unmanaged
  BY WorkingNamed, NamesFacts
<1>7. RefersOK(p)'
  <2>1. StepsOf(kind[p])' = StepsOf(kind[p])
    BY <1>1 DEF StepsOf
  <2> QED
    BY <1>1, <1>2, <2>1 DEF RefersOK, LocalsKept, Working
<1>8. SpawnOK(p)'
  <2>1. ASSUME Working(p), NEW c \in spawned[p]
        PROVE  containers'[c].service = svc[p] /\ (Exists(c)' => containers'[c].name = svc[p])
    BY <1>1, <1>2, <2>1 DEF OpOK, RefersOK, SpawnOK, OwnedBy, SameRecord
  <2> QED
    BY <1>1, <2>1 DEF OpOK, SpawnOK, LocalsKept, Working, OwnedBy, Exists
<1>9. TargetOK(p)'
  <2>1. ASSUME orig[p] \in ContainerId, ~OwnedBy(orig[p], Unmanaged)
        PROVE  /\ containers'[orig[p]].name = containers[orig[p]].name
               /\ containers'[orig[p]].service = containers[orig[p]].service
               /\ containers'[orig[p]].deployment = containers[orig[p]].deployment
               /\ containers[orig[p]].life \in Alive => containers'[orig[p]].life \in Alive
    <3>1. PICK t \in ContainerId : t = orig[p]
      BY <2>1
    <3> QED
      BY <1>3, <2>1, <3>1 DEF SameRecord, Exists
  <2>2. kind[p] = "mutate" /\ pc[p] = "resolve" /\ svc[p] \in Name =>
          orig[p] \in ContainerId /\ Holds(orig[p], svc[p]) /\ ~OwnedBy(orig[p], Unmanaged)
    BY <1>1 DEF OpOK, TargetOK
  <2>3. kind[p] \in Replacing /\ pc[p] \in Steps \ (Ended \cup {"resolve"}) =>
          orig[p] \in ContainerId /\ Exists(orig[p]) /\ OwnedBy(orig[p], svc[p])
            /\ ~OwnedBy(orig[p], Unmanaged)
    BY <1>1, <1>6 DEF OpOK, TargetOK, OwnedBy, Working
  <2>4. CASE kind[p] = "mutate" /\ pc[p] = "resolve" /\ svc[p] \in Name
    BY <1>1, <2>1, <2>2, <2>4 DEF TargetOK, LocalsKept, Holds, Exists, OwnedBy, Renamed,
       Restored,
       Uncommitted, Preflight, Forward, Backward, Ended
  <2>5. CASE kind[p] \in Replacing /\ pc[p] \in Steps \ (Ended \cup {"resolve"})
    <3>1. TargetOK(p)
      BY <1>1 DEF OpOK
    <3> QED
      BY <1>1, <2>1, <2>3, <2>5, <3>1 DEF TargetOK, LocalsKept, Exists, OwnedBy
  <2> QED
    BY <1>1, <2>4, <2>5 DEF TargetOK, LocalsKept, Replacing, Steps, Preflight, Renamed,
       Restored, Forward, Backward, Ended, Uncommitted
<1>10. AdoptedOK(p)'
  <2> SUFFICES ASSUME kind[p] = "adopt", Working(p) PROVE AdoptedOK(p)'
    BY <1>1 DEF AdoptedOK, Working, LocalsKept, Preflight, Ended
  <2>1. /\ orig[p] \in ContainerId /\ OwnedBy(orig[p], Unmanaged) /\ AliveOnce(orig[p])
        /\ AdoptedOK(p)
    BY <1>1, NamesDistinct DEF OpOK, RefersOK, AdoptedOK
  <2>2. PICK t \in ContainerId : t = orig[p]
    BY <2>1
  <2>3. containers'[t].service = Unmanaged
    BY <1>2, <2>1, <2>2 DEF SameRecord, OwnedBy
  <2>4. ASSUME NEW c \in ContainerId, pc[p] \in Preflight, Exists(c)', containers'[c].name = svc[p]
        PROVE  containers'[c].service = Unmanaged
    BY <1>5, <2>1, <2>4 DEF AdoptedOK, SameRecord, Holds, OwnedBy
  <2> QED
    BY <1>1, <2>1, <2>2, <2>3, <2>4 DEF AdoptedOK, LocalsKept, OwnedBy, Holds
<1>11. ClearedOK(p)'
  <2> DEFINE Clear == \/ kind[p] \in Quiescing /\ pc[p] \in Renamed
                      \/ kind[p] = "deploy" /\ pc[p] \in DeploySteps \ {"survey"}
  <2> SUFFICES ASSUME Clear PROVE ClearedOK(p)'
    BY <1>1 DEF ClearedOK, LocalsKept
  <2>1. ClearedOK(p)
    BY <1>1 DEF OpOK
  <2>2. ASSUME NEW c \in ContainerId, Exists(c)', containers'[c].name = svc[p]
        PROVE  c \in spawned[p] \/ (containers'[c].service = Unmanaged /\ "foreign" \in Ambient)
    BY <1>5, <2>1, <2>2 DEF ClearedOK, SameRecord, Holds, OwnedBy
  <2> QED
    BY <1>1, <2>2 DEF ClearedOK, LocalsKept, OwnedBy, Holds
<1>12. FilesOK(p)'
  BY <1>1 DEF OpOK, FilesOK, LocalsKept, Working
<1>13. BuiltOK(p)'
  <2>1. ASSUME NEW c \in spawned[p], Working(p)
        PROVE  /\ Exists(c) => Exists(c)'
               /\ containers'[c].deployment = containers[c].deployment
    BY <1>1, <1>3, <1>6, <2>1 DEF OpOK, SpawnOK, OwnedBy, SameRecord
  <2>2. Working(p) /\ stdout[p] # NoId => stdout[p] \in spawned[p]
    BY <1>1 DEF OpOK, SpawnOK
  <2>3. Working(p) /\ stdout[p] # NoId =>
          /\ containers[stdout[p]].life \in Alive => containers'[stdout[p]].life \in Alive
          /\ containers'[stdout[p]].deployment = containers[stdout[p]].deployment
    BY <2>1, <2>2 DEF Exists
  <2>4. BuiltOK(p)
    BY <1>1 DEF OpOK
  <2>5. CASE ~Working(p)
    BY <1>1, <2>5 DEF BuiltOK, LocalsKept, Working, Ended, Created
  <2>6. CASE Working(p) /\ stdout[p] # NoId
    BY <1>1, <2>1, <2>3, <2>4, <2>6 DEF BuiltOK, LocalsKept, Built, Runs, Exists
  <2>7. CASE Working(p) /\ stdout[p] = NoId
    BY <1>1, <2>1, <2>4, <2>7 DEF BuiltOK, LocalsKept, Built, Runs, Created
  <2> QED
    BY <2>5, <2>6, <2>7
<1>14. UpkeepOK(p)'
  <2>1. UpkeepOK(p)
    BY <1>1 DEF OpOK
  <2>2. ASSUME kind[p] = "delete", pc[p] = "unlink", NEW c \in ContainerId,
               Exists(c)', containers'[c].service = svc[p]
        PROVE  FALSE
    BY <1>4, <1>6, <2>1, <2>2 DEF UpkeepOK, Labelled, SameRecord, Working, Ended
  <2>3. ASSUME kind[p] = "remove", pc[p] = "erase"
        PROVE  /\ orig[p] \in ContainerId
               /\ containers'[orig[p]].life \in Alive /\ containers'[orig[p]].service # Unmanaged =>
                    containers'[orig[p]].name = svc[p]
               /\ \A q \in Op \ {p} : Working(q)' => orig'[q] # orig[p] /\ orig[p] \notin spawned'[q]
    <3>1. Working(p) /\ orig[p] \in ContainerId
      BY <2>1, <2>3 DEF UpkeepOK, Working, Ended
    <3>2. PICK t \in ContainerId : t = orig[p]
      BY <3>1
    <3>3. Exists(t)' /\ containers'[t].service # Unmanaged => containers'[t].name = svc[p]
      BY <1>4, <2>1, <2>3, <3>2 DEF UpkeepOK, Managed, SameRecord
    <3>4. \A q \in Op \ {p} : Working(q)' => orig'[q] # orig[p] /\ orig[p] \notin spawned'[q]
      BY <2>1, <2>3, <3>1 DEF UpkeepOK, Spared
    <3> QED
      BY <3>1, <3>2, <3>3, <3>4 DEF Exists
  <2> QED
    BY <1>1, <2>2, <2>3 DEF UpkeepOK, LocalsKept, Labelled, Managed, Exists
<1> QED
  BY <1>7, <1>8, <1>9, <1>10, <1>11, <1>12, <1>13, <1>14 DEF OpOK

\* What the host does on its own, it does to containers that are not managed.
LEMMA HostStrays ==
  ASSUME HostTypeOK, HostMoves
  PROVE  \A c \in ContainerId : Kept(c) \/ Strayed(c)
<1>1. PICK c \in ContainerId :
        Exits(c) \/ Restarts(c) \/ Pauses(c) \/ ForeignRun(c) \/ ForeignRemove(c)
  BY DEF HostMoves
<1>2. CASE \E l \in Alive : Exists(c) /\ SetLife(c, l)
  BY <1>2, AliveKeeps
<1>3. CASE ForeignRun(c)
  <2>1. /\ containers[c].service = Unmanaged /\ containers[c].name = NoId
        /\ containers'[c].service = Unmanaged
        /\ \A e \in ContainerId : e # c => containers'[e] = containers[e]
    BY <1>3 DEF ForeignRun, HostTypeOK, Container, Unborn
  <2> QED
    BY <1>3, <2>1 DEF ForeignRun, Strayed, OwnedBy, AliveOnce, Kept, SameRecord, SameExistence,
       Exists
<1>4. CASE ForeignRemove(c)
  <2>1. /\ containers[c].life # "unborn"
        /\ "removed" \in Life \ {"unborn"}
        /\ SetLife(c, "removed")
    BY <1>4 DEF ForeignRemove, Exists, Alive, Life
  <2>2. /\ \A d \in ContainerId : d # c => containers'[d] = containers[d]
        /\ SameRecord(c)
    BY <2>1, SetLifeFacts
  <2> QED
    BY <1>4, <2>2 DEF ForeignRemove, Strayed, OwnedBy, Kept, SameRecord, SameExistence, Exists
<1> QED
  <2>1. Exits(c) \/ Restarts(c) \/ Pauses(c) => \E l \in Alive : Exists(c) /\ SetLife(c, l)
    BY DEF Exits, Restarts, Pauses, Exists, Alive
  <2> QED
    BY <1>1, <1>2, <1>3, <1>4, <2>1

\* The host, a stutter and the death of the process keep the invariant.
LEMMA EnvironmentKeepsWInv ==
  ASSUME WInv, Environment, UNCHANGED kind
  PROVE  WInv'
<1>1. AllTypeOK'
  BY AroundType DEF WInv
<1>2. /\ \A c \in ContainerId : Kept(c) \/ Strayed(c)
      /\ NamesUnique'
  BY HostStrays, HostMovesFacts DEF WInv, AllTypeOK, Environment
<1>3. \A p \in Op : Spared(p)
  BY <1>2 DEF Environment, Spared, LocalsKept, storeVars, transaction, progress, Working
<1>4. LabelsOK' /\ BackupsOK'
  BY <1>2 DEF WInv, LabelsOK, BackupsOK, Holds, OwnedBy, Kept, Strayed, SameRecord,
     SameExistence
<1>5. OneAtATime'
  BY DEF WInv, OneAtATime, Environment, transaction
<1> QED
  BY <1>1, <1>2, <1>3, <1>4, <1>5, SparedOK DEF WInv

LEMMA StutterKeepsWInv ==
  ASSUME WInv, UNCHANGED allVars
  PROVE  WInv'
<1>1. AllTypeOK'
  BY AroundType DEF WInv
<1>2. NamesUnique' /\ \A c \in ContainerId : Kept(c)
  BY StillKeeps DEF allVars, vars, WInv
<1>3. \A p \in Op : Spared(p)
  BY <1>2 DEF allVars, vars, Spared, LocalsKept, Working
<1>4. LabelsOK' /\ BackupsOK'
  BY DEF WInv, LabelsOK, BackupsOK, Holds, Exists, OwnedBy, allVars, vars
<1>5. OneAtATime'
  BY DEF WInv, OneAtATime, allVars, vars
<1> QED
  BY <1>1, <1>2, <1>3, <1>4, <1>5, SparedOK DEF WInv

LEMMA CrashKeepsWInv ==
  ASSUME WInv, Crash, UNCHANGED kind
  PROVE  WInv'
<1>1. AllTypeOK'
  BY AroundType DEF WInv
<1>2. /\ UNCHANGED containers /\ UNCHANGED storeVars
      /\ UNCHANGED transaction /\ UNCHANGED progress
      /\ pc' = [o \in Op |-> IF pc[o] \in Ended THEN pc[o] ELSE "crashed"]
  BY DEF Crash
<1>3. NamesUnique' /\ LabelsOK' /\ BackupsOK'
  BY <1>2 DEF WInv, NamesUnique, LabelsOK, BackupsOK, Holds, Exists, OwnedBy
<1>4. \A p \in Op : pc'[p] \in Ended
  BY <1>2 DEF Ended
<1>5. OneAtATime'
  BY <1>4 DEF OneAtATime
<1>6. ASSUME NEW p \in Op PROVE OpOK(p)'
  <2>1. RefersOK(p) /\ (pc'[p] = pc[p] \/ (pc'[p] = "crashed" /\ Working(p)))
    BY <1>2 DEF WInv, OpOK, Working
  <2>2. pc'[p] \in StepsOf(kind[p])
    <3>1. CASE pc'[p] = pc[p]
      BY <2>1, <3>1 DEF RefersOK
    <3>2. CASE pc'[p] = "crashed" /\ Working(p)
      <4>1. kind[p] \in Operations
        BY <3>2, WorkingNamed DEF WInv, AllTypeOK, MemoryOK
      <4> QED
        BY <3>2, <4>1 DEF StepsOf, Steps, Ended, Operations
    <3> QED
      BY <2>1, <3>1, <3>2
  <2>3. StepsOf(kind[p])' = StepsOf(kind[p])
    BY DEF StepsOf
  <2>4. RefersOK(p)'
    <3>1. pc'[p] \in Ended
      BY <1>4
    <3> QED
      BY <1>2, <2>1, <2>2, <2>3, <3>1 DEF RefersOK, AliveOnce, Working, Ended, Uncreated, Early,
         Preflight, UpkeepSteps, transaction, progress
  <2>5. pc'[p] \in Ended
    BY <1>4
  <2> QED
    BY <2>4, <2>5 DEF OpOK, SpawnOK, TargetOK, AdoptedOK, ClearedOK, FilesOK, BuiltOK, UpkeepOK,
       Working, Ended, Renamed, Restored, Uncommitted, Preflight, Forward, Backward, Created,
       DeploySteps, Steps
<1> QED
  BY <1>1, <1>3, <1>5, <1>6 DEF WInv

-------------------------------------------------------------------------------
(* The request that begins an operation.                                   *)

\* A request takes on what nobody is at work on.
Free(o) ==
  /\ pc[o] = "idle" /\ UNCHANGED <<progress, storeVars>>
  /\ \A c \in ContainerId : Kept(c)
  /\ ~Busy(svc'[o])
  /\ \/ orig' = orig
     \/ \E c \in ContainerId :
          /\ orig' = [orig EXCEPT ![o] = c]
          /\ Exists(c) /\ ~Busy(containers[c].service)
          /\ \A p \in Op : Working(p) => orig[p] # c

\* A request finds its service free and changes nothing but its own memory.
LEMMA AsksFree ==
  ASSUME AllTypeOK, Serial, NEW o \in Op, Asks(o)
  PROVE  Free(o)
<1>1. Requests(o) /\ UNCHANGED storeVars /\ UNCHANGED progress /\ svc \in [Op -> ContainerName \cup {NoName}]
  BY AsksRequests DEF Requests, AllTypeOK, MemoryOK
<1>2. \A c \in ContainerId : FreeContainer(c) =>
        /\ ~Busy(containers[c].name) /\ ~Busy(containers[c].service)
        /\ \A p \in Op : Working(p) => orig[p] # c
  BY DEF FreeContainer, FreeService, Working
<1>3. ASSUME NEW c \in ContainerId, FreeContainer(c),
             orig' = [orig EXCEPT ![o] = c], svc' = [svc EXCEPT ![o] = containers[c].name],
             Exists(c), UNCHANGED containers \/ \E ok \in BOOLEAN : PodmanStop(c, ok)
      PROVE  Free(o)
  <2>1. \A d \in ContainerId : Kept(d)
    BY <1>3, StillKeeps, StopKeeps DEF AllTypeOK
  <2>2. svc'[o] = containers[c].name
    BY <1>1, <1>3
  <2> QED
    BY <1>1, <1>2, <1>3, <2>1, <2>2 DEF Free, Requests
<1>4. ASSUME NEW n \in Name, FreeService(n), svc' = [svc EXCEPT ![o] = n],
             UNCHANGED containers, UNCHANGED orig
      PROVE  Free(o)
  BY <1>1, <1>4, StillKeeps DEF Free, Requests, FreeService
<1> QED
  BY <1>3, <1>4 DEF Asks, Request, DeployRequest, AdoptRequest, CreateRequest, DeleteRequest,
     RemoveRequest, StopToRemove

\* A request spares every other operation.
LEMMA AsksSpares ==
  ASSUME WInv, NEW o \in Op, Requests(o), Free(o), NEW p \in Op \ {o}
  PROVE  Spared(p)
<1>1. \A q \in Op \ {o} : LocalsKept(q) /\ kind'[q] = kind[q]
  BY DEF Requests, Free, Proceeds, Goto, Finish, PollAgain, EnterRollback, LocalsKept, WInv,
     AllTypeOK,
     ControlOK, MemoryOK, progress, storeVars
<1>2. /\ \A c \in ContainerId : Kept(c)
      /\ spawned'[o] = {} /\ specs' = specs
      /\ orig[p] \in ContainerId /\ Working(p) => orig'[o] # orig[p]
  <2>1. spawned[o] = {} /\ orig[o] = NoId /\ NoId \notin ContainerId /\ orig \in [Op -> ContainerId \cup {NoId}]
    BY NamesDistinct DEF WInv, OpOK, RefersOK, Free, Uncreated, AllTypeOK, MemoryOK
  <2> QED
    BY <2>1 DEF Free, progress, storeVars
<1> QED
  BY <1>1, <1>2 DEF Spared, LocalsKept, Working

\* What the request leaves the operation with.
Fresh(o, k, at) ==
  /\ kind'[o] = k /\ pc'[o] = at
  /\ stdout'[o] = NoId /\ candidateID'[o] = NoId /\ spawned'[o] = {}

\* What a request remembers is fresh.
LEMMA AsksFresh ==
  ASSUME WInv, NEW o \in Op, Free(o), NEW k \in Operations, NEW at, Begins(o, k),
         Goto(o, at) \/ (\E r \in AllOutcomes : Finish(o, r) /\ at = "done")
  PROVE  Fresh(o, k, at)
<1>1. RefersOK(o) /\ pc[o] \in Uncreated
  BY DEF WInv, OpOK, Free, Uncreated
<1> QED
  BY <1>1 DEF RefersOK, Fresh, Free, Begins, Goto, Finish, progress, WInv, AllTypeOK, MemoryOK,
     ControlOK

\* A request that is refused leaves nothing to claim.
LEMMA RefusedOK ==
  ASSUME WInv, NEW o \in Op, Free(o), NEW k \in Operations, Fresh(o, k, "done")
  PROVE  OpOK(o)'
<1>1. orig'[o] # NoId => orig'[o] \in ContainerId /\ AliveOnce(orig'[o])
  BY AliveFacts DEF Free, WInv, AllTypeOK, MemoryOK, OpOK, RefersOK
<1>2. orig'[o] # NoId => containers'[orig'[o]].name # NoId
  BY <1>1 DEF Free, Kept, SameRecord, AliveOnce
<1>3. "done" \in StepsOf(k)
  BY DEF StepsOf, Steps, Ended, Operations
<1>4. StepsOf(kind[o])' = StepsOf(k)
  BY DEF StepsOf, Fresh
<1>5. RefersOK(o)'
  BY <1>2, <1>3, <1>4 DEF RefersOK, Fresh, Working, Ended, Uncreated, Early, Preflight,
     UpkeepSteps, AliveOnce
<1> QED
  BY <1>5 DEF OpOK, Fresh, SpawnOK, TargetOK, AdoptedOK, ClearedOK, FilesOK, BuiltOK, UpkeepOK,
     Working, Ended, Renamed, Restored, Uncommitted, Preflight, Forward, Backward, Created,
     DeploySteps, Steps

\* What is claimed of an operation holds from the start, kind by kind.
LEMMA AsksMutateOK ==
  ASSUME WInv, NEW o \in Op, Free(o), Begins(o, "mutate"),
         NEW c \in ContainerId, NEW d \in Deployment, Request(o, c, d)
  PROVE  OpOK(o)'
<1>1. CASE Finish(o, "refused")
  BY <1>1, AsksFresh, RefusedOK DEF AllOutcomes, Outcomes, Operations
<1>2. CASE Goto(o, "resolve") /\ containers[c].service # Unmanaged
  <2>1. Fresh(o, "mutate", "resolve")
    BY <1>2, AsksFresh DEF Operations
  <2>2. orig'[o] = c /\ svc'[o] = containers[c].name /\ UNCHANGED containers /\ Exists(c)
    BY DEF Request, WInv, AllTypeOK, MemoryOK
  <2>3. AliveOnce(c)
    BY <2>2, AliveFacts DEF WInv, AllTypeOK
  <2> QED
    BY <1>2, <2>1, <2>2, <2>3 DEF Fresh, OpOK, RefersOK, AliveOnce, StepsOf, SpawnOK, TargetOK,
       AdoptedOK, ClearedOK, FilesOK, BuiltOK, UpkeepOK, Working, Ended, Renamed, Restored,
       Uncommitted, Preflight, Forward, Backward, Created, DeploySteps, Steps, Uncreated, Early,
       Replacing, Quiescing, OwnedBy, Holds, Exists
<1> QED
  BY <1>1, <1>2 DEF Request

LEMMA AsksDeployOK ==
  ASSUME WInv, NEW o \in Op, Free(o), Begins(o, "deploy"), NEW n \in Name, DeployRequest(o, n)
  PROVE  OpOK(o)'
<1>1. Fresh(o, "deploy", "survey")
  BY AsksFresh DEF DeployRequest, Operations
<1>2. orig'[o] = NoId /\ svc'[o] = n /\ want'[o] = specs'[n]
  BY DEF DeployRequest, WInv, AllTypeOK, MemoryOK, OpOK, RefersOK, storeVars
<1> QED
  BY <1>1, <1>2 DEF Fresh, OpOK, RefersOK, AliveOnce, StepsOf, SpawnOK, TargetOK,
     AdoptedOK, ClearedOK, FilesOK, BuiltOK, UpkeepOK, Working, Ended, Renamed, Restored,
     Uncommitted, Preflight, Forward, Backward, Created, DeploySteps, Steps, Uncreated, Early,
     Replacing, Quiescing

LEMMA AsksAdoptOK ==
  ASSUME WInv, NEW o \in Op, Free(o), Begins(o, "adopt"), NEW c \in ContainerId, AdoptRequest(o, c)
  PROVE  OpOK(o)'
<1>1. CASE Finish(o, "refused")
  BY <1>1, AsksFresh, RefusedOK DEF AllOutcomes, Outcomes, Operations
<1>2. CASE Goto(o, "resolve") /\ containers[c].service = Unmanaged /\ containers[c].name \in Name
  <2>1. Fresh(o, "adopt", "resolve")
    BY <1>2, AsksFresh DEF Operations
  <2>2. orig'[o] = c /\ svc'[o] = containers[c].name /\ UNCHANGED containers /\ Exists(c)
    BY DEF AdoptRequest, WInv, AllTypeOK, MemoryOK
  <2>3. AliveOnce(c)
    BY <2>2, AliveFacts DEF WInv, AllTypeOK
  <2>4. \A e \in ContainerId : Exists(e) /\ containers[e].name = containers[c].name => e = c
    BY <2>2 DEF WInv, NamesUnique
  <2> QED
    BY <1>2, <2>1, <2>2, <2>3, <2>4 DEF Fresh, OpOK, RefersOK, AliveOnce, StepsOf, SpawnOK,
       TargetOK,
       AdoptedOK, ClearedOK, FilesOK, BuiltOK, UpkeepOK, Working, Ended, Renamed, Restored,
       Uncommitted, Preflight, Forward, Backward, Created, DeploySteps, Steps, Uncreated, Early,
       Replacing, Quiescing, OwnedBy, Holds, Exists
<1> QED
  BY <1>1, <1>2 DEF AdoptRequest, CanAdopt

LEMMA AsksCreateOK ==
  ASSUME WInv, NEW o \in Op, Free(o), Begins(o, "create"), NEW n \in Name, NEW d \in Deployment,
         NEW managed \in BOOLEAN, CreateRequest(o, n, d, managed)
  PROVE  OpOK(o)'
<1>1. CASE Finish(o, "refused")
  BY <1>1, AsksFresh, RefusedOK DEF AllOutcomes, Outcomes, Operations
<1>2. CASE Goto(o, IF managed THEN "stage" ELSE "plain")
  <2>1. \E at \in {"stage", "plain"} : Fresh(o, "create", at)
    BY <1>2, AsksFresh DEF Operations
  <2>2. orig'[o] = NoId /\ svc'[o] = n
    BY DEF CreateRequest, WInv, AllTypeOK, MemoryOK, OpOK, RefersOK
  <2> QED
    BY <2>1, <2>2 DEF Fresh, OpOK, RefersOK, AliveOnce, StepsOf, SpawnOK, TargetOK,
       AdoptedOK, ClearedOK, FilesOK, BuiltOK, UpkeepOK, Working, Ended, Renamed, Restored,
       Uncommitted, Preflight, Forward, Backward, Created, CreationSteps, Steps, Uncreated,
       Early,
       Replacing, Quiescing
<1> QED
  BY <1>1, <1>2 DEF CreateRequest

LEMMA AsksDeleteOK ==
  ASSUME WInv, NEW o \in Op, Free(o), Begins(o, "delete"), NEW n \in Name, DeleteRequest(o, n)
  PROVE  OpOK(o)'
<1>1. CASE Finish(o, "refused")
  BY <1>1, AsksFresh, RefusedOK DEF AllOutcomes, Outcomes, Operations
<1>2. CASE ~Labelled(n) /\ Goto(o, "unlink")
  <2>1. Fresh(o, "delete", "unlink")
    BY <1>2, AsksFresh DEF Operations
  <2>2. orig'[o] = NoId /\ svc'[o] = n /\ UNCHANGED containers
    BY DEF DeleteRequest, WInv, AllTypeOK, MemoryOK, OpOK, RefersOK
  <2> QED
    BY <1>2, <2>1, <2>2 DEF Fresh, OpOK, RefersOK, AliveOnce, StepsOf, SpawnOK, TargetOK,
       AdoptedOK, ClearedOK, FilesOK, BuiltOK, UpkeepOK, Working, Ended, Renamed, Restored,
       Uncommitted, Preflight, Forward, Backward, Created, UpkeepSteps, Steps, Uncreated, Early,
       Replacing, Quiescing, Labelled, Exists
<1> QED
  BY <1>1, <1>2 DEF DeleteRequest

LEMMA AsksRemoveOK ==
  ASSUME WInv, NEW o \in Op, Free(o), Requests(o), Begins(o, "remove"), NEW c \in ContainerId,
         RemoveRequest(o, c) \/ StopToRemove(o, c)
  PROVE  OpOK(o)'
<1>1. CASE Finish(o, "refused") \/ Finish(o, "failed")
  BY <1>1, AsksFresh, RefusedOK DEF AllOutcomes, Outcomes, Operations
<1>2. CASE Goto(o, "erase")
  <2>1. Fresh(o, "remove", "erase")
    BY <1>2, AsksFresh DEF Operations
  <2>2. /\ orig'[o] = c /\ svc'[o] = containers[c].name /\ Exists(c)
        /\ containers'[c].name = containers[c].name
    BY DEF RemoveRequest, StopToRemove, WInv, AllTypeOK, MemoryOK, Free, Kept, SameRecord
  <2>3. AliveOnce(c)
    BY <2>2, AliveFacts DEF WInv, AllTypeOK
  <2>4. orig[o] = NoId /\ NoId \notin ContainerId /\ ~Busy(containers[c].service)
        /\ \A p \in Op : Working(p) => orig[p] # c
    BY <2>2, NamesDistinct DEF Free, WInv, OpOK, RefersOK, AllTypeOK, MemoryOK
  <2>5. ASSUME NEW p \in Op \ {o}, Working(p)'
        PROVE  orig'[p] # c /\ c \notin spawned'[p]
    <3>1. Working(p) /\ orig'[p] = orig[p] /\ spawned'[p] = spawned[p] /\ spawned[p] \subseteq ContainerId
      BY <2>5, AsksSpares DEF Spared, LocalsKept, Working, WInv, AllTypeOK, ProgressOK
    <3>2. c \in spawned[p] => containers[c].service = svc[p]
      BY <3>1 DEF WInv, OpOK, SpawnOK, OwnedBy
    <3> QED
      BY <2>4, <3>1, <3>2 DEF Busy, Working
  <2> QED
    BY <2>1, <2>2, <2>3, <2>5 DEF Fresh, OpOK, RefersOK, AliveOnce, StepsOf, SpawnOK, TargetOK,
       AdoptedOK, ClearedOK, FilesOK, BuiltOK, UpkeepOK, Working, Ended, Renamed, Restored,
       Uncommitted, Preflight, Forward, Backward, Created, UpkeepSteps, Steps, Uncreated, Early,
       Replacing, Quiescing
<1> QED
  BY <1>1, <1>2 DEF RemoveRequest, StopToRemove

\* A request keeps the invariant.
LEMMA AsksKeepsWInv ==
  ASSUME WInv, Serial, NEW o \in Op, Asks(o)
  PROVE  WInv'
<1>1. AllTypeOK' /\ Requests(o) /\ Free(o)
  BY AsksType, AsksRequests, AsksFree DEF WInv
<1>2. OpOK(o)'
  BY <1>1, AsksMutateOK, AsksDeployOK, AsksAdoptOK, AsksCreateOK, AsksDeleteOK, AsksRemoveOK
     DEF Asks
<1>3. \A p \in Op \ {o} : Spared(p)
  BY <1>1, AsksSpares
<1>4. NamesUnique' /\ LabelsOK'
  BY <1>1, KeptNamesUnique DEF Free, WInv, LabelsOK, Kept, SameRecord
<1>5. OneAtATime'
  <2>1. \A p \in Op \ {o} : svc'[p] = svc[p] /\ pc'[p] = pc[p]
    BY <1>3 DEF Spared, LocalsKept
  <2> QED
    BY <1>1, <2>1 DEF Free, Busy, WInv, OneAtATime
<1>6. BackupsOK'
  <2>1. \A p \in Op : kind'[p] = kind[p] \/ kind[p] = "none"
    BY <1>1, <1>3 DEF Spared, Free, WInv, OpOK, RefersOK
  <2> QED
    BY <1>1, <2>1 DEF Free, WInv, BackupsOK, Holds, OwnedBy, Kept, SameRecord, SameExistence,
       Replacing
<1> QED
  BY <1>1, <1>2, <1>3, <1>4, <1>5, <1>6, SparedOK DEF WInv

\* The invariant holds at the start.
LEMMA InitWInv == WorkloadsInit => WInv
<1> SUFFICES ASSUME WorkloadsInit PROVE WInv
  OBVIOUS
<1>1. AllTypeOK
  BY InitAllTypeOK
<1>2. PICK deployed \in [Name -> Deployment], owned \in SUBSET Name,
           up \in [Name -> {"running", "stopped"}] :
       /\ containers = [c \in ContainerId |->
            IF Home[c] = NoName THEN Unborn
            ELSE [life |-> up[Home[c]], name |-> Home[c],
                  service |-> IF Home[c] \in owned THEN Home[c] ELSE Unmanaged,
                  deployment |-> deployed[Home[c]]]]
       /\ specs = [n \in Name |->
            IF n \in Lost \/ \E c \in ContainerId : Home[c] = n /\ n \in owned
              THEN deployed[n] ELSE NoSpec]
  BY DEF WorkloadsInit
<1>3. ASSUME NEW c \in ContainerId, Exists(c)
      PROVE  Home[c] \in Name /\ containers[c].name = Home[c]
  BY <1>2, <1>3, ReplacementAssumption DEF Exists, Alive, Unborn
<1>4. NamesUnique
  BY <1>3, ReplacementAssumption, NamesDistinct, NamesFacts DEF NamesUnique
<1>5. LabelsOK
  BY <1>2 DEF LabelsOK, Unborn
<1>6. BackupsOK
  BY <1>3, NamesFacts DEF BackupsOK, Holds
<1>7. \A o \in Op : /\ pc[o] = "idle" /\ kind[o] = "none" /\ orig[o] = NoId
                    /\ stdout[o] = NoId /\ candidateID[o] = NoId /\ spawned[o] = {}
  BY DEF WorkloadsInit, Quiet
<1>8. OneAtATime
  BY <1>7 DEF OneAtATime, Ended
<1>9. \A o \in Op : OpOK(o)
  BY <1>7 DEF OpOK, RefersOK, StepsOf, SpawnOK, TargetOK, AdoptedOK, ClearedOK, FilesOK,
     BuiltOK,
     UpkeepOK, Working, Ended, Replacing, Quiescing
<1> QED
  BY <1>1, <1>4, <1>5, <1>6, <1>8, <1>9 DEF WInv

\* The invariant, of any number of operations of every kind that do not overlap on
\* a service, whatever fails, whoever dies and whatever the host does.
THEOREM WorkloadsInvariance ==
  ASSUME Serial
  PROVE  WorkloadsSpec => []WInv
<1>1. WInv /\ [WorkloadsNext]_allVars => WInv'
  BY AsksKeepsWInv, StepKeepsWInv, StepKeepsAll, EnvironmentKeepsWInv, CrashKeepsWInv,
     StutterKeepsWInv DEF WorkloadsNext
<1> QED
  BY <1>1, InitWInv, PTL DEF WorkloadsSpec

-------------------------------------------------------------------------------
(* The ways an operation returns, when it does not send the user to look.  *)

\* What a creation made is seen when it is looked for.
SeesWhatItMakes == ~("list" \in Faults /\ "create" \in LateFaults)

\* What a replacement runs can be told from its ports.
KnowsWhatItRuns ==
  \/ "drift" \notin Faults
  \/ \A d, e \in Deployment : PortsOf[d] = PortsOf[e] => d = e

\* A return before anything was created or put aside.
NotBegun(o) ==
  /\ Calm(o) /\ spawned[o] = {} /\ stdout[o] = NoId
  /\ outcome'[o] # "rolledBack"
  /\ specs' = specs \/ (~Labelled(svc[o]) /\ \A n \in Name : n # svc[o] => specs'[n] = specs[n])

\* A return with nothing of the operation left, the service's spec as it was.
NothingLeft(o) ==
  /\ \A c \in ContainerId : Holds(c, svc[o]) => OwnedBy(c, Unmanaged)
  /\ \A c \in spawned[o] : ~Exists(c)
  /\ specs' = specs
  /\ outcome'[o] \notin {"rolledBack", "success", "backupLeft"}

\* A rollback that saw the original back under its name.
PutBack(o) ==
  /\ kind[o] \in Quiescing /\ pc[o] = "restarting"
  /\ OriginalRestored(o)
  /\ specs' = specs
  /\ outcome'[o] = "rolledBack"

\* A return with what was asked for running under a spec that says so.
Serving(o) ==
  /\ svc[o] \in Name
  /\ Built(o) /\ Runs(o)
  /\ specs'[svc[o]] = want[o]
  /\ outcome'[o] \in {"success", "backupLeft"}

\* The operation returns, and does not send the user to look.
Returned(o) == pc'[o] = "done" /\ outcome'[o] # "manual"

\* A return from an early step.
LEMMA EarlyReturn ==
  ASSUME WInv, NEW o \in Op, pc[o] \in Early, outcome'[o] # "rolledBack", specs' = specs
  PROVE  NotBegun(o)
BY DEF NotBegun, Calm, WInv, OpOK, RefersOK, Uncreated

\* Nothing under the service's name: nothing of the operation is left.
LEMMA EmptyReturn ==
  ASSUME WInv, NEW o \in Op, Working(o), ~Taken(svc[o]), specs' = specs,
         outcome'[o] \in {"removed", "unchanged"}
  PROVE  NothingLeft(o)
<1>1. \A c \in spawned[o] : c \in ContainerId
  BY DEF WInv, AllTypeOK, ProgressOK
<1> QED
  BY <1>1 DEF NothingLeft, WInv, OpOK, SpawnOK, Taken, Holds

\* The returns of each procedure, one of those ways each.
LEMMA RollbackReturns ==
  ASSUME WInv, NEW o \in Op, kind[o] \in Quiescing, Rollback(o), Returned(o)
  PROVE  PutBack(o)
<1>1. AllTypeOK
  BY DEF WInv
<1>2. CASE AwaitRestored(o)
  BY <1>1, <1>2, Arriving DEF AwaitRestored, PutBack, Returned, storeVars
<1>3. CASE ~AwaitRestored(o)
  BY <1>1, <1>3, Arriving DEF Rollback, StopCandidate, RemoveCandidate, CheckCandidateGone,
     RestoreName,
     InspectRestored, RestartOriginal, Returned, AllTypeOK, ControlOK
<1> QED
  BY <1>2, <1>3

LEMMA RenameReturns ==
  ASSUME WInv, NEW o \in Op, RenameAway(o), Returned(o)
  PROVE  NotBegun(o)
<1>1. AllTypeOK
  BY DEF WInv
<1>2. pc[o] = "rename" /\ outcome'[o] = "unchanged" /\ specs' = specs
  BY <1>1, Arriving DEF RenameAway, Returned
<1> QED
  BY <1>2, EarlyReturn DEF Early, Preflight

LEMMA MutationReturns ==
  ASSUME WInv, NEW o \in Op, kind[o] = "mutate", Mutation(o), Returned(o)
  PROVE  NotBegun(o) \/ PutBack(o) \/ Serving(o)
<1>1. AllTypeOK
  BY DEF WInv
<1>2. CASE Resolve(o) \/ Snapshot(o)
  <2>1. pc[o] \in Early /\ outcome'[o] = "refused" /\ specs' = specs
    BY <1>1, <1>2, Arriving DEF Resolve, Snapshot, Returned, Early, Preflight, storeVars
  <2> QED
    BY <2>1, EarlyReturn
<1>3. CASE RemoveBackup(o)
  <2>1. pc[o] = "cleanup" /\ outcome'[o] \in {"success", "backupLeft"} /\ specs' = specs
    BY <1>1, <1>3, Arriving DEF RemoveBackup, storeVars
  <2> QED
    BY <2>1 DEF Serving, WInv, OpOK, BuiltOK, FilesOK, RefersOK, Created, Working, Ended
<1>4. ~(StopOriginal(o) \/ AwaitStopped(o) \/ ArgumentsFail(o) \/ CreateReplacement(o)
         \/ CreateFails(o) \/ ProbeCandidate(o) \/ VerifyReplacement(o) \/ CheckHealth(o)
         \/ Commit(o))
  BY <1>1, Arriving DEF StopOriginal, AwaitStopped, ArgumentsFail, CreateReplacement,
     CreateFails,
     ProbeCandidate, VerifyReplacement, CheckHealth, Commit, Returned
<1> QED
  BY <1>2, <1>3, <1>4, RollbackReturns, RenameReturns DEF Mutation, Quiescing

LEMMA DeployReturns ==
  ASSUME WInv, NEW o \in Op, kind[o] = "deploy", Deploy(o), Returned(o), Working(o)
  PROVE  NotBegun(o) \/ NothingLeft(o) \/ PutBack(o) \/ Serving(o)
<1>1. /\ AllTypeOK /\ svc[o] \in Name /\ specs[svc[o]] = want[o]
  BY DEF WInv, OpOK, RefersOK, FilesOK
<1>2. CASE Survey(o)
  <2>1. pc[o] \in Early /\ outcome'[o] = "refused" /\ specs' = specs
    BY <1>1, <1>2, Arriving DEF Survey, Returned, Early, storeVars
  <2> QED
    BY <2>1, EarlyReturn
<1>3. CASE LookForLeftover(o)
  <2>1. ~Taken(svc[o]) /\ outcome'[o] = "unchanged" /\ specs' = specs
    BY <1>1, <1>3, Arriving DEF LookForLeftover, Returned, storeVars
  <2> QED
    BY <2>1, EmptyReturn
<1>4. CASE AwaitLeftoverGone(o)
  <2>1. ~Found(stdout[o]) /\ outcome'[o] = "removed" /\ specs' = specs /\ pc[o] = "leftGone"
    BY <1>1, <1>4, Arriving DEF AwaitLeftoverGone, AwaitAbsent, Returned, storeVars
  <2>2. stdout[o] # NoId /\ spawned[o] = {stdout[o]} /\ stdout[o] \in ContainerId
    BY <1>1, <2>1 DEF WInv, OpOK, BuiltOK, SpawnOK, AllTypeOK, ProgressOK
  <2>3. ~Exists(stdout[o])
    BY <2>1, <2>2 DEF Found, Refers
  <2>4. \A c \in ContainerId : Holds(c, svc[o]) => OwnedBy(c, Unmanaged)
    BY <2>1, <2>2, <2>3 DEF WInv, OpOK, ClearedOK, DeploySteps, Holds
  <2> QED
    BY <2>1, <2>2, <2>3, <2>4 DEF NothingLeft
<1>5. CASE ProveNew(o)
  <2>1. Deployed(o, "running") /\ outcome'[o] = "success" /\ specs' = specs
    BY <1>1, <1>5, Arriving DEF ProveNew, Returned, storeVars
  <2> QED
    BY <1>1, <2>1 DEF Serving, Deployed, Matches, Built, Runs
<1>6. CASE AwaitUndone(o)
  <2>1. ~Taken(svc[o]) /\ outcome'[o] = "removed" /\ specs' = specs
    BY <1>1, <1>6, Arriving DEF AwaitUndone, AwaitAbsent, Returned, storeVars
  <2> QED
    BY <2>1, EmptyReturn
<1>7. CASE AwaitRetired(o)
  <2>1. pc[o] = "gone" /\ outcome'[o] \in {"success", "backupLeft"} /\ specs' = specs
    BY <1>1, <1>7, Arriving DEF AwaitRetired, AwaitAbsent, Returned, storeVars
  <2> QED
    BY <1>1, <2>1 DEF Serving, WInv, OpOK, BuiltOK
<1>8. ~(RunNew(o) \/ StopLeftover(o) \/ RemoveLeftover(o) \/ UndoStop(o) \/ UndoRemove(o)
         \/ StopOriginal(o) \/ AwaitHalted(o) \/ Recreate(o) \/ TraceCandidate(o)
         \/ ProveReplacement(o) \/ RetireBackup(o))
  BY <1>1, Arriving DEF RunNew, StopLeftover, RemoveLeftover, UndoStop, UndoRemove,
     StopOriginal,
     AwaitHalted, Recreate, TraceCandidate, ProveReplacement, RetireBackup, Creates, StopBy,
     RemoveBy,
     Returned
<1> QED
  BY <1>2, <1>3, <1>4, <1>5, <1>6, <1>7, <1>8, RollbackReturns, RenameReturns DEF Deploy,
     Quiescing

LEMMA AdoptReturns ==
  ASSUME WInv, NEW o \in Op, kind[o] = "adopt", Adopt(o), Returned(o), Working(o)
  PROVE  \/ NotBegun(o) \/ PutBack(o)
         \/ Serving(o)
         \/ pc[o] = "commit" /\ ~KnowsWhatItRuns /\ specs'[svc[o]] = want[o]
<1>1. AllTypeOK /\ svc[o] \in Name
  BY DEF WInv, OpOK, RefersOK
<1>2. CASE ReviewTarget(o) \/ Snapshot(o)
  <2>1. pc[o] \in Early /\ outcome'[o] = "refused" /\ specs' = specs
    BY <1>1, <1>2, Arriving DEF ReviewTarget, Snapshot, Returned, Early, Preflight, storeVars
  <2> QED
    BY <2>1, EarlyReturn
<1>3. CASE CommitAdoption(o) /\ KnowsWhatItRuns
  <2>1. pc[o] = "commit" /\ outcome'[o] = "backupLeft" /\ CommitCandidateSpec(o, svc[o])
    BY <1>1, <1>3, Arriving DEF CommitAdoption, Returned
  <2>2. /\ Built(o) /\ candidates[o] = want[o] /\ want[o] \in Deployment
        /\ PortsOf[containers[stdout[o]].deployment] = PortsOf[want[o]]
        /\ "drift" \notin Faults => Runs(o)
    BY <1>1, <1>3, <2>1 DEF WInv, OpOK, BuiltOK, FilesOK, Created, AllTypeOK, MemoryOK
  <2>3. Runs(o)
    <3>1. PICK t \in ContainerId : t = stdout[o]
      BY <1>1, <2>2 DEF Built, AllTypeOK, ProgressOK
    <3>2. containers[t].deployment \in Deployment
      BY <1>1, <2>2, <3>1, ExistingTyped DEF Built, AllTypeOK
    <3> QED
      BY <1>3, <2>2, <3>1, <3>2 DEF KnowsWhatItRuns, Runs
  <2>4. specs'[svc[o]] = want[o]
    BY <1>1, <2>1, <2>2 DEF CommitCandidateSpec, AllTypeOK, StoreTypeOK
  <2> QED
    BY <1>1, <2>1, <2>2, <2>3, <2>4 DEF Serving
<1>4. CASE CommitAdoption(o) /\ ~KnowsWhatItRuns
  <2>1. pc[o] = "commit" /\ CommitCandidateSpec(o, svc[o])
    BY <1>1, <1>4, Arriving DEF CommitAdoption, Returned
  <2>2. candidates[o] = want[o]
    BY <2>1 DEF WInv, OpOK, FilesOK
  <2> QED
    BY <1>1, <1>4, <2>1, <2>2 DEF CommitCandidateSpec, AllTypeOK, StoreTypeOK
<1>5. ~(StopOriginal(o) \/ AwaitStopped(o) \/ ArgumentsFail(o) \/ Reproduce(o)
         \/ ProbeCandidate(o) \/ VerifyReplica(o))
  BY <1>1, Arriving DEF StopOriginal, AwaitStopped, ArgumentsFail, Reproduce, ProbeCandidate,
     VerifyReplica, Returned
<1> QED
  BY <1>2, <1>3, <1>4, <1>5, RollbackReturns, RenameReturns DEF Adopt, Quiescing

LEMMA CreateReturns ==
  ASSUME WInv, NEW o \in Op, kind[o] = "create", Create(o), Returned(o), Working(o), SeesWhatItMakes
  PROVE  NotBegun(o) \/ NothingLeft(o) \/ Serving(o)
<1>1. AllTypeOK /\ svc[o] \in Name
  BY DEF WInv, OpOK, RefersOK
<1>2. CASE CreatePlain(o) \/ StageCandidate(o)
  <2>1. pc[o] \in Early /\ outcome'[o] # "rolledBack" /\ specs' = specs
    BY <1>1, <1>2, Arriving DEF CreatePlain, StageCandidate, Returned, Early, storeVars
  <2> QED
    BY <2>1, EarlyReturn
<1>3. CASE SeekLeftover(o)
  <2>1. /\ outcome'[o] = "unchanged" /\ specs' = specs /\ pc[o] = "seek"
        /\ ~Taken(svc[o]) \/ ListingMayFail
    BY <1>1, <1>3, Arriving DEF SeekLeftover, Returned
  <2>2. CASE spawned[o] = {}
    BY <2>1, <2>2, <1>1, NamesDistinct DEF NotBegun, Calm, WInv, OpOK, SpawnOK
  <2>3. CASE spawned[o] # {}
    <3>1. "create" \in LateFaults
      BY <2>1, <2>3 DEF WInv, OpOK, BuiltOK
    <3>2. ~Taken(svc[o])
      BY <2>1, <3>1 DEF SeesWhatItMakes, ListingMayFail
    <3> QED
      BY <2>1, <3>2, EmptyReturn
  <2> QED
    BY <2>2, <2>3
<1>4. CASE CommitCreated(o)
  <2>1. pc[o] = "settle" /\ outcome'[o] = "success" /\ CommitCandidateSpec(o, svc[o])
    BY <1>1, <1>4, Arriving DEF CommitCreated, Returned
  <2>2. Built(o) /\ Runs(o) /\ candidates[o] = want[o]
    BY <2>1 DEF WInv, OpOK, BuiltOK, FilesOK
  <2>3. specs'[svc[o]] = want[o]
    BY <1>1, <2>1, <2>2 DEF CommitCandidateSpec, AllTypeOK, StoreTypeOK
  <2> QED
    BY <1>1, <2>1, <2>2, <2>3 DEF Serving
<1>5. CASE AwaitCleared(o)
  <2>1. ~Taken(svc[o]) /\ outcome'[o] = "removed" /\ specs' = specs
    BY <1>1, <1>5, Arriving DEF AwaitCleared, Returned
  <2> QED
    BY <2>1, EmptyReturn
<1>6. ~(CreateManaged(o) \/ CheckCreated(o) \/ ClearCreated(o))
  BY <1>1, Arriving DEF CreateManaged, CheckCreated, ClearCreated, Returned
<1> QED
  BY <1>2, <1>3, <1>4, <1>5, <1>6 DEF Create

LEMMA MaintainReturns ==
  ASSUME WInv, NEW o \in Op, kind[o] \in {"delete", "remove"}, Maintain(o), Working(o)
  PROVE  NotBegun(o)
<1>1. AllTypeOK /\ pc[o] \in StepsOf(kind[o])
  BY DEF WInv, OpOK, RefersOK
<1>2. CASE DeleteFile(o)
  <2>1. /\ pc[o] = "unlink" /\ outcome'[o] \in {"success", "failed"} /\ kind[o] = "delete"
        /\ \A n \in Name : n # svc[o] => specs'[n] = specs[n]
    BY <1>1, <1>2, Arriving DEF DeleteFile, RemoveSpec, StoreUnchanged, StepsOf, Ended,
       AllTypeOK, StoreTypeOK
  <2> QED
    BY <2>1 DEF NotBegun, Calm, Early, UpkeepSteps, Uncreated, WInv, OpOK, RefersOK, UpkeepOK
<1>3. CASE Erase(o)
  <2>1. pc[o] \in Early /\ outcome'[o] # "rolledBack" /\ specs' = specs
    BY <1>1, <1>3, Arriving DEF Erase, Early, UpkeepSteps, storeVars
  <2> QED
    BY <2>1, EarlyReturn
<1> QED
  BY <1>2, <1>3 DEF Maintain

\* Every return that does not send the user to look is one of four, or an adoption
\* that cannot tell what it runs.
LEMMA StepReturns ==
  ASSUME WInv, NEW o \in Op, Step(o), Returned(o), SeesWhatItMakes
  PROVE  \/ NotBegun(o) \/ NothingLeft(o) \/ PutBack(o) \/ Serving(o)
         \/ kind[o] = "adopt" /\ pc[o] = "commit" /\ ~KnowsWhatItRuns
              /\ specs'[svc[o]] = want[o]
BY MutationReturns, DeployReturns, AdoptReturns, CreateReturns, MaintainReturns, StepWorking
   DEF Step

-------------------------------------------------------------------------------
(* Every managed container is accounted for.                               *)

\* An operation forgets nothing it created.
LEMMA SpawnedGrows ==
  ASSUME AllTypeOK, NEW o \in Op, Step(o)
  PROVE  /\ spawned[o] \subseteq spawned'[o]
         /\ \A p \in Op \ {o} : /\ spawned'[p] = spawned[p] /\ pc'[p] = pc[p]
                                /\ outcome'[p] = outcome[p] /\ svc'[p] = svc[p]
<1>1. spawned[o] \subseteq spawned'[o]
  BY StepProgresses DEF AllTypeOK, ProgressOK, progress
<1> QED
  BY <1>1, StepAlone DEF Alone, LocalsKept

\* Only a deletion takes a spec away, and it saw nobody with the service's label.
LEMMA SpecTaken ==
  ASSUME WInv, NEW o \in Op, Step(o), NEW n \in Name, specs[n] # NoSpec, specs'[n] = NoSpec
  PROVE  ~Labelled(n)
<1>1. AllTypeOK /\ n = svc[o] /\ FileSteps(o)
  BY StepAlone, StepFiles DEF WInv, Alone
<1>2. pc[o] = "unlink"
  BY <1>1 DEF FileSteps, StoreUnchanged, WriteCandidateSpec, CommitCandidateSpec,
     DiscardCandidateSpec,
     AllTypeOK, StoreTypeOK
<1>3. kind[o] = "delete"
  BY <1>2, StepWorking, WorkingNamed
     DEF WInv, OpOK, RefersOK, StepsOf, Steps, DeploySteps, CreationSteps, Preflight, Forward,
         Backward, Ended, Operations, AllTypeOK, MemoryOK
<1> QED
  BY <1>1, <1>2, <1>3 DEF WInv, OpOK, UpkeepOK

\* A managed container that exists after a step existed before it, or was made by it.
LEMMA ManagedBefore ==
  ASSUME WInv, NEW o \in Op, Step(o), NEW c \in ContainerId, Managed(c)'
  PROVE  \/ /\ c \in spawned'[o] /\ pc'[o] # "done"
            /\ containers'[c].service = svc[o]
         \/ /\ Managed(c)
            /\ containers'[c].service = containers[c].service
            /\ containers'[c].deployment = containers[c].deployment
            /\ \/ containers'[c].name = containers[c].name
               \/ containers'[c].name = Backup[o]
               \/ containers'[c].name = svc[o] /\ pc'[o] = "inspect"
<1>1. Touched(o, c)
  BY StepKeepsAll DEF Keeps
<1> QED
  BY <1>1, NamesDistinct DEF Touched, Managed, Kept, SameRecord, SameExistence

\* A step of an operation keeps managed containers accounted for.
LEMMA StepAccounts ==
  ASSUME WInv, OrphansAccountedFor, SeesWhatItMakes, NEW o \in Op, Step(o)
  PROVE  OrphansAccountedFor'
<1>1. /\ AllTypeOK /\ Working(o) /\ spawned[o] \subseteq spawned'[o]
      /\ \A p \in Op \ {o} : /\ spawned'[p] = spawned[p] /\ pc'[p] = pc[p]
                             /\ outcome'[p] = outcome[p]
  BY SpawnedGrows, StepWorking DEF WInv
<1> SUFFICES ASSUME NEW c \in ContainerId, Managed(c)', specs'[containers'[c].service] = NoSpec
             PROVE  \E p \in Op : c \in spawned'[p] /\ (pc'[p] # "done" \/ outcome'[p] = "manual")
  BY DEF OrphansAccountedFor
<1>2. CASE c \in spawned'[o] /\ pc'[o] # "done"
  BY <1>2
<1>3. CASE Managed(c) /\ containers'[c].service = containers[c].service
  <2>1. containers[c].service \in Name
    BY <1>3 DEF WInv, LabelsOK, Managed
  <2>2. specs[containers[c].service] = NoSpec
    BY <1>3, <2>1, SpecTaken DEF Labelled, Managed
  <2>3. PICK p \in Op : c \in spawned[p] /\ (pc[p] # "done" \/ outcome[p] = "manual")
    BY <1>3, <2>2 DEF OrphansAccountedFor
  <2>4. CASE p # o
    BY <1>1, <2>3, <2>4
  <2>5. CASE p = o /\ ~Returned(o)
    BY <1>1, <2>3, <2>5 DEF Returned
  <2>6. CASE p = o /\ Returned(o)
    <3>1. /\ OwnedBy(c, svc[o]) /\ containers[c].name = svc[o] /\ c # orig[o]
          /\ Exists(c) /\ want[o] \in Deployment \cup {NoSpec}
      BY <1>1, <1>3, <2>3, <2>6 DEF WInv, OpOK, SpawnOK, Managed, AllTypeOK, MemoryOK
    <3>2. specs'[svc[o]] # want[o] \/ want[o] = NoSpec
      BY <1>3, <3>1 DEF OwnedBy
    <3>3. ~NotBegun(o) /\ ~NothingLeft(o)
      BY <2>3, <2>6, <3>1 DEF NotBegun, NothingLeft
    <3>4. ~PutBack(o)
      <4>1. orig[o] \in ContainerId \cup {NoId}
        BY <1>1 DEF AllTypeOK, MemoryOK
      <4>2. PutBack(o) => orig[o] \in ContainerId
        BY <4>1 DEF PutBack, Quiescing, Replacing, WInv, OpOK, AdoptedOK, TargetOK, Working,
           Ended,
           Steps, Backward
      <4> QED
        BY <3>1, <4>2 DEF PutBack, OriginalRestored, Holds, WInv, NamesUnique
    <3>5. Serving(o) \/ (kind[o] = "adopt" /\ specs'[svc[o]] = want[o])
      BY <2>6, <3>3, <3>4, StepReturns
    <3>6. kind[o] = "adopt" => want[o] \in Deployment
      BY <1>1 DEF AllTypeOK, MemoryOK
    <3>7. Serving(o) => want[o] \in Deployment
      <4>1. PICK t \in ContainerId \cup {NoId} : t = stdout[o]
        BY <1>1 DEF AllTypeOK, ProgressOK
      <4> QED
        BY <1>1, <4>1, ExistingTyped DEF Serving, Built, Runs, AllTypeOK
    <3> QED
      BY <3>2, <3>5, <3>6, <3>7, NamesDistinct DEF Serving
  <2> QED
    BY <2>4, <2>5, <2>6
<1> QED
  BY <1>2, <1>3, ManagedBefore

\* So does what happens around the operations.
LEMMA AroundAccounts ==
  ASSUME WInv, OrphansAccountedFor,
         \/ \E o \in Op : Serial /\ Asks(o)
         \/ Environment /\ UNCHANGED kind
         \/ Crash /\ UNCHANGED kind
         \/ UNCHANGED allVars
  PROVE  OrphansAccountedFor'
<1>1. CASE \E o \in Op : Serial /\ Asks(o)
  <2>1. PICK o \in Op : Asks(o) /\ Serial
    BY <1>1
  <2>2. Free(o) /\ Requests(o) /\ spawned[o] = {}
    BY <2>1, AsksFree, AsksRequests DEF WInv, OpOK, RefersOK, Free, Uncreated
  <2>3. \A p \in Op \ {o} : pc'[p] = pc[p] /\ outcome'[p] = outcome[p]
    BY <2>2 DEF Requests, Proceeds, Goto, Finish, PollAgain, EnterRollback, WInv, AllTypeOK,
       ControlOK
  <2> QED
    BY <2>2, <2>3 DEF Free, OrphansAccountedFor, Kept, SameRecord, SameExistence, Managed,
       progress, storeVars
<1>2. CASE Environment /\ UNCHANGED kind
  <2>1. \A c \in ContainerId : containers'[c].service # Unmanaged => Kept(c)
    BY <1>2, HostMovesFacts DEF Environment, WInv, AllTypeOK
  <2> QED
    BY <1>2, <2>1 DEF Environment, OrphansAccountedFor, Kept, SameRecord, SameExistence,
       Managed, progress, storeVars
<1>3. CASE Crash /\ UNCHANGED kind
  BY <1>3 DEF Crash, OrphansAccountedFor, Managed, Exists, storeVars, progress, Ended
<1>4. CASE UNCHANGED allVars
  BY <1>4 DEF allVars, vars, OrphansAccountedFor, Managed, Exists
<1> QED
  BY <1>1, <1>2, <1>3, <1>4

\* What a service is known to start with: the deployment its spec describes.
LEMMA InitStored ==
  ASSUME WorkloadsInit, NEW c \in ContainerId, Managed(c)
  PROVE  specs[containers[c].service] = containers[c].deployment /\ specs[containers[c].service] # NoSpec
<1>1. PICK deployed \in [Name -> Deployment], owned \in SUBSET Name,
           up \in [Name -> {"running", "stopped"}] :
       /\ containers = [d \in ContainerId |->
            IF Home[d] = NoName THEN Unborn
            ELSE [life |-> up[Home[d]], name |-> Home[d],
                  service |-> IF Home[d] \in owned THEN Home[d] ELSE Unmanaged,
                  deployment |-> deployed[Home[d]]]]
       /\ specs = [n \in Name |->
            IF n \in Lost \/ \E d \in ContainerId : Home[d] = n /\ n \in owned
              THEN deployed[n] ELSE NoSpec]
  BY DEF WorkloadsInit
<1>2. /\ Home[c] \in owned /\ containers[c].service = Home[c] /\ Home[c] \in Name
      /\ containers[c].deployment = deployed[Home[c]]
  BY <1>1, ReplacementAssumption DEF Managed, Exists, Alive, Unborn
<1>3. specs[Home[c]] = deployed[Home[c]]
  BY <1>1, <1>2
<1> QED
  BY <1>1, <1>2, <1>3, NamesDistinct

\* When operations do not overlap on a service, and a listing that fails cannot hide
\* what a failed create made: no managed container is without a spec of its service,
\* but for one whose creator is at work, died, or told the user to look.
THEOREM OrphansAlwaysAccountedFor ==
  ASSUME Serial, SeesWhatItMakes
  PROVE  WorkloadsSpec => []OrphansAccountedFor
<1>1. WorkloadsInit => OrphansAccountedFor
  <2> SUFFICES ASSUME WorkloadsInit, NEW c \in ContainerId, Managed(c)
               PROVE  specs[containers[c].service] # NoSpec
    BY DEF OrphansAccountedFor
  <2> QED
    BY InitStored
<1>2. WInv /\ OrphansAccountedFor /\ [WorkloadsNext]_allVars => OrphansAccountedFor'
  BY StepAccounts, AroundAccounts DEF WorkloadsNext
<1> QED
  BY <1>1, <1>2, WorkloadsInvariance, PTL DEF WorkloadsSpec

-------------------------------------------------------------------------------
(* A settled service is as its spec says.                                  *)

\* Only a return leads back to a step at which nothing has been done yet.
LEMMA StepCalm ==
  ASSUME WInv, NEW o \in Op, Step(o), pc'[o] # "done", Calm(o)'
  PROVE  Calm(o) /\ specs' = specs
<1>1. AllTypeOK /\ pc[o] \in StepsOf(kind[o]) /\ pc[o] \in AllSteps
  BY DEF WInv, OpOK, RefersOK, AllTypeOK, ControlOK
<1>2. pc'[o] \in Early \cup {"idle", "seek"}
  BY DEF Calm
<1>3. ~(StopCandidate(o) \/ RemoveCandidate(o) \/ CheckCandidateGone(o) \/ RestoreName(o)
         \/ InspectRestored(o) \/ RestartOriginal(o) \/ AwaitRestored(o))
  BY <1>1, <1>2, Arriving DEF StopCandidate, RemoveCandidate, CheckCandidateGone,
     RestoreName, InspectRestored, RestartOriginal, AwaitRestored, Early, Preflight,
     UpkeepSteps,
     AllTypeOK, ControlOK
<1>4. ~(RenameAway(o) \/ StopOriginal(o) \/ AwaitStopped(o) \/ ArgumentsFail(o)
         \/ ProbeCandidate(o))
  BY <1>1, <1>2, Arriving DEF RenameAway, StopOriginal, AwaitStopped, ArgumentsFail,
     ProbeCandidate, Early, Preflight, UpkeepSteps
<1>5. CASE Resolve(o) \/ Snapshot(o) \/ ReviewTarget(o)
  BY <1>1, <1>5, Arriving DEF Resolve, Snapshot, ReviewTarget, WriteCandidateSpec, storeVars,
     Calm, Early,
     Preflight
<1>6. ~(CreateReplacement(o) \/ CreateFails(o) \/ VerifyReplacement(o) \/ CheckHealth(o)
         \/ Commit(o) \/ RemoveBackup(o))
  BY <1>1, <1>2, Arriving DEF CreateReplacement, CreateFails, VerifyReplacement, CheckHealth,
     Commit, RemoveBackup, Early, Preflight, UpkeepSteps
<1>7. CASE Survey(o)
  BY <1>1, <1>7 DEF Survey, Calm, Early, storeVars
<1>8. ~(RunNew(o) \/ LookForLeftover(o) \/ StopLeftover(o) \/ RemoveLeftover(o)
         \/ AwaitLeftoverGone(o) \/ ProveNew(o) \/ UndoStop(o) \/ UndoRemove(o) \/ AwaitUndone(o))
  BY <1>1, <1>2, Arriving DEF RunNew, LookForLeftover, StopLeftover, RemoveLeftover,
     AwaitLeftoverGone, ProveNew, UndoStop, UndoRemove, AwaitUndone, Creates, StopBy, RemoveBy,
     AwaitAbsent, Early, Preflight, UpkeepSteps
<1>9. ~(AwaitHalted(o) \/ Recreate(o) \/ TraceCandidate(o) \/ ProveReplacement(o)
         \/ RetireBackup(o) \/ AwaitRetired(o))
  BY <1>1, <1>2, Arriving DEF AwaitHalted, Recreate, TraceCandidate, ProveReplacement,
     RetireBackup,
     AwaitRetired, Creates, RemoveBy, AwaitAbsent, Early, Preflight, UpkeepSteps
<1>10. ~(Reproduce(o) \/ VerifyReplica(o) \/ CommitAdoption(o))
  BY <1>1, <1>2, Arriving DEF Reproduce, VerifyReplica, CommitAdoption, Early, Preflight,
     UpkeepSteps
<1>11. CASE CreatePlain(o) \/ StageCandidate(o) \/ CreateManaged(o)
  BY <1>1, <1>11, Arriving DEF CreatePlain, StageCandidate, CreateManaged, WriteCandidateSpec,
     storeVars,
     Calm, Early
<1>12. ~(SeekLeftover(o) \/ CheckCreated(o) \/ CommitCreated(o) \/ ClearCreated(o)
          \/ AwaitCleared(o) \/ Maintain(o))
  BY <1>1, <1>2, Arriving DEF SeekLeftover, CheckCreated, CommitCreated, ClearCreated,
     AwaitCleared,
     Maintain, DeleteFile, Erase, Early, Preflight, UpkeepSteps
<1> QED
  BY <1>3, <1>4, <1>5, <1>6, <1>7, <1>8, <1>9, <1>10, <1>11, <1>12
     DEF Step, Mutation, Deploy, Adopt, Create, Rollback

\* What a return leaves behind in the operation's own service.
LEMMA ReturnStores ==
  ASSUME WInv, StoredInv, SeesWhatItMakes, KnowsWhatItRuns, NEW o \in Op, Step(o), Returned(o),
         svc[o] \in Name, \A p \in Op \ {o} : svc[p] = svc[o] => Calm(p),
         NEW c \in ContainerId, Managed(c), Holds(c, svc[o]), OwnedBy(c, svc[o])
  PROVE  specs'[svc[o]] = containers[c].deployment
<1>1. AllTypeOK /\ Working(o)
  BY StepWorking DEF WInv
<1>2. CASE NotBegun(o)
  <2>1. specs[svc[o]] = containers[c].deployment
    BY <1>2 DEF NotBegun, StoredInv, Holds
  <2>2. Labelled(svc[o])
    BY DEF Labelled, Managed, OwnedBy
  <2> QED
    BY <1>2, <2>1, <2>2 DEF NotBegun
<1>3. ~NothingLeft(o)
  BY NamesFacts DEF NothingLeft, OwnedBy
<1>4. CASE PutBack(o)
  <2>1. orig[o] \in ContainerId
    BY <1>1, <1>4 DEF PutBack, Quiescing, Replacing, WInv, OpOK, AdoptedOK, TargetOK,
       Ended, Steps, Backward
  <2>2. c = orig[o]
    BY <1>4, <2>1 DEF PutBack, OriginalRestored, Holds, WInv, NamesUnique
  <2>3. kind[o] # "adopt"
    BY <1>1, <2>2, NamesFacts DEF WInv, OpOK, AdoptedOK, OwnedBy
  <2>4. containers[c].deployment = specs[svc[o]]
    BY <1>4, <2>2, <2>3 DEF PutBack, Quiescing, Replacing, Uncommitted, Backward, WInv, OpOK,
       TargetOK
  <2> QED
    BY <1>4, <2>4 DEF PutBack
<1>5. CASE Serving(o)
  <2>1. stdout[o] \in ContainerId /\ stdout[o] \in spawned[o]
    BY <1>1, <1>5 DEF Serving, Built, WInv, OpOK, SpawnOK, AllTypeOK, ProgressOK
  <2>2. Holds(stdout[o], svc[o])
    BY <1>1, <1>5, <2>1 DEF Serving, Built, WInv, OpOK, SpawnOK, Holds
  <2>3. c = stdout[o]
    BY <2>1, <2>2 DEF Holds, WInv, NamesUnique
  <2> QED
    BY <1>5, <2>3 DEF Serving, Runs
<1> QED
  BY <1>2, <1>3, <1>4, <1>5, StepReturns

\* A step of an operation keeps calm services as their specs say.
LEMMA StepStores ==
  ASSUME WInv, StoredInv, SeesWhatItMakes, KnowsWhatItRuns, NEW o \in Op, Step(o)
  PROVE  StoredInv'
<1> SUFFICES ASSUME NEW c \in ContainerId, NEW n \in Name, Managed(c)', containers'[c].name = n,
                    containers'[c].service = n, \A p \in Op : svc'[p] = n => Calm(p)'
             PROVE  specs'[n] = containers'[c].deployment
  BY DEF StoredInv, OwnedBy
<1>1. /\ AllTypeOK /\ Working(o) /\ spawned[o] \subseteq spawned'[o] /\ svc'[o] = svc[o]
      /\ \A p \in Op \ {o} : /\ spawned'[p] = spawned[p] /\ pc'[p] = pc[p]
                             /\ outcome'[p] = outcome[p] /\ svc'[p] = svc[p]
  BY SpawnedGrows, StepWorking, StepRemembers DEF WInv
<1>2. \A p \in Op \ {o} : svc[p] = n => Calm(p)
  BY <1>1 DEF Calm
<1>3. RefersOK(o)'
  BY StepKeepsAll DEF Keeps, OpOK
<1>4. /\ Managed(c)
      /\ containers'[c].service = containers[c].service
      /\ containers'[c].deployment = containers[c].deployment
      /\ containers'[c].name = containers[c].name
  <2>1. ~(c \in spawned'[o] /\ pc'[o] # "done" /\ containers'[c].service = svc[o])
    BY <1>1, <1>3 DEF Calm, RefersOK, Uncreated
  <2>2. containers'[c].name # Backup[o]
    BY NamesFacts
  <2>3. ~(containers'[c].name = svc[o] /\ pc'[o] = "inspect")
    BY <1>1 DEF Calm, Early, Preflight, UpkeepSteps
  <2> QED
    BY <2>1, <2>2, <2>3, ManagedBefore
<1>5. CASE svc[o] # n
  <2>1. specs'[n] = specs[n]
    BY <1>1, <1>5, StepAlone DEF Alone
  <2>2. \A p \in Op : svc[p] = n => Calm(p)
    BY <1>2, <1>5
  <2> QED
    BY <1>4, <2>1, <2>2 DEF StoredInv, OwnedBy
<1>6. CASE svc[o] = n /\ pc'[o] # "done"
  <2>1. Calm(o) /\ specs' = specs
    BY <1>1, <1>6, StepCalm
  <2> QED
    BY <1>2, <1>4, <2>1 DEF StoredInv, OwnedBy
<1>7. CASE svc[o] = n /\ pc'[o] = "done"
  <2>1. Returned(o)
    BY <1>1, <1>7 DEF Calm, Returned, Early, Preflight, UpkeepSteps
  <2>2. Holds(c, n) /\ OwnedBy(c, n)
    BY <1>4 DEF Holds, Managed, OwnedBy
  <2> QED
    BY <1>2, <1>4, <1>7, <2>1, <2>2, ReturnStores
<1> QED
  BY <1>5, <1>6, <1>7

\* So does what happens around the operations.
LEMMA AroundStores ==
  ASSUME WInv, StoredInv,
         \/ \E o \in Op : Serial /\ Asks(o)
         \/ Environment /\ UNCHANGED kind
         \/ Crash /\ UNCHANGED kind
         \/ UNCHANGED allVars
  PROVE  StoredInv'
<1> SUFFICES ASSUME NEW c \in ContainerId, NEW n \in Name, Managed(c)', containers'[c].name = n,
                    containers'[c].service = n, \A p \in Op : svc'[p] = n => Calm(p)'
             PROVE  specs'[n] = containers'[c].deployment
  BY DEF StoredInv, OwnedBy
<1>1. CASE \E o \in Op : Serial /\ Asks(o)
  <2>1. PICK o \in Op : Asks(o) /\ Serial
    BY <1>1
  <2>2. Free(o) /\ Requests(o)
    BY <2>1, AsksFree, AsksRequests DEF WInv
  <2>3. \A p \in Op \ {o} : /\ pc'[p] = pc[p] /\ outcome'[p] = outcome[p] /\ svc'[p] = svc[p]
                            /\ spawned'[p] = spawned[p]
    BY <2>2 DEF Requests, Proceeds, Goto, Finish, PollAgain, EnterRollback, WInv, AllTypeOK,
       ControlOK,
       MemoryOK, progress
  <2>4. \A p \in Op : svc[p] = n => Calm(p)
    BY <2>2, <2>3 DEF Free, Calm
  <2> QED
    BY <2>2, <2>4 DEF Free, StoredInv, Kept, SameRecord, SameExistence, Managed, OwnedBy,
       storeVars
<1>2. CASE Environment /\ UNCHANGED kind
  <2>1. Kept(c)
    BY <1>2, HostMovesFacts DEF Environment, WInv, AllTypeOK, Managed
  <2>2. \A p \in Op : svc[p] = n => Calm(p)
    BY <1>2 DEF Environment, Calm, transaction, progress
  <2> QED
    BY <1>2, <2>1, <2>2 DEF Environment, StoredInv, Kept, SameRecord, SameExistence, Managed,
       OwnedBy, storeVars
<1>3. CASE Crash /\ UNCHANGED kind
  <2>1. \A p \in Op : /\ svc'[p] = svc[p] /\ outcome'[p] = outcome[p] /\ spawned'[p] = spawned[p]
                      /\ pc'[p] = pc[p] \/ pc'[p] = "crashed"
    BY <1>3 DEF Crash, transaction, progress
  <2>2. \A p \in Op : svc[p] = n => Calm(p)
    BY <2>1 DEF Calm, Early, Preflight, UpkeepSteps
  <2> QED
    BY <1>3, <2>2 DEF Crash, StoredInv, Managed, Exists, OwnedBy, storeVars
<1>4. CASE UNCHANGED allVars
  <2>1. \A p \in Op : svc[p] = n => Calm(p)
    BY <1>4 DEF Calm, allVars, vars
  <2> QED
    BY <1>4, <2>1 DEF StoredInv, Managed, Exists, OwnedBy, allVars, vars
<1> QED
  BY <1>1, <1>2, <1>3, <1>4

\* Calm services are always as their specs say.
LEMMA Stored ==
  ASSUME Serial, SeesWhatItMakes, KnowsWhatItRuns
  PROVE  WorkloadsSpec => []StoredInv
<1>1. WorkloadsInit => StoredInv
  BY InitStored DEF StoredInv, OwnedBy
<1>2. WInv /\ StoredInv /\ [WorkloadsNext]_allVars => StoredInv'
  BY StepStores, AroundStores DEF WorkloadsNext
<1> QED
  BY <1>1, <1>2, WorkloadsInvariance, PTL DEF WorkloadsSpec

\* In a service nobody is at work on, nobody died at and nobody left to the user,
\* the container with the service's name and label runs what the stored spec says.
\* Whatever operations came before, and whatever failed, deploying again reproduces it.
THEOREM SettledAlwaysAsStored ==
  ASSUME Serial, SeesWhatItMakes, KnowsWhatItRuns
  PROVE  WorkloadsSpec => []SettledAsStored
<1>1. WInv /\ StoredInv => SettledAsStored
  <2> SUFFICES ASSUME WInv, StoredInv, NEW c \in ContainerId, NEW n, n = containers[c].service,
                      Managed(c), containers[c].name = n, Settled(n)
               PROVE  specs[n] = containers[c].deployment
    BY DEF SettledAsStored
  <2>1. n \in Name
    BY DEF WInv, LabelsOK, Managed
  <2>2. \A o \in Op : svc[o] = n => Calm(o)
    BY DEF Settled, Calm
  <2> QED
    BY <2>1, <2>2 DEF StoredInv, OwnedBy
<1> QED
  BY <1>1, Stored, WorkloadsInvariance, PTL

-------------------------------------------------------------------------------
(* Nobody moves what an operation has put aside, or not touched yet.       *)

\* The original is where it was found: the steps before the rename.
Untouching(o) ==
  \/ kind[o] = "mutate" /\ pc[o] \in Preflight /\ svc[o] \in Name
  \/ kind[o] = "adopt" /\ pc[o] \in {"snapshot", "rename"}
  \/ kind[o] = "deploy" /\ pc[o] = "rename"

\* The original of an adoption is aside: the steps from the rename to the commit.
Aside(o) == kind[o] = "adopt" /\ pc[o] \in {"stop", "stopping", "create", "verify", "commit"}

\* Where the original is; and on a host that does not move by itself, its lifecycle.
PlacedOK(o) ==
  /\ Untouching(o) \/ Aside(o) => svc[o] \in Name /\ orig[o] \in ContainerId
  /\ Untouching(o) => Holds(orig[o], svc[o])
  /\ Aside(o) => Holds(orig[o], Backup[o])
  /\ Ambient = {} =>
       /\ Untouching(o) => containers[orig[o]].life = life[o]
       /\ Aside(o) /\ pc[o] \notin {"stop", "stopping"} => containers[orig[o]].life = "stopped"

PlacedInv == \A o \in Op : PlacedOK(o)

\* A command by one of these names leaves a container without them as it is.
LEMMA CommandLeaves ==
  ASSUME HostTypeOK, NEW names, NEW c \in ContainerId, Exists(c),
         \A ident \in names : ~Refers(c, ident),
         \/ UNCHANGED containers
         \/ \E ident \in names : \E ok : \/ PodmanStop(ident, ok) \/ PodmanStart(ident, ok)
                                     \/ PodmanForceRemove(ident, ok)
         \/ \E from \in names : \E to, ok : PodmanRename(from, to, ok)
         \/ \E d \in ContainerId : \E name, service, deployment, l, ok :
              PodmanCreate(d, name, service, deployment, l, ok)
         \/ \E name : PodmanCreateFails(name)
  PROVE  containers'[c] = containers[c]
<1>1. \A d, l : SetLife(d, l) /\ d # c => containers'[c] = containers[c]
  BY DEF SetLife, HostTypeOK
<1>2. CASE \E ident \in names : \E ok : \/ PodmanStop(ident, ok) \/ PodmanStart(ident, ok)
                                    \/ PodmanForceRemove(ident, ok)
  BY <1>1, <1>2 DEF PodmanStop, PodmanStart, PodmanForceRemove, Stoppable, FailsCleanly
<1>3. CASE \E from \in names : \E to, ok : PodmanRename(from, to, ok)
  BY <1>3 DEF PodmanRename, FailsCleanly, Refers, Holds, HostTypeOK
<1>4. CASE \E d \in ContainerId : \E name, service, deployment, l, ok :
             PodmanCreate(d, name, service, deployment, l, ok)
  BY <1>4 DEF PodmanCreate, HostTypeOK, Exists, Alive
<1> QED
  BY <1>2, <1>3, <1>4 DEF PodmanCreateFails, FailsCleanly

\* A step of an operation leaves alone what has none of its names and is not what a
\* user asked it to remove.
LEMMA StepLeaves ==
  ASSUME WInv, NEW p \in Op, Step(p), NEW c \in ContainerId, Exists(c),
         containers[c].name \notin {svc[p], Backup[p]}, kind[p] = "remove" => c # orig[p]
  PROVE  containers'[c] = containers[c]
<1>1. /\ AllTypeOK /\ HostTypeOK /\ Working(p) /\ SpawnOK(p) /\ RefersOK(p)
      /\ c # NoId /\ containers[c].name # NoId /\ c \notin ContainerName
      /\ svc[p] \in ContainerName /\ Backup[p] \in ContainerName
      /\ stdout[p] \in ContainerId \cup {NoId}
  BY StepWorking, WorkingNamed, ExistingTyped, NamesDistinct, NamesFacts
     DEF WInv, OpOK, AllTypeOK, ProgressOK
<1>2. c \notin spawned[p]
  BY <1>1 DEF SpawnOK
<1>3. \A ident \in Identities(p) : ~Refers(c, ident)
  <2>1. stdout[p] # NoId => stdout[p] \in spawned[p]
    BY <1>1 DEF SpawnOK
  <2>2. \A ident \in ContainerId \cup {NoId} : containers[c].name # ident
    BY <1>1, ExistingTyped, NamesDistinct
  <2>3. spawned[p] \subseteq ContainerId
    BY <1>1 DEF AllTypeOK, ProgressOK
  <2> QED
    BY <1>1, <1>2, <2>1, <2>2, <2>3 DEF Identities, Refers, SpawnOK
<1>4. CASE Commands(p)
  <2>1. \/ UNCHANGED containers
        \/ \E ident \in Identities(p) : \E ok : \/ PodmanStop(ident, ok) \/ PodmanStart(ident, ok)
                                            \/ PodmanForceRemove(ident, ok)
        \/ \E from \in Identities(p) : \E to, ok : PodmanRename(from, to, ok)
        \/ \E d \in ContainerId : \E name, service, deployment, l, ok :
             PodmanCreate(d, name, service, deployment, l, ok)
        \/ \E name : PodmanCreateFails(name)
    BY <1>4 DEF Commands, Discards, Identities
  <2> QED
    BY <1>1, <1>3, <2>1, CommandLeaves
<1>5. CASE kind[p] \in {"delete", "remove"} /\ Maintain(p)
  <2>1. CASE DeleteFile(p)
    BY <2>1 DEF DeleteFile
  <2>2. CASE Erase(p)
    <3>1. kind[p] = "remove" /\ c # orig[p]
      BY <1>1, <1>5, <2>2 DEF RefersOK, StepsOf, Erase, Ended
    <3> QED
      BY <1>1, <2>2, <3>1 DEF Erase, PodmanRemove, FailsCleanly, SetLife, HostTypeOK
  <2> QED
    BY <1>5, <2>1, <2>2 DEF Maintain
<1> QED
  BY <1>4, <1>5, MutationCommands, DeployCommands, AdoptCommands, CreateCommands DEF Step

\* Where an operation's original is does not depend on the others.
LEMMA OthersPlaced ==
  ASSUME WInv, NEW o \in Op, NEW p \in Op \ {o}, PlacedOK(o), Step(p)
  PROVE  PlacedOK(o)'
<1>1. /\ AllTypeOK /\ Working(p) /\ LocalsKept(o) /\ kind'[o] = kind[o]
      /\ RefersOK(p) /\ UpkeepOK(p)
  BY StepWorking, StepAlone DEF WInv, OpOK, Alone
<1>2. life'[o] = life[o]
  BY <1>1, StepRemembers DEF AllTypeOK, MemoryOK
<1>3. ASSUME Untouching(o) \/ Aside(o)
      PROVE  containers'[orig[o]] = containers[orig[o]]
  <2>1. /\ svc[o] \in Name /\ orig[o] \in ContainerId /\ Exists(orig[o]) /\ Working(o)
        /\ containers[orig[o]].name \in {svc[o], Backup[o]}
    BY <1>3 DEF PlacedOK, Untouching, Aside, Holds, Working, Ended, Preflight
  <2>2. svc[p] # svc[o]
    BY <1>1, <2>1 DEF WInv, OneAtATime, Working
  <2>3. kind[p] = "remove" /\ pc[p] = "erase" => orig[p] # orig[o]
    BY <1>1, <2>1 DEF UpkeepOK
  <2>4. CASE svc[p] \in Name
    <3>1. containers[orig[o]].name \notin {svc[p], Backup[p]}
      BY <2>1, <2>2, <2>4, NamesDistinct
    <3>2. kind[p] = "remove" => pc[p] = "erase"
      BY <1>1 DEF RefersOK, StepsOf, Working
    <3> QED
      BY <2>1, <2>3, <3>1, <3>2, StepLeaves
  <2>5. CASE svc[p] \notin Name
    <3>1. kind[p] = "remove" \/ (kind[p] = "mutate" /\ pc[p] = "resolve")
      BY <1>1, <2>5, WorkingNamed DEF RefersOK, AllTypeOK, MemoryOK, Operations
    <3>2. CASE kind[p] = "remove"
      <4>1. Erase(p) /\ HostTypeOK /\ orig[p] # orig[o]
        BY <1>1, <2>3, <3>2 DEF Step, Maintain, DeleteFile, Erase, RefersOK, StepsOf, Ended,
           AllTypeOK
      <4> QED
        BY <2>1, <4>1 DEF Erase, PodmanRemove, FailsCleanly, SetLife, HostTypeOK
    <3>3. CASE kind[p] = "mutate" /\ pc[p] = "resolve"
      BY <3>3 DEF Step, Mutation, Resolve, Snapshot, RenameAway, StopOriginal, AwaitStopped,
         ArgumentsFail, CreateReplacement, CreateFails, ProbeCandidate, VerifyReplacement,
         CheckHealth, Commit, RemoveBackup, Rollback, StopCandidate, RemoveCandidate,
         CheckCandidateGone, RestoreName, InspectRestored, RestartOriginal, AwaitRestored
    <3> QED
      BY <3>1, <3>2, <3>3
  <2> QED
    BY <2>4, <2>5
<1>4. /\ Untouching(o)' <=> Untouching(o)
      /\ Aside(o)' <=> Aside(o)
  BY <1>1 DEF Untouching, Aside, LocalsKept
<1> QED
  BY <1>1, <1>2, <1>3, <1>4 DEF PlacedOK, LocalsKept, Holds, Exists

\* The operation has moved nothing, and stands where it stood or no longer vouches
\* for its original.
Stays(o) ==
  /\ UNCHANGED <<kind, svc, orig, life>>
  /\ containers'[orig[o]] = containers[orig[o]]
  /\ Untouching(o)' => Untouching(o)
  /\ Aside(o)' => Aside(o) /\ (pc'[o] \notin {"stop", "stopping"}
                                 => pc[o] \notin {"stop", "stopping"})

LEMMA StaysPlaced ==
  ASSUME NEW o, PlacedOK(o), Stays(o)
  PROVE  PlacedOK(o)'
BY DEF Stays, PlacedOK, Holds, Exists

\* Where nothing is vouched for any more.
LEMMA LeavesBehind ==
  ASSUME AllTypeOK, NEW o \in Op, UNCHANGED kind,
         \/ Rollback(o) \/ ArgumentsFail(o) \/ ProbeCandidate(o)
         \/ pc'[o] \in {"done", "dropStop", "restore"}
  PROVE  ~Untouching(o)' /\ ~Aside(o)'
<1>1. pc'[o] \notin Preflight \cup {"stop", "stopping", "create", "verify", "commit"}
  <2>1. CASE Rollback(o)
    BY <2>1, Arriving DEF Rollback, StopCandidate, RemoveCandidate, CheckCandidateGone,
       RestoreName, InspectRestored, RestartOriginal, AwaitRestored, Preflight, AllTypeOK,
       ControlOK
  <2>2. CASE ArgumentsFail(o) \/ ProbeCandidate(o)
    BY <2>2, Arriving DEF ArgumentsFail, ProbeCandidate, Preflight
  <2> QED
    BY <2>1, <2>2 DEF Preflight
<1> QED
  BY <1>1 DEF Untouching, Aside, Preflight

LEMMA GonePlaced ==
  ASSUME NEW o, ~Untouching(o)', ~Aside(o)'
  PROVE  PlacedOK(o)'
BY DEF PlacedOK

\* A mutation finds its original where it was until it renames it.
LEMMA MutationPlaced ==
  ASSUME WInv, NEW o \in Op, kind[o] = "mutate", PlacedOK(o), UNCHANGED <<kind, svc>>,
         Mutation(o)
  PROVE  PlacedOK(o)'
<1>1. AllTypeOK
  BY DEF WInv
<1>2. CASE Resolve(o) \/ Snapshot(o)
  <2>1. /\ UNCHANGED <<containers, orig, life>>
        /\ pc[o] \in Preflight /\ pc'[o] \in Preflight => svc[o] \in Name
    BY <1>1, <1>2, Arriving DEF Resolve, Snapshot, Authoritative, transaction, Preflight,
       WInv, OpOK, RefersOK, Working, Ended
  <2>2. Untouching(o)' => Untouching(o)
    BY <1>1, <1>2, <2>1 DEF Untouching, Resolve, Snapshot, Preflight
  <2> QED
    BY <2>1, <2>2, StaysPlaced DEF Stays, Aside
<1>3. CASE ~(Resolve(o) \/ Snapshot(o) \/ Rollback(o) \/ ArgumentsFail(o) \/ ProbeCandidate(o))
  <2>1. pc'[o] \notin Preflight
    BY <1>1, <1>3, Arriving DEF Mutation, RenameAway, StopOriginal, AwaitStopped,
       CreateReplacement, CreateFails, VerifyReplacement, CheckHealth, Commit, RemoveBackup,
       Preflight
  <2> QED
    BY <2>1, GonePlaced DEF Untouching, Aside
<1> QED
  BY <1>1, <1>2, <1>3, LeavesBehind, GonePlaced

\* So does a deployment, from its survey to its rename.
LEMMA DeployPlaced ==
  ASSUME WInv, NEW o \in Op, kind[o] = "deploy", PlacedOK(o), UNCHANGED <<kind, svc>>,
         Deploy(o)
  PROVE  PlacedOK(o)'
<1>1. AllTypeOK /\ HostTypeOK
  BY DEF WInv, AllTypeOK
<1>2. CASE Survey(o) /\ pc'[o] = "rename"
  <2>1. PICK c \in ContainerId :
          /\ Replaceable(o, c) /\ UNCHANGED containers
          /\ orig' = [orig EXCEPT ![o] = c]
          /\ life' = [life EXCEPT ![o] = containers[c].life]
    BY <1>1, <1>2, Arriving DEF Survey
  <2>2. orig'[o] = c /\ life'[o] = containers[c].life /\ svc[o] \in Name
    BY <1>1, <1>2, <2>1 DEF AllTypeOK, MemoryOK, WInv, OpOK, RefersOK, Survey, Working, Ended
  <2>3. ~Aside(o)'
    BY DEF Aside
  <2> QED
    BY <2>1, <2>2, <2>3 DEF PlacedOK, Replaceable, Holds, Exists
<1>3. CASE pc'[o] # "rename"
  BY <1>3, GonePlaced DEF Untouching, Aside
<1>4. CASE ~Survey(o)
  <2>1. CASE Rollback(o)
    BY <1>1, <2>1, LeavesBehind, GonePlaced
  <2>2. CASE ~Rollback(o)
    <3>1. pc'[o] # "rename"
      BY <1>1, <1>4, <2>2, Arriving DEF Deploy, RunNew, LookForLeftover, StopLeftover,
         RemoveLeftover, AwaitLeftoverGone, ProveNew, UndoStop, UndoRemove, AwaitUndone,
         RenameAway, StopOriginal, AwaitHalted, Recreate, TraceCandidate, ProveReplacement,
         RetireBackup, AwaitRetired, Creates, StopBy, RemoveBy, AwaitAbsent
    <3> QED
      BY <3>1, <1>3
  <2> QED
    BY <2>1, <2>2
<1> QED
  BY <1>2, <1>3, <1>4

\* A rename moves what has the old name, or leaves it; it keeps its lifecycle.
LEMMA RenameMoves ==
  ASSUME HostTypeOK, NamesUnique, NEW c \in ContainerId, NEW from, Holds(c, from),
         NEW to, NEW ok, PodmanRename(from, to, ok)
  PROVE  /\ containers'[c].life = containers[c].life
         /\ Holds(c, to)' \/ (~ok /\ Holds(c, from)')
         /\ Holds(c, from)' \/ ok \/ "rename" \in LateFaults
<1>1. ASSUME containers' = [containers EXCEPT ![c].name = to], Reports("rename", ok)
      PROVE  containers'[c].life = containers[c].life /\ Holds(c, to)'
  <2>1. containers[c] \in [life: Life \ {"unborn"}, name: ContainerName,
                           service: ContainerName \cup {Unmanaged}, deployment: Deployment]
    BY DEF HostTypeOK, Container, Unborn, Holds, Exists, Alive
  <2>2. containers'[c] = [containers[c] EXCEPT !.name = to]
    BY <1>1 DEF HostTypeOK
  <2>3. containers'[c].life = containers[c].life /\ containers'[c].name = to
    BY <2>1, <2>2
  <2> QED
    BY <2>3 DEF Holds, Exists
<1>2. \A d \in ContainerId : Holds(d, from) => d = c
  BY DEF NamesUnique, Holds
<1>3. CASE FailsCleanly("rename", Taken(from) /\ ~Taken(to), ok)
  BY <1>3 DEF FailsCleanly, Holds, Exists
<1> QED
  BY <1>1, <1>2, <1>3 DEF PodmanRename, Reports

\* An adoption moves its original once, stops it, and never touches it again unless
\* it rolls back.
LEMMA AdoptPlaced ==
  ASSUME WInv, NEW o \in Op, kind[o] = "adopt", PlacedOK(o), UNCHANGED <<kind, svc>>,
         Adopt(o)
  PROVE  PlacedOK(o)'
<1>1. /\ AllTypeOK /\ HostTypeOK /\ NamesUnique /\ orig[o] \in ContainerId \cup {NoId}
      /\ svc[o] \in ContainerName /\ Backup[o] \in ContainerName
  BY DEF WInv, AllTypeOK, MemoryOK, ContainerName
<1>2. CASE ReviewTarget(o)
  <2>1. CASE pc'[o] = "snapshot"
    <3>1. /\ Holds(orig[o], svc[o]) /\ UNCHANGED <<containers, orig>>
          /\ life' = [life EXCEPT ![o] = containers[orig[o]].life]
      BY <1>1, <1>2, <2>1, Arriving DEF ReviewTarget
    <3>2. svc[o] \in Name /\ orig[o] \in ContainerId /\ life'[o] = containers[orig[o]].life
      BY <1>1, <1>2, <3>1 DEF AllTypeOK, MemoryOK, WInv, OpOK, RefersOK, AdoptedOK,
         ReviewTarget, Working, Ended
    <3>3. ~Aside(o)'
      BY <2>1 DEF Aside
    <3> QED
      BY <3>1, <3>2, <3>3 DEF PlacedOK, Holds, Exists
  <2>2. CASE pc'[o] # "snapshot"
    BY <1>1, <1>2, <2>2, Arriving, LeavesBehind, GonePlaced DEF ReviewTarget
  <2> QED
    BY <2>1, <2>2
<1>3. CASE Snapshot(o) \/ VerifyReplica(o) \/ CommitAdoption(o)
  <2>1. CASE pc'[o] \in {"done", "dropStop", "restore"}
    BY <1>1, <2>1, LeavesBehind, GonePlaced
  <2>2. CASE pc'[o] \notin {"done", "dropStop", "restore"}
    <3>1. /\ UNCHANGED <<containers, orig, life>>
          /\ \/ pc[o] = "snapshot" /\ pc'[o] = "rename"
             \/ pc[o] = "verify" /\ pc'[o] \in {"verify", "commit"}
      BY <1>1, <1>3, <2>2, Arriving DEF Snapshot, VerifyReplica, CommitAdoption, transaction
    <3> QED
      BY <3>1, StaysPlaced DEF Stays, Untouching, Aside, Preflight
  <2> QED
    BY <2>1, <2>2
<1>4. CASE RenameAway(o)
  <2>1. /\ Untouching(o) /\ svc[o] \in Name /\ Holds(orig[o], svc[o])
        /\ orig[o] \in ContainerId /\ UNCHANGED <<orig, life>>
        /\ Ambient = {} => containers[orig[o]].life = life[o]
    BY <1>4 DEF RenameAway, Untouching, PlacedOK, transaction
  <2>2. PICK ok \in BOOLEAN :
          /\ PodmanRename(svc[o], Backup[o], ok)
          /\ \/ ok /\ pc'[o] = IF life[o] = "running" THEN "stop" ELSE "create"
             \/ ~ok /\ pc'[o] = "done"
    BY <1>1, <1>4, Arriving DEF RenameAway
  <2>3. CASE ok
    <3>1. Holds(orig[o], Backup[o])' /\ containers'[orig[o]].life = containers[orig[o]].life
      BY <1>1, <2>1, <2>2, <2>3, RenameMoves
    <3>2. life[o] # "running" => life[o] = "stopped"
      BY <1>1 DEF AllTypeOK, MemoryOK
    <3>3. ~Untouching(o)'
      BY <2>2, <2>3 DEF Untouching
    <3> QED
      BY <2>1, <2>2, <2>3, <3>1, <3>2, <3>3 DEF PlacedOK
  <2>4. CASE ~ok
    BY <1>1, <2>2, <2>4, LeavesBehind, GonePlaced
  <2> QED
    BY <2>3, <2>4
<1>5. CASE StopOriginal(o) \/ AwaitStopped(o) \/ Reproduce(o)
  <2>1. /\ Aside(o) /\ svc[o] \in Name /\ Holds(orig[o], Backup[o])
        /\ orig[o] \in ContainerId /\ UNCHANGED <<orig, life>>
        /\ Ambient = {} /\ pc[o] = "create" => containers[orig[o]].life = "stopped"
    BY <1>5 DEF StopOriginal, AwaitStopped, Reproduce, Aside, PlacedOK, transaction
  <2>2. CASE pc'[o] \in {"done", "dropStop", "restore"}
    BY <1>1, <2>2, LeavesBehind, GonePlaced
  <2>3. CASE StopOriginal(o) /\ pc'[o] = "stopping"
    <3>1. Kept(orig[o])
      BY <1>1, <2>1, <2>3, StopKeeps DEF StopOriginal
    <3>2. ~Untouching(o)'
      BY <2>3 DEF Untouching
    <3> QED
      BY <2>1, <2>3, <3>1, <3>2 DEF PlacedOK, Kept, SameRecord, SameExistence, Holds
  <2>4. CASE AwaitStopped(o) /\ pc'[o] \in {"stopping", "create"}
    <3>1. UNCHANGED containers /\ (pc'[o] = "create" => OriginalStopped(o))
      BY <1>1, <2>4, Arriving DEF AwaitStopped
    <3>2. pc'[o] = "create" => containers[orig[o]].life = "stopped"
      BY <1>1, <2>1, <3>1 DEF OriginalStopped, Holds, NamesUnique
    <3>3. ~Untouching(o)'
      BY <2>4 DEF Untouching
    <3> QED
      BY <2>1, <2>4, <3>1, <3>2, <3>3 DEF PlacedOK, Holds, Exists
  <2>5. CASE Reproduce(o) /\ pc'[o] \in {"verify", "probe"}
    <3>1. containers'[orig[o]] = containers[orig[o]]
      <4>1. CASE \E c \in ContainerId, ok \in BOOLEAN :
                   PodmanCreate(c, svc[o], svc[o], want[o], life[o], ok)
        BY <1>1, <2>1, <4>1 DEF PodmanCreate, HostTypeOK, Holds, Exists, Alive
      <4> QED
        BY <2>5, <4>1 DEF Reproduce, PodmanCreateFails, FailsCleanly
    <3>2. ~Untouching(o)'
      BY <2>5 DEF Untouching
    <3>3. pc[o] = "create"
      BY <2>5 DEF Reproduce
    <3> QED
      BY <2>1, <3>1, <3>2, <3>3 DEF PlacedOK, Holds, Exists
  <2>6. \/ pc'[o] \in {"done", "dropStop", "restore"}
        \/ StopOriginal(o) /\ pc'[o] = "stopping"
        \/ AwaitStopped(o) /\ pc'[o] \in {"stopping", "create"}
        \/ Reproduce(o) /\ pc'[o] \in {"verify", "probe"}
    BY <1>1, <1>5, Arriving DEF StopOriginal, AwaitStopped, Reproduce
  <2> QED
    BY <2>2, <2>3, <2>4, <2>5, <2>6
<1>6. CASE Rollback(o) \/ ArgumentsFail(o) \/ ProbeCandidate(o)
  BY <1>1, <1>6, LeavesBehind, GonePlaced
<1> QED
  BY <1>2, <1>3, <1>4, <1>5, <1>6 DEF Adopt

LEMMA StepPlaces ==
  ASSUME WInv, PlacedInv, NEW o \in Op, Step(o)
  PROVE  PlacedInv'
<1>1. UNCHANGED <<kind, svc>>
  BY StepRemembers
<1>2. CASE kind[o] \in Quiescing
  BY <1>1, <1>2, MutationPlaced, DeployPlaced, AdoptPlaced, OthersPlaced
     DEF Step, PlacedInv, Quiescing
<1>3. CASE kind[o] \notin Quiescing
  BY <1>1, <1>3, GonePlaced, OthersPlaced DEF PlacedInv, Quiescing, Untouching, Aside
<1> QED
  BY <1>2, <1>3

\* Without strangers the host changes lifecycles, if anything.
LEMMA HostLeaves ==
  ASSUME HostTypeOK, Environment, "foreign" \notin Ambient
  PROVE  /\ \A c \in ContainerId : Kept(c)
         /\ Ambient # {}
<1>1. PICK c \in ContainerId : Exits(c) \/ Restarts(c) \/ Pauses(c)
  BY DEF Environment, HostMoves, ForeignRun, ForeignRemove
<1>2. PICK l \in Alive : Exists(c) /\ SetLife(c, l)
  BY <1>1 DEF Exits, Restarts, Pauses, Exists, Alive
<1> QED
  BY <1>1, <1>2, AliveKeeps DEF Exits, Restarts, Pauses

\* Around the steps of operations, nothing that is vouched for moves.
LEMMA AroundPlaced ==
  ASSUME WInv, PlacedInv, "foreign" \notin Ambient,
         \/ \E o \in Op : Serial /\ Asks(o)
         \/ Environment /\ UNCHANGED kind
         \/ Crash /\ UNCHANGED kind
         \/ UNCHANGED allVars
  PROVE  PlacedInv'
<1>1. AllTypeOK /\ HostTypeOK /\ NamesUnique
  BY DEF WInv, AllTypeOK
<1>2. CASE \E o \in Op : Serial /\ Asks(o)
  <2>1. PICK o \in Op : Asks(o) /\ Serial
    BY <1>2
  <2>2. Free(o) /\ Requests(o)
    BY <1>1, <2>1, AsksFree, AsksRequests
  <2>3. ASSUME NEW p \in Op \ {o}  PROVE PlacedOK(p)'
    <3>1. LocalsKept(p) /\ kind'[p] = kind[p] /\ PlacedOK(p) /\ life'[p] = life[p]
      BY <1>1, <2>2, AsksSpares DEF Spared, Requests, AllTypeOK, MemoryOK, PlacedInv
    <3>2. ASSUME Untouching(p) \/ Aside(p)
          PROVE  containers'[orig[p]] = containers[orig[p]]
      <4>1. Working(p) /\ orig[p] \in ContainerId
        BY <3>1, <3>2 DEF Untouching, Aside, Working, Ended, Preflight, PlacedOK
      <4>2. CASE UNCHANGED containers
        BY <4>2
      <4>3. CASE \E c \in ContainerId : FreeContainer(c) /\ StopToRemove(o, c)
        <5>1. PICK c \in ContainerId : FreeContainer(c) /\ StopToRemove(o, c)
          BY <4>3
        <5>2. c # orig[p]
          BY <2>1, <4>1, <5>1 DEF FreeContainer, Working
        <5>3. \A d \in ContainerId : Refers(d, c) => d = c
          BY <1>1, ExistingTyped, NamesDistinct DEF Refers
        <5> QED
          BY <1>1, <4>1, <5>1, <5>2, <5>3 DEF StopToRemove, PodmanStop, Stoppable, SetLife,
             FailsCleanly, HostTypeOK
      <4> QED
        BY <2>1, <4>2, <4>3 DEF Asks, Request, DeployRequest, AdoptRequest, CreateRequest,
           DeleteRequest, RemoveRequest
    <3>3. Untouching(p)' = Untouching(p) /\ Aside(p)' = Aside(p)
      BY <3>1 DEF Untouching, Aside, LocalsKept
    <3> QED
      BY <3>1, <3>2, <3>3 DEF PlacedOK, LocalsKept, Holds, Exists
  <2>4. PlacedOK(o)'
    <3>1. CASE \E c \in ContainerId, d \in Deployment : Begins(o, "mutate") /\ Request(o, c, d)
      <4>1. PICK c \in ContainerId, d \in Deployment : Begins(o, "mutate") /\ Request(o, c, d)
        BY <3>1
      <4>2. CASE pc'[o] = "resolve"
        <5>1. /\ Exists(c) /\ UNCHANGED containers /\ orig'[o] = c
              /\ svc'[o] = containers[c].name /\ life'[o] = containers[c].life
          BY <1>1, <4>1, <4>2, Arriving DEF Request, AllTypeOK, MemoryOK
        <5>2. ~Aside(o)'
          BY <4>2 DEF Aside
        <5>3. Untouching(o)' => svc'[o] \in Name
          BY <1>1, <4>1, <4>2 DEF Untouching, Begins, AllTypeOK, MemoryOK
        <5> QED
          BY <5>1, <5>2, <5>3 DEF PlacedOK, Holds, Exists
      <4>3. CASE pc'[o] = "done"
        BY <4>3, GonePlaced DEF Untouching, Aside, Preflight
      <4> QED
        BY <1>1, <4>1, <4>2, <4>3, Arriving DEF Request
    <3>2. CASE pc'[o] \in {"resolve", "survey", "stage", "plain", "unlink", "erase", "done"}
                 /\ (kind'[o] = "adopt" \/ pc'[o] # "resolve")
      BY <3>2, GonePlaced DEF Untouching, Aside, Preflight
    <3>3. \A k : Begins(o, k) => kind'[o] = k
      BY <1>1 DEF Begins, AllTypeOK, MemoryOK
    <3> QED
      BY <1>1, <2>1, <3>1, <3>2, <3>3, Arriving DEF Asks, DeployRequest, AdoptRequest,
         CreateRequest, DeleteRequest, RemoveRequest, StopToRemove
  <2> QED
    BY <2>3, <2>4 DEF PlacedInv
<1>3. CASE Environment /\ UNCHANGED kind
  <2>1. (\A c \in ContainerId : Kept(c)) /\ Ambient # {}
    BY <1>1, <1>3, HostLeaves
  <2>2. UNCHANGED <<pc, svc, orig, life, kind>>
    BY <1>3 DEF Environment, transaction
  <2> QED
    BY <2>1, <2>2 DEF PlacedInv, PlacedOK, Untouching, Aside, Holds, Kept, SameRecord,
       SameExistence
<1>4. CASE Crash /\ UNCHANGED kind
  <2>1. UNCHANGED <<containers, svc, orig, life, kind>>
    BY <1>4 DEF Crash, transaction
  <2>2. \A p \in Op : pc'[p] = pc[p] \/ pc'[p] = "crashed"
    BY <1>4 DEF Crash
  <2>3. ASSUME NEW p \in Op  PROVE PlacedOK(p)'
    <3>1. CASE pc'[p] = pc[p]
      BY <2>1, <3>1 DEF PlacedInv, PlacedOK, Untouching, Aside, Holds, Exists
    <3>2. CASE pc'[p] = "crashed"
      BY <3>2, GonePlaced DEF Untouching, Aside, Preflight
    <3> QED
      BY <2>2, <3>1, <3>2
  <2> QED
    BY <2>3 DEF PlacedInv
<1>5. CASE UNCHANGED allVars
  BY <1>5 DEF allVars, vars, PlacedInv, PlacedOK, Untouching, Aside, Holds, Exists
<1> QED
  BY <1>2, <1>3, <1>4, <1>5

\* Without strangers, every original is where its operation left it.
LEMMA Placed ==
  ASSUME Serial, "foreign" \notin Ambient
  PROVE  WorkloadsSpec => []PlacedInv
<1>1. WorkloadsInit => PlacedInv
  BY DEF WorkloadsInit, Quiet, PlacedInv, PlacedOK, Untouching, Aside, Preflight
<1>2. WInv /\ PlacedInv /\ [WorkloadsNext]_allVars => PlacedInv'
  BY StepPlaces, AroundPlaced DEF WorkloadsNext
<1> QED
  BY <1>1, <1>2, WorkloadsInvariance, PTL DEF WorkloadsSpec

-------------------------------------------------------------------------------
(* What an operation reports is so when it reports it.                     *)

\* The only step at "rename" is the rename.
LEMMA AtRename ==
  ASSUME NEW o \in Op, Step(o), pc[o] = "rename"
  PROVE  RenameAway(o) /\ kind[o] \in Quiescing
<1>1. ~(Rollback(o) \/ Snapshot(o) \/ StopOriginal(o) \/ AwaitStopped(o) \/ ArgumentsFail(o)
        \/ ProbeCandidate(o))
  BY DEF Rollback, StopCandidate, RemoveCandidate, CheckCandidateGone, RestoreName,
     InspectRestored, RestartOriginal, AwaitRestored, Snapshot, StopOriginal, AwaitStopped,
     ArgumentsFail, ProbeCandidate
<1>2. Mutation(o) => RenameAway(o)
  BY <1>1 DEF Mutation, Resolve, CreateReplacement, CreateFails, VerifyReplacement,
     CheckHealth, Commit, RemoveBackup
<1>3. Deploy(o) => RenameAway(o)
  BY <1>1 DEF Deploy, Survey, RunNew, LookForLeftover, StopLeftover, RemoveLeftover,
     AwaitLeftoverGone, ProveNew, UndoStop, UndoRemove, AwaitUndone, AwaitHalted, Recreate,
     TraceCandidate, ProveReplacement, RetireBackup, AwaitRetired, StopBy, RemoveBy,
     AwaitAbsent
<1>4. Adopt(o) => RenameAway(o)
  BY <1>1 DEF Adopt, ReviewTarget, Reproduce, VerifyReplica, CommitAdoption
<1>5. ~Create(o)
  BY DEF Create, CreatePlain, StageCandidate, CreateManaged, SeekLeftover, CheckCreated,
     CommitCreated, ClearCreated, AwaitCleared
<1>6. ~Maintain(o)
  BY DEF Maintain, DeleteFile, Erase
<1> QED
  BY <1>2, <1>3, <1>4, <1>5, <1>6 DEF Step, Quiescing

\* What an operation knows of its original when it speaks of it.
Vouched == "foreign" \in Ambient \/ PlacedInv

\* A rename that failed left the original, or moved it to the backup's name.
LEMMA SaysNotChanged ==
  ASSUME WInv, Vouched, NEW o \in Op, Step(o)
  PROVE  NotChangedTruly(o)
<1> SUFFICES ASSUME pc[o] = "rename", "foreign" \notin Ambient,
                    outcome[o] # "unchanged", outcome'[o] = "unchanged"
             PROVE  /\ \/ Holds(orig[o], svc[o])'
                       \/ "rename" \in LateFaults /\ Holds(orig[o], Backup[o])'
                    /\ Ambient = {} => containers'[orig[o]].life = life[o]
  BY DEF NotChangedTruly, Reported
<1>1. /\ RenameAway(o) /\ AllTypeOK /\ HostTypeOK /\ NamesUnique /\ PlacedOK(o)
      /\ RefersOK(o) /\ kind[o] \in Quiescing /\ Working(o)
  BY AtRename, StepWorking DEF Vouched, PlacedInv, WInv, OpOK, AllTypeOK
<1>2. Untouching(o)
  BY <1>1 DEF Untouching, RefersOK, Quiescing, Preflight
<1>3. /\ orig[o] \in ContainerId /\ Holds(orig[o], svc[o]) /\ UNCHANGED <<orig, svc>>
      /\ Ambient = {} => containers[orig[o]].life = life[o]
  BY <1>1, <1>2 DEF PlacedOK, RenameAway, transaction
<1>4. PICK t \in ContainerId : t = orig[o]
  BY <1>3
<1>5. PodmanRename(svc[o], Backup[o], FALSE)
  BY <1>1 DEF RenameAway, Goto
<1>6. Holds(t, svc[o])
  BY <1>3, <1>4
<1>7. /\ containers'[t].life = containers[t].life
      /\ \/ Exists(t)' /\ containers'[t].name = Backup[o]
         \/ Exists(t)' /\ containers'[t].name = svc[o]
      /\ (Exists(t)' /\ containers'[t].name = svc[o]) \/ "rename" \in LateFaults
  BY <1>1, <1>5, <1>6, RenameMoves DEF Holds, Exists
<1> QED
  BY <1>3, <1>4, <1>7 DEF Holds, Exists

\* An adoption that is done has its original aside, stopped.
LEMMA SaysSetAside ==
  ASSUME WInv, Vouched, NEW o \in Op, Step(o)
  PROVE  SetAsideTruly(o)
<1> SUFFICES ASSUME outcome[o] # "backupLeft", outcome'[o] = "backupLeft", kind[o] = "adopt",
                    "foreign" \notin Ambient
             PROVE  /\ Holds(orig[o], Backup[o])
                    /\ Ambient = {} => containers[orig[o]].life = "stopped"
  BY DEF SetAsideTruly, Reported
<1>1. AllTypeOK /\ Working(o) /\ PlacedOK(o) /\ Adopt(o)
  BY StepWorking DEF Vouched, PlacedInv, WInv, Step
<1>2. Returned(o)
  BY <1>1, StepProceeds DEF Returned, Proceeds, Goto, Finish, PollAgain, EnterRollback,
     AllTypeOK, ControlOK
<1>3. ~Rollback(o)
  BY <1>2, RollbackReturns DEF PutBack, Quiescing
<1>4. ~(ReviewTarget(o) \/ Snapshot(o) \/ RenameAway(o))
  BY <1>1, <1>2, Arriving DEF ReviewTarget, Snapshot, RenameAway, Returned
<1>5. ~(StopOriginal(o) \/ AwaitStopped(o) \/ ArgumentsFail(o) \/ Reproduce(o)
        \/ ProbeCandidate(o) \/ VerifyReplica(o))
  BY <1>1, <1>2, Arriving DEF StopOriginal, AwaitStopped, ArgumentsFail, Reproduce,
     ProbeCandidate, VerifyReplica, Returned
<1>6. CommitAdoption(o)
  BY <1>1, <1>3, <1>4, <1>5 DEF Adopt
<1>7. Aside(o) /\ pc[o] = "commit"
  BY <1>6 DEF CommitAdoption, Aside
<1> QED
  BY <1>1, <1>7 DEF PlacedOK

\* Only the step of an operation that returns reports a result of it.
LEMMA StepReports ==
  ASSUME WInv, Vouched, SeesWhatItMakes, KnowsWhatItRuns, NEW o \in Op, Step(o)
  PROVE  ReportsTruly
<1>1. AllTypeOK /\ Working(o) /\ spawned[o] \subseteq ContainerId
  BY StepWorking DEF WInv, AllTypeOK, ProgressOK
<1>2. \A p \in Op \ {o} : outcome'[p] = outcome[p]
  BY <1>1, SpawnedGrows
<1>3. \A r : Reported(o, r) /\ r # "manual" => Returned(o) /\ outcome'[o] = r
  BY <1>1, StepProceeds DEF Reported, Returned, Proceeds, Goto, Finish, PollAgain,
     EnterRollback,
     AllTypeOK, ControlOK
<1>4. ASSUME NotBegun(o)  PROVE  spawned[o] = {} /\ stdout[o] = NoId /\ outcome'[o] # "rolledBack"
  BY <1>4 DEF NotBegun
<1>5. ASSUME PutBack(o)
      PROVE  /\ Holds(orig[o], svc[o]) /\ containers[orig[o]].life = life[o]
             /\ \A c \in spawned[o] : ~Exists(c)
             /\ outcome'[o] = "rolledBack"
  <2>1. orig[o] \in ContainerId
    BY <1>1, <1>5 DEF PutBack, Quiescing, Replacing, WInv, OpOK, AdoptedOK, TargetOK,
       Ended, Steps, Backward
  <2>2. Holds(orig[o], svc[o]) /\ containers[orig[o]].life = life[o] /\ outcome'[o] = "rolledBack"
    BY <1>5 DEF PutBack, OriginalRestored, Holds
  <2>3. ASSUME NEW c \in spawned[o], Exists(c)  PROVE FALSE
    BY <1>1, <2>1, <2>2, <2>3 DEF WInv, OpOK, SpawnOK, NamesUnique, Holds
  <2> QED
    BY <2>2, <2>3
<1>6. ASSUME Serving(o)
      PROVE  /\ specs'[svc[o]] = want[o] /\ outcome'[o] \in {"success", "backupLeft"}
             /\ \E c \in ContainerId : /\ Holds(c, svc[o])
                                       /\ containers[c].deployment = want[o]
                                       /\ containers[c].service = svc[o]
  <2>1. PICK t \in ContainerId : t = stdout[o] /\ t \in spawned[o]
    BY <1>1, <1>6 DEF Serving, Built, WInv, OpOK, SpawnOK, AllTypeOK, ProgressOK
  <2>2. Holds(t, svc[o]) /\ containers[t].service = svc[o] /\ containers[t].deployment = want[o]
    BY <1>1, <1>6, <2>1 DEF Serving, Built, Runs, WInv, OpOK, SpawnOK, OwnedBy, Holds
  <2> QED
    BY <1>6, <2>1, <2>2 DEF Serving
<1>7. Returned(o) => NotBegun(o) \/ NothingLeft(o) \/ PutBack(o) \/ Serving(o)
  BY StepReturns
<1>8. /\ Reported(o, "rolledBack") =>
           /\ Holds(orig[o], svc[o])
           /\ containers[orig[o]].life = life[o]
           /\ \A c \in spawned[o] : ~Exists(c)
      /\ Reported(o, "removed") \/ Reported(o, "unchanged") => \A c \in spawned[o] : ~Exists(c)
      /\ (Reported(o, "success") \/ Reported(o, "backupLeft")) /\ stdout[o] # NoId =>
           /\ specs'[svc[o]] = want[o]
           /\ \E c \in ContainerId : /\ Holds(c, svc[o])
                                     /\ containers[c].deployment = want[o]
                                     /\ containers[c].service = svc[o]
  <2>1. CASE ~Returned(o)
    BY <1>3, <2>1
  <2>2. CASE NotBegun(o) /\ Returned(o)
    BY <1>3, <1>4, <2>2
  <2>3. CASE NothingLeft(o) /\ Returned(o)
    BY <1>3, <2>3 DEF NothingLeft
  <2>4. CASE PutBack(o) /\ Returned(o)
    BY <1>3, <1>5, <2>4
  <2>5. CASE Serving(o) /\ Returned(o)
    BY <1>3, <1>6, <2>5
  <2> QED
    BY <1>7, <2>1, <2>2, <2>3, <2>4, <2>5
<1>9. \A p \in Op : NotChangedTruly(p) /\ SetAsideTruly(p)
  BY <1>2, SaysNotChanged, SaysSetAside DEF NotChangedTruly, SetAsideTruly, Reported
<1> QED
  BY <1>2, <1>8, <1>9 DEF ReportsTruly, Reported

\* Around the steps of operations, nothing false is reported.
LEMMA AroundReports ==
  ASSUME WInv,
         \/ \E o \in Op : Serial /\ Asks(o)
         \/ Environment /\ UNCHANGED kind
         \/ Crash /\ UNCHANGED kind
         \/ UNCHANGED allVars
  PROVE  ReportsTruly
<1>1. CASE UNCHANGED outcome
  BY <1>1 DEF ReportsTruly, NotChangedTruly, SetAsideTruly, Reported
<1>2. CASE \E o \in Op : Serial /\ Asks(o)
  <2>1. PICK o \in Op : Asks(o) /\ Serial
    BY <1>2
  <2>2. Requests(o) /\ spawned[o] = {} /\ stdout[o] = NoId /\ AllTypeOK
    BY <2>1, AsksRequests DEF WInv, OpOK, RefersOK, Requests, Uncreated
  <2>3. \A p \in Op \ {o} : outcome'[p] = outcome[p]
    BY <2>2 DEF Requests, Proceeds, Goto, Finish, PollAgain, EnterRollback, AllTypeOK, ControlOK
  <2>4. outcome'[o] = outcome[o] \/ outcome'[o] \notin {"rolledBack", "backupLeft"}
    BY <2>1, <2>2 DEF Asks, Request, DeployRequest, AdoptRequest, CreateRequest, DeleteRequest,
       RemoveRequest, StopToRemove, Goto, Finish, AllTypeOK, ControlOK
  <2>5. \A p \in Op : NotChangedTruly(p) /\ SetAsideTruly(p)
    BY <2>2, <2>3, <2>4 DEF NotChangedTruly, SetAsideTruly, Reported, Requests
  <2> QED
    BY <2>2, <2>3, <2>4, <2>5 DEF ReportsTruly, Reported
<1> QED
  BY <1>1, <1>2 DEF Environment, Crash, allVars, vars, transaction

\* When operations do not overlap on a service, a listing that fails cannot hide what
\* a failed create made, and an adoption can tell what it runs from its ports: a
\* report of a rollback means the original is back as it was and nothing that was
\* created exists; one of a removal, that nothing created exists; one of success,
\* that the service runs, labelled, what its stored spec now says; one of an adoption,
\* that the original is aside, stopped; and one of a rename that failed, that the
\* original has its name, or, should a rename be able to fail late, its backup's.
\* Of the original's place on a host where strangers remove containers, and of its
\* lifecycle on one that moves by itself, the last two say nothing.
THEOREM ReportsAlwaysTruthful ==
  ASSUME Serial, SeesWhatItMakes, KnowsWhatItRuns
  PROVE  WorkloadsSpec => ReportsTruthful
<1>1. WInv /\ Vouched /\ [WorkloadsNext]_allVars => ReportsTruly
  BY StepReports, AroundReports DEF WorkloadsNext
<1>2. CASE "foreign" \in Ambient
  <2>1. WInv /\ [WorkloadsNext]_allVars => ReportsTruly
    BY <1>1, <1>2 DEF Vouched
  <2> QED
    BY <2>1, WorkloadsInvariance, PTL DEF WorkloadsSpec, ReportsTruthful
<1>3. CASE "foreign" \notin Ambient
  <2>1. WInv /\ PlacedInv /\ [WorkloadsNext]_allVars => ReportsTruly
    BY <1>1 DEF Vouched
  <2>2. WorkloadsSpec => []PlacedInv
    BY <1>3, Placed
  <2> QED
    BY <2>1, <2>2, WorkloadsInvariance, PTL DEF WorkloadsSpec, ReportsTruthful
<1> QED
  BY <1>2, <1>3

-------------------------------------------------------------------------------
(* Operations dispose only of what is theirs.                              *)

\* What operation o may remove.
Disposable(o, c) ==
  \/ c \in spawned[o]
  \/ c = orig[o] /\ kind[o] = "remove"
  \/ /\ c = orig[o] /\ kind[o] \in {"mutate", "deploy"}
     /\ pc[o] = "cleanup"
     /\ \E r \in spawned[o] : Holds(r, svc[o]) /\ containers[r].deployment = specs[svc[o]]

\* The operation may still take back what it created.
Provisional(o) == Working(o) /\ pc[o] \notin {"cleanup", "gone"}

\* No operation's force removal names anything but what it created, and the
\* original under its backup name once the replacement serves; a stranger's
\* container that took the service's name apart.
LEMMA DiscardsItsOwn ==
  ASSUME WInv, NEW o \in Op, Working(o), kind[o] # "remove",
         NEW ident, Discards(o, ident), NEW c \in ContainerId, Refers(c, ident),
         "foreign" \notin Ambient \/ Managed(c)
  PROVE  Disposable(o, c) /\ (Provisional(o) \/ c = orig[o])
<1>1. /\ AllTypeOK /\ OpOK(o) /\ pc[o] \in StepsOf(kind[o]) /\ Exists(c)
      /\ spawned[o] \subseteq ContainerId /\ containers[c].name \in ContainerName
      /\ {svc[o], Backup[o]} \subseteq ContainerName
      /\ kind[o] \in {"mutate", "deploy", "adopt", "create", "delete"}
  BY ExistingTyped, WorkingNamed DEF WInv, OpOK, RefersOK, Refers, AllTypeOK, ProgressOK,
     MemoryOK,
     Operations, ContainerName
<1>2. CASE ident \in spawned[o]
  <2>1. c = ident
    BY <1>1, <1>2, NamesDistinct DEF Refers
  <2>2. pc[o] = "cleanup" => ident = Backup[o]
    BY DEF Discards
  <2>3. Provisional(o)
    BY <1>1, <1>2, <2>2, NamesDistinct DEF Provisional, Discards
  <2> QED
    BY <1>2, <2>1, <2>3 DEF Disposable
<1>3. CASE ident = svc[o] /\ pc[o] \in {"dropRemove", "undoRemove"}
  <2>1. kind[o] \in Quiescing /\ svc[o] \in Name
    BY <1>1, <1>3 DEF StepsOf, Steps, Backward, DeploySteps, CreationSteps, Ended, Quiescing,
       Replacing,
       OpOK, RefersOK, Working, Preflight, Forward
  <2>2. containers[c].name = svc[o]
    BY <1>1, <1>3, <2>1, NamesDistinct DEF Refers
  <2>3. \A d \in ContainerId : Holds(d, svc[o]) =>
          d \in spawned[o] \/ (OwnedBy(d, Unmanaged) /\ "foreign" \in Ambient)
    BY <1>1, <1>3, <2>1 DEF OpOK, ClearedOK, Renamed, Backward, DeploySteps, StepsOf, Steps,
       Preflight,
       Forward, Ended, Quiescing
  <2>4. c \in spawned[o]
    BY <1>1, <2>2, <2>3 DEF Holds, Managed, OwnedBy
  <2> QED
    BY <1>3, <2>4 DEF Disposable, Provisional
<1>4. CASE ident = Backup[o] /\ pc[o] = "cleanup"
  <2>1. kind[o] \in {"mutate", "deploy"} /\ svc[o] \in Name
    BY <1>1, <1>4 DEF StepsOf, Steps, DeploySteps, CreationSteps, Ended, OpOK, RefersOK,
       Preflight, Forward,
       Backward
  <2>2. PICK t \in ContainerId : t = orig[o] /\ Holds(t, Backup[o])
    BY <1>1, <1>4, <2>1 DEF OpOK, TargetOK, Replacing, Renamed, Steps, Forward, Ended, Holds
  <2>3. c = orig[o]
    BY <1>1, <1>4, <2>2, NamesDistinct DEF Refers, Holds, WInv, NamesUnique
  <2>4. /\ Built(o) /\ Runs(o) /\ specs[svc[o]] = want[o]
    BY <1>1, <1>4, <2>1 DEF OpOK, BuiltOK, FilesOK, Created, Working, Ended
  <2>5. PICK r \in ContainerId : r = stdout[o] /\ r \in spawned[o]
    BY <1>1, <2>4 DEF Built, OpOK, SpawnOK, AllTypeOK, ProgressOK
  <2>6. Holds(r, svc[o]) /\ containers[r].deployment = specs[svc[o]]
    BY <1>1, <2>4, <2>5 DEF Built, Runs, OpOK, SpawnOK, Holds
  <2> QED
    BY <1>4, <2>1, <2>3, <2>5, <2>6 DEF Disposable
<1>5. ident \in spawned[o] \/ (ident = svc[o] /\ pc[o] \in {"dropRemove", "undoRemove"})
        \/ (ident = Backup[o] /\ pc[o] = "cleanup")
  <2>1. pc[o] = "leftRemove" => stdout[o] # NoId
    BY <1>1 DEF OpOK, BuiltOK, StepsOf, Steps, DeploySteps, CreationSteps, Preflight, Forward,
       Backward,
       Ended
  <2> QED
    BY <1>1, <2>1 DEF Discards, OpOK, SpawnOK
<1> QED
  BY <1>2, <1>3, <1>4, <1>5

\* A step of an operation removes only what is disposable to it.
LEMMA StepDisposes ==
  ASSUME WInv, NEW o \in Op, Step(o), NEW c \in ContainerId, Exists(c), ~Exists(c)',
         "foreign" \notin Ambient \/ Managed(c)
  PROVE  Disposable(o, c) /\ (Provisional(o) \/ c = orig[o])
<1>1. AllTypeOK /\ HostTypeOK /\ Working(o) /\ kind[o] # "none"
  BY StepWorking, WorkingNamed DEF WInv, AllTypeOK
<1>2. CASE kind[o] \in {"delete", "remove"} /\ Maintain(o)
  <2>1. CASE Erase(o)
    <3>1. kind[o] = "remove"
      BY <1>2, <2>1 DEF WInv, OpOK, RefersOK, StepsOf, Erase, Ended
    <3> QED
      BY <2>1, <3>1, EraseTakes DEF Disposable, Kept, SameExistence
  <2>2. CASE DeleteFile(o)
    BY <2>2 DEF DeleteFile, Exists
  <2> QED
    BY <1>2, <2>1, <2>2 DEF Maintain
<1>3. CASE kind[o] \in {"mutate", "deploy", "adopt", "create"} /\ Commands(o)
  <2>1. /\ svc[o] \in ContainerName /\ Backup[o] \in ContainerName
        /\ life[o] \in {"running", "stopped"}
    BY <1>1 DEF AllTypeOK, MemoryOK, ContainerName
  <2>2. ~UNCHANGED containers
    BY DEF Exists
  <2>3. ~\E ident, ok : PodmanStop(ident, ok) \/ PodmanStart(ident, ok)
    BY <1>1, StopKeeps, StartKeeps DEF Kept, SameExistence
  <2>4. ~\E ok : PodmanRename(svc[o], Backup[o], ok) \/ PodmanRename(Backup[o], svc[o], ok)
    BY <1>1, <2>1, RenameFacts DEF SameExistence
  <2>5. ~\E d \in ContainerId, service \in {svc[o], Unmanaged}, l \in {"running", life[o]},
             ok \in BOOLEAN : PodmanCreate(d, svc[o], service, want[o], l, ok)
    BY <1>1 DEF PodmanCreate, HostTypeOK, Exists, Alive
  <2>6. ~PodmanCreateFails(svc[o])
    BY <2>2 DEF PodmanCreateFails, FailsCleanly
  <2>7. PICK ident, ok : Discards(o, ident) /\ PodmanForceRemove(ident, ok)
    BY <1>3, <2>2, <2>3, <2>4, <2>5, <2>6 DEF Commands
  <2>8. Refers(c, ident)
    BY <1>1, <2>7, RemoveFacts DEF Kept, SameExistence
  <2> QED
    BY <1>1, <1>3, <2>7, <2>8, DiscardsItsOwn
<1> QED
  BY <1>2, <1>3, MutationCommands, DeployCommands, AdoptCommands, CreateCommands DEF Step

\* When operations do not overlap on a service, and nobody else makes containers: a
\* step of an operation removes nothing but what an operation created, what a user
\* asked to remove, and the original of a mutation or deployment at its last step,
\* with the replacement under the service's name and running what the spec says.
THEOREM DisposesAlwaysOfItsOwn ==
  ASSUME Serial, "foreign" \notin Ambient
  PROVE  WorkloadsSpec => DisposesOnlyOfItsOwn
<1> DEFINE Disposes == \A c \in ContainerId : Exists(c) /\ ~Exists(c)' /\ pc' # pc =>
                          \E o \in Op : pc'[o] # pc[o] /\ Disposable(o, c)
<1>1. WInv /\ [WorkloadsNext]_allVars => Disposes
  <2> SUFFICES ASSUME WInv, [WorkloadsNext]_allVars, NEW c \in ContainerId,
                      Exists(c), ~Exists(c)', pc' # pc
               PROVE  \E o \in Op : pc'[o] # pc[o] /\ Disposable(o, c)
    OBVIOUS
  <2>1. ~\E o \in Op : Asks(o)
    BY AsksFree DEF WInv, Free, Kept, SameExistence
  <2>2. ~Environment /\ ~Crash /\ ~UNCHANGED allVars
    BY DEF Environment, transaction, Crash, Exists, allVars, vars
  <2>3. PICK o \in Op : Step(o)
    BY <2>1, <2>2 DEF WorkloadsNext
  <2>4. pc \in [Op -> AllSteps] /\ pc' \in [Op -> AllSteps]
    BY <2>3, StepType DEF WInv, AllTypeOK, ControlOK
  <2>5. \A p \in Op \ {o} : pc'[p] = pc[p]
    BY <2>3, SpawnedGrows DEF WInv
  <2>6. pc'[o] # pc[o]
    BY <2>4, <2>5
  <2> QED
    BY <2>3, <2>6, StepDisposes
<1>2. Disposes <=> \A c \in ContainerId : Exists(c) /\ ~Exists(c)' /\ pc' # pc =>
       \E o \in Op :
         /\ pc'[o] # pc[o]
         /\ \/ c \in spawned[o]
            \/ c = orig[o] /\ kind[o] = "remove"
            \/ /\ c = orig[o] /\ kind[o] \in {"mutate", "deploy"}
               /\ pc[o] = "cleanup"
               /\ \E r \in spawned[o] :
                    Holds(r, svc[o]) /\ containers[r].deployment = specs[svc[o]]
  BY DEF Disposable
<1> QED
  BY <1>1, <1>2, WorkloadsInvariance, PTL DEF WorkloadsSpec, DisposesOnlyOfItsOwn

-------------------------------------------------------------------------------
(* Operations of every kind implement WorkloadStore.                       *)

\* Only a commit and a deletion write a spec, and they touch no container.
LEMMA WritesSpecs ==
  ASSUME NEW o \in Op, Step(o), specs' # specs
  PROVE  \/ kind[o] = "mutate" /\ Commit(o)
         \/ kind[o] = "adopt" /\ CommitAdoption(o)
         \/ kind[o] = "create" /\ CommitCreated(o)
         \/ kind[o] \in {"delete", "remove"} /\ DeleteFile(o)
<1>1. Rollback(o) => specs' = specs
  BY DEF Rollback, StopCandidate, RemoveCandidate, CheckCandidateGone, RestoreName,
     InspectRestored, RestartOriginal, AwaitRestored, StoreUnchanged, storeVars,
     DiscardCandidateSpec
<1>2. Snapshot(o) \/ RenameAway(o) \/ StopOriginal(o) \/ AwaitStopped(o) \/ ArgumentsFail(o)
        \/ ProbeCandidate(o) => specs' = specs
  BY DEF Snapshot, RenameAway, StopOriginal, AwaitStopped, ArgumentsFail, ProbeCandidate,
     Fail, StoreUnchanged, storeVars, WriteCandidateSpec, DiscardCandidateSpec
<1>3. Mutation(o) => Commit(o)
  BY <1>1, <1>2 DEF Mutation, Resolve, CreateReplacement, CreateFails, VerifyReplacement,
     CheckHealth, RemoveBackup, Fail, StoreUnchanged, storeVars, DiscardCandidateSpec
<1>4. ~Deploy(o)
  BY <1>1, <1>2 DEF Deploy, Survey, RunNew, Creates, LookForLeftover, StopLeftover,
     RemoveLeftover, AwaitLeftoverGone, ProveNew, UndoStop, UndoRemove, AwaitUndone,
     AwaitHalted, Recreate, TraceCandidate, ProveReplacement, RetireBackup, AwaitRetired,
     StopBy, RemoveBy, AwaitAbsent, storeVars, StoreUnchanged
<1>5. Adopt(o) => CommitAdoption(o)
  BY <1>1, <1>2 DEF Adopt, ReviewTarget, Reproduce, VerifyReplica, Fail, StoreUnchanged,
     storeVars, DiscardCandidateSpec
<1>6. Create(o) => CommitCreated(o)
  BY DEF Create, CreatePlain, StageCandidate, CreateManaged, SeekLeftover, CheckCreated,
     ClearCreated, AwaitCleared, StoreUnchanged, storeVars, WriteCandidateSpec,
     DiscardCandidateSpec
<1>7. Maintain(o) => DeleteFile(o)
  BY DEF Maintain, Erase, storeVars
<1> QED
  BY <1>3, <1>4, <1>5, <1>6, <1>7 DEF Step

\* A spec is deleted when no container has its label, and committed when what the
\* operation created runs it and will not be taken back.
LEMMA WritesWhatRuns ==
  ASSUME WInv, KnowsWhatItRuns, NEW o \in Op, Step(o), specs' # specs
  PROVE  /\ UNCHANGED containers /\ UNCHANGED spawned /\ svc[o] \in Name
         /\ \/ ~Labelled(svc[o]) /\ specs' = [specs EXCEPT ![svc[o]] = NoSpec]
            \/ /\ want[o] \in Deployment /\ specs' = [specs EXCEPT ![svc[o]] = want[o]]
               /\ Built(o) /\ Runs(o) /\ ~Provisional(o)'
<1>1. AllTypeOK /\ OpOK(o) /\ Working(o) /\ spawned \in [Op -> SUBSET ContainerId]
  BY StepWorking DEF WInv, AllTypeOK, ProgressOK
<1>2. pc'[o] \in {"done", "cleanup"} => ~Provisional(o)'
  BY DEF Provisional, Working, Ended
<1>3. CASE kind[o] = "mutate" /\ Commit(o)
  <2>1. CommitCandidateSpec(o, svc[o]) /\ pc'[o] = "cleanup"
    BY <1>1, <1>3 DEF Commit, Fail, DiscardCandidateSpec, StoreUnchanged, Goto, AllTypeOK, ControlOK
  <2>2. svc[o] \in Name /\ candidates[o] = want[o] /\ Built(o) /\ Runs(o)
    BY <1>1, <1>3 DEF Commit, OpOK, RefersOK, FilesOK, BuiltOK, Created
  <2> QED
    BY <1>1, <1>2, <1>3, <2>1, <2>2 DEF Commit, CommitCandidateSpec, AllTypeOK, StoreTypeOK,
       progress
<1>4. CASE kind[o] = "adopt" /\ CommitAdoption(o)
  <2>1. CommitCandidateSpec(o, svc[o]) /\ pc'[o] = "done"
    BY <1>1, <1>4 DEF CommitAdoption, StoreUnchanged, Finish, AllTypeOK, ControlOK
  <2>2. svc[o] \in Name /\ candidates[o] = want[o] /\ Built(o)
    BY <1>1, <1>4 DEF CommitAdoption, OpOK, RefersOK, FilesOK, BuiltOK, Created
  <2>3. PICK t \in ContainerId : t = stdout[o] /\ Exists(t)
    BY <1>1, <2>2 DEF Built, AllTypeOK, ProgressOK
  <2>4. containers[t].deployment \in Deployment /\ candidates[o] \in Deployment
    BY <1>1, <2>1, <2>3, AliveFacts DEF AllTypeOK, CommitCandidateSpec, StoreTypeOK
  <2>5. "drift" \in Faults => PortsOf[containers[t].deployment] = PortsOf[want[o]]
    BY <1>1, <1>4, <2>3 DEF CommitAdoption, OpOK, BuiltOK
  <2>6. "drift" \notin Faults => Runs(o)
    BY <1>1, <1>4 DEF CommitAdoption, OpOK, BuiltOK
  <2>7. Runs(o)
    BY <2>2, <2>3, <2>4, <2>5, <2>6 DEF Runs, KnowsWhatItRuns
  <2> QED
    BY <1>1, <1>2, <1>4, <2>1, <2>2, <2>4, <2>7
       DEF CommitAdoption, CommitCandidateSpec, AllTypeOK, StoreTypeOK, progress
<1>5. CASE kind[o] = "create" /\ CommitCreated(o)
  <2>1. CommitCandidateSpec(o, svc[o]) /\ pc'[o] = "done"
    BY <1>1, <1>5 DEF CommitCreated, StoreUnchanged, Finish, AllTypeOK, ControlOK
  <2>2. svc[o] \in Name /\ candidates[o] = want[o] /\ Built(o) /\ Runs(o)
    BY <1>1, <1>5 DEF CommitCreated, OpOK, RefersOK, FilesOK, BuiltOK
  <2> QED
    BY <1>1, <1>2, <1>5, <2>1, <2>2 DEF CommitCreated, CommitCandidateSpec, AllTypeOK,
       StoreTypeOK, progress
<1>6. CASE kind[o] \in {"delete", "remove"} /\ DeleteFile(o)
  <2>1. kind[o] = "delete"
    BY <1>1, <1>6 DEF DeleteFile, OpOK, RefersOK, StepsOf, Ended
  <2> QED
    BY <1>1, <1>6, <2>1 DEF DeleteFile, OpOK, RefersOK, UpkeepOK, RemoveSpec, StoreUnchanged,
       progress
<1> QED
  BY <1>3, <1>4, <1>5, <1>6, WritesSpecs

\* A step touches one container.
LEMMA StepTouches ==
  ASSUME WInv, NEW o \in Op, Step(o), kind[o] # "remove"
  PROVE  TouchesOne
<1>1. /\ HostTypeOK /\ svc[o] \in ContainerName /\ Backup[o] \in ContainerName
  BY StepWorking, WorkingNamed DEF WInv, AllTypeOK, ContainerName
<1>2. CASE Maintain(o) /\ kind[o] = "delete"
  BY <1>2 DEF Maintain, DeleteFile, Erase, WInv, OpOK, RefersOK, StepsOf, Ended, TouchesOne
<1>3. CASE Commands(o)
  <2>1. \A ident, ok : PodmanStop(ident, ok) \/ PodmanStart(ident, ok) \/ PodmanForceRemove(ident, ok)
          => TouchesOne
    BY <1>1, CommandTouches
  <2>2. \A ok : PodmanRename(svc[o], Backup[o], ok) \/ PodmanRename(Backup[o], svc[o], ok)
          => TouchesOne
    BY <1>1, CommandTouches
  <2>3. \A c \in ContainerId : \A name, service, d, l, ok :
          PodmanCreate(c, name, service, d, l, ok) => TouchesOne
    BY <1>1, CreateTouches DEF PodmanCreate
  <2> QED
    BY <1>3, <2>1, <2>2, <2>3 DEF Commands, PodmanCreateFails, FailsCleanly, TouchesOne
<1> QED
  BY <1>2, <1>3, MutationCommands, DeployCommands, AdoptCommands, CreateCommands DEF Step

-------------------------------------------------------------------------------
(* Every stored spec is backed, whatever operations came before.           *)

\* Container c is what the spec of service n describes, and nobody takes it back.
Backs(c, n) ==
  /\ Managed(c) /\ OwnedBy(c, n)
  /\ containers[c].deployment = specs[n]
  /\ \A o \in Op : Provisional(o) => c \notin spawned[o]

\* Every spec is backed, and not only by what may still be taken back.
BackedInv ==
  /\ \A o \in Op : kind[o] # "remove"
  /\ \A n \in Name : specs[n] # NoSpec => \E c \in ContainerId : Backs(c, n)

\* From its last steps an operation does not go back.
LEMMA LateSteps ==
  ASSUME WInv, NEW o \in Op, Step(o), ~Provisional(o)
  PROVE  ~Provisional(o)'
<1>1. /\ AllTypeOK /\ Working(o) /\ pc[o] \in StepsOf(kind[o])
      /\ pc[o] \in {"cleanup", "gone"}
  BY StepWorking DEF WInv, OpOK, RefersOK, Provisional
<1>2. CASE kind[o] = "mutate" /\ Mutation(o)
  <2>1. RemoveBackup(o)
    BY <1>1, <1>2 DEF StepsOf, Steps, Preflight, Forward, Backward, Ended, Mutation, Resolve,
       Snapshot,
       RenameAway, StopOriginal, AwaitStopped, ArgumentsFail, CreateReplacement, CreateFails,
       ProbeCandidate, VerifyReplacement, CheckHealth, Commit, Rollback, StopCandidate,
       RemoveCandidate, CheckCandidateGone, RestoreName, InspectRestored, RestartOriginal,
       AwaitRestored
  <2> QED
    BY <1>1, <2>1 DEF RemoveBackup, Finish, Provisional, Working, Ended, AllTypeOK, ControlOK
<1>3. CASE kind[o] = "deploy" /\ Deploy(o)
  <2>1. RetireBackup(o) \/ AwaitRetired(o)
    BY <1>1, <1>3 DEF Deploy, Survey, RunNew, Creates, LookForLeftover, StopLeftover,
       RemoveLeftover, AwaitLeftoverGone, ProveNew, UndoStop, UndoRemove, AwaitUndone,
       AwaitHalted, Recreate, TraceCandidate, ProveReplacement, StopBy, RemoveBy, AwaitAbsent,
       RenameAway, StopOriginal, Rollback, StopCandidate, RemoveCandidate, CheckCandidateGone,
       RestoreName, InspectRestored, RestartOriginal, AwaitRestored
  <2> QED
    BY <1>1, <2>1 DEF RetireBackup, RemoveBy, AwaitRetired, AwaitAbsent, Goto, Finish, PollAgain,
       LastPoll, Provisional, Working, Ended, AllTypeOK, ControlOK
<1>4. kind[o] \notin {"adopt", "create", "delete", "remove"}
  BY <1>1 DEF StepsOf, Steps, Preflight, Forward, Backward, Ended, CreationSteps
<1> QED
  BY <1>2, <1>3, <1>4 DEF Step

\* Who else might take back what operation o made?  Nobody.
LEMMA OwnBacks ==
  ASSUME WInv, NEW o \in Op, Step(o), NEW c \in ContainerId, c \in spawned[o],
         NEW n \in Name, svc[o] = n,
         Exists(c), Exists(c)', containers[c].deployment = specs'[n], ~Provisional(o)'
  PROVE  Backs(c, n)'
<1>1. AllTypeOK /\ OpOK(o) /\ Working(o) /\ Alone(o) /\ svc' = svc
  BY StepWorking, StepAlone, StepRemembers DEF WInv
<1>2. OwnedBy(c, svc[o]) /\ AliveOnce(c) /\ Touched(o, c)
  BY <1>1, StepKeepsAll, AliveFacts DEF OpOK, SpawnOK, Keeps, AllTypeOK
<1>3. /\ containers'[c].service = n /\ containers'[c].deployment = containers[c].deployment
  BY <1>2 DEF Touched, Kept, SameRecord, OwnedBy
<1>4. ASSUME NEW p \in Op, Provisional(p)', c \in spawned'[p]
      PROVE  FALSE
  <2>1. p # o /\ Working(p) /\ c \in spawned[p]
    BY <1>1, <1>4 DEF Alone, LocalsKept, Provisional, Working
  <2>2. OwnedBy(c, svc[p])
    BY <2>1 DEF WInv, OpOK, SpawnOK
  <2> QED
    BY <1>1, <1>2, <2>1, <2>2 DEF OwnedBy, WInv, OneAtATime, Working
<1> QED
  BY <1>1, <1>3, <1>4, NamesDistinct, NamesFacts DEF Backs, Managed, OwnedBy

\* What backs a spec that a step does not write goes only when another does.
LEMMA StillBacked ==
  ASSUME WInv, NEW o \in Op, Step(o), kind[o] # "remove", NEW n \in Name, specs'[n] = specs[n],
         NEW c \in ContainerId, Backs(c, n)
  PROVE  \E d \in ContainerId : Backs(d, n)'
<1>1. /\ AllTypeOK /\ OpOK(o) /\ Working(o) /\ Alone(o) /\ Touched(o, c)
      /\ \A d \in spawned'[o] : d \in spawned[o] \/ ~AliveOnce(d)
      /\ Exists(c) /\ AliveOnce(c) /\ spawned[o] \subseteq ContainerId
  BY StepWorking, StepAlone, StepKeepsAll, AliveFacts
     DEF WInv, Keeps, Gains, AllTypeOK, Backs, Managed, ProgressOK
<1>2. CASE Exists(c)'
  <2>1. /\ containers'[c].service = containers[c].service
        /\ containers'[c].deployment = containers[c].deployment
    BY <1>1 DEF Touched, Kept, SameRecord
  <2>2. ASSUME NEW p \in Op, Provisional(p)'
        PROVE  c \notin spawned'[p]
    <3>1. CASE p = o
      BY <1>1, <2>2, <3>1, LateSteps DEF Backs
    <3>2. CASE p # o
      BY <1>1, <2>2, <3>2 DEF Backs, Alone, LocalsKept, Provisional, Working
    <3> QED
      BY <3>1, <3>2
  <2> QED
    BY <1>2, <2>1, <2>2 DEF Backs, Managed, OwnedBy
<1>3. CASE ~Exists(c)'
  <2>1. Disposable(o, c) /\ (Provisional(o) \/ c = orig[o])
    BY <1>1, <1>3, StepDisposes DEF Backs
  <2>2. c = orig[o] /\ c \notin spawned[o]
    BY <1>1, <2>1 DEF Backs, OpOK, SpawnOK, Disposable
  <2>3. PICK r \in spawned[o] :
          /\ Holds(r, svc[o]) /\ containers[r].deployment = specs[svc[o]]
          /\ kind[o] \in Replacing /\ pc[o] = "cleanup"
    BY <2>1, <2>2 DEF Disposable, Replacing
  <2>4. svc[o] = n
    BY <1>1, <2>2, <2>3 DEF OpOK, TargetOK, Backs, OwnedBy, Steps, Forward, Ended
  <2>5. r # orig[o] /\ r \in ContainerId /\ Exists(r) /\ OwnedBy(r, n) /\ ~Provisional(o)
    BY <1>1, <2>3, <2>4 DEF OpOK, SpawnOK, Holds, Provisional
  <2>6. Managed(r)
    BY <2>5, NamesDistinct, NamesFacts DEF Managed, OwnedBy
  <2>7. Exists(r)'
    BY <2>5, <2>6, StepDisposes
  <2> QED
    BY <2>3, <2>4, <2>5, <2>7, LateSteps, OwnBacks
<1> QED
  BY <1>2, <1>3

LEMMA StepBacks ==
  ASSUME WInv, BackedInv, KnowsWhatItRuns, NEW o \in Op, Step(o)
  PROVE  BackedInv'
<1>1. kind' = kind /\ kind[o] # "remove"
  BY DEF BackedInv, Step
<1>2. ASSUME NEW n \in Name, specs'[n] # NoSpec
      PROVE  \E c \in ContainerId : Backs(c, n)'
  <2>1. CASE specs'[n] = specs[n]
    BY <1>1, <1>2, <2>1, StillBacked DEF BackedInv
  <2>2. CASE specs'[n] # specs[n]
    <3>1. /\ UNCHANGED containers /\ svc[o] = n /\ specs'[n] = want[o]
          /\ Built(o) /\ Runs(o) /\ ~Provisional(o)'
      BY <1>2, <2>2, WritesWhatRuns DEF WInv, AllTypeOK, StoreTypeOK
    <3>2. PICK t \in ContainerId : t = stdout[o] /\ t \in spawned[o] /\ Exists(t)
      BY <3>1, StepWorking DEF Built, WInv, AllTypeOK, ProgressOK, OpOK, SpawnOK
    <3>3. Exists(t)' /\ containers[t].deployment = specs'[n]
      BY <3>1, <3>2 DEF Exists, Runs
    <3> QED
      BY <3>1, <3>2, <3>3, OwnBacks
  <2> QED
    BY <2>1, <2>2
<1> QED
  BY <1>1, <1>2 DEF BackedInv

LEMMA AroundBacks ==
  ASSUME WInv, BackedInv, "remove" \notin Kinds,
         \/ \E o \in Op : Serial /\ Asks(o)
         \/ Environment /\ UNCHANGED kind
         \/ Crash /\ UNCHANGED kind
         \/ UNCHANGED allVars
  PROVE  BackedInv'
<1>1. CASE \E o \in Op : Serial /\ Asks(o)
  <2>1. PICK o \in Op : Asks(o) /\ Serial
    BY <1>1
  <2>2. /\ Free(o) /\ AllTypeOK /\ spawned[o] = {}
        /\ \A p \in Op \ {o} : pc'[p] = pc[p]
    BY <2>1, AsksFree, AsksRequests
       DEF WInv, OpOK, RefersOK, Free, Uncreated, Requests, Proceeds, Goto, Finish, PollAgain,
           EnterRollback, AllTypeOK, ControlOK
  <2>3. \E k \in Kinds : kind' = [kind EXCEPT ![o] = k]
    BY <2>1 DEF Asks, Begins
  <2>4. \A p \in Op : kind'[p] # "remove"
    BY <2>2, <2>3 DEF BackedInv, AllTypeOK, MemoryOK
  <2>5. ASSUME NEW n \in Name, NEW c \in ContainerId, Backs(c, n)
        PROVE  Backs(c, n)'
    BY <2>2, <2>5 DEF Free, Backs, Kept, SameRecord, SameExistence, Managed, OwnedBy,
       progress, storeVars, Provisional, Working
  <2> QED
    BY <2>2, <2>4, <2>5 DEF BackedInv, Free, storeVars
<1>2. CASE Environment /\ UNCHANGED kind
  <2>1. \A c \in ContainerId : containers[c].service # Unmanaged => Kept(c)
    BY <1>2, HostMovesFacts DEF Environment, WInv, AllTypeOK
  <2>2. ASSUME NEW n \in Name, NEW c \in ContainerId, Backs(c, n)
        PROVE  Backs(c, n)'
    BY <1>2, <2>1, <2>2 DEF Environment, Backs, Kept, SameRecord, SameExistence, Managed,
       OwnedBy, progress, storeVars, Provisional, Working
  <2> QED
    BY <1>2, <2>2 DEF BackedInv, Environment, storeVars
<1>3. CASE Crash /\ UNCHANGED kind
  BY <1>3 DEF Crash, BackedInv, Backs, Managed, Exists, OwnedBy, storeVars, progress,
     Provisional, Working, Ended
<1>4. CASE UNCHANGED allVars
  BY <1>4 DEF allVars, vars, BackedInv, Backs, Managed, Exists, OwnedBy, Provisional, Working
<1> QED
  BY <1>1, <1>2, <1>3, <1>4

LEMMA InitBacks ==
  ASSUME WorkloadsInit, Lost = {}
  PROVE  BackedInv
<1>1. PICK deployed \in [Name -> Deployment], owned \in SUBSET Name,
           up \in [Name -> {"running", "stopped"}] :
       /\ containers = [d \in ContainerId |->
            IF Home[d] = NoName THEN Unborn
            ELSE [life |-> up[Home[d]], name |-> Home[d],
                  service |-> IF Home[d] \in owned THEN Home[d] ELSE Unmanaged,
                  deployment |-> deployed[Home[d]]]]
       /\ specs = [n \in Name |->
            IF n \in Lost \/ \E d \in ContainerId : Home[d] = n /\ n \in owned
              THEN deployed[n] ELSE NoSpec]
  BY DEF WorkloadsInit
<1>2. ASSUME NEW n \in Name, specs[n] # NoSpec
      PROVE  \E c \in ContainerId : Backs(c, n)
  <2>1. PICK c \in ContainerId : Home[c] = n /\ n \in owned
    BY <1>1, <1>2
  <2>2. specs[n] = deployed[n]
    BY <1>1, <2>1
  <2>3. /\ containers[c].service = n /\ containers[c].deployment = deployed[n]
        /\ containers[c].life \in {"running", "stopped"}
    BY <1>1, <2>1, NamesDistinct, NamesFacts
  <2>4. Backs(c, n)
    BY <2>2, <2>3, NamesDistinct, NamesFacts
       DEF Backs, Managed, Exists, Alive, OwnedBy, WorkloadsInit, Quiet
  <2> QED
    BY <2>4
<1> QED
  BY <1>2 DEF BackedInv, WorkloadsInit

LEMMA BackedBacks == BackedInv => SpecBacked
BY DEF BackedInv, Backs, SpecBacked, Managed, OwnedBy

LEMMA Backing ==
  ASSUME Serial, KnowsWhatItRuns, Lost = {}, "remove" \notin Kinds
  PROVE  WorkloadsSpec => []BackedInv
<1>1. WInv /\ BackedInv /\ [WorkloadsNext]_allVars => BackedInv'
  BY StepBacks, AroundBacks DEF WorkloadsNext
<1>2. WorkloadsInit => BackedInv
  BY InitBacks
<1> QED
  BY <1>1, <1>2, WorkloadsInvariance, PTL DEF WorkloadsSpec

\* When operations of any kind but removals do not overlap on a service, none was lost
\* to begin with, and an adoption can tell what it runs from its ports: every stored
\* spec has a managed container that runs exactly what it says, whatever else fails,
\* dies or interferes.
THEOREM SpecsAlwaysBacked ==
  ASSUME Serial, KnowsWhatItRuns, Lost = {}, "remove" \notin Kinds
  PROVE  WorkloadsSpec => []SpecBacked
BY Backing, BackedBacks, PTL

-------------------------------------------------------------------------------
(* Operations of every kind implement the store of workloads.              *)

LEMMA WritesRefine ==
  ASSUME WInv, KnowsWhatItRuns, NEW o \in Op, Step(o), specs' # specs
  PROVE  Store!Next
<1>1. /\ UNCHANGED containers /\ svc[o] \in Name
      /\ \/ ~Labelled(svc[o]) /\ specs' = [specs EXCEPT ![svc[o]] = NoSpec]
         \/ /\ want[o] \in Deployment /\ specs' = [specs EXCEPT ![svc[o]] = want[o]]
            /\ Built(o) /\ Runs(o)
  BY WritesWhatRuns
<1>2. Present' = Present
  BY <1>1 DEF Present, Managed, Exists
<1>3. CASE ~Labelled(svc[o]) /\ specs' = [specs EXCEPT ![svc[o]] = NoSpec]
  <2>1. \A d : d \notin Present[svc[o]]
    BY <1>1, <1>3, PresentMembers DEF Managed, Labelled
  <2>2. Store!Forget(svc[o])
    BY <1>2, <1>3, <2>1 DEF Store!Forget
  <2> QED
    BY <1>1, <2>2 DEF Store!Next
<1>4. CASE /\ want[o] \in Deployment /\ specs' = [specs EXCEPT ![svc[o]] = want[o]]
           /\ Built(o) /\ Runs(o)
  <2>1. PICK t \in ContainerId : t = stdout[o] /\ t \in spawned[o] /\ Exists(t)
    BY <1>4, StepWorking DEF Built, WInv, AllTypeOK, ProgressOK, OpOK, SpawnOK
  <2>2. OwnedBy(t, svc[o]) /\ containers[t].deployment = want[o]
    BY <1>4, <2>1, StepWorking DEF WInv, OpOK, SpawnOK, Runs
  <2>3. want[o] \in Present[svc[o]]
    BY <1>1, <2>1, <2>2, PresentMembers, NamesDistinct, NamesFacts DEF Managed, OwnedBy
  <2>4. Store!Promote(svc[o], want[o])
    BY <1>2, <1>4, <2>3 DEF Store!Promote
  <2> QED
    BY <1>1, <1>4, <2>4 DEF Store!Next
<1> QED
  BY <1>1, <1>3, <1>4

LEMMA WorkloadsInitRefines ==
  ASSUME WorkloadsInit, Lost = {}
  PROVE  Store!Init
<1>1. specs \in [Name -> Deployment \cup {NoSpec}]
  BY InitAllTypeOK DEF AllTypeOK, StoreTypeOK
<1>2. ASSUME NEW n \in Name
      PROVE  Present[n] = {specs[n]} \ {NoSpec}
  <2>1. ASSUME NEW d \in Present[n]
        PROVE  d = specs[n] /\ d # NoSpec
    BY <2>1, PresentMembers, InitStored
  <2>2. ASSUME specs[n] # NoSpec
        PROVE  specs[n] \in Present[n]
    BY <2>2, PresentMembers, InitBacks DEF BackedInv, Backs, OwnedBy
  <2> QED
    BY <2>1, <2>2
<1>3. Present = [n \in Name |-> {specs[n]} \ {NoSpec}]
  BY <1>2 DEF Present
<1> QED
  BY <1>1, <1>3 DEF Store!Init

LEMMA WorkloadsNextRefines ==
  ASSUME WInv, WInv', BackedInv, BackedInv', KnowsWhatItRuns, "remove" \notin Kinds,
         \/ \E o \in Op : (Serial /\ Asks(o)) \/ Step(o)
         \/ Environment /\ UNCHANGED kind
         \/ Crash /\ UNCHANGED kind
         \/ UNCHANGED allVars
  PROVE  [Store!Next]_Store!store
<1>1. /\ HostTypeOK /\ HostTypeOK' /\ LabelsOK /\ LabelsOK' /\ SpecBacked'
  BY BackedBacks, PTL DEF WInv, AllTypeOK
<1>2. ASSUME NEW o \in Op, Step(o)
      PROVE  [Store!Next]_Store!store
  <2>1. CASE specs' = specs
    BY <1>1, <1>2, <2>1, StepTouches, TouchRefines DEF BackedInv
  <2>2. CASE specs' # specs
    BY <1>2, <2>2, WritesRefine
  <2> QED
    BY <2>1, <2>2
<1>3. ASSUME NEW o \in Op, Asks(o)
      PROVE  [Store!Next]_Store!store
  <2>1. specs' = specs /\ UNCHANGED containers
    BY <1>3 DEF Asks, Begins, Request, DeployRequest, AdoptRequest, CreateRequest,
       DeleteRequest, storeVars
  <2> QED
    BY <1>1, <2>1, TouchRefines DEF TouchesOne
<1>4. CASE Environment
  BY <1>1, <1>4, HostTouches, TouchRefines DEF Environment, storeVars
<1>5. CASE Crash \/ UNCHANGED allVars
  BY <1>1, <1>5, TouchRefines DEF Crash, storeVars, allVars, vars, TouchesOne
<1> QED
  BY <1>2, <1>3, <1>4, <1>5

\* Seen as a store of workloads, and under the same assumptions: every step of every
\* operation brings something, makes a spec authoritative for what is there, lets go
\* what no spec describes, or forgets a service without containers.
THEOREM OperationsImplementStore ==
  ASSUME Serial, KnowsWhatItRuns, Lost = {}, "remove" \notin Kinds
  PROVE  WorkloadsSpec => ImplementsStore
<1>1. WorkloadsInit => Store!Init
  BY WorkloadsInitRefines
<1>2. WInv /\ WInv' /\ BackedInv /\ BackedInv' /\ [WorkloadsNext]_allVars
        => [Store!Next]_Store!store
  BY WorkloadsNextRefines DEF WorkloadsNext
<1> QED
  BY <1>1, <1>2, WorkloadsInvariance, Backing, PTL
     DEF WorkloadsSpec, ImplementsStore, Store!Spec
===============================================================================
