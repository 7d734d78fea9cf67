------------------------------ MODULE Replacement ------------------------------
(***************************************************************************)
(* What Podder's transactions on an existing workload have in common: they *)
(* rename the original container out of the way, stop it, create a         *)
(* replacement under its name, verify the replacement, and on any failure  *)
(* run executeRollback.  This module holds the state such a transaction    *)
(* keeps, its QUIESCE steps and the rollback; the module of each           *)
(* transaction adds its preflight, creation, verification and commit.      *)
(*                                                                         *)
(* A step is one podman command, one listing or one file operation, with   *)
(* the code that runs before the next one.  Podder holds no lock: the      *)
(* steps of different transactions interleave freely, with each other and  *)
(* with what happens on the host.                                          *)
(***************************************************************************)
EXTENDS PodmanHost, SpecStore, Naturals

CONSTANTS
  Home,          \* Home[c]: the service that container c serves at the start
  PollAttempts,  \* mutationPollAttempts
  Serial         \* TRUE: at most one transaction at a time on a service

ASSUME ReplacementAssumption ==
  /\ Home \in [ContainerId -> Name \cup {NoName}]
  /\ \A c, d \in ContainerId : Home[c] = Home[d] /\ Home[c] # NoName => c = d
  /\ PollAttempts \in Nat \ {0}
  /\ Serial \in BOOLEAN

VARIABLES
  pc,                 \* pc[o]: where transaction o is
  orig,               \* orig[o]: target.Id
  svc,                \* svc[o]: the target's name when it was listed
  life,               \* life[o]: originalLifecycle
  want,               \* want[o]: the candidate spec
  stdout,             \* stdout[o]: the ID the create command printed
  candidateID,        \* candidateID[o]: the identity a rollback will clean up
  removedCandidate,   \* removedCandidate[o]: RollbackResult.RemovedCandidate
  polls,              \* polls[o]: attempts the current pollUntil has made
  outcome,            \* outcome[o]: what the transaction reported
  spawned             \* spawned[o]: history, the containers o has created

transaction == <<orig, svc, life, want>>
progress == <<stdout, candidateID, spawned>>
storeVars == <<specs, candidates>>
vars == <<containers, specs, candidates, pc, orig, svc, life, want, stdout,
          candidateID, removedCandidate, polls, outcome, spawned>>

\* The steps after which a transaction has touched nothing but its own memory.
Preflight == {"resolve", "snapshot", "rename"}
Forward == {"stop", "stopping", "create", "probe", "verify", "health", "commit"}
Backward == {"dropStop", "dropRemove", "dropCheck", "restore", "inspect",
             "restart", "restarting"}
Ended == {"idle", "done", "crashed"}
Steps == Preflight \cup Forward \cup Backward \cup Ended \cup {"cleanup"}

Outcomes == {"none", "refused", "unchanged", "success", "backupLeft",
             "rolledBack", "manual"}

ReplacementTypeOK ==
  /\ pc \in [Op -> Steps]
  /\ orig \in [Op -> ContainerId \cup {NoId}]
  /\ svc \in [Op -> ContainerName \cup {NoName}]
  /\ life \in [Op -> {"running", "stopped"}]
  /\ want \in [Op -> Deployment \cup {NoSpec}]
  /\ stdout \in [Op -> ContainerId \cup {NoId}]
  /\ candidateID \in [Op -> ContainerId \cup ContainerName \cup {NoId}]
  /\ removedCandidate \in [Op -> BOOLEAN]
  /\ polls \in [Op -> 0 .. PollAttempts]
  /\ outcome \in [Op -> Outcomes]
  /\ spawned \in [Op -> SUBSET ContainerId]
  /\ \A o \in Op : pc[o] # "idle" =>
       orig[o] \in ContainerId /\ svc[o] \in ContainerName /\ want[o] \in Deployment

TypeOK == HostTypeOK /\ StoreTypeOK /\ ReplacementTypeOK

\* Nothing is staged and nothing is under way.
Quiet ==
  /\ candidates = [o \in Op |-> NoSpec]
  /\ pc = [o \in Op |-> "idle"]
  /\ orig = [o \in Op |-> NoId]
  /\ svc = [o \in Op |-> NoName]
  /\ life = [o \in Op |-> "stopped"]
  /\ want = [o \in Op |-> NoSpec]
  /\ stdout = [o \in Op |-> NoId]
  /\ candidateID = [o \in Op |-> NoId]
  /\ removedCandidate = [o \in Op |-> FALSE]
  /\ polls = [o \in Op |-> 0]
  /\ outcome = [o \in Op |-> "none"]
  /\ spawned = [o \in Op |-> {}]

\* Every service of Home is deployed as its stored spec says, under its own
\* name, running or stopped; nothing else exists.
Init ==
  /\ \E deployed \in [Name -> Deployment], up \in [Name -> {"running", "stopped"}] :
       /\ containers = [c \in ContainerId |->
            IF Home[c] = NoName THEN Unborn
            ELSE [life |-> up[Home[c]], name |-> Home[c], service |-> Home[c],
                  deployment |-> deployed[Home[c]]]]
       /\ specs = [n \in Name |->
            IF \E c \in ContainerId : Home[c] = n THEN deployed[n] ELSE NoSpec]
  /\ Quiet

-------------------------------------------------------------------------------
(* Control flow.                                                           *)

Goto(o, step) ==
  /\ pc' = [pc EXCEPT ![o] = step]
  /\ polls' = [polls EXCEPT ![o] = 0]
  /\ UNCHANGED <<removedCandidate, outcome>>

Finish(o, result) ==
  /\ pc' = [pc EXCEPT ![o] = "done"]
  /\ outcome' = [outcome EXCEPT ![o] = result]
  /\ UNCHANGED <<polls, removedCandidate>>

\* Mutant: a pollUntil that never gives up.
PollForever(o) ==
  /\ polls' = [polls EXCEPT ![o] = @ + 1]
  /\ UNCHANGED <<pc, removedCandidate, outcome>>

\* One more attempt of a pollUntil that does not succeed, with attempts to spare.
PollAgain(o) ==
  /\ polls[o] + 1 < PollAttempts
  /\ polls' = [polls EXCEPT ![o] = @ + 1]
  /\ UNCHANGED <<pc, removedCandidate, outcome>>

LastPoll(o) == polls[o] + 1 = PollAttempts

\* The start of executeRollback(..., candidateWasCreated).  A candidate that was
\* not created counts as removed without a look.
EnterRollback(o, candidateWasCreated) ==
  /\ pc' = [pc EXCEPT ![o] = IF candidateWasCreated THEN "dropStop" ELSE "restore"]
  /\ removedCandidate' = [removedCandidate EXCEPT ![o] = ~candidateWasCreated]
  /\ polls' = [polls EXCEPT ![o] = 0]
  /\ UNCHANGED outcome

\* Mutant: the candidate file is forgotten.
FailKeepingFile(o, candidateWasCreated) ==
  EnterRollback(o, candidateWasCreated) /\ StoreUnchanged

\* A failing transaction that has staged a candidate: the candidate file goes,
\* then the rollback runs.
Fail(o, candidateWasCreated) ==
  /\ EnterRollback(o, candidateWasCreated)
  /\ DiscardCandidateSpec(o)

-------------------------------------------------------------------------------
(* QUIESCE.                                                                *)

\* Mutant: the original is not stopped.
RenameAwayOnly(o) ==
  /\ pc[o] = "rename"
  /\ \E ok \in BOOLEAN :
       /\ PodmanRename(svc[o], Backup[o], ok)
       /\ \/ ok /\ Goto(o, "create") /\ StoreUnchanged
          \/ ~ok /\ Finish(o, "unchanged") /\ DiscardCandidateSpec(o)
  /\ UNCHANGED <<transaction, progress>>

\* rename <name> <backup>.  A failure is reported as "not changed": the
\* candidate file goes and nothing is rolled back.
RenameAway(o) ==
  /\ pc[o] = "rename"
  /\ \E ok \in BOOLEAN :
       /\ PodmanRename(svc[o], Backup[o], ok)
       /\ \/ /\ ok
             /\ Goto(o, IF life[o] = "running" THEN "stop" ELSE "create")
             /\ StoreUnchanged
          \/ /\ ~ok
             /\ Finish(o, "unchanged")
             /\ DiscardCandidateSpec(o)
  /\ UNCHANGED <<transaction, progress>>

\* Mutant: neither the exit status nor the container is looked at.
StopUnseen(o) ==
  /\ pc[o] = "stop"
  /\ \E ok \in BOOLEAN : PodmanStop(Backup[o], ok)
  /\ Goto(o, "create")
  /\ StoreUnchanged
  /\ UNCHANGED <<transaction, progress>>

StopOriginal(o) ==
  /\ pc[o] = "stop"
  /\ \E ok \in BOOLEAN :
       /\ PodmanStop(Backup[o], ok)
       /\ \/ ok /\ Goto(o, "stopping") /\ StoreUnchanged
          \/ ~ok /\ Fail(o, FALSE)
  /\ UNCHANGED <<transaction, progress>>

\* The backup is looked up by its name alone.
OriginalStopped(o) ==
  \E c \in ContainerId : Holds(c, Backup[o]) /\ containers[c].life = "stopped"

AwaitStopped(o) ==
  /\ pc[o] = "stopping"
  /\ \/ OriginalStopped(o) /\ Goto(o, "create") /\ StoreUnchanged
     \/ /\ ~OriginalStopped(o) \/ ListingMayFail
        /\ \/ PollAgain(o) /\ StoreUnchanged
           \/ LastPoll(o) /\ Fail(o, FALSE)
  /\ UNCHANGED <<containers, transaction, progress>>

-------------------------------------------------------------------------------
(* executeRollback.                                                        *)

\* Stop, then force-remove the failed candidate by whatever identity the
\* transaction recorded; neither exit status decides anything.  An empty
\* identity runs no command.
StopCandidate(o) ==
  /\ pc[o] = "dropStop"
  /\ \/ candidateID[o] = NoId /\ UNCHANGED containers
     \/ candidateID[o] # NoId /\ \E ok \in BOOLEAN : PodmanStop(candidateID[o], ok)
  /\ Goto(o, "dropRemove")
  /\ UNCHANGED <<storeVars, transaction, progress>>

RemoveCandidate(o) ==
  /\ pc[o] = "dropRemove"
  /\ \/ candidateID[o] = NoId /\ UNCHANGED containers
     \/ /\ candidateID[o] # NoId
        /\ \E ok \in BOOLEAN : PodmanForceRemove(candidateID[o], ok)
  /\ Goto(o, "dropCheck")
  /\ UNCHANGED <<storeVars, transaction, progress>>

\* Only a listing without the candidate lets the rollback go on.
CheckCandidateGone(o) ==
  /\ pc[o] = "dropCheck"
  /\ \/ /\ ~Found(candidateID[o])
        /\ pc' = [pc EXCEPT ![o] = "restore"]
        /\ removedCandidate' = [removedCandidate EXCEPT ![o] = TRUE]
        /\ UNCHANGED <<polls, outcome>>
     \/ /\ Found(candidateID[o]) \/ ListingMayFail
        /\ Finish(o, "manual")
  /\ UNCHANGED <<containers, storeVars, transaction, progress>>

\* rename <backup> <name>; the listing after it decides, not the exit status.
RestoreName(o) ==
  /\ pc[o] = "restore"
  /\ \E ok \in BOOLEAN : PodmanRename(Backup[o], svc[o], ok)
  /\ Goto(o, "inspect")
  /\ UNCHANGED <<storeVars, transaction, progress>>

InspectRestored(o) ==
  /\ pc[o] = "inspect"
  /\ \/ /\ Holds(orig[o], svc[o])
        /\ Goto(o, IF life[o] = "running" THEN "restart" ELSE "restarting")
     \/ /\ ~Holds(orig[o], svc[o]) \/ ListingMayFail
        /\ Finish(o, "manual")
  /\ UNCHANGED <<containers, storeVars, transaction, progress>>

RestartOriginal(o) ==
  /\ pc[o] = "restart"
  /\ \E ok \in BOOLEAN : PodmanStart(svc[o], ok)
  /\ Goto(o, "restarting")
  /\ UNCHANGED <<storeVars, transaction, progress>>

\* Mutants: whoever has the name is the original; its lifecycle is not looked at.
RestoredByName(o) ==
  \E c \in ContainerId : Holds(c, svc[o]) /\ containers[c].life = life[o]
RestoredAnyhow(o) == Holds(orig[o], svc[o])

OriginalRestored(o) ==
  Holds(orig[o], svc[o]) /\ containers[orig[o]].life = life[o]

AwaitRestored(o) ==
  /\ pc[o] = "restarting"
  /\ \/ OriginalRestored(o) /\ Finish(o, "rolledBack")
     \/ /\ ~OriginalRestored(o) \/ ListingMayFail
        /\ PollAgain(o) \/ (LastPoll(o) /\ Finish(o, "manual"))
  /\ UNCHANGED <<containers, storeVars, transaction, progress>>

Rollback(o) ==
  \/ StopCandidate(o) \/ RemoveCandidate(o) \/ CheckCandidateGone(o)
  \/ RestoreName(o) \/ InspectRestored(o) \/ RestartOriginal(o)
  \/ AwaitRestored(o)

-------------------------------------------------------------------------------
(* Around the transactions.                                                *)

\* The host moves on its own.
Environment ==
  /\ HostMoves
  /\ UNCHANGED <<storeVars, pc, transaction, progress, removedCandidate, polls,
                 outcome>>

\* The Podder process dies, and with it every transaction under way.  It keeps
\* no journal: what it starts with again is the host and the services directory.
Crash ==
  /\ \E o \in Op : pc[o] \notin Ended
  /\ pc' = [o \in Op |-> IF pc[o] \in Ended THEN pc[o] ELSE "crashed"]
  /\ UNCHANGED <<containers, storeVars, transaction, progress, removedCandidate,
                 polls, outcome>>
===============================================================================
