-------------------------- MODULE PortMutation_proofs --------------------------
(***************************************************************************)
(* Type correctness and safety of MutateContainerPorts, for any number of  *)
(* transactions, services and containers and whatever fails.               *)
(***************************************************************************)
EXTENDS PortMutation, PodmanHost_proofs

-------------------------------------------------------------------------------
(* Type correctness.                                                       *)

\* A transaction under way moves to another step of its own, or ends.
Moves(o) ==
  \/ \E step \in Steps \ {"idle"} : Goto(o, step)
  \/ \E result \in Outcomes : Finish(o, result)
  \/ PollAgain(o)
  \/ \E created \in BOOLEAN : EnterRollback(o, created)

\* The control variables keep their types.
LEMMA MovesType ==
  ASSUME TypeOK, NEW o \in Op, Moves(o)
  PROVE  /\ pc' \in [Op -> Steps]
         /\ removedCandidate' \in [Op -> BOOLEAN]
         /\ polls' \in [Op -> 0 .. PollAttempts]
         /\ outcome' \in [Op -> Outcomes]
         /\ \A p \in Op : pc'[p] # "idle" => pc[p] # "idle" \/ p = o
<1>1. /\ pc \in [Op -> Steps]
      /\ removedCandidate \in [Op -> BOOLEAN]
      /\ polls \in [Op -> 0 .. PollAttempts]
      /\ outcome \in [Op -> Outcomes]
  BY DEF TypeOK, ReplacementTypeOK
<1>2. PollAttempts \in Nat \ {0}
  BY ReplacementAssumption
<1>3. CASE \E step \in Steps \ {"idle"} : Goto(o, step)
  BY <1>1, <1>2, <1>3 DEF Goto
<1>4. CASE \E result \in Outcomes : Finish(o, result)
  BY <1>1, <1>4 DEF Finish, Steps, Ended
<1>5. CASE PollAgain(o)
  BY <1>1, <1>2, <1>5 DEF PollAgain
<1>6. CASE \E created \in BOOLEAN : EnterRollback(o, created)
  BY <1>1, <1>2, <1>6 DEF EnterRollback, Steps, Backward
<1>7. QED
  BY <1>3, <1>4, <1>5, <1>6 DEF Moves

\* A step of a transaction that keeps what it works on.
LEMMA MovesTypeOK ==
  ASSUME TypeOK, NEW o \in Op, Moves(o), pc[o] # "idle", UNCHANGED transaction,
         HostTypeOK', StoreTypeOK',
         stdout' \in [Op -> ContainerId \cup {NoId}],
         candidateID' \in [Op -> ContainerId \cup ContainerName \cup {NoId}],
         spawned' \in [Op -> SUBSET ContainerId]
  PROVE  TypeOK'
<1>1. /\ pc' \in [Op -> Steps]
      /\ removedCandidate' \in [Op -> BOOLEAN]
      /\ polls' \in [Op -> 0 .. PollAttempts]
      /\ outcome' \in [Op -> Outcomes]
      /\ \A p \in Op : pc'[p] # "idle" => pc[p] # "idle" \/ p = o
  BY MovesType
<1>2. ReplacementTypeOK'
  BY <1>1 DEF TypeOK, ReplacementTypeOK, transaction
<1>3. QED
  BY <1>2 DEF TypeOK

\* The same, when it creates nothing either.
LEMMA QuietMovesTypeOK ==
  ASSUME TypeOK, NEW o \in Op, Moves(o), pc[o] # "idle", UNCHANGED transaction,
         UNCHANGED progress, HostTypeOK', StoreTypeOK'
  PROVE  TypeOK'
<1>1. /\ stdout' \in [Op -> ContainerId \cup {NoId}]
      /\ candidateID' \in [Op -> ContainerId \cup ContainerName \cup {NoId}]
      /\ spawned' \in [Op -> SUBSET ContainerId]
  BY DEF TypeOK, ReplacementTypeOK, progress
<1>2. QED
  BY <1>1, MovesTypeOK

LEMMA StoreKeepsType ==
  ASSUME StoreTypeOK, NEW o \in Op,
         \/ StoreUnchanged
         \/ \E d \in Deployment : WriteCandidateSpec(o, d)
         \/ DiscardCandidateSpec(o)
         \/ \E n : CommitCandidateSpec(o, n)
  PROVE  StoreTypeOK'
BY DEF StoreTypeOK, StoreUnchanged, WriteCandidateSpec, DiscardCandidateSpec,
       CommitCandidateSpec

\* What a transaction under way works on.
LEMMA UnderWay ==
  ASSUME TypeOK, NEW o \in Op, pc[o] # "idle"
  PROVE  /\ orig[o] \in ContainerId
         /\ svc[o] \in ContainerName
         /\ want[o] \in Deployment
         /\ life[o] \in {"running", "stopped"}
         /\ Backup[o] \in ContainerName
BY DEF TypeOK, ReplacementTypeOK, ContainerName

LEMMA FailMoves ==
  ASSUME NEW o, NEW created \in BOOLEAN, Fail(o, created)
  PROVE  Moves(o) /\ DiscardCandidateSpec(o)
BY DEF Fail, Moves

LEMMA GotoMoves ==
  ASSUME NEW o, NEW step \in Steps \ {"idle"}, Goto(o, step)
  PROVE  Moves(o)
BY DEF Moves

LEMMA FinishMoves ==
  ASSUME NEW o, NEW result \in Outcomes, Finish(o, result)
  PROVE  Moves(o)
BY DEF Moves

LEMMA InitTypeOK == Init => TypeOK
<1> SUFFICES ASSUME Init PROVE TypeOK
  OBVIOUS
<1>1. PICK deployed \in [Name -> Deployment], up \in [Name -> {"running", "stopped"}] :
       /\ containers = [c \in ContainerId |->
            IF Home[c] = NoName THEN Unborn
            ELSE [life |-> up[Home[c]], name |-> Home[c], service |-> Home[c],
                  deployment |-> deployed[Home[c]]]]
       /\ specs = [n \in Name |->
            IF \E c \in ContainerId : Home[c] = n THEN deployed[n] ELSE NoSpec]
  BY DEF Init, Quiet
<1>2. HostTypeOK
  <2>1. ASSUME NEW c \in ContainerId PROVE containers[c] \in Container
    <3>1. CASE Home[c] = NoName
      BY <1>1, <3>1 DEF Container
    <3>2. CASE Home[c] # NoName
      <4>1. Home[c] \in Name /\ Home[c] \in ContainerName
        BY <3>2, ReplacementAssumption DEF ContainerName
      <4>2. up[Home[c]] \in Life \ {"unborn"} /\ deployed[Home[c]] \in Deployment
        BY <4>1 DEF Life, Alive
      <4>3. QED
        BY <1>1, <3>2, <4>1, <4>2 DEF Container
    <3>3. QED
      BY <3>1, <3>2
  <2>2. QED
    BY <1>1, <2>1 DEF HostTypeOK
<1>3. StoreTypeOK
  BY <1>1 DEF StoreTypeOK, Init, Quiet
<1>4. ReplacementTypeOK
  BY ReplacementAssumption
     DEF ReplacementTypeOK, Init, Quiet, Steps, Ended, Outcomes
<1>5. QED
  BY <1>2, <1>3, <1>4 DEF TypeOK

\* The steps of a transaction, by what they touch.
LEMMA RequestType ==
  ASSUME TypeOK, NEW o \in Op, NEW c \in ContainerId, NEW d \in Deployment,
         Request(o, c, d)
  PROVE  TypeOK'
<1>1. containers[c].name \in ContainerName
  BY DEF TypeOK, HostTypeOK, Container, Unborn, Exists, Alive, Request
<1>2. Moves(o)
  BY GotoMoves, FinishMoves DEF Request, Steps, Preflight, Outcomes
<1>3. /\ pc' \in [Op -> Steps]
      /\ removedCandidate' \in [Op -> BOOLEAN]
      /\ polls' \in [Op -> 0 .. PollAttempts]
      /\ outcome' \in [Op -> Outcomes]
      /\ \A p \in Op : pc'[p] # "idle" => pc[p] # "idle" \/ p = o
  BY <1>2, MovesType
<1>4. life' \in [Op -> {"running", "stopped"}]
  <2>1. CASE UNCHANGED life
    BY <2>1 DEF TypeOK, ReplacementTypeOK
  <2>2. CASE /\ containers[c].life # "unsupported"
             /\ life' = [life EXCEPT ![o] = containers[c].life]
    <3>1. containers[c].life \in {"running", "stopped"}
      BY <2>2 DEF Request, Exists, Alive
    <3>2. QED
      BY <2>2, <3>1 DEF TypeOK, ReplacementTypeOK
  <2>3. QED
    BY <2>1, <2>2 DEF Request
<1>5. /\ orig' = [orig EXCEPT ![o] = c]
      /\ svc' = [svc EXCEPT ![o] = containers[c].name]
      /\ want' = [want EXCEPT ![o] = d]
      /\ UNCHANGED <<containers, storeVars, progress>>
  BY DEF Request
<1>6. HostTypeOK' /\ StoreTypeOK'
  BY <1>5 DEF TypeOK, HostTypeOK, StoreTypeOK, storeVars
<1>7. ReplacementTypeOK'
  BY <1>1, <1>3, <1>4, <1>5 DEF TypeOK, ReplacementTypeOK, progress
<1>8. QED
  BY <1>6, <1>7 DEF TypeOK

LEMMA ResolveType ==
  ASSUME TypeOK, NEW o \in Op, Resolve(o)
  PROVE  TypeOK'
<1>1. Moves(o)
  BY GotoMoves, FinishMoves DEF Resolve, Steps, Preflight, Outcomes
<1>2. HostTypeOK' /\ StoreTypeOK'
  BY DEF Resolve, TypeOK, HostTypeOK, StoreTypeOK, storeVars
<1>3. QED
  BY <1>1, <1>2, QuietMovesTypeOK DEF Resolve

LEMMA SnapshotType ==
  ASSUME TypeOK, NEW o \in Op, Snapshot(o)
  PROVE  TypeOK'
<1>1. Moves(o)
  BY GotoMoves, FinishMoves DEF Snapshot, Steps, Preflight, Outcomes
<1>2. want[o] \in Deployment
  BY UnderWay DEF Snapshot
<1>3. HostTypeOK' /\ StoreTypeOK'
  BY <1>2, StoreKeepsType DEF Snapshot, TypeOK, HostTypeOK
<1>4. QED
  BY <1>1, <1>3, QuietMovesTypeOK DEF Snapshot

LEMMA RenameAwayType ==
  ASSUME TypeOK, NEW o \in Op, RenameAway(o)
  PROVE  TypeOK'
<1>1. Moves(o)
  BY GotoMoves, FinishMoves DEF RenameAway, Steps, Forward, Outcomes
<1>2. HostTypeOK'
  BY RenameFacts, UnderWay DEF RenameAway, TypeOK
<1>3. StoreTypeOK'
  BY StoreKeepsType DEF RenameAway, TypeOK
<1>4. QED
  BY <1>1, <1>2, <1>3, QuietMovesTypeOK DEF RenameAway

LEMMA StopOriginalType ==
  ASSUME TypeOK, NEW o \in Op, StopOriginal(o)
  PROVE  TypeOK'
<1>1. Moves(o)
  BY GotoMoves, FailMoves DEF StopOriginal, Steps, Forward
<1>2. HostTypeOK'
  BY StopKeeps DEF StopOriginal, TypeOK
<1>3. StoreTypeOK'
  BY StoreKeepsType, FailMoves DEF StopOriginal, TypeOK
<1>4. QED
  BY <1>1, <1>2, <1>3, QuietMovesTypeOK DEF StopOriginal

LEMMA AwaitStoppedType ==
  ASSUME TypeOK, NEW o \in Op, AwaitStopped(o)
  PROVE  TypeOK'
<1>1. Moves(o)
  BY GotoMoves, FailMoves DEF AwaitStopped, Steps, Forward, Moves
<1>2. HostTypeOK' /\ StoreTypeOK'
  BY StoreKeepsType, FailMoves DEF AwaitStopped, TypeOK, HostTypeOK
<1>3. QED
  BY <1>1, <1>2, QuietMovesTypeOK DEF AwaitStopped

LEMMA CreateReplacementType ==
  ASSUME TypeOK, NEW o \in Op, CreateReplacement(o)
  PROVE  TypeOK'
<1>1. PICK c \in ContainerId, ok \in BOOLEAN, printed \in BOOLEAN :
       /\ PodmanCreate(c, svc[o], svc[o], want[o], life[o], ok)
       /\ stdout' = [stdout EXCEPT ![o] = IF printed THEN c ELSE NoId]
       /\ spawned' = [spawned EXCEPT ![o] = @ \cup {c}]
       /\ candidateID' = IF ok /\ printed THEN [candidateID EXCEPT ![o] = c]
                                          ELSE candidateID
       /\ \/ ok /\ printed /\ Goto(o, "verify") /\ StoreUnchanged
          \/ ok /\ ~printed /\ Fail(o, FALSE)
          \/ ~ok /\ Goto(o, "probe") /\ StoreUnchanged
  BY DEF CreateReplacement
<1>2. Moves(o)
  BY <1>1, GotoMoves, FailMoves DEF Steps, Forward
<1>3. HostTypeOK'
  <2>1. HostTypeOK /\ svc[o] \in ContainerName /\ life[o] \in {"running", "stopped"}
    BY UnderWay DEF CreateReplacement, TypeOK
  <2>2. PodmanCreate(c, svc[o], svc[o], want[o], life[o], ok)
    BY <1>1
  <2>3. QED
    BY <2>1, <2>2, CreateFacts
<1>4. StoreTypeOK'
  BY <1>1, StoreKeepsType, FailMoves DEF TypeOK
<1>5. /\ stdout' \in [Op -> ContainerId \cup {NoId}]
      /\ candidateID' \in [Op -> ContainerId \cup ContainerName \cup {NoId}]
      /\ spawned' \in [Op -> SUBSET ContainerId]
  BY <1>1 DEF TypeOK, ReplacementTypeOK
<1>6. QED
  BY <1>2, <1>3, <1>4, <1>5, MovesTypeOK DEF CreateReplacement

LEMMA ArgumentsFailType ==
  ASSUME TypeOK, NEW o \in Op, ArgumentsFail(o)
  PROVE  TypeOK'
<1>1. Moves(o) /\ DiscardCandidateSpec(o)
  BY FailMoves DEF ArgumentsFail
<1>2. HostTypeOK' /\ StoreTypeOK'
  BY <1>1, StoreKeepsType DEF ArgumentsFail, TypeOK, HostTypeOK
<1>3. QED
  BY <1>1, <1>2, QuietMovesTypeOK DEF ArgumentsFail

LEMMA CreateFailsType ==
  ASSUME TypeOK, NEW o \in Op, CreateFails(o)
  PROVE  TypeOK'
<1>1. Moves(o)
  BY GotoMoves DEF CreateFails, Steps, Forward
<1>2. HostTypeOK' /\ StoreTypeOK'
  BY DEF CreateFails, PodmanCreateFails, FailsCleanly, TypeOK, HostTypeOK,
         StoreTypeOK, storeVars
<1>3. QED
  BY <1>1, <1>2, QuietMovesTypeOK DEF CreateFails

LEMMA ProbeCandidateType ==
  ASSUME TypeOK, NEW o \in Op, ProbeCandidate(o)
  PROVE  TypeOK'
<1>1. Moves(o) /\ DiscardCandidateSpec(o)
  BY FailMoves DEF ProbeCandidate
<1>2. HostTypeOK' /\ StoreTypeOK'
  BY <1>1, StoreKeepsType DEF ProbeCandidate, TypeOK, HostTypeOK
<1>3. /\ stdout' \in [Op -> ContainerId \cup {NoId}]
      /\ candidateID' \in [Op -> ContainerId \cup ContainerName \cup {NoId}]
      /\ spawned' \in [Op -> SUBSET ContainerId]
  BY UnderWay DEF ProbeCandidate, TypeOK, ReplacementTypeOK
<1>4. QED
  BY <1>1, <1>2, <1>3, MovesTypeOK DEF ProbeCandidate

LEMMA VerifyReplacementType ==
  ASSUME TypeOK, NEW o \in Op, VerifyReplacement(o)
  PROVE  TypeOK'
<1>1. Moves(o)
  BY GotoMoves, FailMoves DEF VerifyReplacement, Steps, Forward, Moves
<1>2. HostTypeOK' /\ StoreTypeOK'
  BY StoreKeepsType, FailMoves DEF VerifyReplacement, TypeOK, HostTypeOK
<1>3. QED
  BY <1>1, <1>2, QuietMovesTypeOK DEF VerifyReplacement

LEMMA CheckHealthType ==
  ASSUME TypeOK, NEW o \in Op, CheckHealth(o)
  PROVE  TypeOK'
<1>1. Moves(o)
  BY GotoMoves, FailMoves DEF CheckHealth, Steps, Forward
<1>2. HostTypeOK' /\ StoreTypeOK'
  BY StoreKeepsType, FailMoves DEF CheckHealth, TypeOK, HostTypeOK
<1>3. QED
  BY <1>1, <1>2, QuietMovesTypeOK DEF CheckHealth

LEMMA CommitType ==
  ASSUME TypeOK, NEW o \in Op, Commit(o)
  PROVE  TypeOK'
<1>1. Moves(o)
  BY GotoMoves, FailMoves DEF Commit, Steps
<1>2. HostTypeOK' /\ StoreTypeOK'
  BY StoreKeepsType, FailMoves DEF Commit, TypeOK, HostTypeOK
<1>3. QED
  BY <1>1, <1>2, QuietMovesTypeOK DEF Commit

LEMMA RemoveBackupType ==
  ASSUME TypeOK, NEW o \in Op, RemoveBackup(o)
  PROVE  TypeOK'
<1>1. Moves(o)
  BY FinishMoves DEF RemoveBackup, Outcomes
<1>2. HostTypeOK' /\ StoreTypeOK'
  BY RemoveFacts DEF RemoveBackup, TypeOK, StoreTypeOK, storeVars
<1>3. QED
  BY <1>1, <1>2, QuietMovesTypeOK DEF RemoveBackup

LEMMA RollbackType ==
  ASSUME TypeOK, NEW o \in Op, Rollback(o)
  PROVE  TypeOK'
<1>1. /\ pc[o] # "idle"
      /\ StoreTypeOK'
      /\ UNCHANGED transaction
      /\ UNCHANGED progress
  BY DEF Rollback, StopCandidate, RemoveCandidate, CheckCandidateGone, RestoreName,
         InspectRestored, RestartOriginal, AwaitRestored, TypeOK, StoreTypeOK, storeVars
<1>2. CASE StopCandidate(o)
  <2>1. Moves(o) /\ HostTypeOK'
    BY <1>2, GotoMoves, StopKeeps DEF StopCandidate, Steps, Backward, TypeOK, HostTypeOK
  <2>2. QED
    BY <1>1, <2>1, QuietMovesTypeOK
<1>3. CASE RemoveCandidate(o)
  <2>1. Moves(o) /\ HostTypeOK'
    BY <1>3, GotoMoves, RemoveFacts
       DEF RemoveCandidate, Steps, Backward, TypeOK, HostTypeOK
  <2>2. QED
    BY <1>1, <2>1, QuietMovesTypeOK
<1>4. CASE CheckCandidateGone(o)
  <2>1. HostTypeOK'
    BY <1>4 DEF CheckCandidateGone, TypeOK, HostTypeOK
  <2>2. CASE Finish(o, "manual")
    BY <1>1, <2>1, <2>2, QuietMovesTypeOK, FinishMoves DEF Outcomes
  <2>3. CASE /\ pc' = [pc EXCEPT ![o] = "restore"]
             /\ removedCandidate' = [removedCandidate EXCEPT ![o] = TRUE]
             /\ UNCHANGED <<polls, outcome>>
    BY <1>1, <2>1, <2>3
       DEF TypeOK, ReplacementTypeOK, transaction, progress, Steps, Backward
  <2>4. QED
    BY <1>4, <2>2, <2>3 DEF CheckCandidateGone
<1>5. CASE RestoreName(o)
  <2>1. Moves(o) /\ HostTypeOK'
    BY <1>1, <1>5, GotoMoves, RenameFacts, UnderWay DEF RestoreName, Steps, Backward, TypeOK
  <2>2. QED
    BY <1>1, <2>1, QuietMovesTypeOK
<1>6. CASE InspectRestored(o)
  <2>1. Moves(o) /\ HostTypeOK'
    BY <1>6, GotoMoves, FinishMoves
       DEF InspectRestored, Steps, Backward, Outcomes, TypeOK, HostTypeOK
  <2>2. QED
    BY <1>1, <2>1, QuietMovesTypeOK
<1>7. CASE RestartOriginal(o)
  <2>1. Moves(o) /\ HostTypeOK'
    BY <1>7, GotoMoves, StartKeeps DEF RestartOriginal, Steps, Backward, TypeOK
  <2>2. QED
    BY <1>1, <2>1, QuietMovesTypeOK
<1>8. CASE AwaitRestored(o)
  <2>1. Moves(o) /\ HostTypeOK'
    BY <1>8, FinishMoves DEF AwaitRestored, Outcomes, Moves, TypeOK, HostTypeOK
  <2>2. QED
    BY <1>1, <2>1, QuietMovesTypeOK
<1>9. QED
  BY <1>2, <1>3, <1>4, <1>5, <1>6, <1>7, <1>8 DEF Rollback

LEMMA MutateType ==
  ASSUME TypeOK, NEW o \in Op, MutateContainerPorts(o)
  PROVE  TypeOK'
BY RequestType, ResolveType, SnapshotType, RenameAwayType, StopOriginalType,
   AwaitStoppedType, ArgumentsFailType, CreateReplacementType, CreateFailsType, ProbeCandidateType,
   VerifyReplacementType, CheckHealthType, CommitType, RemoveBackupType, RollbackType
   DEF MutateContainerPorts, Mutation

\* The host's own moves keep the containers of Podder, and every name.
LEMMA HostMovesFacts ==
  ASSUME HostTypeOK, HostMoves
  PROVE  /\ HostTypeOK'
         /\ NamesUnique => NamesUnique'
         /\ \A c \in ContainerId : containers[c].service # Unmanaged => Kept(c)
         /\ \A c \in ContainerId : containers'[c].service # Unmanaged => Kept(c)
<1>1. PICK c \in ContainerId :
        Exits(c) \/ Restarts(c) \/ Pauses(c) \/ ForeignRun(c) \/ ForeignRemove(c)
  BY DEF HostMoves
<1>2. CASE \E l \in Alive : Exists(c) /\ SetLife(c, l)
  BY <1>2, AliveKeeps, KeptNamesUnique
<1>3. CASE ForeignRun(c)
  <2>1. PICK n \in ContainerName, d \in Deployment :
         /\ ~Taken(n)
         /\ containers' = [containers EXCEPT ![c] =
              [life |-> "running", name |-> n, service |-> Unmanaged,
               deployment |-> d]]
    BY <1>3 DEF ForeignRun
  <2>2. containers[c] = Unborn
    BY <1>3 DEF ForeignRun, HostTypeOK, Container
  <2>3. /\ containers'[c] = [life |-> "running", name |-> n, service |-> Unmanaged,
                             deployment |-> d]
        /\ \A e \in ContainerId : e # c => containers'[e] = containers[e]
    BY <2>1 DEF HostTypeOK
  <2>4. HostTypeOK'
    <3>1. containers'[c] \in Container
      BY <2>3 DEF Container, Life, Alive
    <3>2. QED
      BY <2>1, <2>3, <3>1 DEF HostTypeOK
  <2>5. \A e \in ContainerId : e # c => Kept(e)
    BY <2>3 DEF Kept, SameRecord, SameExistence, Exists
  <2>6. NamesUnique => NamesUnique'
    BY <2>1, <2>3 DEF NamesUnique, Taken, Holds, Exists
  <2>7. containers[c].service = Unmanaged /\ containers'[c].service = Unmanaged
    BY <2>2, <2>3 DEF Unborn
  <2>8. QED
    BY <2>4, <2>5, <2>6, <2>7
<1>4. CASE ForeignRemove(c)
  <2>1. /\ containers[c].life # "unborn"
        /\ "removed" \in Life \ {"unborn"}
        /\ SetLife(c, "removed")
        /\ containers[c].service = Unmanaged
    BY <1>4 DEF ForeignRemove, Exists, Alive, Life
  <2>2. /\ HostTypeOK'
        /\ \A d \in ContainerId : d # c => containers'[d] = containers[d]
        /\ SameRecord(c)
        /\ containers'[c].life = "removed"
    BY <2>1, SetLifeFacts
  <2>3. \A e \in ContainerId : e # c => Kept(e)
    BY <2>2 DEF Kept, SameRecord, SameExistence, Exists
  <2>4. ~Exists(c)'
    BY <2>2 DEF Exists, Alive
  <2>5. NamesUnique => NamesUnique'
    BY <2>2, <2>4 DEF NamesUnique, Exists
  <2>6. QED
    BY <2>1, <2>2, <2>3, <2>5 DEF SameRecord
<1>5. QED
  <2>1. Exits(c) \/ Restarts(c) \/ Pauses(c) => \E l \in Alive : Exists(c) /\ SetLife(c, l)
    BY DEF Exits, Restarts, Pauses, Exists, Alive
  <2>2. QED
    BY <1>1, <1>2, <1>3, <1>4, <2>1

LEMMA EnvironmentType == TypeOK /\ Environment => TypeOK'
<1> SUFFICES ASSUME TypeOK, Environment PROVE TypeOK'
  OBVIOUS
<1>1. HostTypeOK'
  BY HostMovesFacts DEF Environment, TypeOK
<1>2. StoreTypeOK' /\ ReplacementTypeOK'
  BY DEF Environment, TypeOK, StoreTypeOK, ReplacementTypeOK, storeVars,
         transaction, progress
<1>3. QED
  BY <1>1, <1>2 DEF TypeOK

LEMMA CrashType == TypeOK /\ Crash => TypeOK'
BY DEF Crash, TypeOK, HostTypeOK, StoreTypeOK, ReplacementTypeOK, storeVars,
       transaction, progress, Steps, Ended

LEMMA StutterType == TypeOK /\ UNCHANGED vars => TypeOK'
BY DEF vars, TypeOK, HostTypeOK, StoreTypeOK, ReplacementTypeOK

\* Every variable of MutateContainerPorts stays within its type, however
\* transactions overlap, commands fail and the host moves.
THEOREM TypeCorrect == Spec => []TypeOK
<1>1. Init => TypeOK
  BY InitTypeOK
<1>2. TypeOK /\ [Next]_vars => TypeOK'
  BY MutateType, EnvironmentType, CrashType, StutterType DEF Next
<1>3. QED
  BY <1>1, <1>2, PTL DEF Spec

-------------------------------------------------------------------------------
(* Transactions that do not overlap on a service leave each other alone.   *)

\* The step takes and changes containers of service n, and of no other.
Confined(n) ==
  \A c \in ContainerId : containers[c].service \notin {n, Unmanaged} => Kept(c)

\* Nor does it write the spec of another service.
SpecsConfined(n) == \A m \in Name \ {n} : specs'[m] = specs[m]

\* What transaction p remembers stays as it was.
LocalsKept(p) ==
  /\ pc'[p] = pc[p]
  /\ orig'[p] = orig[p]
  /\ svc'[p] = svc[p]
  /\ want'[p] = want[p]
  /\ stdout'[p] = stdout[p]
  /\ candidateID'[p] = candidateID[p]
  /\ spawned'[p] = spawned[p]
  /\ candidates'[p] = candidates[p]

LEMMA NamesFacts ==
  /\ Name \subseteq ContainerName
  /\ Unmanaged \notin ContainerName
  /\ \A o \in Op : Backup[o] \notin Name /\ Backup[o] \in ContainerName
BY NamesDistinct DEF ContainerName

LEMMA OthersKept ==
  ASSUME TypeOK, NEW p \in Op, TransactionOK(p), LocalsKept(p),
         NEW n, Confined(n), SpecsConfined(n), pc[p] \notin Ended => svc[p] # n
  PROVE  TransactionOK(p)'
<1>1. CASE pc[p] \in Ended
  BY <1>1 DEF TransactionOK, OriginalPlaced, SpawnedPlaced, ReplacementPlaced,
     CandidateStaged, LocalsKept, Ended, Renamed, Restored, Created, Uncommitted,
     Preflight, Forward, Backward
<1>2. CASE pc[p] \notin Ended
  <2>1. /\ orig[p] \in ContainerId
        /\ svc[p] \notin {n, Unmanaged}
        /\ spawned[p] \subseteq ContainerId
    BY <1>2, UnderWay, NamesFacts DEF Ended, TypeOK, ReplacementTypeOK
  <2>2. svc[p] \in Name => specs'[svc[p]] = specs[svc[p]] /\ Kept(orig[p])
    BY <1>2, <2>1 DEF Confined, SpecsConfined, TransactionOK, OriginalPlaced
  <2>3. \A c \in spawned[p] : Kept(c)
    BY <1>2, <2>1 DEF Confined, TransactionOK, SpawnedPlaced
  <2>4. OriginalPlaced(p)'
    BY <1>2, <2>2 DEF TransactionOK, OriginalPlaced, LocalsKept, Kept, SameRecord,
       SameExistence, Holds, Renamed, Restored, Uncommitted, Preflight, Forward,
       Backward, Ended
  <2>5. SpawnedPlaced(p)'
    BY <1>2, <2>3 DEF TransactionOK, SpawnedPlaced, LocalsKept, Kept, SameRecord,
       SameExistence
  <2>6. ReplacementPlaced(p)'
    BY <1>2, <2>3 DEF TransactionOK, ReplacementPlaced, LocalsKept, Kept, SameRecord,
       SameExistence, Created
  <2>7. CandidateStaged(p)'
    <3>1. CandidateStaged(p) /\ LocalsKept(p)
      BY DEF TransactionOK
    <3>2. pc[p] = "cleanup" => svc[p] \in Name
      BY DEF TransactionOK, OriginalPlaced, Ended
    <3>3. QED
      BY <2>2, <3>1, <3>2 DEF CandidateStaged, LocalsKept
  <2>8. QED
    BY <2>4, <2>5, <2>6, <2>7 DEF TransactionOK
<1>3. QED
  BY <1>1, <1>2

\* Service n, if it is deployed at all, has a container that runs its spec.
BackedAt(n) ==
  n \in Name /\ specs[n] # NoSpec =>
    \E c \in ContainerId :
      /\ Exists(c)
      /\ containers[c].service = n
      /\ containers[c].deployment = specs[n]

LEMMA OthersBacked ==
  ASSUME SpecBacked, NEW n, Confined(n), SpecsConfined(n), BackedAt(n)'
  PROVE  SpecBacked'
<1> SUFFICES ASSUME NEW m \in Name, specs'[m] # NoSpec
             PROVE  \E c \in ContainerId :
                      /\ Exists(c)'
                      /\ containers'[c].service = m
                      /\ containers'[c].deployment = specs'[m]
  BY DEF SpecBacked
<1>1. CASE m = n
  BY <1>1 DEF BackedAt
<1>2. CASE m # n
  <2>1. specs'[m] = specs[m]
    BY <1>2 DEF SpecsConfined
  <2>2. PICK c \in ContainerId :
          Exists(c) /\ containers[c].service = m /\ containers[c].deployment = specs[m]
    BY <2>1 DEF SpecBacked
  <2>3. Kept(c)
    BY <1>2, <2>2, NamesFacts DEF Confined
  <2>4. QED
    BY <2>1, <2>2, <2>3 DEF Kept, SameRecord, SameExistence
<1>3. QED
  BY <1>1, <1>2

\* So a step of transaction o keeps the invariant if it keeps o's part of it.
LEMMA StepKeeps ==
  ASSUME IInv, NEW o \in Op, pc[o] \notin Ended, svc'[o] = svc[o],
         \A p \in Op \ {o} : LocalsKept(p),
         Confined(svc[o]), SpecsConfined(svc[o]),
         TypeOK', NamesUnique', NamedForService', TransactionOK(o)', BackedAt(svc[o])'
  PROVE  IInv'
<1>1. OneAtATime'
  BY DEF IInv, OneAtATime, LocalsKept
<1>2. ASSUME NEW p \in Op PROVE TransactionOK(p)'
  <2>1. CASE p = o
    BY <2>1
  <2>2. CASE p # o
    <3>1. pc[p] \notin Ended => svc[p] # svc[o]
      BY <2>2 DEF IInv, OneAtATime
    <3>2. TypeOK /\ TransactionOK(p) /\ LocalsKept(p)
      BY <2>2 DEF IInv
    <3>3. QED
      BY <3>1, <3>2, OthersKept
  <2>3. QED
    BY <2>1, <2>2
<1>3. SpecBacked'
  BY OthersBacked DEF IInv
<1>4. QED
  BY <1>1, <1>2, <1>3 DEF IInv

LEMMA KeptNamedForService ==
  ASSUME NamedForService, \A c \in ContainerId : Kept(c)
  PROVE  NamedForService'
BY DEF NamedForService, Kept, SameRecord, SameExistence

LEMMA KeptBacked ==
  ASSUME SpecBacked, \A c \in ContainerId : Kept(c), specs' = specs
  PROVE  \A n : BackedAt(n)'
BY DEF SpecBacked, BackedAt, Kept, SameRecord, SameExistence

\* A step that takes no container and writes no spec.
LEMMA QuietStepKeeps ==
  ASSUME IInv, NEW o \in Op, pc[o] \notin Ended, svc'[o] = svc[o],
         \A p \in Op \ {o} : LocalsKept(p), \A c \in ContainerId : Kept(c),
         specs' = specs, TypeOK', TransactionOK(o)'
  PROVE  IInv'
<1>1. NamesUnique' /\ NamedForService'
  BY KeptNamesUnique, KeptNamedForService DEF IInv
<1>2. Confined(svc[o]) /\ SpecsConfined(svc[o])
  BY DEF Confined, SpecsConfined
<1>3. BackedAt(svc[o])'
  BY KeptBacked DEF IInv
<1>4. QED
  BY <1>1, <1>2, <1>3, StepKeeps

\* A transaction that has ended claims nothing.
LEMMA EndedOK ==
  ASSUME NEW o, pc'[o] \in Ended \ {"idle"}
  PROVE  TransactionOK(o)'
BY DEF TransactionOK, OriginalPlaced, SpawnedPlaced, ReplacementPlaced,
   CandidateStaged, Ended, Renamed, Restored, Created, Uncommitted,
   Preflight, Forward, Backward

\* A transaction moves alone.
LEMMA MovesAlone ==
  ASSUME TypeOK, NEW o \in Op, Moves(o), UNCHANGED transaction,
         \A p \in Op \ {o} : /\ stdout'[p] = stdout[p]
                             /\ candidateID'[p] = candidateID[p]
                             /\ spawned'[p] = spawned[p]
                             /\ candidates'[p] = candidates[p]
  PROVE  \A p \in Op \ {o} : LocalsKept(p)
BY DEF TypeOK, ReplacementTypeOK, Moves, Goto, Finish, PollAgain, EnterRollback,
   transaction, LocalsKept

LEMMA StoreAlone ==
  ASSUME TypeOK, NEW o \in Op,
         \/ StoreUnchanged
         \/ \E d \in Deployment : WriteCandidateSpec(o, d)
         \/ DiscardCandidateSpec(o)
         \/ \E n : CommitCandidateSpec(o, n)
  PROVE  \A p \in Op \ {o} : candidates'[p] = candidates[p]
BY DEF TypeOK, StoreTypeOK, StoreUnchanged, WriteCandidateSpec, DiscardCandidateSpec,
       CommitCandidateSpec

LEMMA QuietMovesAlone ==
  ASSUME TypeOK, NEW o \in Op, Moves(o), UNCHANGED transaction, UNCHANGED progress,
         \/ StoreUnchanged
         \/ \E d \in Deployment : WriteCandidateSpec(o, d)
         \/ DiscardCandidateSpec(o)
         \/ \E n : CommitCandidateSpec(o, n)
  PROVE  \A p \in Op \ {o} : LocalsKept(p)
BY MovesAlone, StoreAlone DEF progress

\* Where each way on leads.
LEMMA Arrives ==
  ASSUME TypeOK, NEW o \in Op
  PROVE  /\ \A step : Goto(o, step) => pc'[o] = step
         /\ \A result : Finish(o, result) => pc'[o] = "done"
         /\ PollAgain(o) => pc'[o] = pc[o]
         /\ \A created : Fail(o, created) =>
              /\ pc'[o] = IF created THEN "dropStop" ELSE "restore"
              /\ specs' = specs
BY DEF TypeOK, ReplacementTypeOK, Goto, Finish, PollAgain, Fail, EnterRollback,
   DiscardCandidateSpec

-------------------------------------------------------------------------------
(* The steps, one by one.  The original stays in place while the            *)
(* transaction goes from one step to another that expects it there.         *)

LEMMA OriginalStays ==
  ASSUME TypeOK, NEW o \in Op, OriginalPlaced(o), pc[o] \notin Ended \cup {"resolve"},
         UNCHANGED transaction, Kept(orig[o]), specs' = specs,
         pc'[o] \notin Preflight \/ pc'[o] = pc[o] \/ (pc[o] = "snapshot" /\ pc'[o] = "rename"),
         pc'[o] \in Renamed => pc[o] \in Renamed,
         pc'[o] \in Restored => pc[o] \in Restored \cup {"restore"},
         pc'[o] \in Uncommitted => pc[o] \in Uncommitted
  PROVE  OriginalPlaced(o)'
BY DEF OriginalPlaced, transaction, Kept, SameRecord, SameExistence, Holds,
   Renamed, Restored, Uncommitted, Preflight, Forward, Backward, Ended

\* What it created stays where it was, too.
LEMMA SpawnedStays ==
  ASSUME TypeOK, NEW o \in Op, SpawnedPlaced(o), pc[o] \notin Ended,
         UNCHANGED transaction, spawned' = spawned, pc'[o] # "idle",
         \A c \in ContainerId : Kept(c)
  PROVE  SpawnedPlaced(o)'
<1>1. spawned[o] \subseteq ContainerId
  BY DEF TypeOK, ReplacementTypeOK
<1>2. QED
  BY <1>1 DEF SpawnedPlaced, transaction, Kept, SameRecord, SameExistence

LEMMA RequestKeeps ==
  ASSUME IInv, Serial, NEW o \in Op, NEW c \in ContainerId, NEW d \in Deployment,
         Request(o, c, d), TypeOK'
  PROVE  IInv'
<1>1. /\ pc[o] = "idle" /\ Exists(c)
      /\ \A p \in Op : pc[p] \notin Ended => svc[p] # containers[c].name
      /\ orig' = [orig EXCEPT ![o] = c]
      /\ svc' = [svc EXCEPT ![o] = containers[c].name]
      /\ want' = [want EXCEPT ![o] = d]
      /\ UNCHANGED <<containers, specs, candidates, stdout, candidateID, spawned>>
      /\ Moves(o)
  BY GotoMoves, FinishMoves
     DEF Request, Busy, storeVars, progress, Steps, Preflight, Outcomes
<1>2. /\ pc'[o] \in {"resolve", "done"}
      /\ pc'[o] = "resolve" => containers[c].service # Unmanaged
  BY Arrives DEF Request, IInv
<1>3. \A p \in Op \ {o} : LocalsKept(p)
  BY <1>1 DEF IInv, TypeOK, ReplacementTypeOK, Moves, Goto, Finish, PollAgain,
     EnterRollback, LocalsKept
<1>4. orig'[o] = c /\ svc'[o] = containers[c].name
  BY <1>1 DEF IInv, TypeOK, ReplacementTypeOK
<1>5. \A e \in ContainerId : Kept(e)
  BY <1>1, StillKeeps
<1>6. NamesUnique' /\ NamedForService'
  BY <1>5, KeptNamesUnique, KeptNamedForService DEF IInv
<1>7. OneAtATime'
  BY <1>1, <1>3, <1>4 DEF IInv, OneAtATime, LocalsKept
<1>8. ASSUME NEW p \in Op PROVE TransactionOK(p)'
  <2>1. CASE p = o
    <3>1. CASE pc'[o] = "done"
      BY <2>1, <3>1, EndedOK DEF Ended
    <3>2. CASE pc'[o] = "resolve"
      <4>1. svc'[o] \in Name => containers[c].service = svc'[o]
        BY <1>1, <1>2, <1>4, <3>2 DEF IInv, NamedForService
      <4>2. OriginalPlaced(o)'
        BY <1>1, <1>4, <3>2, <4>1 DEF OriginalPlaced, Holds, Exists, Ended, Renamed,
           Restored, Uncommitted, Preflight, Forward, Backward
      <4>3. SpawnedPlaced(o)'
        BY <1>1, <3>2 DEF IInv, TransactionOK, SpawnedPlaced
      <4>4. ReplacementPlaced(o)' /\ CandidateStaged(o)'
        BY <3>2 DEF ReplacementPlaced, CandidateStaged, Created, Forward
      <4>5. QED
        BY <2>1, <4>2, <4>3, <4>4 DEF TransactionOK
    <3>3. QED
      BY <1>2, <3>1, <3>2
  <2>2. CASE p # o
    <3>1. pc[p] \notin Ended => svc[p] # NoName
      BY UnderWay, NamesDistinct DEF IInv, Ended
    <3>2. Confined(NoName) /\ SpecsConfined(NoName)
      BY <1>1, <1>5 DEF Confined, SpecsConfined
    <3>3. TypeOK /\ TransactionOK(p) /\ LocalsKept(p)
      BY <1>3, <2>2 DEF IInv
    <3>4. QED
      BY <3>1, <3>2, <3>3, OthersKept
  <2>3. QED
    BY <2>1, <2>2
<1>9. SpecBacked'
  BY <1>1 DEF IInv, SpecBacked, Exists
<1>10. QED
  BY <1>6, <1>7, <1>8, <1>9 DEF IInv

LEMMA ResolveKeeps ==
  ASSUME IInv, NEW o \in Op, Resolve(o), TypeOK'
  PROVE  IInv'
<1>1. /\ pc[o] = "resolve"
      /\ UNCHANGED <<containers, specs, candidates>>
      /\ UNCHANGED transaction
      /\ UNCHANGED progress
      /\ Moves(o)
      /\ TypeOK /\ TransactionOK(o)
  BY GotoMoves, FinishMoves
     DEF Resolve, storeVars, Steps, Preflight, Outcomes, IInv
<1>2. \A p \in Op \ {o} : LocalsKept(p)
  BY <1>1, QuietMovesAlone DEF StoreUnchanged
<1>3. \A e \in ContainerId : Kept(e)
  BY <1>1, StillKeeps
<1>4. TransactionOK(o)'
  <2>1. CASE Finish(o, "refused")
    BY <1>1, <2>1, Arrives, EndedOK DEF Ended
  <2>2. CASE Authoritative(o) /\ Goto(o, "snapshot")
    <3>1. pc'[o] = "snapshot"
      BY <1>1, <2>2, Arrives
    <3>2. OriginalPlaced(o)'
      BY <1>1, <2>2, <3>1 DEF Authoritative, TransactionOK, OriginalPlaced, Holds, Exists,
         transaction, Ended, Renamed, Restored, Uncommitted, Preflight, Forward, Backward
    <3>3. SpawnedPlaced(o)'
      BY <1>1, <1>3, <3>1, SpawnedStays DEF TransactionOK, Ended, progress
    <3>4. ReplacementPlaced(o)' /\ CandidateStaged(o)'
      BY <3>1 DEF ReplacementPlaced, CandidateStaged, Created, Forward
    <3>5. QED
      BY <3>2, <3>3, <3>4 DEF TransactionOK
  <2>3. QED
    BY <2>1, <2>2 DEF Resolve
<1>5. QED
  BY <1>1, <1>2, <1>3, <1>4, QuietStepKeeps DEF Ended, transaction

LEMMA SnapshotKeeps ==
  ASSUME IInv, NEW o \in Op, Snapshot(o), TypeOK'
  PROVE  IInv'
<1>1. /\ pc[o] = "snapshot"
      /\ UNCHANGED <<containers, specs>>
      /\ UNCHANGED transaction
      /\ UNCHANGED progress
      /\ Moves(o)
      /\ TypeOK /\ TransactionOK(o)
      /\ want[o] \in Deployment
  BY GotoMoves, FinishMoves, UnderWay
     DEF Snapshot, Steps, Preflight, Outcomes, IInv, StoreUnchanged, WriteCandidateSpec
<1>2. \A p \in Op \ {o} : LocalsKept(p)
  BY <1>1, QuietMovesAlone DEF Snapshot
<1>3. \A e \in ContainerId : Kept(e)
  BY <1>1, StillKeeps
<1>4. TransactionOK(o)'
  <2>1. CASE Finish(o, "refused")
    BY <1>1, <2>1, Arrives, EndedOK DEF Ended
  <2>2. CASE WriteCandidateSpec(o, want[o]) /\ Goto(o, "rename")
    <3>1. pc'[o] = "rename"
      BY <1>1, <2>2, Arrives
    <3>2. OriginalPlaced(o)'
      BY <1>1, <1>3, <3>1, UnderWay, OriginalStays DEF TransactionOK, Ended, Renamed, Restored, Uncommitted,
         Preflight, Forward, Backward
    <3>3. SpawnedPlaced(o)'
      BY <1>1, <1>3, <3>1, SpawnedStays DEF TransactionOK, Ended, progress
    <3>4. ReplacementPlaced(o)' /\ CandidateStaged(o)'
      BY <1>1, <2>2, <3>1 DEF ReplacementPlaced, CandidateStaged, Created, Forward,
         WriteCandidateSpec, transaction, TypeOK, StoreTypeOK
    <3>5. QED
      BY <3>2, <3>3, <3>4 DEF TransactionOK
  <2>3. QED
    BY <2>1, <2>2 DEF Snapshot
<1>5. QED
  BY <1>1, <1>2, <1>3, <1>4, QuietStepKeeps DEF Ended, transaction

\* Who holds the original's name, or the backup's, is the original.
LEMMA OriginalHolds ==
  ASSUME IInv, NEW o \in Op, pc[o] \notin Ended \cup {"resolve"}
  PROVE  /\ orig[o] \in ContainerId /\ svc[o] \in Name /\ svc[o] \in ContainerName
         /\ Exists(orig[o]) /\ containers[orig[o]].service = svc[o]
         /\ \A c \in ContainerId :
              Holds(c, containers[orig[o]].name) => c = orig[o]
BY UnderWay, NamesFacts
   DEF IInv, TransactionOK, OriginalPlaced, NamesUnique, Holds, Ended

LEMMA RenameAwayKeeps ==
  ASSUME IInv, NEW o \in Op, RenameAway(o), TypeOK'
  PROVE  IInv'
<1>1. PICK ok \in BOOLEAN :
       /\ PodmanRename(svc[o], Backup[o], ok)
       /\ \/ /\ ok
             /\ Goto(o, IF life[o] = "running" THEN "stop" ELSE "create")
             /\ StoreUnchanged
          \/ /\ ~ok
             /\ Finish(o, "unchanged")
             /\ DiscardCandidateSpec(o)
  BY DEF RenameAway
<1>2. /\ pc[o] = "rename"
      /\ UNCHANGED transaction
      /\ UNCHANGED progress
      /\ specs' = specs
      /\ Moves(o)
      /\ TypeOK /\ TransactionOK(o) /\ HostTypeOK
  BY <1>1, GotoMoves, FinishMoves
     DEF RenameAway, Steps, Forward, Outcomes, IInv, StoreUnchanged,
         DiscardCandidateSpec, TypeOK
<1>3. \A p \in Op \ {o} : LocalsKept(p)
  BY <1>1, <1>2, QuietMovesAlone
<1>4. /\ orig[o] \in ContainerId /\ svc[o] \in Name
      /\ Exists(orig[o]) /\ containers[orig[o]].service = svc[o]
      /\ containers[orig[o]].name = svc[o]
      /\ \A c \in ContainerId : Holds(c, svc[o]) => c = orig[o]
  BY <1>2, OriginalHolds DEF TransactionOK, OriginalPlaced, Ended
<1>5. Backup[o] \in ContainerName /\ Backup[o] \notin Name
  BY NamesFacts
<1>6. /\ HostTypeOK'
      /\ NamesUnique => NamesUnique'
      /\ \A c \in ContainerId : ~Holds(c, svc[o]) => Kept(c)
      /\ \A c \in ContainerId :
           /\ SameExistence(c)
           /\ containers'[c].service = containers[c].service
           /\ containers'[c].deployment = containers[c].deployment
           /\ containers'[c].name \in {containers[c].name, Backup[o]}
      /\ ok => \A c \in ContainerId : Holds(c, svc[o]) /\ NamesUnique => Holds(c, Backup[o])'
  BY <1>1, <1>2, <1>5, RenameFacts
<1>7. \A c \in ContainerId \ {orig[o]} : Kept(c)
  BY <1>4, <1>6
<1>8. NamesUnique' /\ NamedForService'
  BY <1>5, <1>6 DEF IInv, NamedForService, SameExistence
<1>9. Confined(svc[o]) /\ SpecsConfined(svc[o])
  BY <1>2, <1>4, <1>7 DEF Confined, SpecsConfined
<1>10. BackedAt(svc[o])'
  BY <1>2, <1>6 DEF IInv, SpecBacked, BackedAt, SameExistence
<1>11. TransactionOK(o)'
  <2>1. CASE Finish(o, "unchanged")
    BY <1>2, <2>1, Arrives, EndedOK DEF Ended
  <2>2. CASE /\ ok /\ StoreUnchanged
             /\ Goto(o, IF life[o] = "running" THEN "stop" ELSE "create")
    <3>1. pc'[o] \in {"stop", "create"}
      BY <1>2, <2>2, Arrives
    <3>2. Holds(orig[o], Backup[o])'
      <4>1. orig'[o] = orig[o] /\ Holds(orig[o], svc[o]) /\ NamesUnique
        BY <1>2, <1>4 DEF IInv, Holds, transaction
      <4>2. \A c \in ContainerId : Holds(c, svc[o]) => Exists(c)' /\ containers'[c].name = Backup[o]
        BY <1>6, <2>2, <4>1 DEF Holds
      <4>3. QED
        BY <1>4, <4>1, <4>2 DEF Holds, Exists
    <3>3. OriginalPlaced(o)'
      BY <1>2, <1>4, <1>6, <3>1, <3>2 DEF TransactionOK, OriginalPlaced, Holds, transaction,
         Ended, Renamed, Restored, Uncommitted, Preflight, Forward, Backward
    <3>4. SpawnedPlaced(o)'
      <4>1. \A c \in spawned[o] : c \in ContainerId /\ c # orig[o]
        BY <1>2 DEF TransactionOK, SpawnedPlaced, TypeOK, ReplacementTypeOK, Ended
      <4>2. QED
        BY <1>2, <1>7, <3>1, <4>1 DEF TransactionOK, SpawnedPlaced, Kept, SameRecord, SameExistence,
           transaction, progress, Ended
    <3>5. ReplacementPlaced(o)' /\ CandidateStaged(o)'
      BY <1>2, <2>2, <3>1 DEF TransactionOK, ReplacementPlaced, CandidateStaged, Created, Forward,
         StoreUnchanged, transaction
    <3>6. QED
      BY <3>3, <3>4, <3>5 DEF TransactionOK
  <2>3. QED
    BY <1>1, <2>1, <2>2
<1>12. QED
  BY <1>2, <1>3, <1>8, <1>9, <1>10, <1>11, StepKeeps DEF Ended, transaction

\* A step that only looks, waits or changes lifecycles, or gives up: what has to
\* be shown of it is where it leads.
LEMMA ForwardStays ==
  ASSUME IInv, NEW o \in Op, pc[o] \in Forward, TypeOK',
         UNCHANGED transaction, spawned' = spawned, stdout' = stdout,
         \A p \in Op \ {o} : candidateID'[p] = candidateID[p],
         \A c \in ContainerId : Kept(c),
         Moves(o), StoreUnchanged \/ DiscardCandidateSpec(o),
         pc'[o] \in {"restore", "dropStop", pc[o]} \cup Forward,
         pc'[o] \in Forward => StoreUnchanged,
         ReplacementPlaced(o)'
  PROVE  IInv'
<1>1. /\ TypeOK /\ TransactionOK(o) /\ specs' = specs
      /\ orig[o] \in ContainerId
      /\ pc[o] \notin Ended
  BY UnderWay DEF IInv, StoreUnchanged, DiscardCandidateSpec, Forward, Ended
<1>2. \A p \in Op \ {o} : LocalsKept(p)
  BY <1>1, MovesAlone, StoreAlone
<1>3. OriginalPlaced(o)'
  BY <1>1, OriginalStays
     DEF TransactionOK, Ended, Renamed, Restored, Uncommitted, Preflight, Forward, Backward
<1>4. SpawnedPlaced(o)'
  BY <1>1, SpawnedStays DEF TransactionOK, Forward
<1>5. CandidateStaged(o)'
  BY <1>1 DEF TransactionOK, CandidateStaged, StoreUnchanged, transaction, Forward
<1>6. TransactionOK(o)'
  BY <1>3, <1>4, <1>5 DEF TransactionOK
<1>7. QED
  BY <1>1, <1>2, <1>6, QuietStepKeeps DEF transaction

LEMMA StopOriginalKeeps ==
  ASSUME IInv, NEW o \in Op, StopOriginal(o), TypeOK'
  PROVE  IInv'
<1>1. PICK ok \in BOOLEAN :
       /\ PodmanStop(Backup[o], ok)
       /\ \/ ok /\ Goto(o, "stopping") /\ StoreUnchanged
          \/ ~ok /\ Fail(o, FALSE)
  BY DEF StopOriginal
<1>2. TypeOK /\ HostTypeOK /\ pc[o] = "stop"
  BY DEF IInv, TypeOK, StopOriginal
<1>3. \A c \in ContainerId : Kept(c)
  BY <1>1, <1>2, StopKeeps
<1>4. /\ Moves(o)
      /\ \/ pc'[o] = "stopping" /\ StoreUnchanged
         \/ pc'[o] = "restore" /\ DiscardCandidateSpec(o)
  BY <1>1, <1>2, GotoMoves, FailMoves, Arrives DEF Steps, Forward
<1>5. ReplacementPlaced(o)'
  BY <1>4 DEF ReplacementPlaced, Created
<1>6. QED
  BY <1>2, <1>3, <1>4, <1>5, ForwardStays DEF StopOriginal, progress, Forward

LEMMA AwaitStoppedKeeps ==
  ASSUME IInv, NEW o \in Op, AwaitStopped(o), TypeOK'
  PROVE  IInv'
<1>1. /\ TypeOK /\ pc[o] = "stopping"
      /\ \A c \in ContainerId : Kept(c)
  BY StillKeeps DEF IInv, AwaitStopped
<1>2. /\ Moves(o)
      /\ \/ pc'[o] \in {"stopping", "create"} /\ StoreUnchanged
         \/ pc'[o] = "restore" /\ DiscardCandidateSpec(o)
  BY <1>1, GotoMoves, FailMoves, Arrives DEF AwaitStopped, Steps, Forward, Moves
<1>3. ReplacementPlaced(o)'
  BY <1>2 DEF ReplacementPlaced, Created
<1>4. QED
  BY <1>1, <1>2, <1>3, ForwardStays DEF AwaitStopped, progress, Forward

LEMMA ArgumentsFailKeeps ==
  ASSUME IInv, NEW o \in Op, ArgumentsFail(o), TypeOK'
  PROVE  IInv'
<1>1. /\ TypeOK /\ pc[o] = "create" /\ pc'[o] = "restore"
      /\ Moves(o) /\ DiscardCandidateSpec(o)
      /\ \A c \in ContainerId : Kept(c)
  BY StillKeeps, Arrives, FailMoves DEF IInv, ArgumentsFail
<1>2. ReplacementPlaced(o)'
  BY <1>1 DEF ReplacementPlaced, Created
<1>3. QED
  BY <1>1, <1>2, ForwardStays DEF ArgumentsFail, progress, Forward

LEMMA CreateFailsKeeps ==
  ASSUME IInv, NEW o \in Op, CreateFails(o), TypeOK'
  PROVE  IInv'
<1>1. /\ TypeOK /\ pc[o] = "create" /\ pc'[o] = "probe"
      /\ Moves(o) /\ StoreUnchanged
      /\ \A c \in ContainerId : Kept(c)
  BY StillKeeps, Arrives, GotoMoves
     DEF IInv, CreateFails, PodmanCreateFails, FailsCleanly, Steps, Forward,
         StoreUnchanged, storeVars
<1>2. ReplacementPlaced(o)'
  BY <1>1 DEF ReplacementPlaced, Created
<1>3. QED
  BY <1>1, <1>2, ForwardStays DEF CreateFails, progress, Forward

LEMMA CheckHealthKeeps ==
  ASSUME IInv, NEW o \in Op, CheckHealth(o), TypeOK'
  PROVE  IInv'
<1>1. /\ TypeOK /\ pc[o] = "health" /\ TransactionOK(o)
      /\ \A c \in ContainerId : Kept(c)
      /\ UNCHANGED containers
  BY StillKeeps DEF IInv, CheckHealth
<1>2. /\ Moves(o)
      /\ \/ pc'[o] = "commit" /\ StoreUnchanged
         \/ pc'[o] = "dropStop" /\ DiscardCandidateSpec(o)
  BY <1>1, GotoMoves, FailMoves, Arrives DEF CheckHealth, Steps, Forward, Moves
<1>3. ReplacementPlaced(o)'
  BY <1>1, <1>2 DEF ReplacementPlaced, Created, TransactionOK, CheckHealth, transaction,
     progress, Exists
<1>4. QED
  BY <1>1, <1>2, <1>3, ForwardStays DEF CheckHealth, progress, Forward

LEMMA VerifyReplacementKeeps ==
  ASSUME IInv, NEW o \in Op, VerifyReplacement(o), TypeOK'
  PROVE  IInv'
<1>1. /\ TypeOK /\ pc[o] = "verify" /\ TransactionOK(o)
      /\ \A c \in ContainerId : Kept(c)
      /\ UNCHANGED containers
  BY StillKeeps DEF IInv, VerifyReplacement
<1>2. /\ Moves(o)
      /\ \/ pc'[o] = "verify" /\ StoreUnchanged
         \/ pc'[o] \in {"health", "commit"} /\ StoreUnchanged /\ Up(o) /\ Matches(o)
         \/ pc'[o] = "dropStop" /\ DiscardCandidateSpec(o)
  BY <1>1, GotoMoves, FailMoves, Arrives DEF VerifyReplacement, Steps, Forward, Moves
<1>3. ReplacementPlaced(o)'
  BY <1>1, <1>2 DEF ReplacementPlaced, Created, TransactionOK, VerifyReplacement, transaction,
     progress, Exists, Up, Matches
<1>4. QED
  BY <1>1, <1>2, <1>3, ForwardStays DEF VerifyReplacement, progress, Forward

LEMMA ProbeCandidateKeeps ==
  ASSUME IInv, NEW o \in Op, ProbeCandidate(o), TypeOK'
  PROVE  IInv'
<1>1. /\ TypeOK /\ pc[o] = "probe"
      /\ \A c \in ContainerId : Kept(c)
      /\ candidateID \in [Op -> ContainerId \cup ContainerName \cup {NoId}]
  BY StillKeeps DEF IInv, ProbeCandidate, TypeOK, ReplacementTypeOK
<1>2. \/ /\ candidateID' = [candidateID EXCEPT ![o] = svc[o]]
         /\ Fail(o, TRUE)
      \/ UNCHANGED candidateID /\ Fail(o, FALSE)
  BY DEF ProbeCandidate
<1>3. /\ Moves(o) /\ DiscardCandidateSpec(o)
      /\ \/ pc'[o] = "dropStop" /\ candidateID'[o] = svc[o]
         \/ pc'[o] = "restore"
      /\ \A p \in Op \ {o} : candidateID'[p] = candidateID[p]
  BY <1>1, <1>2, FailMoves, Arrives
<1>4. ReplacementPlaced(o)'
  BY <1>3 DEF ReplacementPlaced, Created, ProbeCandidate, transaction
<1>5. QED
  BY <1>1, <1>3, <1>4, ForwardStays DEF ProbeCandidate, Forward

LEMMA CreateReplacementKeeps ==
  ASSUME IInv, NEW o \in Op, CreateReplacement(o), TypeOK'
  PROVE  IInv'
<1>1. PICK c \in ContainerId, ok \in BOOLEAN, printed \in BOOLEAN :
       /\ PodmanCreate(c, svc[o], svc[o], want[o], life[o], ok)
       /\ stdout' = [stdout EXCEPT ![o] = IF printed THEN c ELSE NoId]
       /\ spawned' = [spawned EXCEPT ![o] = @ \cup {c}]
       /\ candidateID' = IF ok /\ printed THEN [candidateID EXCEPT ![o] = c]
                                          ELSE candidateID
       /\ \/ ok /\ printed /\ Goto(o, "verify") /\ StoreUnchanged
          \/ ok /\ ~printed /\ Fail(o, FALSE)
          \/ ~ok /\ Goto(o, "probe") /\ StoreUnchanged
  BY DEF CreateReplacement
<1>2. /\ pc[o] = "create"
      /\ UNCHANGED transaction
      /\ TypeOK /\ TransactionOK(o) /\ HostTypeOK
      /\ life[o] \in {"running", "stopped"}
  BY UnderWay DEF CreateReplacement, IInv, TypeOK
<1>3. /\ Moves(o)
      /\ StoreUnchanged \/ DiscardCandidateSpec(o)
      /\ specs' = specs
      /\ \/ /\ pc'[o] = "verify" /\ StoreUnchanged
            /\ stdout'[o] = c /\ candidateID'[o] = c
         \/ pc'[o] = "restore"
         \/ pc'[o] = "probe" /\ StoreUnchanged
      /\ spawned'[o] = spawned[o] \cup {c}
  BY <1>1, <1>2, GotoMoves, FailMoves, Arrives
     DEF Steps, Forward, StoreUnchanged, DiscardCandidateSpec, TypeOK, ReplacementTypeOK
<1>4. \A p \in Op \ {o} : LocalsKept(p)
  <2>1. \A p \in Op \ {o} : /\ stdout'[p] = stdout[p]
                            /\ candidateID'[p] = candidateID[p]
                            /\ spawned'[p] = spawned[p]
    BY <1>1, <1>2 DEF TypeOK, ReplacementTypeOK
  <2>2. \A p \in Op \ {o} : candidates'[p] = candidates[p]
    BY <1>2, <1>3, StoreAlone
  <2>3. QED
    BY <1>2, <1>3, <2>1, <2>2, MovesAlone
<1>5. /\ orig[o] \in ContainerId /\ svc[o] \in Name /\ svc[o] \in ContainerName
      /\ Exists(orig[o]) /\ containers[orig[o]].service = svc[o]
  BY <1>2, OriginalHolds DEF Ended
<1>6. /\ NamesUnique => NamesUnique'
      /\ \A d \in ContainerId : d # c => Kept(d) /\ containers'[d] = containers[d]
      /\ containers[c] = Unborn
      /\ containers'[c].name = svc[o]
      /\ containers'[c].service = svc[o]
  BY <1>1, <1>2, <1>5, CreateFacts
<1>7. containers[c].service = Unmanaged /\ ~Exists(c) /\ orig[o] # c
  BY <1>5, <1>6 DEF Unborn, Exists, Alive
<1>8. NamesUnique'
  BY <1>6 DEF IInv
<1>9. NamedForService'
  BY <1>5, <1>6 DEF IInv, NamedForService, Exists
<1>10. Confined(svc[o]) /\ SpecsConfined(svc[o])
  BY <1>3, <1>6, <1>7 DEF Confined, SpecsConfined
<1>11. BackedAt(svc[o])'
  BY <1>3, <1>6, <1>7 DEF IInv, SpecBacked, BackedAt, Exists
<1>12. TransactionOK(o)'
  <2>1. OriginalPlaced(o)'
    BY <1>2, <1>3, <1>5, <1>6, <1>7, OriginalStays
       DEF TransactionOK, Ended, Renamed, Restored, Uncommitted, Preflight, Forward, Backward
  <2>2. SpawnedPlaced(o)'
    <3>1. \A d \in spawned[o] : d \in ContainerId /\ d # c
      BY <1>2, <1>5, <1>7, NamesFacts
         DEF TransactionOK, SpawnedPlaced, TypeOK, ReplacementTypeOK, Ended
    <3>2. QED
      BY <1>2, <1>3, <1>6, <1>7, <3>1
         DEF TransactionOK, SpawnedPlaced, transaction, Ended, Exists
  <2>3. ReplacementPlaced(o)'
    BY <1>3 DEF ReplacementPlaced, Created
  <2>4. CandidateStaged(o)'
    BY <1>2, <1>3 DEF TransactionOK, CandidateStaged, StoreUnchanged, transaction, Forward
  <2>5. QED
    BY <2>1, <2>2, <2>3, <2>4 DEF TransactionOK
<1>13. QED
  BY <1>2, <1>4, <1>8, <1>9, <1>10, <1>11, <1>12, StepKeeps DEF Ended, transaction

LEMMA CommitKeeps ==
  ASSUME IInv, NEW o \in Op, Commit(o), TypeOK'
  PROVE  IInv'
<1>1. /\ pc[o] = "commit"
      /\ UNCHANGED transaction
      /\ UNCHANGED progress
      /\ UNCHANGED containers
      /\ TypeOK /\ TransactionOK(o)
      /\ \A c \in ContainerId : Kept(c)
      /\ Moves(o)
  BY GotoMoves, FailMoves, StillKeeps DEF Commit, IInv, Steps
<1>2. CASE Fail(o, TRUE)
  <2>1. pc'[o] = "dropStop" /\ DiscardCandidateSpec(o)
    BY <1>1, <1>2, Arrives, FailMoves
  <2>2. ReplacementPlaced(o)'
    BY <1>1, <2>1 DEF ReplacementPlaced, Created, TransactionOK, transaction, progress
  <2>3. QED
    BY <1>1, <2>1, <2>2, ForwardStays DEF progress, Forward
<1>3. CASE CommitCandidateSpec(o, svc[o]) /\ Goto(o, "cleanup")
  <2>1. pc'[o] = "cleanup"
    BY <1>1, <1>3, Arrives
  <2>2. /\ svc[o] \in Name
        /\ orig[o] \in ContainerId
        /\ stdout[o] \in ContainerId
    BY <1>1, OriginalHolds
       DEF Ended, TransactionOK, ReplacementPlaced, Created, TypeOK, ReplacementTypeOK
  <2>3. /\ specs'[svc[o]] = want[o]
        /\ SpecsConfined(svc[o])
    BY <1>1, <1>3, <2>2
       DEF CommitCandidateSpec, TypeOK, StoreTypeOK, SpecsConfined, TransactionOK,
           CandidateStaged, Forward
  <2>4. \A p \in Op \ {o} : LocalsKept(p)
    BY <1>1, <1>3, QuietMovesAlone
  <2>5. NamesUnique' /\ NamedForService'
    BY <1>1, KeptNamesUnique, KeptNamedForService DEF IInv
  <2>6. Confined(svc[o])
    BY <1>1 DEF Confined
  <2>7. /\ Exists(stdout[o])
        /\ containers[stdout[o]].deployment = want[o]
        /\ containers[stdout[o]].service = svc[o]
    BY <1>1 DEF TransactionOK, ReplacementPlaced, SpawnedPlaced, Created, Ended
  <2>8. BackedAt(svc[o])'
    BY <1>1, <2>2, <2>3, <2>7 DEF BackedAt, Exists, transaction
  <2>9. OriginalPlaced(o)'
    BY <1>1, <2>1 DEF TransactionOK, OriginalPlaced, Holds, Exists, transaction, Ended, Renamed,
       Restored, Uncommitted, Preflight, Forward, Backward
  <2>10. SpawnedPlaced(o)'
    BY <1>1, <2>1, SpawnedStays DEF TransactionOK, Ended, progress
  <2>11. ReplacementPlaced(o)' /\ CandidateStaged(o)'
    BY <1>1, <2>1, <2>3 DEF TransactionOK, ReplacementPlaced, CandidateStaged, Created, Forward,
       Exists, transaction, progress
  <2>12. TransactionOK(o)'
    BY <2>9, <2>10, <2>11 DEF TransactionOK
  <2>13. QED
    BY <1>1, <2>3, <2>4, <2>5, <2>6, <2>8, <2>12, StepKeeps DEF Ended, transaction
<1>4. QED
  BY <1>2, <1>3 DEF Commit

\* A removal by an identity that only containers of the service answer to.
LEMMA RemovalKeeps ==
  ASSUME IInv, NEW o \in Op, NEW ident, NEW ok, PodmanForceRemove(ident, ok),
         \A c \in ContainerId :
           Refers(c, ident) => containers[c].service \in {svc[o], Unmanaged},
         specs' = specs
  PROVE  /\ NamesUnique' /\ NamedForService'
         /\ Confined(svc[o]) /\ SpecsConfined(svc[o])
<1>1. /\ NamesUnique => NamesUnique'
      /\ \A c \in ContainerId :
            /\ ~Refers(c, ident) => Kept(c)
            /\ SameRecord(c)
            /\ Exists(c)' => Exists(c)
  BY RemoveFacts DEF IInv, TypeOK
<1>2. NamesUnique'
  BY <1>1 DEF IInv
<1>3. NamedForService'
  BY <1>1 DEF IInv, NamedForService, SameRecord
<1>4. Confined(svc[o]) /\ SpecsConfined(svc[o])
  BY <1>1 DEF Confined, SpecsConfined
<1>5. QED
  BY <1>2, <1>3, <1>4

LEMMA RemoveBackupKeeps ==
  ASSUME IInv, NEW o \in Op, RemoveBackup(o), TypeOK'
  PROVE  IInv'
<1>1. PICK ok \in BOOLEAN :
       /\ PodmanForceRemove(Backup[o], ok)
       /\ Finish(o, IF ok THEN "success" ELSE "backupLeft")
  BY DEF RemoveBackup
<1>2. /\ pc[o] = "cleanup" /\ pc'[o] = "done"
      /\ UNCHANGED transaction
      /\ UNCHANGED progress
      /\ specs' = specs
      /\ StoreUnchanged
      /\ Moves(o)
      /\ TypeOK /\ TransactionOK(o) /\ HostTypeOK
  BY <1>1, FinishMoves, Arrives
     DEF RemoveBackup, IInv, Outcomes, storeVars, StoreUnchanged, TypeOK
<1>3. \A p \in Op \ {o} : LocalsKept(p)
  BY <1>2, QuietMovesAlone
<1>4. /\ containers[orig[o]].service = svc[o]
      /\ containers[orig[o]].name = Backup[o]
      /\ \A c \in ContainerId : Holds(c, Backup[o]) => c = orig[o]
  BY <1>2, OriginalHolds DEF TransactionOK, OriginalPlaced, Renamed, Ended
<1>5. \A c \in ContainerId : Refers(c, Backup[o]) => c = orig[o]
  BY <1>4, NamesDistinct, NamesFacts DEF Refers, Holds
<1>6. /\ NamesUnique' /\ NamedForService'
      /\ Confined(svc[o]) /\ SpecsConfined(svc[o])
  BY <1>1, <1>2, <1>4, <1>5, RemovalKeeps
<1>7. /\ stdout[o] \in ContainerId \ {orig[o]}
      /\ Exists(stdout[o])
      /\ containers[stdout[o]].service = svc[o]
      /\ containers[stdout[o]].deployment = specs[svc[o]]
  BY <1>2 DEF TransactionOK, ReplacementPlaced, SpawnedPlaced, CandidateStaged, Created,
     Ended, TypeOK, ReplacementTypeOK
<1>8. Kept(stdout[o])
  BY <1>1, <1>2, <1>5, <1>7, RemoveFacts
<1>9. BackedAt(svc[o])'
  <2>1. svc'[o] = svc[o] /\ stdout'[o] = stdout[o] /\ specs'[svc[o]] = specs[svc[o]]
    BY <1>2 DEF transaction, progress
  <2>2. /\ Exists(stdout[o])'
        /\ containers'[stdout[o]].service = svc[o]
        /\ containers'[stdout[o]].deployment = specs[svc[o]]
    BY <1>7, <1>8, <1>2 DEF Kept, SameRecord, SameExistence, Exists, progress
  <2>3. QED
    BY <1>7, <2>1, <2>2 DEF BackedAt, Exists
<1>10. TransactionOK(o)'
  BY <1>2, EndedOK DEF Ended
<1>11. QED
  BY <1>2, <1>3, <1>6, <1>9, <1>10, StepKeeps DEF Ended, transaction

-------------------------------------------------------------------------------
(* The rollback.                                                           *)

\* A step of the rollback that keeps every container.
LEMMA BackwardStays ==
  ASSUME IInv, NEW o \in Op, pc[o] \in Backward, TypeOK',
         UNCHANGED transaction, UNCHANGED progress, UNCHANGED storeVars,
         \A c \in ContainerId : Kept(c),
         \A p \in Op \ {o} : pc'[p] = pc[p],
         \/ pc'[o] = "done"
         \/ pc'[o] = pc[o]
         \/ pc[o] = "dropStop" /\ pc'[o] = "dropRemove"
         \/ pc[o] = "dropCheck" /\ pc'[o] = "restore"
         \/ pc[o] \in Restored /\ pc'[o] \in Restored
  PROVE  IInv'
<1>1. /\ TypeOK /\ TransactionOK(o) /\ specs' = specs
      /\ orig[o] \in ContainerId
      /\ pc[o] \notin Ended
  BY UnderWay DEF IInv, storeVars, Backward, Ended
<1>2. \A p \in Op \ {o} : LocalsKept(p)
  BY DEF transaction, progress, storeVars, LocalsKept
<1>3. TransactionOK(o)'
  <2>1. CASE pc'[o] = "done"
    BY <2>1, EndedOK DEF Ended
  <2>2. CASE pc'[o] # "done"
    <3>1. OriginalPlaced(o)'
      BY <1>1, <2>2, OriginalStays
         DEF TransactionOK, Ended, Renamed, Restored, Uncommitted, Preflight, Forward, Backward
    <3>2. SpawnedPlaced(o)'
      BY <1>1, <2>2, SpawnedStays DEF TransactionOK, Backward, Restored, progress
    <3>3. ReplacementPlaced(o)' /\ CandidateStaged(o)'
      BY <1>1, <2>2 DEF TransactionOK, ReplacementPlaced, CandidateStaged, Created, Forward,
         Backward, Restored, transaction, progress
    <3>4. QED
      BY <3>1, <3>2, <3>3 DEF TransactionOK
  <2>3. QED
    BY <2>1, <2>2
<1>4. QED
  BY <1>1, <1>2, <1>3, QuietStepKeeps DEF transaction

LEMMA StopCandidateKeeps ==
  ASSUME IInv, NEW o \in Op, StopCandidate(o), TypeOK'
  PROVE  IInv'
<1>1. \A c \in ContainerId : Kept(c)
  BY StillKeeps, StopKeeps DEF StopCandidate, IInv, TypeOK
<1>2. pc'[o] = "dropRemove" /\ \A p \in Op \ {o} : pc'[p] = pc[p]
  BY DEF StopCandidate, Goto, IInv, TypeOK, ReplacementTypeOK
<1>3. QED
  BY <1>1, <1>2, BackwardStays DEF StopCandidate, Backward

LEMMA CheckCandidateGoneKeeps ==
  ASSUME IInv, NEW o \in Op, CheckCandidateGone(o), TypeOK'
  PROVE  IInv'
<1>1. \A c \in ContainerId : Kept(c)
  BY StillKeeps DEF CheckCandidateGone
<1>2. pc'[o] \in {"restore", "done"} /\ \A p \in Op \ {o} : pc'[p] = pc[p]
  BY DEF CheckCandidateGone, Finish, IInv, TypeOK, ReplacementTypeOK
<1>3. QED
  BY <1>1, <1>2, BackwardStays DEF CheckCandidateGone, Backward

LEMMA InspectRestoredKeeps ==
  ASSUME IInv, NEW o \in Op, InspectRestored(o), TypeOK'
  PROVE  IInv'
<1>1. \A c \in ContainerId : Kept(c)
  BY StillKeeps DEF InspectRestored
<1>2. /\ pc'[o] \in {"restart", "restarting", "done"}
      /\ \A p \in Op \ {o} : pc'[p] = pc[p]
  BY DEF InspectRestored, Goto, Finish, IInv, TypeOK, ReplacementTypeOK
<1>3. QED
  BY <1>1, <1>2, BackwardStays DEF InspectRestored, Backward, Restored

LEMMA RestartOriginalKeeps ==
  ASSUME IInv, NEW o \in Op, RestartOriginal(o), TypeOK'
  PROVE  IInv'
<1>1. \A c \in ContainerId : Kept(c)
  BY StartKeeps DEF RestartOriginal, IInv, TypeOK
<1>2. pc'[o] = "restarting" /\ \A p \in Op \ {o} : pc'[p] = pc[p]
  BY DEF RestartOriginal, Goto, IInv, TypeOK, ReplacementTypeOK
<1>3. QED
  BY <1>1, <1>2, BackwardStays DEF RestartOriginal, Backward, Restored

LEMMA AwaitRestoredKeeps ==
  ASSUME IInv, NEW o \in Op, AwaitRestored(o), TypeOK'
  PROVE  IInv'
<1>1. \A c \in ContainerId : Kept(c)
  BY StillKeeps DEF AwaitRestored
<1>2. pc'[o] \in {"restarting", "done"} /\ \A p \in Op \ {o} : pc'[p] = pc[p]
  BY DEF AwaitRestored, PollAgain, Finish, IInv, TypeOK, ReplacementTypeOK
<1>3. QED
  BY <1>1, <1>2, BackwardStays DEF AwaitRestored, Backward, Restored

\* The identity a rollback removes by is not one the original answers to.
LEMMA RemoveCandidateKeeps ==
  ASSUME IInv, NEW o \in Op, RemoveCandidate(o), TypeOK'
  PROVE  IInv'
<1>1. /\ pc[o] = "dropRemove"
      /\ UNCHANGED transaction /\ UNCHANGED progress /\ UNCHANGED storeVars
      /\ TypeOK /\ TransactionOK(o) /\ HostTypeOK
      /\ pc'[o] = "dropCheck"
      /\ \A p \in Op \ {o} : pc'[p] = pc[p]
  BY DEF RemoveCandidate, IInv, TypeOK, Goto, ReplacementTypeOK
<1>2. candidateID[o] \in {svc[o]} \cup spawned[o]
  BY <1>1 DEF TransactionOK, ReplacementPlaced
<1>3. /\ orig[o] \in ContainerId /\ svc[o] \in Name
      /\ Exists(orig[o])
      /\ containers[orig[o]].service = svc[o]
      /\ containers[orig[o]].name = Backup[o]
      /\ containers[orig[o]].deployment = specs[svc[o]]
      /\ spawned[o] \subseteq ContainerId
      /\ \A c \in spawned[o] : c # orig[o] /\ containers[c].service = svc[o]
  BY <1>1, UnderWay DEF TransactionOK, OriginalPlaced, SpawnedPlaced, Renamed, Uncommitted, Backward,
     Ended, TypeOK, ReplacementTypeOK
<1>4. \A c \in ContainerId : Refers(c, candidateID[o]) =>
        c # orig[o] /\ containers[c].service \in {svc[o], Unmanaged}
  <2> SUFFICES ASSUME NEW c \in ContainerId, Refers(c, candidateID[o])
               PROVE  c # orig[o] /\ containers[c].service \in {svc[o], Unmanaged}
    OBVIOUS
  <2>1. CASE candidateID[o] = svc[o]
    <3>1. Exists(c) /\ containers[c].name = svc[o]
      BY <1>3, <2>1, NamesDistinct, NamesFacts DEF Refers
    <3>2. QED
      BY <1>3, <3>1, NamesFacts DEF IInv, NamedForService
  <2>2. CASE candidateID[o] \in spawned[o]
    <3>1. c = candidateID[o]
      <4>1. containers[c].name \in ContainerName
        BY <1>1 DEF HostTypeOK, Container, Unborn, Refers, Exists, Alive
      <4>2. QED
        BY <1>3, <2>2, <4>1, NamesDistinct DEF Refers
    <3>2. QED
      BY <1>3, <2>2, <3>1
  <2>3. QED
    BY <1>2, <2>1, <2>2
<1>5. candidateID[o] # NoId
  BY <1>2, <1>3, NamesDistinct, NamesFacts
<1>6. PICK ok \in BOOLEAN : PodmanForceRemove(candidateID[o], ok)
  BY <1>5 DEF RemoveCandidate
<1>7. /\ NamesUnique' /\ NamedForService'
      /\ Confined(svc[o]) /\ SpecsConfined(svc[o])
  BY <1>1, <1>4, <1>6, RemovalKeeps DEF storeVars
<1>8. \A c \in ContainerId :
        /\ ~Refers(c, candidateID[o]) => Kept(c)
        /\ SameRecord(c)
        /\ Exists(c)' => Exists(c)
  BY <1>1, <1>6, RemoveFacts
<1>9. Kept(orig[o])
  BY <1>3, <1>4, <1>8
<1>10. BackedAt(svc[o])'
  <2>1. svc'[o] = svc[o] /\ orig'[o] = orig[o] /\ specs'[svc[o]] = specs[svc[o]]
    BY <1>1 DEF transaction, storeVars
  <2>2. /\ Exists(orig[o])'
        /\ containers'[orig[o]].service = svc[o]
        /\ containers'[orig[o]].deployment = specs[svc[o]]
    BY <1>1, <1>3, <1>9 DEF Kept, SameRecord, SameExistence, Exists, transaction
  <2>3. QED
    BY <1>3, <2>1, <2>2 DEF BackedAt, Exists
<1>11. \A p \in Op \ {o} : LocalsKept(p)
  BY <1>1 DEF transaction, progress, storeVars, LocalsKept
<1>12. OriginalPlaced(o)'
  BY <1>1, <1>9, OriginalStays
     DEF TransactionOK, Ended, Renamed, Restored, Uncommitted, Preflight, Forward, Backward, storeVars
<1>13. SpawnedPlaced(o)'
  BY <1>1, <1>3, <1>8 DEF TransactionOK, SpawnedPlaced, SameRecord, transaction, progress, Ended
<1>14. ReplacementPlaced(o)' /\ CandidateStaged(o)'
  BY <1>1, <1>2 DEF ReplacementPlaced, CandidateStaged, Created, Forward, transaction, progress
<1>15. TransactionOK(o)'
  BY <1>12, <1>13, <1>14 DEF TransactionOK
<1>16. QED
  BY <1>1, <1>7, <1>10, <1>11, <1>15, StepKeeps DEF Ended, transaction

LEMMA RestoreNameKeeps ==
  ASSUME IInv, NEW o \in Op, RestoreName(o), TypeOK'
  PROVE  IInv'
<1>1. /\ pc[o] = "restore"
      /\ UNCHANGED transaction /\ UNCHANGED progress /\ UNCHANGED storeVars
      /\ TypeOK /\ TransactionOK(o) /\ HostTypeOK
      /\ pc'[o] = "inspect"
      /\ \A p \in Op \ {o} : pc'[p] = pc[p]
  BY DEF RestoreName, IInv, TypeOK, Goto, ReplacementTypeOK
<1>2. PICK ok \in BOOLEAN : PodmanRename(Backup[o], svc[o], ok)
  BY DEF RestoreName
<1>3. /\ orig[o] \in ContainerId /\ svc[o] \in Name /\ svc[o] \in ContainerName
      /\ Exists(orig[o]) /\ containers[orig[o]].service = svc[o]
      /\ containers[orig[o]].name = Backup[o]
      /\ containers[orig[o]].deployment = specs[svc[o]]
      /\ \A c \in ContainerId : Holds(c, Backup[o]) => c = orig[o]
  BY <1>1, OriginalHolds
     DEF TransactionOK, OriginalPlaced, Renamed, Uncommitted, Backward, Ended
<1>4. /\ NamesUnique => NamesUnique'
      /\ \A c \in ContainerId : ~Holds(c, Backup[o]) => Kept(c)
      /\ \A c \in ContainerId :
           /\ SameExistence(c)
           /\ containers'[c].service = containers[c].service
           /\ containers'[c].deployment = containers[c].deployment
           /\ containers'[c].name \in {containers[c].name, svc[o]}
  BY <1>1, <1>2, <1>3, RenameFacts
<1>5. \A c \in ContainerId \ {orig[o]} : Kept(c)
  BY <1>3, <1>4
<1>6. NamesUnique'
  BY <1>4 DEF IInv
<1>7. NamedForService'
  <2>1. ASSUME NEW c \in ContainerId, Exists(c)', containers'[c].service # Unmanaged,
               containers'[c].name \in Name
        PROVE  containers'[c].name = containers'[c].service
    <3>1. CASE c = orig[o]
      BY <1>3, <1>4, <2>1, <3>1, NamesFacts
    <3>2. CASE c # orig[o]
      BY <1>5, <2>1, <3>2 DEF IInv, NamedForService, Kept, SameRecord, SameExistence
    <3>3. QED
      BY <3>1, <3>2
  <2>2. QED
    BY <1>4, <2>1 DEF IInv, NamedForService
<1>8. Confined(svc[o]) /\ SpecsConfined(svc[o])
  BY <1>1, <1>3, <1>5 DEF Confined, SpecsConfined, storeVars
<1>9. BackedAt(svc[o])'
  <2>1. svc'[o] = svc[o] /\ orig'[o] = orig[o] /\ specs'[svc[o]] = specs[svc[o]]
    BY <1>1 DEF transaction, storeVars
  <2>2. /\ Exists(orig[o])'
        /\ containers'[orig[o]].service = svc[o]
        /\ containers'[orig[o]].deployment = specs[svc[o]]
    BY <1>1, <1>3, <1>4 DEF SameExistence, Exists, transaction
  <2>3. QED
    BY <1>3, <2>1, <2>2 DEF BackedAt, Exists
<1>10. \A p \in Op \ {o} : LocalsKept(p)
  BY <1>1 DEF transaction, progress, storeVars, LocalsKept
<1>11. OriginalPlaced(o)'
  <2>1. /\ orig'[o] = orig[o] /\ svc'[o] = svc[o] /\ specs'[svc[o]] = specs[svc[o]]
        /\ Exists(orig[o])'
        /\ containers'[orig[o]].service = svc[o]
        /\ containers'[orig[o]].name \in {svc[o], Backup[o]}
        /\ containers'[orig[o]].deployment = specs[svc[o]]
    BY <1>1, <1>3, <1>4 DEF SameExistence, Exists, transaction, storeVars
  <2>2. QED
    BY <1>1, <1>3, <2>1 DEF OriginalPlaced, Exists, Ended, Renamed, Restored, Uncommitted,
       Preflight, Forward, Backward
<1>12. SpawnedPlaced(o)'
  <2>1. \A c \in spawned[o] : c \in ContainerId /\ c # orig[o]
    BY <1>1 DEF TransactionOK, SpawnedPlaced, TypeOK, ReplacementTypeOK, Ended
  <2>2. QED
    BY <1>1, <1>5, <2>1 DEF TransactionOK, SpawnedPlaced, Kept, SameRecord, SameExistence,
       transaction, progress, Ended
<1>13. ReplacementPlaced(o)' /\ CandidateStaged(o)'
  BY <1>1 DEF ReplacementPlaced, CandidateStaged, Created, Forward
<1>14. TransactionOK(o)'
  BY <1>11, <1>12, <1>13 DEF TransactionOK
<1>15. QED
  BY <1>1, <1>6, <1>7, <1>8, <1>9, <1>10, <1>14, StepKeeps DEF Ended, transaction

-------------------------------------------------------------------------------
(* The invariant.                                                          *)

LEMMA MutateKeeps ==
  ASSUME IInv, Serial, NEW o \in Op, MutateContainerPorts(o)
  PROVE  IInv'
<1>1. TypeOK'
  BY MutateType DEF IInv
<1>2. QED
  BY <1>1, RequestKeeps, ResolveKeeps, SnapshotKeeps, RenameAwayKeeps,
     StopOriginalKeeps, AwaitStoppedKeeps, ArgumentsFailKeeps, CreateReplacementKeeps,
     CreateFailsKeeps,
     ProbeCandidateKeeps, VerifyReplacementKeeps, CheckHealthKeeps, CommitKeeps,
     RemoveBackupKeeps, StopCandidateKeeps, RemoveCandidateKeeps,
     CheckCandidateGoneKeeps, RestoreNameKeeps, InspectRestoredKeeps,
     RestartOriginalKeeps, AwaitRestoredKeeps
     DEF MutateContainerPorts, Mutation, Rollback

LEMMA EnvironmentKeeps == IInv /\ Environment => IInv'
<1> SUFFICES ASSUME IInv, Environment PROVE IInv'
  OBVIOUS
<1>1. TypeOK'
  BY EnvironmentType DEF IInv
<1>2. /\ HostTypeOK /\ HostMoves /\ TypeOK
      /\ specs' = specs
      /\ \A p \in Op : LocalsKept(p)
  BY DEF IInv, TypeOK, Environment, storeVars, transaction, progress, LocalsKept
<1>3. /\ NamesUnique => NamesUnique'
      /\ \A c \in ContainerId : containers[c].service # Unmanaged => Kept(c)
      /\ \A c \in ContainerId : containers'[c].service # Unmanaged => Kept(c)
  BY <1>2, HostMovesFacts
<1>4. NamesUnique' /\ NamedForService'
  BY <1>3 DEF IInv, NamedForService, Kept, SameRecord, SameExistence
<1>5. OneAtATime'
  BY <1>2 DEF IInv, OneAtATime, LocalsKept
<1>6. Confined(NoName) /\ SpecsConfined(NoName)
  BY <1>2, <1>3 DEF Confined, SpecsConfined
<1>7. ASSUME NEW p \in Op PROVE TransactionOK(p)'
  <2>1. pc[p] \notin Ended => svc[p] # NoName
    BY <1>2, UnderWay, NamesDistinct DEF Ended
  <2>2. QED
    BY <1>2, <1>6, <2>1, OthersKept DEF IInv
<1>8. SpecBacked'
  <2>1. BackedAt(NoName)'
    BY NamesFacts, NamesDistinct DEF BackedAt
  <2>2. QED
    BY <1>6, <2>1, OthersBacked DEF IInv
<1>9. QED
  BY <1>1, <1>4, <1>5, <1>7, <1>8 DEF IInv

LEMMA CrashKeeps == IInv /\ Crash => IInv'
<1> SUFFICES ASSUME IInv, Crash PROVE IInv'
  OBVIOUS
<1>1. TypeOK'
  BY CrashType DEF IInv
<1>2. /\ UNCHANGED containers /\ UNCHANGED storeVars
      /\ UNCHANGED transaction /\ UNCHANGED progress
      /\ pc' = [o \in Op |-> IF pc[o] \in Ended THEN pc[o] ELSE "crashed"]
  BY DEF Crash
<1>3. \A c \in ContainerId : Kept(c)
  BY <1>2, StillKeeps
<1>4. NamesUnique' /\ NamedForService'
  BY <1>3, KeptNamesUnique, KeptNamedForService DEF IInv
<1>5. \A p \in Op : pc'[p] \in Ended
  BY <1>2 DEF Ended
<1>6. OneAtATime'
  BY <1>5 DEF OneAtATime
<1>7. ASSUME NEW p \in Op PROVE TransactionOK(p)'
  <2>1. CASE pc'[p] # "idle"
    BY <1>5, <2>1, EndedOK
  <2>2. CASE pc'[p] = "idle"
    <3>1. pc[p] = "idle"
      BY <1>2, <2>2
    <3>2. QED
      BY <1>2, <2>2, <3>1 DEF IInv, TransactionOK, OriginalPlaced, SpawnedPlaced,
         ReplacementPlaced, CandidateStaged, Ended, Renamed, Restored, Created,
         Uncommitted, Preflight, Forward, Backward, progress
  <2>3. QED
    BY <2>1, <2>2
<1>8. SpecBacked'
  BY <1>2 DEF IInv, SpecBacked, Exists, storeVars
<1>9. QED
  BY <1>1, <1>4, <1>6, <1>7, <1>8 DEF IInv

LEMMA StutterKeeps == IInv /\ UNCHANGED vars => IInv'
<1> SUFFICES ASSUME IInv, UNCHANGED vars PROVE IInv'
  OBVIOUS
<1>1. TypeOK'
  BY StutterType DEF IInv
<1>2. \A c \in ContainerId : Kept(c)
  BY StillKeeps DEF vars
<1>3. NamesUnique' /\ NamedForService'
  BY <1>2, KeptNamesUnique, KeptNamedForService DEF IInv
<1>4. OneAtATime'
  BY DEF IInv, OneAtATime, vars
<1>5. ASSUME NEW p \in Op PROVE TransactionOK(p)'
  <2>1. Confined(NoName) /\ SpecsConfined(NoName) /\ LocalsKept(p)
    BY <1>2 DEF Confined, SpecsConfined, LocalsKept, vars
  <2>2. pc[p] \notin Ended => svc[p] # NoName
    BY UnderWay, NamesDistinct DEF Ended, IInv
  <2>3. QED
    BY <2>1, <2>2, OthersKept DEF IInv
<1>6. SpecBacked'
  BY DEF IInv, SpecBacked, Exists, vars
<1>7. QED
  BY <1>1, <1>3, <1>4, <1>5, <1>6 DEF IInv

LEMMA InitIInv == Init => IInv
<1> SUFFICES ASSUME Init PROVE IInv
  OBVIOUS
<1>1. PICK deployed \in [Name -> Deployment], up \in [Name -> {"running", "stopped"}] :
       /\ containers = [c \in ContainerId |->
            IF Home[c] = NoName THEN Unborn
            ELSE [life |-> up[Home[c]], name |-> Home[c], service |-> Home[c],
                  deployment |-> deployed[Home[c]]]]
       /\ specs = [n \in Name |->
            IF \E c \in ContainerId : Home[c] = n THEN deployed[n] ELSE NoSpec]
  BY DEF Init, Quiet
<1>2. ASSUME NEW c \in ContainerId, Home[c] # NoName
      PROVE  /\ Home[c] \in Name
             /\ Exists(c)
             /\ containers[c].name = Home[c]
             /\ containers[c].service = Home[c]
             /\ containers[c].deployment = deployed[Home[c]]
  <2>1. Home[c] \in Name
    BY <1>2, ReplacementAssumption
  <2>2. up[Home[c]] \in {"running", "stopped"}
    BY <2>1
  <2>3. QED
    BY <1>1, <1>2, <2>1, <2>2 DEF Exists, Alive
<1>3. ASSUME NEW c \in ContainerId, Home[c] = NoName
      PROVE  ~Exists(c) /\ containers[c].service = Unmanaged
  BY <1>1, <1>3 DEF Exists, Alive, Unborn
<1>4. NamesUnique
  BY <1>2, <1>3, ReplacementAssumption DEF NamesUnique
<1>5. NamedForService
  BY <1>2, <1>3 DEF NamedForService
<1>6. \A o \in Op : pc[o] = "idle" /\ spawned[o] = {}
  BY DEF Init, Quiet
<1>7. OneAtATime
  BY <1>6 DEF OneAtATime, Ended
<1>8. ASSUME NEW o \in Op PROVE TransactionOK(o)
  BY <1>6 DEF TransactionOK, OriginalPlaced, SpawnedPlaced, ReplacementPlaced,
     CandidateStaged, Ended, Renamed, Restored, Created, Uncommitted,
     Preflight, Forward, Backward
<1>9. SpecBacked
  <2> SUFFICES ASSUME NEW n \in Name, specs[n] # NoSpec
               PROVE  \E c \in ContainerId :
                        /\ Exists(c)
                        /\ containers[c].service = n
                        /\ containers[c].deployment = specs[n]
    BY DEF SpecBacked
  <2>1. PICK c \in ContainerId : Home[c] = n
    BY <1>1
  <2>2. specs[n] = deployed[n]
    BY <1>1, <2>1
  <2>3. Home[c] # NoName
    BY <2>1, NamesFacts, NamesDistinct
  <2>4. QED
    BY <1>2, <2>1, <2>2, <2>3
<1>10. QED
  BY InitTypeOK, <1>4, <1>5, <1>7, <1>8, <1>9 DEF IInv

\* When transactions do not overlap on a service, everything the transactions
\* rely on holds throughout, whatever fails and whenever Podder dies.
THEOREM Invariance ==
  ASSUME Serial
  PROVE  Spec => []IInv
<1>1. Init => IInv
  BY InitIInv
<1>2. IInv /\ [Next]_vars => IInv'
  BY MutateKeeps, EnvironmentKeeps, CrashKeeps, StutterKeeps DEF Next
<1>3. QED
  BY <1>1, <1>2, PTL DEF Spec

\* Every stored spec is backed by a container that was deployed from it.
THEOREM SpecAlwaysBacked ==
  ASSUME Serial
  PROVE  Spec => []SpecBacked
<1>1. IInv => SpecBacked
  BY DEF IInv
<1>2. QED
  BY <1>1, Invariance, PTL

\* The original outlives every step before the commit.
THEOREM OriginalAlwaysKept ==
  ASSUME Serial
  PROVE  Spec => []OriginalKept
<1>1. IInv => OriginalKept
  BY DEF IInv, TransactionOK, OriginalPlaced, OriginalKept, Uncommitted, Preflight,
     Forward, Backward, Ended
<1>2. QED
  BY <1>1, Invariance, PTL

-------------------------------------------------------------------------------
(* Reports.                                                                *)

\* Only a transaction itself reports, and only where it finishes.
LEMMA ReportedBy ==
  ASSUME TypeOK, Next, NEW o \in Op, NEW result, Reported(o, result)
  PROVE  /\ MutateContainerPorts(o)
         /\ Finish(o, result)
<1>1. PICK p \in Op : MutateContainerPorts(p)
  BY DEF Next, Environment, Crash, Reported
<1>2. ASSUME NEW q \in Op, MutateContainerPorts(q)
      PROVE  UNCHANGED outcome \/ \E r : Finish(q, r)
  <2>1. CASE \E c \in ContainerId, d \in Deployment : Request(q, c, d)
    BY <2>1 DEF Request, Goto
  <2>2. CASE Rollback(q)
    BY <2>2 DEF Rollback, StopCandidate, RemoveCandidate, CheckCandidateGone,
       RestoreName, InspectRestored, RestartOriginal, AwaitRestored, Goto, PollAgain
  <2>3. CASE Mutation(q) /\ ~Rollback(q)
    BY <2>3 DEF Mutation, Resolve, Snapshot, RenameAway, StopOriginal, AwaitStopped,
       ArgumentsFail, CreateReplacement, CreateFails, ProbeCandidate, VerifyReplacement, CheckHealth,
       Commit, RemoveBackup, Goto, PollAgain, Fail, EnterRollback
  <2>4. QED
    BY <1>2, <2>1, <2>2, <2>3 DEF MutateContainerPorts
<1>3. PICK r : Finish(p, r)
  BY <1>1, <1>2 DEF Reported
<1>4. p = o /\ r = result
  BY <1>3 DEF Finish, Reported, TypeOK, ReplacementTypeOK
<1>5. QED
  BY <1>1, <1>3, <1>4

\* The step that reports a rollback is the one that saw the original restored.
LEMMA ReportedRolledBack ==
  ASSUME TypeOK, NEW o \in Op, MutateContainerPorts(o), Finish(o, "rolledBack"),
         Reported(o, "rolledBack")
  PROVE  pc[o] = "restarting" /\ OriginalRestored(o)
<1>1. /\ outcome' # outcome
      /\ \A r : Finish(o, r) => r = "rolledBack"
      /\ pc'[o] = "done"
  BY DEF Reported, Finish, TypeOK, ReplacementTypeOK
<1>2. ~\E c \in ContainerId, d \in Deployment : Request(o, c, d)
  BY <1>1 DEF Request, Goto
<1>3. Rollback(o)
  BY <1>1, <1>2 DEF MutateContainerPorts, Mutation, Resolve, Snapshot, RenameAway,
     StopOriginal, AwaitStopped, ArgumentsFail, CreateReplacement, CreateFails, ProbeCandidate,
     VerifyReplacement, CheckHealth, Commit, RemoveBackup, Goto, PollAgain, Fail,
     EnterRollback
<1>4. QED
  BY <1>1, <1>3 DEF Rollback, StopCandidate, RemoveCandidate, CheckCandidateGone,
     RestoreName, InspectRestored, RestartOriginal, AwaitRestored, Goto, PollAgain

LEMMA ReportedSuccess ==
  ASSUME TypeOK, NEW o \in Op, MutateContainerPorts(o),
         NEW result \in {"success", "backupLeft"}, Finish(o, result), Reported(o, result)
  PROVE  RemoveBackup(o)
<1>1. /\ outcome' # outcome
      /\ \A r : Finish(o, r) => r = result
  BY DEF Reported, Finish, TypeOK, ReplacementTypeOK
<1>2. ~\E c \in ContainerId, d \in Deployment : Request(o, c, d)
  BY <1>1 DEF Request, Goto
<1>3. ~Rollback(o)
  BY <1>1 DEF Rollback, StopCandidate, RemoveCandidate, CheckCandidateGone,
     RestoreName, InspectRestored, RestartOriginal, AwaitRestored, Goto, PollAgain
<1>4. QED
  BY <1>1, <1>2, <1>3 DEF MutateContainerPorts, Mutation, Resolve, Snapshot, RenameAway,
     StopOriginal, AwaitStopped, ArgumentsFail, CreateReplacement, CreateFails, ProbeCandidate,
     VerifyReplacement, CheckHealth, Commit, Goto, PollAgain, Fail,
     EnterRollback

\* A transaction that says it rolled back did: the original is in its place, the
\* stored spec describes it and nothing the transaction created is left.
THEOREM RollbackAlwaysTruthful ==
  ASSUME Serial
  PROVE  Spec => RollbackTruthful
<1>1. IInv /\ [Next]_vars => [RolledBackTruly]_vars
  <2> SUFFICES ASSUME IInv, Next, NEW o \in Op, Reported(o, "rolledBack")
               PROVE  /\ Holds(orig[o], svc[o])
                      /\ containers[orig[o]].life = life[o]
                      /\ specs[svc[o]] = containers[orig[o]].deployment
                      /\ \A c \in spawned[o] : ~Exists(c)
    BY DEF RolledBackTruly
  <2>1. TypeOK /\ TransactionOK(o) /\ NamesUnique
    BY DEF IInv
  <2>2. pc[o] = "restarting" /\ OriginalRestored(o)
    BY <2>1, ReportedBy, ReportedRolledBack
  <2>3. specs[svc[o]] = containers[orig[o]].deployment
    BY <2>1, <2>2 DEF TransactionOK, OriginalPlaced, Uncommitted, Backward
  <2>4. ASSUME NEW c \in spawned[o] PROVE ~Exists(c)
    <3>1. c \in ContainerId /\ orig[o] \in ContainerId
      BY <2>1, <2>2, UnderWay DEF TypeOK, ReplacementTypeOK
    <3>2. c # orig[o] /\ (Exists(c) => containers[c].name = svc[o])
      BY <2>1, <2>2 DEF TransactionOK, SpawnedPlaced, Ended
    <3>3. QED
      BY <2>1, <2>2, <3>1, <3>2 DEF NamesUnique, OriginalRestored, Holds
  <2>5. QED
    BY <2>2, <2>3, <2>4 DEF OriginalRestored
<1>2. QED
  BY <1>1, Invariance, PTL DEF Spec, RollbackTruthful

\* A transaction that says it succeeded did: its replacement holds the service's
\* name and runs the stored spec, and the original is gone unless reported left.
THEOREM SuccessAlwaysTruthful ==
  ASSUME Serial
  PROVE  Spec => SuccessTruthful
<1>1. IInv /\ [Next]_vars => [SucceededTruly]_vars
  <2> SUFFICES ASSUME IInv, Next, NEW o \in Op, NEW result \in {"success", "backupLeft"},
                      Reported(o, result)
               PROVE  /\ specs[svc[o]] = want[o]
                      /\ Holds(stdout[o], svc[o])
                      /\ containers[stdout[o]].deployment = want[o]
                      /\ outcome'[o] = "success" => containers'[orig[o]].life = "removed"
    BY DEF SucceededTruly
  <2>1. TypeOK /\ TransactionOK(o) /\ HostTypeOK
    BY DEF IInv, TypeOK
  <2>2. RemoveBackup(o)
    BY <2>1, ReportedBy, ReportedSuccess
  <2>3. PICK ok \in BOOLEAN :
          /\ PodmanForceRemove(Backup[o], ok)
          /\ Finish(o, IF ok THEN "success" ELSE "backupLeft")
    BY <2>2 DEF RemoveBackup
  <2>4. /\ specs[svc[o]] = want[o]
        /\ Holds(stdout[o], svc[o])
        /\ containers[stdout[o]].deployment = want[o]
    BY <2>1, <2>2 DEF RemoveBackup, TransactionOK, ReplacementPlaced, SpawnedPlaced,
       CandidateStaged, Created, Holds, Ended
  <2>5. ASSUME outcome'[o] = "success" PROVE containers'[orig[o]].life = "removed"
    <3>1. ok
      BY <2>1, <2>3, <2>5 DEF Finish, TypeOK, ReplacementTypeOK
    <3>2. /\ orig[o] \in ContainerId
          /\ Holds(orig[o], Backup[o])
          /\ \A c \in ContainerId : Holds(c, Backup[o]) => c = orig[o]
      BY <2>1, <2>2, OriginalHolds
         DEF RemoveBackup, TransactionOK, OriginalPlaced, Renamed, Ended, Holds
    <3>3. Found(Backup[o])
      BY <3>2 DEF Found, Refers, Holds
    <3>4. PICK c \in ContainerId : Refers(c, Backup[o]) /\ containers'[c].life = "removed"
      BY <2>1, <2>3, <3>1, <3>3, RemoveFacts
    <3>5. c = orig[o]
      BY <3>2, <3>4, NamesDistinct, NamesFacts DEF Refers, Holds
    <3>6. QED
      BY <3>4, <3>5
  <2>6. QED
    BY <2>4, <2>5
<1>2. QED
  BY <1>1, Invariance, PTL DEF Spec, SuccessTruthful

-------------------------------------------------------------------------------
(* The candidate file.                                                     *)

\* Only from its staging to its commit does a transaction own a candidate file,
\* unless Podder died there.
Staged == {"rename", "crashed"} \cup Forward
FilesSettled == \A o \in Op : pc[o] \notin Staged => candidates[o] = NoSpec

LEMMA MutateSettles ==
  ASSUME TypeOK, FilesSettled, NEW o \in Op, MutateContainerPorts(o)
  PROVE  FilesSettled'
<1>1. \A p \in Op \ {o} : pc'[p] = pc[p] /\ candidates'[p] = candidates[p]
  <2>1. \A p \in Op \ {o} : pc'[p] = pc[p]
    BY DEF TypeOK, ReplacementTypeOK, MutateContainerPorts, Mutation, Request, Resolve,
       Snapshot, RenameAway, StopOriginal, AwaitStopped, ArgumentsFail, CreateReplacement, CreateFails,
       ProbeCandidate, VerifyReplacement, CheckHealth, Commit, RemoveBackup, Rollback,
       StopCandidate, RemoveCandidate, CheckCandidateGone, RestoreName, InspectRestored,
       RestartOriginal, AwaitRestored, Goto, Finish, PollAgain, Fail, EnterRollback
  <2>2. \A p \in Op \ {o} : candidates'[p] = candidates[p]
    BY DEF TypeOK, StoreTypeOK, MutateContainerPorts, Mutation, Request, Resolve,
       Snapshot, RenameAway, StopOriginal, AwaitStopped, ArgumentsFail, CreateReplacement, CreateFails,
       ProbeCandidate, VerifyReplacement, CheckHealth, Commit, RemoveBackup, Rollback,
       StopCandidate, RemoveCandidate, CheckCandidateGone, RestoreName, InspectRestored,
       RestartOriginal, AwaitRestored, Fail, StoreUnchanged, storeVars,
       WriteCandidateSpec, CommitCandidateSpec, DiscardCandidateSpec
  <2>3. QED
    BY <2>1, <2>2
<1>2. pc'[o] \notin Staged => candidates'[o] = NoSpec
  <2>1. /\ pc \in [Op -> Steps] /\ candidates \in [Op -> Deployment \cup {NoSpec}]
        /\ pc[o] \notin Staged => candidates[o] = NoSpec
    BY DEF FilesSettled, TypeOK, ReplacementTypeOK, StoreTypeOK
  <2>2. CASE \E c \in ContainerId, d \in Deployment : Request(o, c, d)
    BY <2>1, <2>2 DEF Request, Staged, Forward, storeVars
  <2>3. CASE Rollback(o)
    BY <2>1, <2>3 DEF Rollback, StopCandidate, RemoveCandidate, CheckCandidateGone,
       RestoreName, InspectRestored, RestartOriginal, AwaitRestored, Staged, Forward, storeVars
  <2>4. CASE Resolve(o) \/ Snapshot(o) \/ RenameAway(o)
    BY <2>1, <2>4 DEF Resolve, Snapshot, RenameAway, Goto, Finish, Staged, Forward,
       storeVars, StoreUnchanged, WriteCandidateSpec, DiscardCandidateSpec
  <2>5. CASE StopOriginal(o) \/ AwaitStopped(o) \/ ArgumentsFail(o) \/ CreateReplacement(o) \/ CreateFails(o)
    BY <2>1, <2>5 DEF StopOriginal, AwaitStopped, ArgumentsFail, CreateReplacement, CreateFails, Goto,
       PollAgain, Fail, EnterRollback, Staged, Forward, storeVars, StoreUnchanged,
       DiscardCandidateSpec
  <2>6. CASE ProbeCandidate(o) \/ VerifyReplacement(o) \/ CheckHealth(o)
    BY <2>1, <2>6 DEF ProbeCandidate, VerifyReplacement, CheckHealth, Goto,
       PollAgain, Fail, EnterRollback, Staged, Forward, StoreUnchanged,
       DiscardCandidateSpec
  <2>7. CASE Commit(o) \/ RemoveBackup(o)
    BY <2>1, <2>7 DEF Commit, RemoveBackup, Goto, Finish, Fail, EnterRollback, Staged,
       Forward, storeVars, CommitCandidateSpec, DiscardCandidateSpec
  <2>8. QED
    BY <2>2, <2>3, <2>4, <2>5, <2>6, <2>7 DEF MutateContainerPorts, Mutation
<1>3. QED
  BY <1>1, <1>2 DEF FilesSettled

\* A transaction that has returned leaves no candidate file, even when it
\* overlapped with another on the same service.
THEOREM CandidateAlwaysSettled == Spec => []CandidateSettled
<1>1. Init => FilesSettled
  BY DEF Init, Quiet, FilesSettled
<1>2. TypeOK /\ FilesSettled /\ [Next]_vars => FilesSettled'
  <2> SUFFICES ASSUME TypeOK, FilesSettled, [Next]_vars PROVE FilesSettled'
    OBVIOUS
  <2>1. CASE \E o \in Op : MutateContainerPorts(o)
    BY <2>1, MutateSettles
  <2>2. CASE Environment
    BY <2>2 DEF Environment, FilesSettled, storeVars
  <2>3. CASE Crash
    BY <2>3 DEF Crash, FilesSettled, Staged, Ended, storeVars
  <2>4. CASE UNCHANGED vars
    BY <2>4 DEF vars, FilesSettled
  <2>5. QED
    BY <2>1, <2>2, <2>3, <2>4 DEF Next
<1>3. FilesSettled => CandidateSettled
  BY DEF FilesSettled, CandidateSettled, Staged, Forward
<1>4. QED
  BY <1>1, <1>2, <1>3, TypeCorrect, PTL DEF Spec

-------------------------------------------------------------------------------
(* Never both running.  When no container runs for a service without the   *)
(* transaction knowing, the stop, the removal and the restart it goes       *)
(* through leave one at a time.                                             *)

RunsFor(c, n) == containers[c].life = "running" /\ containers[c].service = n

\* At most one container runs for service n, and while one has the name of the
\* service, none runs under another name.
OneRuns(n) ==
  /\ \A c, d \in ContainerId : RunsFor(c, n) /\ RunsFor(d, n) => c = d
  /\ \A c, d \in ContainerId :
       RunsFor(c, n) /\ Holds(d, n) /\ containers[d].service = n => containers[c].name = n

Touching == Forward \cup Backward \cup {"cleanup"}
Unspawned == Preflight \cup {"stop", "stopping", "create"}
Down == {"create", "probe", "verify", "health", "commit", "cleanup",
         "dropStop", "dropRemove", "dropCheck"}

\* Once it has renamed the original, a transaction knows all that runs for the
\* service; the original is down while a replacement may be up, and the other
\* way round.
Guarded(o) ==
  /\ pc[o] \in Touching =>
       \A c \in ContainerId : RunsFor(c, svc[o]) => c = orig[o] \/ c \in spawned[o]
  /\ pc[o] \in Down => ~RunsFor(orig[o], svc[o])
  /\ pc[o] \in Unspawned => spawned[o] = {}
  /\ pc[o] \in {"restore", "inspect"} /\ RunsFor(orig[o], svc[o]) =>
       \A c \in spawned[o] : ~Exists(c)
  /\ pc[o] = "restart" => containers[orig[o]].name = svc[o]
  /\ pc[o] \in Preflight /\ life[o] = "stopped" => ~RunsFor(orig[o], svc[o])

RunInv ==
  /\ \A n \in ContainerName : OneRuns(n)
  /\ \A o \in Op : Guarded(o)

\* Containers of service n may stop or go, and do nothing else.
Fades(n) ==
  \A c \in ContainerId : containers[c].service = n \/ containers'[c].service = n =>
    /\ SameRecord(c)
    /\ containers'[c].life = "running" => containers[c].life = "running"
    /\ Exists(c)' => Exists(c)

LEMMA FadesKeepsOneRuns ==
  ASSUME NEW n, Fades(n), OneRuns(n)
  PROVE  OneRuns(n)'
BY DEF Fades, OneRuns, RunsFor, Holds, SameRecord

\* What Guarded(p) speaks of besides the containers.
Remembered(p) ==
  /\ orig'[p] = orig[p]
  /\ svc'[p] = svc[p]
  /\ life'[p] = life[p]
  /\ spawned'[p] = spawned[p]

\* A transaction keeps its guard while the containers of its service fade.
LEMMA FadesKeepsGuarded ==
  ASSUME TypeOK, NEW p \in Op, TransactionOK(p), Guarded(p), Remembered(p),
         pc'[p] = pc[p], pc[p] \notin Ended => Fades(svc[p])
  PROVE  Guarded(p)'
<1>1. CASE pc[p] \in Ended
  BY <1>1 DEF Guarded, Ended, Touching, Unspawned, Down, Preflight, Forward, Backward
<1>2. CASE pc[p] \notin Ended
  <2>1. /\ orig[p] \in ContainerId /\ spawned[p] \subseteq ContainerId
        /\ pc[p] # "resolve" => containers[orig[p]].service = svc[p]
        /\ \A c \in spawned[p] : containers[c].service = svc[p]
    BY <1>2, UnderWay DEF TransactionOK, OriginalPlaced, SpawnedPlaced, TypeOK,
       ReplacementTypeOK, Ended
  <2>2. \A c \in ContainerId : RunsFor(c, svc[p])' => RunsFor(c, svc[p])
    BY <1>2 DEF Fades, RunsFor, Remembered, SameRecord
  <2>3. \A c \in spawned[p] : Exists(c)' => Exists(c)
    BY <1>2, <2>1 DEF Fades
  <2>4. pc[p] = "restart" => containers'[orig[p]].name = containers[orig[p]].name
    BY <1>2, <2>1 DEF Fades, SameRecord
  <2>5. QED
    BY <2>1, <2>2, <2>3, <2>4
       DEF Guarded, Remembered, RunsFor, Exists
<1>3. QED
  BY <1>1, <1>2

\* A step of transaction o outside whose service everything fades, if anything.
LEMMA StepKeepsRunInv ==
  ASSUME IInv, RunInv, NEW o \in Op, pc[o] \notin Ended,
         \A p \in Op \ {o} : pc'[p] = pc[p] /\ Remembered(p),
         \A m \in ContainerName \ {svc[o]} : Fades(m),
         svc'[o] = svc[o], OneRuns(svc[o])', Guarded(o)'
  PROVE  RunInv'
<1>1. ASSUME NEW n \in ContainerName PROVE OneRuns(n)'
  <2>1. CASE n = svc[o]
    BY <2>1 DEF OneRuns, RunsFor, Holds, Exists
  <2>2. CASE n # svc[o]
    BY <2>2, FadesKeepsOneRuns DEF RunInv
  <2>3. QED
    BY <2>1, <2>2
<1>2. ASSUME NEW p \in Op PROVE Guarded(p)'
  <2>1. CASE p = o
    BY <2>1
  <2>2. CASE p # o
    <3>1. pc[p] \notin Ended => svc[p] \in ContainerName \ {svc[o]}
      BY <2>2, UnderWay DEF IInv, OneAtATime, Ended
    <3>2. QED
      BY <2>2, <3>1, FadesKeepsGuarded DEF IInv, RunInv
  <2>3. QED
    BY <2>1, <2>2
<1>3. QED
  BY <1>1, <1>2 DEF RunInv

\* One in which everything fades, the transaction's own service included: what has
\* to be shown is where it leads.
LEMMA FadingStepKeeps ==
  ASSUME IInv, RunInv, NEW o \in Op, pc[o] \notin Ended,
         \A p \in Op \ {o} : pc'[p] = pc[p] /\ Remembered(p),
         Remembered(o),
         \A m \in ContainerName : Fades(m),
         pc'[o] \in Touching => pc[o] \in Touching,
         pc'[o] \in Unspawned => pc[o] \in Unspawned,
         pc'[o] \in Preflight => pc[o] \in Preflight,
         pc'[o] \in Down => pc[o] \in Down \/ ~RunsFor(orig[o], svc[o])',
         pc'[o] \in {"restore", "inspect"} => pc[o] \in Down \cup Unspawned,
         pc'[o] = "restart" => containers'[orig[o]].name = svc[o]
  PROVE  RunInv'
<1>1. ASSUME NEW n \in ContainerName PROVE OneRuns(n)'
  BY FadesKeepsOneRuns DEF RunInv
<1>2. ASSUME NEW p \in Op, p # o PROVE Guarded(p)'
  <2>1. pc[p] \notin Ended => svc[p] \in ContainerName
    BY UnderWay DEF IInv, Ended
  <2>2. QED
    BY <1>2, <2>1, FadesKeepsGuarded DEF IInv, RunInv
<1>3. Guarded(o)'
  <2>1. orig[o] \in ContainerId /\ svc[o] \in ContainerName /\ Guarded(o)
    BY UnderWay DEF IInv, RunInv, Ended
  <2>2. \A c \in ContainerId : RunsFor(c, svc[o])' => RunsFor(c, svc[o])
    BY <2>1 DEF Fades, RunsFor, Remembered, SameRecord
  <2>3. spawned[o] \subseteq ContainerId /\ \A c \in spawned[o] : Exists(c)' => Exists(c)
    BY <2>1 DEF Fades, IInv, TransactionOK, SpawnedPlaced, TypeOK, ReplacementTypeOK
  <2>4. QED
    BY <2>1, <2>2, <2>3 DEF Guarded, Remembered, RunsFor, Exists
<1>4. QED
  BY <1>1, <1>2, <1>3 DEF RunInv

-------------------------------------------------------------------------------

LEMMA StillFades ==
  ASSUME UNCHANGED containers, NEW n
  PROVE  Fades(n)
BY DEF Fades, SameRecord, Exists

LEMMA SetLifeFades ==
  ASSUME HostTypeOK, NEW c \in ContainerId, Exists(c),
         NEW l \in {"stopped", "removed"}, SetLife(c, l), NEW n
  PROVE  Fades(n)
<1>1. containers[c].life # "unborn" /\ l \in Life \ {"unborn"}
  BY DEF Exists, Alive, Life
<1>2. /\ \A d \in ContainerId : d # c => containers'[d] = containers[d]
      /\ SameRecord(c)
      /\ containers'[c].life = l
  BY <1>1, SetLifeFacts
<1>3. QED
  BY <1>2 DEF Fades, SameRecord, Exists

LEMMA StopFades ==
  ASSUME HostTypeOK, NEW ident, NEW ok, PodmanStop(ident, ok), NEW n
  PROVE  Fades(n)
BY StillFades, SetLifeFades DEF PodmanStop, FailsCleanly, Stoppable, Refers

LEMMA RemoveFades ==
  ASSUME HostTypeOK, NEW ident, NEW ok, PodmanForceRemove(ident, ok), NEW n
  PROVE  Fades(n)
BY StillFades, SetLifeFades DEF PodmanForceRemove, FailsCleanly, Refers

\* A container that exits fades; an operator's own are not in any service.
LEMMA HostFades ==
  ASSUME HostTypeOK, HostMoves, Ambient \cap {"start", "pause"} = {},
         NEW n \in ContainerName
  PROVE  Fades(n)
<1>1. PICK c \in ContainerId : Exits(c) \/ ForeignRun(c) \/ ForeignRemove(c)
  BY DEF HostMoves, Restarts, Pauses
<1>2. CASE Exits(c) \/ ForeignRemove(c)
  BY <1>2, SetLifeFades DEF Exits, ForeignRemove, Exists, Alive
<1>3. CASE ForeignRun(c)
  <2>1. /\ containers[c].service = Unmanaged
        /\ containers'[c].service = Unmanaged
        /\ \A e \in ContainerId \ {c} : containers'[e] = containers[e]
    <3>1. containers[c] = Unborn
      BY <1>3 DEF ForeignRun, HostTypeOK, Container
    <3>2. QED
      BY <1>3, <3>1 DEF ForeignRun, HostTypeOK, Unborn
  <2>2. QED
    BY <2>1, NamesFacts DEF Fades, SameRecord, Exists
<1>4. QED
  BY <1>1, <1>2, <1>3

LEMMA RenameLife ==
  ASSUME HostTypeOK, NEW from, NEW to, NEW ok, PodmanRename(from, to, ok)
  PROVE  \A c \in ContainerId : containers'[c].life = containers[c].life
<1>1. ASSUME NEW c \in ContainerId, Holds(c, from),
             containers' = [containers EXCEPT ![c].name = to]
      PROVE  \A d \in ContainerId : containers'[d].life = containers[d].life
  <2>1. containers[c] \in [life: Life \ {"unborn"}, name: ContainerName,
                           service: ContainerName \cup {Unmanaged},
                           deployment: Deployment]
    BY <1>1 DEF HostTypeOK, Container, Unborn, Holds, Exists, Alive
  <2>2. QED
    BY <1>1, <2>1 DEF HostTypeOK
<1>2. QED
  BY <1>1 DEF PodmanRename, FailsCleanly

-------------------------------------------------------------------------------

\* A transaction under way moves alone.
LEMMA MutationAlone ==
  ASSUME TypeOK, NEW o \in Op, Mutation(o)
  PROVE  /\ pc[o] \notin Ended
         /\ UNCHANGED transaction
         /\ \A p \in Op \ {o} : pc'[p] = pc[p] /\ Remembered(p)
<1>1. pc[o] \notin Ended /\ UNCHANGED transaction
  BY DEF Mutation, Resolve, Snapshot, RenameAway, StopOriginal, AwaitStopped,
     ArgumentsFail, CreateReplacement, CreateFails, ProbeCandidate, VerifyReplacement,
     CheckHealth, Commit, RemoveBackup, Rollback, StopCandidate, RemoveCandidate,
     CheckCandidateGone, RestoreName, InspectRestored, RestartOriginal, AwaitRestored, Ended
<1>2. \A p \in Op \ {o} : pc'[p] = pc[p]
  BY DEF TypeOK, ReplacementTypeOK, Mutation, Resolve,
     Snapshot, RenameAway, StopOriginal, AwaitStopped, ArgumentsFail, CreateReplacement,
     CreateFails, ProbeCandidate, VerifyReplacement, CheckHealth, Commit, RemoveBackup,
     Rollback, StopCandidate, RemoveCandidate, CheckCandidateGone, RestoreName,
     InspectRestored, RestartOriginal, AwaitRestored, Goto, Finish, PollAgain, Fail,
     EnterRollback
<1>3. \A p \in Op \ {o} : spawned'[p] = spawned[p]
  BY DEF TypeOK, ReplacementTypeOK, Mutation, Resolve,
     Snapshot, RenameAway, StopOriginal, AwaitStopped, ArgumentsFail, CreateReplacement,
     CreateFails, ProbeCandidate, VerifyReplacement, CheckHealth, Commit, RemoveBackup,
     Rollback, StopCandidate, RemoveCandidate, CheckCandidateGone, RestoreName,
     InspectRestored, RestartOriginal, AwaitRestored, progress
<1>4. QED
  BY <1>1, <1>2, <1>3 DEF Remembered, transaction

\* The steps in which everything fades.
Fading(o) ==
  \/ Resolve(o) \/ Snapshot(o) \/ StopOriginal(o) \/ AwaitStopped(o)
  \/ ArgumentsFail(o) \/ CreateFails(o) \/ ProbeCandidate(o) \/ VerifyReplacement(o)
  \/ CheckHealth(o) \/ Commit(o) \/ RemoveBackup(o) \/ StopCandidate(o)
  \/ RemoveCandidate(o) \/ CheckCandidateGone(o) \/ InspectRestored(o) \/ AwaitRestored(o)

LEMMA FadingFades ==
  ASSUME HostTypeOK, NEW o \in Op, Fading(o)
  PROVE  /\ \A m \in ContainerName : Fades(m)
         /\ spawned' = spawned
<1>1. CASE StopOriginal(o) \/ StopCandidate(o)
  BY <1>1, StopFades, StillFades DEF StopOriginal, StopCandidate, progress
<1>2. CASE RemoveBackup(o) \/ RemoveCandidate(o)
  BY <1>2, RemoveFades, StillFades DEF RemoveBackup, RemoveCandidate, progress
<1>3. CASE UNCHANGED containers /\ spawned' = spawned
  BY <1>3, StillFades
<1>4. QED
  BY <1>1, <1>2, <1>3 DEF Fading, Resolve, Snapshot, AwaitStopped, ArgumentsFail,
     CreateFails, FailsCleanly, PodmanCreateFails, ProbeCandidate, VerifyReplacement,
     CheckHealth, Commit, CheckCandidateGone, InspectRestored, AwaitRestored, progress

LEMMA FadingKeepsRunInv ==
  ASSUME IInv, RunInv, NEW o \in Op, Fading(o)
  PROVE  RunInv'
<1> USE DEF Touching, Unspawned, Down, Preflight, Forward, Backward
<1>1. TypeOK /\ HostTypeOK
  BY DEF IInv, TypeOK
<1>2. /\ pc[o] \notin Ended /\ Remembered(o)
      /\ \A p \in Op \ {o} : pc'[p] = pc[p] /\ Remembered(p)
      /\ \A m \in ContainerName : Fades(m)
  <2>1. Mutation(o)
    BY DEF Fading, Mutation, Rollback
  <2>2. QED
    BY <1>1, <2>1, MutationAlone, FadingFades DEF Remembered, transaction
<1>3. CASE AwaitStopped(o)
  <2>1. CASE pc'[o] = "create"
    <3>1. PICK c \in ContainerId : Holds(c, Backup[o]) /\ containers[c].life = "stopped"
      BY <1>1, <1>3, <2>1, Arrives DEF AwaitStopped, OriginalStopped
    <3>2. c = orig[o]
      BY <1>3, <3>1, OriginalHolds
         DEF AwaitStopped, IInv, TransactionOK, OriginalPlaced, Renamed, Ended
    <3>3. ~RunsFor(orig[o], svc[o])'
      BY <1>2, <1>3, <3>1, <3>2 DEF AwaitStopped, RunsFor, Remembered
    <3>4. QED
      BY <1>2, <1>3, <2>1, <3>3, FadingStepKeeps DEF AwaitStopped
  <2>2. pc[o] = "stopping" /\ pc'[o] \in {"stopping", "create", "restore"}
    BY <1>1, <1>3, Arrives DEF AwaitStopped
  <2>3. QED
    BY <1>2, <2>1, <2>2, FadingStepKeeps
<1>4. CASE InspectRestored(o)
  <2>1. CASE pc'[o] = "restart"
    <3>1. containers'[orig[o]].name = svc[o]
      BY <1>1, <1>4, <2>1, Arrives DEF InspectRestored, Holds
    <3>2. QED
      BY <1>2, <1>4, <2>1, <3>1, FadingStepKeeps DEF InspectRestored
  <2>2. pc[o] = "inspect" /\ pc'[o] \in {"restart", "restarting", "done"}
    BY <1>1, <1>4, Arrives DEF InspectRestored
  <2>3. QED
    BY <1>2, <2>1, <2>2, FadingStepKeeps
<1>5. CASE ~AwaitStopped(o) /\ ~InspectRestored(o)
  <2>1. \/ pc'[o] \in {pc[o], "done"} /\ pc[o] \notin {"restore", "inspect", "restart"}
        \/ pc[o] = "resolve" /\ pc'[o] = "snapshot"
        \/ pc[o] = "snapshot" /\ pc'[o] = "rename"
        \/ pc[o] = "stop" /\ pc'[o] = "stopping"
        \/ pc[o] = "create" /\ pc'[o] = "probe"
        \/ pc[o] \in {"stop", "create"} /\ pc'[o] = "restore"
        \/ pc[o] \in Down /\ pc'[o] \in (Down \ {"create"}) \cup {"restore"}
    BY <1>1, <1>5, Arrives DEF Fading, Resolve, Snapshot, StopOriginal, ArgumentsFail,
       CreateFails, ProbeCandidate, VerifyReplacement, CheckHealth, Commit, RemoveBackup,
       StopCandidate, RemoveCandidate, CheckCandidateGone, AwaitRestored,
       TypeOK, ReplacementTypeOK
  <2>2. QED
    BY <1>2, <2>1, FadingStepKeeps
<1>6. QED
  BY <1>3, <1>4, <1>5

\* Away from the service whose containers a rename, a start or a creation is about,
\* nothing happens.
LEMMA OneChangesFades ==
  ASSUME NEW c \in ContainerId, NEW n,
         containers[c].service \in {n, Unmanaged}, containers'[c].service = n,
         \A d \in ContainerId \ {c} : containers'[d] = containers[d]
  PROVE  \A m \in ContainerName \ {n} : Fades(m)
BY NamesFacts DEF Fades, SameRecord, Exists

\* Nothing but the original runs for the service when it is renamed: if another
\* did, it would have to have another name while the original has the service's.
LEMMA RenameAwayKeepsRunInv ==
  ASSUME IInv, RunInv, NEW o \in Op, RenameAway(o)
  PROVE  RunInv'
<1>1. PICK ok \in BOOLEAN :
       /\ PodmanRename(svc[o], Backup[o], ok)
       /\ \/ ok /\ Goto(o, IF life[o] = "running" THEN "stop" ELSE "create")
          \/ ~ok /\ Finish(o, "unchanged")
  BY DEF RenameAway
<1>2. /\ TypeOK /\ HostTypeOK /\ NamesUnique /\ Guarded(o)
      /\ pc[o] = "rename" /\ spawned' = spawned
      /\ UNCHANGED transaction
      /\ Backup[o] \in ContainerName
  BY NamesFacts DEF IInv, RunInv, TypeOK, RenameAway, progress
<1>3. \A p \in Op \ {o} : pc'[p] = pc[p] /\ Remembered(p)
  BY <1>2, MutationAlone DEF Mutation
<1>4. /\ orig[o] \in ContainerId /\ svc[o] \in ContainerName
      /\ Holds(orig[o], svc[o]) /\ containers[orig[o]].service = svc[o]
      /\ \A c \in ContainerId : Holds(c, svc[o]) => c = orig[o]
      /\ life[o] \in {"running", "stopped"}
  BY <1>2, OriginalHolds, UnderWay DEF IInv, TransactionOK, OriginalPlaced, Holds, Ended
<1>5. /\ \A c \in ContainerId \ {orig[o]} : SameRecord(c) /\ SameExistence(c)
      /\ \A c \in ContainerId : containers'[c].life = containers[c].life
                               /\ containers'[c].service = containers[c].service
  BY <1>1, <1>2, <1>4, RenameFacts, RenameLife DEF Kept
<1>6. \A c \in ContainerId : RunsFor(c, svc[o]) => c = orig[o]
  <2>1. OneRuns(svc[o])
    BY <1>4 DEF RunInv
  <2>2. ASSUME NEW c \in ContainerId, RunsFor(c, svc[o]) PROVE c = orig[o]
    <3>1. containers[c].name = svc[o]
      BY <1>4, <2>1, <2>2 DEF OneRuns
    <3>2. Holds(c, svc[o])
      BY <2>2, <3>1 DEF RunsFor, Holds, Exists, Alive
    <3>3. QED
      BY <1>4, <3>2
  <2>3. QED
    BY <2>2
<1>7. \A m \in ContainerName \ {svc[o]} : Fades(m)
  BY <1>4, <1>5 DEF Fades, SameRecord, SameExistence
<1>8. svc'[o] = svc[o] /\ orig'[o] = orig[o] /\ life'[o] = life[o] /\ spawned'[o] = spawned[o]
  BY <1>2 DEF transaction
<1>9. \A c \in ContainerId : RunsFor(c, svc[o])' <=> RunsFor(c, svc[o])
  BY <1>5, <1>8 DEF RunsFor
<1>10. OneRuns(svc[o])'
  <2>1. \A c, d \in ContainerId :
          RunsFor(c, svc[o]) /\ Holds(d, svc[o])' => containers'[c].name = svc[o]
    BY <1>4, <1>5, <1>6, <1>8 DEF Holds, SameRecord, SameExistence
  <2>2. QED
    BY <1>6, <1>8, <1>9, <2>1 DEF OneRuns
<1>11. Guarded(o)'
  <2>1. \/ pc'[o] = "stop"
        \/ pc'[o] = "create" /\ life[o] = "stopped"
        \/ pc'[o] = "done"
    BY <1>1, <1>2, <1>4, Arrives
  <2>2. spawned[o] = {} /\ (life[o] = "stopped" => ~RunsFor(orig[o], svc[o]))
    BY <1>2 DEF Guarded, Unspawned, Preflight
  <2>3. ~RunsFor(orig[o], svc[o]) => ~RunsFor(orig[o], svc[o])'
    BY <1>4, <1>8, <1>5 DEF RunsFor
  <2>4. QED
    BY <1>6, <1>8, <1>9, <2>1, <2>2, <2>3
       DEF Guarded, Touching, Unspawned, Down, Preflight, Forward, Backward
<1>12. QED
  BY <1>2, <1>3, <1>7, <1>8, <1>10, <1>11, StepKeepsRunInv DEF Ended

\* Back under the name of the service, the original finds no one running for it
\* but under that very name.
LEMMA RestoreNameKeepsRunInv ==
  ASSUME IInv, RunInv, NEW o \in Op, RestoreName(o)
  PROVE  RunInv'
<1>1. PICK ok \in BOOLEAN : PodmanRename(Backup[o], svc[o], ok)
  BY DEF RestoreName
<1>2. /\ TypeOK /\ HostTypeOK /\ NamesUnique /\ Guarded(o) /\ TransactionOK(o)
      /\ pc[o] = "restore" /\ pc'[o] = "inspect" /\ spawned' = spawned
      /\ UNCHANGED transaction
  BY DEF IInv, RunInv, TypeOK, RestoreName, progress, Goto, ReplacementTypeOK
<1>3. \A p \in Op \ {o} : pc'[p] = pc[p] /\ Remembered(p)
  BY <1>2, MutationAlone DEF Mutation, Rollback
<1>4. /\ orig[o] \in ContainerId /\ svc[o] \in ContainerName
      /\ containers[orig[o]].service = svc[o]
      /\ \A c \in ContainerId : Holds(c, Backup[o]) => c = orig[o]
  BY <1>2, OriginalHolds DEF TransactionOK, OriginalPlaced, Renamed, Ended
<1>5. /\ \A c \in ContainerId \ {orig[o]} : SameRecord(c) /\ SameExistence(c)
      /\ \A c \in ContainerId : containers'[c].life = containers[c].life
                               /\ containers'[c].service = containers[c].service
                               /\ SameExistence(c)
      /\ containers'[orig[o]].name \in {containers[orig[o]].name, svc[o]}
  BY <1>1, <1>2, <1>4, RenameFacts, RenameLife DEF Kept
<1>6. \A c \in ContainerId : RunsFor(c, svc[o]) /\ c # orig[o] => containers[c].name = svc[o]
  BY <1>2 DEF Guarded, Touching, Backward, TransactionOK, SpawnedPlaced, Ended, RunsFor,
     Exists, Alive
<1>7. \A m \in ContainerName \ {svc[o]} : Fades(m)
  BY <1>4, <1>5 DEF Fades, SameRecord, SameExistence
<1>8. svc'[o] = svc[o] /\ orig'[o] = orig[o] /\ life'[o] = life[o] /\ spawned'[o] = spawned[o]
  BY <1>2 DEF transaction
<1>9. \A c \in ContainerId : RunsFor(c, svc[o])' <=> RunsFor(c, svc[o])
  BY <1>5, <1>8 DEF RunsFor
<1>10. OneRuns(svc[o])'
  <2>1. OneRuns(svc[o])
    BY <1>4 DEF RunInv
  <2>2. ASSUME NEW c \in ContainerId, NEW d \in ContainerId, RunsFor(c, svc[o]),
               Holds(d, svc[o])', containers'[d].service = svc[o]
        PROVE  containers'[c].name = svc[o]
    <3>1. CASE c # orig[o]
      BY <1>5, <1>6, <2>2, <3>1 DEF SameRecord
    <3>2. CASE c = orig[o] /\ d = orig[o]
      BY <2>2, <1>8, <3>2 DEF Holds
    <3>3. CASE c = orig[o] /\ d # orig[o]
      <4>1. Holds(d, svc[o]) /\ containers[d].service = svc[o]
        BY <1>5, <1>8, <2>2, <3>3 DEF Holds, SameRecord, SameExistence
      <4>2. containers[c].name = svc[o]
        BY <2>1, <2>2, <4>1 DEF OneRuns
      <4>3. QED
        BY <1>5, <3>3, <4>2
    <3>4. QED
      BY <3>1, <3>2, <3>3
  <2>3. QED
    BY <1>8, <1>9, <2>1, <2>2 DEF OneRuns, Holds
<1>11. Guarded(o)'
  <2>1. spawned[o] \subseteq ContainerId
    BY <1>2 DEF TypeOK, ReplacementTypeOK
  <2>2. RunsFor(orig[o], svc[o])' => RunsFor(orig[o], svc[o])
    BY <1>4, <1>5, <1>8 DEF RunsFor
  <2>3. \A c \in spawned[o] : Exists(c)' => Exists(c)
    BY <1>5, <2>1 DEF SameExistence
  <2>4. QED
    BY <1>2, <1>8, <1>9, <2>2, <2>3
       DEF Guarded, Touching, Unspawned, Down, Preflight, Forward, Backward, Exists
<1>12. QED
  BY <1>2, <1>3, <1>7, <1>8, <1>10, <1>11, StepKeepsRunInv DEF Ended

\* The replacement is created while nothing runs for the service.
LEMMA CreateReplacementKeepsRunInv ==
  ASSUME IInv, RunInv, NEW o \in Op, CreateReplacement(o)
  PROVE  RunInv'
<1>1. PICK c \in ContainerId, ok \in BOOLEAN, printed \in BOOLEAN :
       /\ PodmanCreate(c, svc[o], svc[o], want[o], life[o], ok)
       /\ spawned' = [spawned EXCEPT ![o] = @ \cup {c}]
       /\ \/ ok /\ printed /\ Goto(o, "verify")
          \/ ok /\ ~printed /\ Fail(o, FALSE)
          \/ ~ok /\ Goto(o, "probe")
  BY DEF CreateReplacement
<1>2. /\ TypeOK /\ HostTypeOK /\ Guarded(o)
      /\ pc[o] = "create"
      /\ UNCHANGED transaction
  BY DEF IInv, RunInv, TypeOK, CreateReplacement
<1>3. \A p \in Op \ {o} : pc'[p] = pc[p] /\ Remembered(p)
  BY <1>2, MutationAlone DEF Mutation
<1>4. /\ orig[o] \in ContainerId /\ svc[o] \in ContainerName
      /\ Exists(orig[o]) /\ containers[orig[o]].service = svc[o]
      /\ life[o] \in {"running", "stopped"}
  BY <1>2, OriginalHolds, UnderWay DEF Ended
<1>5. /\ \A d \in ContainerId : d # c => containers'[d] = containers[d]
      /\ containers[c] = Unborn
      /\ containers'[c].name = svc[o]
      /\ containers'[c].service = svc[o]
  <2>1. HostTypeOK /\ svc[o] \in ContainerName /\ life[o] \in {"running", "stopped"}
    BY <1>2, <1>4
  <2>2. PodmanCreate(c, svc[o], svc[o], want[o], life[o], ok)
    BY <1>1
  <2>3. QED
    BY <2>1, <2>2, CreateFacts, SMTT(30)
<1>6. containers[c].service = Unmanaged /\ c # orig[o]
  BY <1>4, <1>5 DEF Unborn, Exists, Alive
<1>7. \A m \in ContainerName \ {svc[o]} : Fades(m)
  BY <1>5, <1>6, OneChangesFades
<1>8. /\ svc'[o] = svc[o] /\ orig'[o] = orig[o] /\ life'[o] = life[o]
      /\ spawned'[o] = {c}
  BY <1>1, <1>2 DEF transaction, Guarded, Unspawned, TypeOK, ReplacementTypeOK
<1>9. \A d \in ContainerId : ~RunsFor(d, svc[o])
  BY <1>2 DEF Guarded, Touching, Unspawned, Down, Forward
<1>10. \A d \in ContainerId : RunsFor(d, svc[o])' => d = c
  BY <1>5, <1>8, <1>9 DEF RunsFor
<1>11. OneRuns(svc[o])'
  BY <1>5, <1>8, <1>10 DEF OneRuns
<1>12. Guarded(o)'
  <2>1. pc'[o] \in {"verify", "probe", "restore"}
    BY <1>1, <1>2, Arrives
  <2>2. ~RunsFor(orig[o], svc[o])'
    BY <1>4, <1>6, <1>8, <1>10
  <2>3. QED
    BY <1>8, <1>10, <2>1, <2>2
       DEF Guarded, Touching, Unspawned, Preflight, Forward, Backward
<1>13. QED
  BY <1>2, <1>3, <1>7, <1>8, <1>11, <1>12, StepKeepsRunInv DEF Ended

\* The original is started once it has the service's name, which whatever the
\* transaction created would have to have.
LEMMA RestartOriginalKeepsRunInv ==
  ASSUME IInv, RunInv, NEW o \in Op, RestartOriginal(o)
  PROVE  RunInv'
<1>1. PICK ok \in BOOLEAN : PodmanStart(svc[o], ok)
  BY DEF RestartOriginal
<1>2. /\ TypeOK /\ HostTypeOK /\ NamesUnique /\ Guarded(o) /\ TransactionOK(o)
      /\ pc[o] = "restart" /\ pc'[o] = "restarting" /\ spawned' = spawned
      /\ UNCHANGED transaction
  BY DEF IInv, RunInv, TypeOK, RestartOriginal, progress, Goto, ReplacementTypeOK
<1>3. \A p \in Op \ {o} : pc'[p] = pc[p] /\ Remembered(p)
  BY <1>2, MutationAlone DEF Mutation, Rollback
<1>4. /\ orig[o] \in ContainerId /\ svc[o] \in ContainerName
      /\ containers[orig[o]].service = svc[o]
      /\ containers[orig[o]].name = svc[o]
      /\ \A c \in ContainerId : Holds(c, svc[o]) => c = orig[o]
  BY <1>2, OriginalHolds DEF Guarded, Ended
<1>5. \A c \in ContainerId : Refers(c, svc[o]) => c = orig[o]
  BY <1>4, NamesDistinct DEF Refers, Holds
<1>6. /\ \A d \in ContainerId : Kept(d)
      /\ \A d \in ContainerId \ {orig[o]} : containers'[d] = containers[d]
  <2>1. CASE UNCHANGED containers
    BY <2>1, StillKeeps
  <2>2. CASE \E c \in ContainerId : Stoppable(c, svc[o]) /\ SetLife(c, "running")
    BY <1>1, <1>2, <1>5, <2>2, StartKeeps DEF Stoppable, SetLife, HostTypeOK
  <2>3. QED
    BY <1>1, <2>1, <2>2 DEF PodmanStart, FailsCleanly
<1>7. \A m \in ContainerName \ {svc[o]} : Fades(m)
  BY <1>4, <1>6, OneChangesFades DEF Kept, SameRecord
<1>8. svc'[o] = svc[o] /\ orig'[o] = orig[o] /\ life'[o] = life[o] /\ spawned'[o] = spawned[o]
  BY <1>2 DEF transaction
<1>9. \A c \in ContainerId : RunsFor(c, svc[o])' => c = orig[o]
  <2> SUFFICES ASSUME NEW c \in ContainerId, RunsFor(c, svc[o])', c # orig[o]
               PROVE  FALSE
    OBVIOUS
  <2>1. RunsFor(c, svc[o])
    BY <1>6, <1>8 DEF RunsFor
  <2>2. Exists(c) /\ c \in spawned[o]
    BY <1>2, <2>1 DEF Guarded, Touching, Backward, RunsFor, Exists, Alive
  <2>3. QED
    BY <1>2, <1>4, <2>2 DEF TransactionOK, SpawnedPlaced, Holds, Ended
<1>10. OneRuns(svc[o])'
  BY <1>4, <1>6, <1>8, <1>9 DEF OneRuns, Kept, SameRecord
<1>11. Guarded(o)'
  BY <1>2, <1>8, <1>9
     DEF Guarded, Touching, Unspawned, Down, Preflight, Forward, Backward
<1>12. QED
  BY <1>2, <1>3, <1>7, <1>8, <1>10, <1>11, StepKeepsRunInv DEF Ended

\* A request changes no container, and a stopped target is down.
LEMMA RequestKeepsRunInv ==
  ASSUME IInv, RunInv, NEW o \in Op, NEW c \in ContainerId, NEW d \in Deployment,
         Request(o, c, d)
  PROVE  RunInv'
<1>1. TypeOK /\ pc[o] = "idle" /\ UNCHANGED containers /\ spawned' = spawned
  BY DEF IInv, Request, progress
<1>2. \A p \in Op \ {o} : pc'[p] = pc[p] /\ Remembered(p)
  BY <1>1 DEF Request, Goto, Finish, Remembered, TypeOK, ReplacementTypeOK
<1>3. ASSUME NEW n PROVE Fades(n)
  BY <1>1, StillFades
<1>4. \A n \in ContainerName : OneRuns(n)'
  BY <1>3, FadesKeepsOneRuns DEF RunInv
<1>5. \A p \in Op \ {o} : Guarded(p)'
  BY <1>1, <1>2, <1>3, FadesKeepsGuarded DEF IInv, RunInv
<1>6. Guarded(o)'
  <2>1. spawned'[o] = {}
    BY <1>1 DEF IInv, TransactionOK, SpawnedPlaced
  <2>2. pc'[o] \in {"resolve", "done"}
    BY <1>1, Arrives DEF Request
  <2>3. orig'[o] = c /\ (pc'[o] = "resolve" => life'[o] = containers[c].life)
    BY <1>1 DEF Request, Finish, TypeOK, ReplacementTypeOK
  <2>4. pc'[o] = "resolve" /\ life'[o] = "stopped" => ~RunsFor(orig[o], svc[o])'
    BY <1>1, <2>3 DEF RunsFor
  <2>5. QED
    BY <2>1, <2>2, <2>4 DEF Guarded, Touching, Unspawned, Down, Preflight, Forward, Backward
<1>7. QED
  BY <1>4, <1>5, <1>6 DEF RunInv

LEMMA MutateKeepsRunInv ==
  ASSUME IInv, RunInv, NEW o \in Op, MutateContainerPorts(o)
  PROVE  RunInv'
<1>1. \/ \E c \in ContainerId, d \in Deployment : Request(o, c, d)
      \/ RenameAway(o) \/ CreateReplacement(o) \/ RestoreName(o) \/ RestartOriginal(o)
      \/ Fading(o)
  BY DEF MutateContainerPorts, Mutation, Rollback, Fading
<1>2. QED
  BY <1>1, RequestKeepsRunInv, RenameAwayKeepsRunInv, CreateReplacementKeepsRunInv,
     RestoreNameKeepsRunInv, RestartOriginalKeepsRunInv, FadingKeepsRunInv

\* The host and a crash leave what runs running, or less of it.
LEMMA OthersKeepRunInv ==
  ASSUME IInv, RunInv, Ambient \cap {"start", "pause"} = {},
         Environment \/ Crash \/ UNCHANGED vars
  PROVE  RunInv'
<1>1. TypeOK /\ HostTypeOK
  BY DEF IInv, TypeOK
<1>2. ASSUME NEW n \in ContainerName PROVE Fades(n)
  BY <1>1, HostFades, StillFades DEF Environment, Crash, vars
<1>3. \A p \in Op : Remembered(p)
  BY DEF Environment, Crash, vars, transaction, progress, Remembered
<1>4. ASSUME NEW p \in Op PROVE Guarded(p)'
  <2>1. pc[p] \notin Ended => svc[p] \in ContainerName
    BY <1>1, UnderWay DEF Ended
  <2>2. CASE pc'[p] = pc[p]
    BY <1>1, <1>2, <1>3, <2>1, <2>2, FadesKeepsGuarded DEF IInv, RunInv
  <2>3. CASE pc'[p] = "crashed"
    BY <2>3 DEF Guarded, Touching, Unspawned, Down, Preflight, Forward, Backward
  <2>4. QED
    BY <2>2, <2>3 DEF Environment, Crash, vars
<1>5. QED
  BY <1>2, <1>4, FadesKeepsOneRuns DEF RunInv

LEMMA InitRunInv == Init => RunInv
<1> SUFFICES ASSUME Init PROVE RunInv
  OBVIOUS
<1>1. \A o \in Op : Guarded(o)
  BY DEF Init, Quiet, Guarded, Touching, Unspawned, Down, Preflight, Forward, Backward
<1>2. \A n \in ContainerName : OneRuns(n)
  <2>1. \A c \in ContainerId : containers[c].service # Unmanaged =>
          /\ Home[c] # NoName
          /\ containers[c].service = Home[c] /\ containers[c].name = Home[c]
    BY DEF Init, Unborn
  <2>2. QED
    BY <2>1, ReplacementAssumption, NamesFacts DEF OneRuns, RunsFor
<1>3. QED
  BY <1>1, <1>2 DEF RunInv

\* An original and its replacement never run at the same time, as long as nobody
\* but Podder starts or unpauses a container.
THEOREM NeverBothEverRunning ==
  ASSUME Serial, Ambient \cap {"start", "pause"} = {}
  PROVE  Spec => []NeverBothRunning
<1>1. Init => RunInv
  BY InitRunInv
<1>2. IInv /\ RunInv /\ [Next]_vars => RunInv'
  BY MutateKeepsRunInv, OthersKeepRunInv DEF Next
<1>3. IInv /\ RunInv => NeverBothRunning
  <2>1. ASSUME IInv, NEW c \in ContainerId, containers[c].service # Unmanaged
        PROVE  containers[c].service \in ContainerName
    BY <2>1 DEF IInv, TypeOK, HostTypeOK, Container, Unborn
  <2>2. QED
    BY <2>1 DEF RunInv, OneRuns, RunsFor, NeverBothRunning
<1>4. QED
  BY <1>1, <1>2, <1>3, Invariance, PTL DEF Spec

-------------------------------------------------------------------------------
(* Port mutation implements WorkloadStore.  Every step touches at most one  *)
(* container or one spec; and because every spec stays backed, a spec is     *)
(* only ever changed to what is there, and what it describes is never the    *)
(* container that goes.                                                    *)

\* The step touches container c at most, and does not turn it into another.
Touches(c) ==
  /\ \A x \in ContainerId \ {c} : containers'[x] = containers[x]
  /\ Exists(c) => /\ containers'[c].service = containers[c].service
                  /\ containers'[c].deployment = containers[c].deployment

TouchesOne == UNCHANGED containers \/ \E c \in ContainerId : Touches(c)

\* A label names a service.
LabelsOK == \A c \in ContainerId : containers[c].service \in Name \cup {Unmanaged}

-------------------------------------------------------------------------------
(* Every command touches one container.                                    *)

LEMMA SetLifeTouches ==
  ASSUME HostTypeOK, NEW c \in ContainerId, containers[c].life # "unborn",
         NEW l \in Life \ {"unborn"}, SetLife(c, l)
  PROVE  TouchesOne
BY SetLifeFacts DEF TouchesOne, Touches, SameRecord

LEMMA CommandTouches ==
  ASSUME HostTypeOK, NEW ok,
         \/ \E from, to \in ContainerName : PodmanRename(from, to, ok)
         \/ \E i : PodmanStop(i, ok) \/ PodmanStart(i, ok) \/ PodmanForceRemove(i, ok)
  PROVE  TouchesOne
<1>1. CASE UNCHANGED containers
  BY <1>1 DEF TouchesOne
<1>2. ASSUME NEW c \in ContainerId, NEW l \in Life \ {"unborn"},
             containers[c].life # "unborn", SetLife(c, l)
      PROVE  TouchesOne
  BY <1>2, SetLifeTouches
<1>3. ASSUME NEW c \in ContainerId, NEW to, containers' = [containers EXCEPT ![c].name = to],
             Exists(c)
      PROVE  TouchesOne
  <2>1. containers[c] \in [life: Life \ {"unborn"}, name: ContainerName,
                           service: ContainerName \cup {Unmanaged},
                           deployment: Deployment]
    BY <1>3 DEF HostTypeOK, Container, Unborn, Exists, Alive
  <2>2. containers'[c] = [containers[c] EXCEPT !.name = to]
    BY <1>3 DEF HostTypeOK
  <2>3. \A x \in ContainerId \ {c} : containers'[x] = containers[x]
    BY <1>3 DEF HostTypeOK
  <2> QED
    BY <2>1, <2>2, <2>3 DEF TouchesOne, Touches
<1> QED
  BY <1>1, <1>2, <1>3 DEF PodmanRename, PodmanStop, PodmanStart, PodmanForceRemove,
     FailsCleanly, Holds, Refers, Stoppable, Exists, Alive, Life

LEMMA CreateTouches ==
  ASSUME HostTypeOK, NEW c \in ContainerId, containers[c].life = "unborn",
         NEW r, containers' = [containers EXCEPT ![c] = r]
  PROVE  TouchesOne
BY DEF HostTypeOK, TouchesOne, Touches, Exists, Alive

LEMMA HostTouches ==
  ASSUME HostTypeOK, HostMoves
  PROVE  TouchesOne
<1>1. PICK c \in ContainerId :
        Exits(c) \/ Restarts(c) \/ Pauses(c) \/ ForeignRun(c) \/ ForeignRemove(c)
  BY DEF HostMoves
<1>2. CASE ForeignRun(c)
  BY <1>2, CreateTouches DEF ForeignRun
<1>3. CASE Exits(c) \/ Restarts(c) \/ Pauses(c) \/ ForeignRemove(c)
  BY <1>3, SetLifeTouches DEF Exits, Restarts, Pauses, ForeignRemove, Exists, Alive, Life
<1> QED
  BY <1>1, <1>2, <1>3

-------------------------------------------------------------------------------
(* Every step of a transaction touches one container, or commits.          *)

LEMMA NamesUsed ==
  ASSUME TypeOK, NEW o \in Op, pc[o] # "idle"
  PROVE  svc[o] \in ContainerName /\ Backup[o] \in ContainerName
BY UnderWay, NamesFacts DEF TypeOK

LEMMA MutateTouches ==
  ASSUME TypeOK, NEW o \in Op, MutateContainerPorts(o), ~Commit(o)
  PROVE  TouchesOne /\ specs' = specs
<1>1. specs' = specs
  BY DEF MutateContainerPorts, Mutation, Request, Resolve,
     Snapshot, RenameAway, StopOriginal, AwaitStopped, ArgumentsFail, CreateReplacement, CreateFails,
     ProbeCandidate, VerifyReplacement, CheckHealth, RemoveBackup, Rollback,
     StopCandidate, RemoveCandidate, CheckCandidateGone, RestoreName, InspectRestored,
     RestartOriginal, AwaitRestored, Fail, StoreUnchanged, storeVars,
     WriteCandidateSpec, DiscardCandidateSpec
<1>2. HostTypeOK
  BY DEF TypeOK
<1>3. CASE \E c \in ContainerId, d \in Deployment : Request(o, c, d)
  BY <1>1, <1>3 DEF Request, TouchesOne
<1>4. CASE \/ Resolve(o) \/ Snapshot(o) \/ AwaitStopped(o) \/ ArgumentsFail(o)
           \/ CreateFails(o) \/ ProbeCandidate(o) \/ VerifyReplacement(o) \/ CheckHealth(o)
  BY <1>1, <1>4 DEF Resolve, Snapshot, AwaitStopped, ArgumentsFail, CreateFails,
     PodmanCreateFails, FailsCleanly, ProbeCandidate, VerifyReplacement, CheckHealth,
     TouchesOne
<1>5. CASE RenameAway(o) \/ StopOriginal(o) \/ RemoveBackup(o)
  BY <1>1, <1>2, <1>5, NamesUsed, CommandTouches DEF RenameAway, StopOriginal, RemoveBackup
<1>6. CASE CreateReplacement(o)
  BY <1>1, <1>2, <1>6, CreateTouches DEF CreateReplacement, PodmanCreate
<1>7. CASE Rollback(o)
  <2>1. CASE RestoreName(o)
    BY <1>1, <1>2, <2>1, NamesUsed, CommandTouches DEF RestoreName
  <2>2. CASE StopCandidate(o) \/ RemoveCandidate(o) \/ RestartOriginal(o)
    BY <1>1, <1>2, <2>2, CommandTouches
       DEF StopCandidate, RemoveCandidate, RestartOriginal, TouchesOne
  <2>3. CASE CheckCandidateGone(o) \/ InspectRestored(o) \/ AwaitRestored(o)
    BY <1>1, <2>3 DEF CheckCandidateGone, InspectRestored, AwaitRestored, TouchesOne
  <2> QED
    BY <1>7, <2>1, <2>2, <2>3 DEF Rollback
<1> QED
  BY <1>1, <1>3, <1>4, <1>5, <1>6, <1>7 DEF MutateContainerPorts, Mutation

-------------------------------------------------------------------------------
(* What that is to the store.                                              *)

LEMMA PresentMembers ==
  ASSUME NEW n \in Name, NEW d
  PROVE  d \in Present[n] <=> \E c \in ContainerId : /\ Managed(c)
                                                    /\ containers[c].service = n
                                                    /\ containers[c].deployment = d
BY DEF Present

LEMMA PresentMembersNext ==
  ASSUME NEW n \in Name, NEW d
  PROVE  d \in Present'[n] <=> \E c \in ContainerId : /\ Managed(c)'
                                                     /\ containers'[c].service = n
                                                     /\ containers'[c].deployment = d
BY DEF Present

\* A table that says the same of every service is the same.
LEMMA PresentIs ==
  ASSUME NEW S, S = [n \in Name |-> S[n]],
         \A n \in Name : Present'[n] \subseteq S[n] /\ S[n] \subseteq Present'[n]
  PROVE  Present' = S
<1>1. Present' = [n \in Name |-> Present'[n]]
  BY DEF Present
<1>2. \A n \in Name : Present'[n] = S[n]
  OBVIOUS
<1> QED
  BY <1>1, <1>2

LEMMA TouchRefines ==
  ASSUME HostTypeOK, HostTypeOK', LabelsOK, LabelsOK', SpecBacked',
         specs' = specs, TouchesOne
  PROVE  [Store!Next]_Store!store
<1>1. CASE UNCHANGED containers
  <2>1. Present' = Present
    BY <1>1 DEF Present, Managed, Exists
  <2> QED
    BY <2>1 DEF Store!store
<1>2. ASSUME NEW c \in ContainerId, Touches(c)
      PROVE  [Store!Next]_Store!store
  <2> DEFINE n == containers[c].service
             d == containers[c].deployment
             m == containers'[c].service
             e == containers'[c].deployment
  <2>1. \A x \in ContainerId \ {c} :
          /\ Managed(x)' <=> Managed(x)
          /\ containers'[x] = containers[x]
    BY <1>2 DEF Touches, Managed, Exists
  <2>2. Exists(c) => n = m /\ d = e
    BY <1>2 DEF Touches
  <2>3. Managed(c) => n \in Name /\ d \in Deployment
    BY DEF LabelsOK, Managed, HostTypeOK, Container, Unborn, Exists, Alive
  <2>4. Managed(c)' => m \in Name /\ e \in Deployment
    BY DEF LabelsOK, Managed, HostTypeOK, Container, Unborn, Exists, Alive
  <2>5. CASE Managed(c)' <=> Managed(c)
    <3>1. \A k \in Name : \A x : x \in Present'[k] <=> x \in Present[k]
      BY <2>1, <2>2, <2>5, PresentMembers, PresentMembersNext DEF Managed
    <3>2. Present = [k \in Name |-> Present[k]]
      BY DEF Present
    <3>3. Present' = Present
      BY <3>1, <3>2, PresentIs
    <3> QED
      BY <3>3 DEF Store!store
  <2>6. CASE Managed(c)' /\ ~Managed(c)
    <3>1. \A k \in Name : \A x : x \in Present'[k] <=> x \in Present[k] \/ (k = m /\ x = e)
      BY <2>1, <2>6, PresentMembers, PresentMembersNext
    <3> DEFINE S == [Present EXCEPT ![m] = @ \cup {e}]
    <3>2. \A k \in Name : S[k] = IF k = m THEN Present[k] \cup {e} ELSE Present[k]
      BY <2>4, <2>6 DEF Present
    <3>3. S = [k \in Name |-> S[k]]
      BY DEF Present
    <3>4. \A k \in Name : Present'[k] \subseteq S[k] /\ S[k] \subseteq Present'[k]
      BY <3>1, <3>2
    <3> HIDE DEF S
    <3>5. Present' = S
      BY <3>3, <3>4, PresentIs
    <3>6. Store!Bring(m, e)
      BY <3>5 DEF S, Store!Bring
    <3> QED
      BY <2>4, <2>6, <3>6 DEF Store!Next
  <2>7. CASE Managed(c) /\ ~Managed(c)' /\ \E x \in ContainerId \ {c} :
               Managed(x) /\ containers[x].service = n /\ containers[x].deployment = d
    <3>1. \A k \in Name : \A x : x \in Present'[k] <=> x \in Present[k]
      BY <2>1, <2>7, PresentMembers, PresentMembersNext
    <3>2. Present = [k \in Name |-> Present[k]]
      BY DEF Present
    <3>3. Present' = Present
      BY <3>1, <3>2, PresentIs
    <3> QED
      BY <3>3 DEF Store!store
  <2>8. CASE Managed(c) /\ ~Managed(c)' /\ \A x \in ContainerId \ {c} :
               ~(Managed(x) /\ containers[x].service = n /\ containers[x].deployment = d)
    <3>1. \A k \in Name : \A x : x \in Present'[k] <=> x \in Present[k] /\ ~(k = n /\ x = d)
      BY <2>1, <2>8, PresentMembers, PresentMembersNext
    <3> DEFINE S == [Present EXCEPT ![n] = @ \ {d}]
    <3>2. \A k \in Name : S[k] = IF k = n THEN Present[k] \ {d} ELSE Present[k]
      BY <2>3, <2>8 DEF Present
    <3>3. S = [k \in Name |-> S[k]]
      BY DEF Present
    <3>4. \A k \in Name : Present'[k] \subseteq S[k] /\ S[k] \subseteq Present'[k]
      BY <3>1, <3>2
    <3> HIDE DEF S
    <3>5. Present' = S
      BY <3>3, <3>4, PresentIs
    <3>6. d # specs[n]
      <4> SUFFICES ASSUME d = specs[n]
                   PROVE  FALSE
        OBVIOUS
      <4>1. n \in Name /\ specs'[n] # NoSpec
        BY <2>3, <2>8, NamesDistinct
      <4>2. PICK x \in ContainerId :
              Exists(x)' /\ containers'[x].service = n /\ containers'[x].deployment = d
        BY <4>1 DEF SpecBacked
      <4>3. Managed(x)'
        BY <4>1, <4>2, NamesDistinct, NamesFacts DEF Managed
      <4>4. x # c
        BY <2>8, <4>3
      <4> QED
        BY <2>1, <2>8, <4>2, <4>3, <4>4
    <3>7. Store!Retire(n, d)
      BY <3>5, <3>6 DEF S, Store!Retire
    <3> QED
      BY <2>3, <2>8, <3>7 DEF Store!Next
  <2> QED
    BY <2>5, <2>6, <2>7, <2>8
<1> QED
  BY <1>1, <1>2 DEF TouchesOne

\* A commit promotes what is there: the spec it writes is backed.
LEMMA CommitRefines ==
  ASSUME IInv, IInv', NEW o \in Op, Commit(o)
  PROVE  [Store!Next]_Store!store
<1>1. Present' = Present
  BY DEF Commit, Present, Managed, Exists
<1>2. CASE specs' = specs
  BY <1>1, <1>2 DEF Store!store
<1>3. CASE CommitCandidateSpec(o, svc[o])
  <2> DEFINE n == svc[o]
             d == candidates[o]
  <2>1. n \in Name /\ d \in Deployment
    BY <1>3 DEF Commit, CommitCandidateSpec, IInv, TransactionOK, OriginalPlaced, Ended,
       TypeOK, StoreTypeOK
  <2>2. specs' = [specs EXCEPT ![n] = d] /\ specs'[n] = d
    BY <1>3, <2>1 DEF CommitCandidateSpec, IInv, TypeOK, StoreTypeOK
  <2>3. PICK c \in ContainerId :
          Exists(c)' /\ containers'[c].service = n /\ containers'[c].deployment = d
    BY <2>1, <2>2, NamesDistinct DEF IInv, SpecBacked
  <2>4. d \in Present'[n]
    BY <2>1, <2>3, NamesDistinct, NamesFacts, PresentMembersNext DEF Managed
  <2>5. Store!Promote(n, d)
    BY <1>1, <2>2, <2>4 DEF Store!Promote
  <2> QED
    BY <2>1, <2>5 DEF Store!Next
<1> QED
  BY <1>2, <1>3 DEF Commit, Fail, DiscardCandidateSpec

LEMMA InitRefines ==
  ASSUME Init
  PROVE  Store!Init
<1>1. PICK deployed \in [Name -> Deployment], up \in [Name -> {"running", "stopped"}] :
       /\ containers = [c \in ContainerId |->
            IF Home[c] = NoName THEN Unborn
            ELSE [life |-> up[Home[c]], name |-> Home[c], service |-> Home[c],
                  deployment |-> deployed[Home[c]]]]
       /\ specs = [n \in Name |->
            IF \E c \in ContainerId : Home[c] = n THEN deployed[n] ELSE NoSpec]
  BY DEF Init, Quiet
<1>2. specs \in [Name -> Deployment \cup {NoSpec}]
  BY <1>1
<1>3. IInv
  BY InitIInv
<1>4. ASSUME NEW n \in Name
      PROVE  Present[n] = {specs[n]} \ {NoSpec}
  <2>1. ASSUME NEW d \in Present[n]
        PROVE  d = specs[n] /\ d # NoSpec
    <3>1. PICK c \in ContainerId :
            Managed(c) /\ containers[c].service = n /\ containers[c].deployment = d
      BY <2>1, PresentMembers
    <3>2. Home[c] = n /\ d = deployed[n]
      BY <1>1, <3>1, ReplacementAssumption DEF Managed, Exists, Alive, Unborn
    <3> QED
      BY <1>1, <3>2, NamesDistinct
  <2>2. ASSUME specs[n] # NoSpec
        PROVE  specs[n] \in Present[n]
    BY <1>3, <2>2, PresentMembers, NamesDistinct, NamesFacts DEF IInv, SpecBacked, Managed
  <2> QED
    BY <2>1, <2>2
<1>5. Present = [n \in Name |-> {specs[n]} \ {NoSpec}]
  BY <1>4 DEF Present
<1> QED
  BY <1>2, <1>5 DEF Store!Init

LEMMA NextRefines ==
  ASSUME IInv, IInv', [Next]_vars
  PROVE  [Store!Next]_Store!store
<1>1. /\ TypeOK /\ HostTypeOK /\ HostTypeOK' /\ LabelsOK /\ LabelsOK'
      /\ SpecBacked'
  BY DEF IInv, TypeOK, NamedForService, LabelsOK
<1>2. ASSUME NEW o \in Op, MutateContainerPorts(o), ~Commit(o)
      PROVE  [Store!Next]_Store!store
  BY <1>1, <1>2, MutateTouches, TouchRefines
<1>3. ASSUME NEW o \in Op, Commit(o)
      PROVE  [Store!Next]_Store!store
  BY <1>3, CommitRefines
<1>4. CASE Environment
  BY <1>1, <1>4, HostTouches, TouchRefines DEF Environment, storeVars
<1>5. CASE Crash \/ UNCHANGED vars
  BY <1>1, <1>5, TouchRefines DEF Crash, storeVars, vars, TouchesOne
<1> QED
  BY <1>2, <1>3, <1>4, <1>5 DEF Next

-------------------------------------------------------------------------------
(* The theorem.                                                            *)

\* Port mutations that do not overlap on a service make before they break: seen
\* as a store of workloads, a spec is made authoritative only for what is there,
\* and what it describes does not go away, whatever fails and whenever Podder dies.
THEOREM MutationImplementsStore ==
  ASSUME Serial
  PROVE  Spec => ImplementsStore
<1>1. Init => Store!Init
  BY InitRefines
<1>2. IInv /\ IInv' /\ [Next]_vars => [Store!Next]_Store!store
  BY NextRefines
<1> QED
  BY <1>1, <1>2, Invariance, PTL DEF Spec, ImplementsStore, Store!Spec

-------------------------------------------------------------------------------
(* A return means service.  When renames and the commands of the rollback do *)
(* not fail, and nobody else is at work on the host, a transaction always    *)
(* gets to where it says that it changed everything or nothing.              *)

\* What fails is the way forward, and never the rename.
ForwardFaultsOnly ==
  /\ Faults \cap {"rename", "start", "rm", "list", "anonymous"} = {}
  /\ "rename" \notin LateFaults
  /\ Ambient = {}

\* Every container belongs to a service that is deployed.
Tidy ==
  \A c \in ContainerId : Exists(c) =>
    /\ containers[c].life \in {"running", "stopped"}
    /\ containers[c].service \in Name
    /\ specs[containers[c].service] # NoSpec

\* The service's name is free when it has to be, and who has it is whom the
\* transaction takes it for, in the lifecycle it expects.
Standing(o) ==
  /\ \/ pc[o] \in {"snapshot", "rename"}
     \/ pc[o] = "resolve" /\ svc[o] \in Name
     => containers[orig[o]].life = life[o]
  /\ pc[o] \in Forward \cup Backward /\ life[o] = "stopped" =>
       containers[orig[o]].life = "stopped"
  /\ pc[o] \in {"stop", "stopping", "create", "dropCheck", "restore"} => ~Taken(svc[o])
  /\ pc[o] \in Created => stdout[o] \in ContainerId /\ Holds(stdout[o], svc[o])
  /\ pc[o] \in Created \ {"verify"} => containers[stdout[o]].life = life[o]
  /\ pc[o] \in {"dropStop", "dropRemove"} /\ candidateID[o] # svc[o] =>
       candidateID[o] \in ContainerId /\ Holds(candidateID[o], svc[o])
  /\ pc[o] = "dropCheck" /\ candidateID[o] # svc[o] =>
       candidateID[o] \in ContainerId /\ ~Exists(candidateID[o])
  /\ pc[o] \in Restored => Holds(orig[o], svc[o])
  /\ pc[o] = "restart" => life[o] = "running"
  /\ pc[o] = "restarting" => containers[orig[o]].life = life[o]

\* The service is as its spec says, and as every transaction found it.
Serves(n) ==
  \E c \in ContainerId :
    /\ Holds(c, n)
    /\ containers[c].service = n
    /\ containers[c].deployment = specs[n]
    /\ \A o \in Op : svc[o] = n => containers[c].life = life[o]

\* Transactions on a service where none died found it in the same lifecycle.
Agree ==
  \A o, p \in Op :
    /\ svc[o] = svc[p] /\ svc[o] \in Name
    /\ \A q \in Op : svc[q] = svc[o] => pc[q] # "crashed"
    => life[o] = life[p]

ServInv ==
  /\ Tidy
  /\ Agree
  /\ \A o \in Op : Standing(o)
  /\ \A o \in Op : pc[o] = "idle" => svc[o] = NoName
  /\ \A o \in Op : svc[o] \in Name => specs[svc[o]] # NoSpec
  /\ \A n \in Name : specs[n] # NoSpec /\ Untouched(n) => Serves(n)

-------------------------------------------------------------------------------

\* Who has the name of a service has its label.
LEMMA NameTellsService ==
  ASSUME NamedForService, Tidy, NEW c \in ContainerId, NEW n \in Name, Holds(c, n)
  PROVE  containers[c].service = n
BY NamesFacts DEF NamedForService, Tidy, Holds

\* The step of o changes no container of another service.
Reaches(o) ==
  \A c \in ContainerId :
    /\ Exists(c) /\ containers[c].service # svc[o] => containers'[c] = containers[c]
    /\ Exists(c)' /\ containers'[c].service # svc[o] => containers'[c] = containers[c]

Lives == \A c \in ContainerId : Exists(c)' => containers'[c].life \in {"running", "stopped"}

LEMMA StillReaches ==
  ASSUME Tidy, UNCHANGED containers, NEW o \in Op
  PROVE  Reaches(o) /\ Lives
BY DEF Tidy, Reaches, Lives, Exists

LEMMA OneReaches ==
  ASSUME Tidy, NEW o \in Op, NEW c \in ContainerId,
         \A d \in ContainerId \ {c} : containers'[d] = containers[d],
         Exists(c) => containers[c].service = svc[o], containers'[c].service = svc[o],
         containers'[c].life \in {"running", "stopped", "removed"}
  PROVE  Reaches(o) /\ Lives
BY DEF Tidy, Reaches, Lives, Exists, Alive

\* Others remember what they remembered.
LEMMA OthersRemember ==
  ASSUME TypeOK, NEW o \in Op, Mutation(o)
  PROVE  \A p \in Op \ {o} : stdout'[p] = stdout[p] /\ candidateID'[p] = candidateID[p]
<1>1. CASE CreateReplacement(o)
  <2>1. PICK c \in ContainerId, ok \in BOOLEAN, printed \in BOOLEAN :
          /\ stdout' = [stdout EXCEPT ![o] = IF printed THEN c ELSE NoId]
          /\ candidateID' = IF ok /\ printed THEN [candidateID EXCEPT ![o] = c]
                                             ELSE candidateID
    BY <1>1 DEF CreateReplacement
  <2> QED
    BY <2>1 DEF TypeOK, ReplacementTypeOK
<1>3. CASE ProbeCandidate(o)
  BY <1>3 DEF ProbeCandidate, TypeOK, ReplacementTypeOK
<1>2. CASE UNCHANGED progress
  BY <1>2 DEF progress
<1> QED
  BY <1>1, <1>2, <1>3 DEF Mutation, Resolve, Snapshot, RenameAway, StopOriginal, AwaitStopped,
     ArgumentsFail, CreateFails, VerifyReplacement, CheckHealth, Commit, RemoveBackup,
     Rollback, StopCandidate, RemoveCandidate, CheckCandidateGone, RestoreName,
     InspectRestored, RestartOriginal, AwaitRestored

\* A transaction on another service stands where it stood.
LEMMA OthersStand ==
  ASSUME IInv, IInv', ServInv, Tidy', NEW o \in Op, Reaches(o), pc[o] \notin Ended,
         NEW p \in Op \ {o}, pc'[p] = pc[p], Remembered(p),
         stdout'[p] = stdout[p], candidateID'[p] = candidateID[p]
  PROVE  Standing(p)'
<1>1. CASE pc[p] \in Ended
  BY <1>1 DEF Standing, Ended, Forward, Backward, Created, Restored
<1>2. CASE pc[p] \notin Ended /\ svc[p] \in Name
  <2>1. svc[p] # svc[o] /\ Standing(p) /\ TransactionOK(p) /\ TransactionOK(p)'
    BY <1>2 DEF IInv, OneAtATime, ServInv
  <2>2. /\ orig[p] \in ContainerId /\ svc[p] \in ContainerName
        /\ spawned[p] \subseteq ContainerId
        /\ ~(svc[p] \in ContainerId)
    BY <1>2, UnderWay, NamesDistinct DEF IInv, TypeOK, ReplacementTypeOK, Ended
  <2>3. containers'[orig[p]] = containers[orig[p]]
    BY <1>2, <2>1, <2>2 DEF TransactionOK, OriginalPlaced, Reaches, Holds, Ended
  <2>4. \A c \in ContainerId : Holds(c, svc[p]) => containers'[c] = containers[c]
    BY <1>2, <2>1, NameTellsService DEF IInv, ServInv, Reaches, Holds
  <2>5. \A c \in ContainerId : Holds(c, svc[p])' => containers'[c] = containers[c]
    <3> SUFFICES ASSUME NEW c \in ContainerId, Holds(c, svc[p])'
                 PROVE  containers'[c] = containers[c]
      OBVIOUS
    <3>1. Exists(c)' /\ containers'[c].name = svc[p] /\ svc'[p] = svc[p]
      BY DEF Holds, Remembered
    <3>2. containers'[c].service = svc[p]
      BY <1>2, <3>1, NamesFacts DEF IInv, NamedForService, Tidy
    <3> QED
      BY <2>1, <3>1, <3>2 DEF Reaches
  <2>6. Taken(svc[p])' => Taken(svc[p])
    BY <2>5 DEF Taken, Holds, Exists, Remembered
  <2>7. ASSUME pc[p] = "dropCheck", candidateID[p] # svc[p]
        PROVE  ~Exists(candidateID[p])'
    <3>1. candidateID[p] \in spawned[p]
      BY <2>1, <2>7 DEF TransactionOK, ReplacementPlaced
    <3>2. containers'[candidateID[p]].service = svc[p]
      BY <1>2, <2>1, <3>1 DEF TransactionOK, SpawnedPlaced, Remembered
    <3>3. ~Exists(candidateID[p])
      BY <2>1, <2>7 DEF Standing
    <3> QED
      BY <2>1, <2>2, <3>1, <3>2, <3>3 DEF Reaches, Exists
  <2>8. \A c \in ContainerId : Holds(c, svc[p]) => Holds(c, svc[p])'
    BY <2>4 DEF Holds, Exists, Remembered
  <2>9. /\ candidateID'[p] = candidateID[p] /\ stdout'[p] = stdout[p] /\ pc'[p] = pc[p]
        /\ svc'[p] = svc[p] /\ life'[p] = life[p] /\ orig'[p] = orig[p]
    BY DEF Remembered
  <2> QED
    BY <2>1, <2>2, <2>3, <2>4, <2>6, <2>7, <2>8, <2>9 DEF Standing
<1>3. CASE pc[p] = "resolve" /\ svc[p] \notin Name
  BY <1>3 DEF Standing, Remembered, Forward, Backward, Created, Restored
<1> QED
  BY <1>1, <1>2, <1>3 DEF IInv, TransactionOK, OriginalPlaced, Ended

\* So a step of transaction o keeps ServInv if it keeps o's part of it.
LEMMA StepKeepsServing ==
  ASSUME IInv, IInv', ServInv, NEW o \in Op, Mutation(o), Reaches(o), Lives, Standing(o)',
         svc[o] \in Name /\ Untouched(svc[o])' => Serves(svc[o])'
  PROVE  ServInv'
<1>1. TypeOK /\ pc[o] \notin Ended /\ UNCHANGED transaction
  BY MutationAlone DEF IInv
<1>2. \A p \in Op \ {o} : pc'[p] = pc[p] /\ Remembered(p)
  BY <1>1, MutationAlone
<1>3. svc' = svc /\ life' = life
  BY <1>1 DEF transaction
<1>4. /\ \A n \in Name : n # svc[o] => specs'[n] = specs[n]
      /\ svc[o] \in Name /\ specs[svc[o]] # NoSpec => specs'[svc[o]] # NoSpec
  <2>1. CASE Commit(o)
    BY <1>1, <2>1, NamesDistinct
       DEF Commit, CommitCandidateSpec, Fail, DiscardCandidateSpec, TypeOK, StoreTypeOK
  <2>2. CASE ~Commit(o)
    BY <1>1, <2>2, MutateTouches DEF MutateContainerPorts
  <2> QED
    BY <2>1, <2>2
<1>5. Tidy'
  <2> SUFFICES ASSUME NEW c \in ContainerId, Exists(c)'
               PROVE  /\ containers'[c].life \in {"running", "stopped"}
                      /\ containers'[c].service \in Name
                      /\ specs'[containers'[c].service] # NoSpec
    BY DEF Tidy
  <2>1. containers'[c].life \in {"running", "stopped"}
    BY DEF Lives
  <2>2. CASE containers'[c].service # svc[o]
    <3>1. containers'[c] = containers[c] /\ Exists(c)
      BY <2>2 DEF Reaches, Exists
    <3> QED
      BY <1>4, <2>1, <2>2, <3>1 DEF ServInv, Tidy
  <2>3. CASE containers'[c].service = svc[o]
    <3>1. CASE pc[o] = "resolve"
      <4>1. UNCHANGED containers /\ specs' = specs
        BY <1>1, <3>1 DEF Mutation, Resolve, Snapshot, RenameAway, StopOriginal,
           AwaitStopped, ArgumentsFail, CreateReplacement, CreateFails, ProbeCandidate,
           VerifyReplacement, CheckHealth, Commit, RemoveBackup, Rollback, StopCandidate,
           RemoveCandidate, CheckCandidateGone, RestoreName, InspectRestored,
           RestartOriginal, AwaitRestored, storeVars
      <4> QED
        BY <4>1 DEF ServInv, Tidy, Exists
    <3>2. CASE pc[o] # "resolve"
      <4>1. /\ orig[o] \in ContainerId /\ Exists(orig[o]) /\ containers[orig[o]].service = svc[o]
            /\ svc[o] \in Name
        BY <1>1, <3>2, OriginalHolds
      <4>2. specs[svc[o]] # NoSpec
        BY <4>1 DEF ServInv, Tidy
      <4> QED
        BY <1>4, <2>1, <2>3, <4>1, <4>2
    <3> QED
      BY <3>1, <3>2
  <2> QED
    BY <2>2, <2>3
<1>6. Agree'
  BY <1>1, <1>2, <1>3 DEF ServInv, Agree, Ended
<1>7. \A p \in Op : Standing(p)'
  BY <1>1, <1>2, <1>5, OthersRemember, OthersStand
<1>8. \A p \in Op : pc'[p] = "idle" => svc'[p] = NoName
  <2>1. pc'[o] # "idle"
    BY <1>1, Arrives DEF Mutation, Resolve, Snapshot, RenameAway, StopOriginal,
           AwaitStopped, ArgumentsFail, CreateReplacement, CreateFails, ProbeCandidate,
           VerifyReplacement, CheckHealth, Commit, RemoveBackup, Rollback, StopCandidate,
           RemoveCandidate, CheckCandidateGone, RestoreName, InspectRestored,
           RestartOriginal, AwaitRestored, TypeOK, ReplacementTypeOK
  <2> QED
    BY <1>2, <1>3, <2>1 DEF ServInv
<1>9. ASSUME NEW n \in Name, specs'[n] # NoSpec, Untouched(n)' PROVE Serves(n)'
  <2>1. CASE n = svc[o]
    BY <1>9, <2>1, <1>3 DEF Serves, Holds, Untouched
  <2>2. CASE n # svc[o]
    <3>1. Untouched(n) /\ specs[n] # NoSpec /\ specs'[n] = specs[n]
      BY <1>2, <1>3, <1>4, <1>9, <2>2 DEF Untouched
    <3>2. PICK c \in ContainerId :
            /\ Holds(c, n) /\ containers[c].service = n
            /\ containers[c].deployment = specs[n]
            /\ \A p \in Op : svc[p] = n => containers[c].life = life[p]
      BY <3>1 DEF ServInv, Serves
    <3>3. containers'[c] = containers[c]
      BY <2>2, <3>2 DEF Reaches, Holds
    <3> QED
      BY <1>3, <3>1, <3>2, <3>3 DEF Serves, Holds, Exists
  <2> QED
    BY <2>1, <2>2
<1>10. \A p \in Op : svc'[p] \in Name => specs'[svc'[p]] # NoSpec
  BY <1>3, <1>4 DEF ServInv
<1> QED
  BY <1>5, <1>6, <1>7, <1>8, <1>9, <1>10 DEF ServInv

-------------------------------------------------------------------------------

\* What a step of a transaction that has resolved its target starts from.
LEMMA FarFacts ==
  ASSUME IInv, ServInv, NEW o \in Op, pc[o] \notin Ended \cup {"resolve"}
  PROVE  /\ TypeOK /\ HostTypeOK /\ NamesUnique /\ Tidy
         /\ Standing(o) /\ TransactionOK(o)
         /\ orig[o] \in ContainerId /\ svc[o] \in Name /\ svc[o] \in ContainerName
         /\ life[o] \in {"running", "stopped"}
         /\ want[o] \in Deployment
         /\ Exists(orig[o]) /\ containers[orig[o]].service = svc[o]
         /\ \A c \in ContainerId : Holds(c, containers[orig[o]].name) => c = orig[o]
         /\ \A c \in ContainerId : Holds(c, svc[o]) => containers[c].service = svc[o]
         /\ \A c \in ContainerId : c # svc[o] /\ c # Backup[o]
         /\ specs[svc[o]] # NoSpec
<1>1. /\ TypeOK /\ HostTypeOK /\ NamesUnique /\ Tidy /\ NamedForService
      /\ Standing(o) /\ TransactionOK(o)
  BY DEF IInv, ServInv, TypeOK
<1>2. /\ orig[o] \in ContainerId /\ svc[o] \in Name /\ svc[o] \in ContainerName
      /\ Exists(orig[o]) /\ containers[orig[o]].service = svc[o]
      /\ \A c \in ContainerId : Holds(c, containers[orig[o]].name) => c = orig[o]
  BY OriginalHolds
<1>3. life[o] \in {"running", "stopped"} /\ want[o] \in Deployment
  BY <1>1, UnderWay DEF Ended
<1>4. \A c \in ContainerId : Holds(c, svc[o]) => containers[c].service = svc[o]
  BY <1>1, <1>2, NameTellsService
<1>5. \A c \in ContainerId : c # svc[o] /\ c # Backup[o]
  BY <1>2, NamesDistinct, NamesFacts
<1>6. specs[svc[o]] # NoSpec
  BY <1>1, <1>2 DEF Tidy
<1> QED
  BY <1>1, <1>2, <1>3, <1>4, <1>5, <1>6

\* Before the rename a service stays served.
LEMMA ServedStays ==
  ASSUME IInv, ServInv, NEW o \in Op, Mutation(o), pc[o] \in Preflight,
         UNCHANGED containers, specs' = specs, svc[o] \in Name, Untouched(svc[o])'
  PROVE  Serves(svc[o])'
<1>1. TypeOK /\ UNCHANGED transaction /\ \A p \in Op \ {o} : pc'[p] = pc[p]
  BY MutationAlone DEF IInv
<1>2. Untouched(svc[o])
  BY <1>1 DEF Untouched, transaction
<1>3. orig[o] \in ContainerId /\ Exists(orig[o]) /\ containers[orig[o]].service = svc[o]
  BY <1>1, UnderWay DEF IInv, TransactionOK, OriginalPlaced, Preflight, Ended, Holds
<1>4. specs[svc[o]] # NoSpec
  BY <1>3 DEF ServInv, Tidy
<1>5. Serves(svc[o])
  BY <1>2, <1>4 DEF ServInv
<1> QED
  BY <1>1, <1>5 DEF Serves, Holds, Exists, transaction

\* Once it is past the rename, and until it returns, nobody asks whether it is.
LEMMA NotYet ==
  ASSUME NEW o \in Op, svc'[o] = svc[o], pc'[o] \notin Preflight \cup {"done"}
  PROVE  ~Untouched(svc[o])'
BY DEF Untouched

LEMMA PreflightServes ==
  ASSUME IInv, IInv', ServInv, NEW o \in Op, Resolve(o) \/ Snapshot(o)
  PROVE  ServInv'
<1>1. Mutation(o) /\ TypeOK /\ Tidy
  BY DEF Mutation, IInv, ServInv
<1>2. UNCHANGED containers /\ specs' = specs /\ UNCHANGED transaction
  BY DEF Resolve, Snapshot, storeVars, WriteCandidateSpec, StoreUnchanged
<1>3. Reaches(o) /\ Lives
  BY <1>1, <1>2, StillReaches
<1>4. pc'[o] \in {"snapshot", "rename", "done"} /\ pc[o] \in {"resolve", "snapshot"}
  BY <1>1, Arrives DEF Resolve, Snapshot
<1>5. pc[o] = "resolve" /\ pc'[o] = "snapshot" => svc[o] \in Name
  <2>1. CASE svc[o] \in Name
    BY <2>1
  <2>2. CASE Resolve(o) /\ svc[o] \notin Name
    <3>1. Finish(o, "refused")
      BY <2>2 DEF Resolve, Authoritative
    <3> QED
      BY <1>1, <3>1, Arrives
  <2> QED
    BY <2>1, <2>2 DEF Snapshot
<1>6. Standing(o)'
  BY <1>1, <1>2, <1>4, <1>5, Arrives
     DEF ServInv, Standing, Resolve, Snapshot, transaction, Forward, Backward, Created, Restored
<1> QED
  BY <1>1, <1>2, <1>3, <1>4, <1>6, ServedStays, StepKeepsServing DEF Preflight

\* The steps that only look.
LEMMA LookServes ==
  ASSUME IInv, IInv', ServInv, ForwardFaultsOnly, NEW o \in Op,
         \/ AwaitStopped(o) \/ ArgumentsFail(o) \/ CreateFails(o) \/ ProbeCandidate(o)
         \/ VerifyReplacement(o) \/ CheckHealth(o) \/ Commit(o)
         \/ CheckCandidateGone(o) \/ InspectRestored(o)
  PROVE  ServInv'
<1> USE DEF Forward, Backward, Created, Restored
<1>1. /\ Mutation(o) /\ UNCHANGED containers /\ UNCHANGED transaction
      /\ pc[o] \notin Ended \cup {"resolve"}
  BY DEF Mutation, Rollback, AwaitStopped, ArgumentsFail, CreateFails, PodmanCreateFails,
     FailsCleanly, ProbeCandidate, VerifyReplacement, CheckHealth, Commit,
     CheckCandidateGone, InspectRestored, Ended
<1>2. /\ TypeOK /\ Tidy /\ Standing(o) /\ TransactionOK(o) /\ svc[o] \in Name
      /\ life[o] \in {"running", "stopped"}
      /\ \A c \in ContainerId : c # svc[o]
      /\ ~ListingMayFail
  BY <1>1, FarFacts DEF ForwardFaultsOnly, ListingMayFail
<1>3. Reaches(o) /\ Lives
  BY <1>1, <1>2, StillReaches
<1>4. /\ \A c : Exists(c)' <=> Exists(c)
      /\ \A c, n : Holds(c, n)' <=> Holds(c, n)
      /\ \A n : Taken(n)' <=> Taken(n)
      /\ svc'[o] = svc[o] /\ life'[o] = life[o] /\ orig'[o] = orig[o]
  BY <1>1 DEF Exists, Holds, Taken, transaction
<1>5. Standing(o)' /\ pc'[o] \notin Preflight \cup {"done"}
  <2>1. CASE AwaitStopped(o) \/ ArgumentsFail(o) \/ CreateFails(o)
    <3>1. /\ pc[o] \in {"stopping", "create"}
          /\ pc'[o] \in {"stopping", "create", "restore", "probe"}
      BY <1>2, <2>1, Arrives DEF AwaitStopped, ArgumentsFail, CreateFails
    <3> QED
      BY <1>1, <1>2, <1>4, <3>1 DEF Standing, Preflight
  <2>2. CASE ProbeCandidate(o)
    <3>1. /\ pc[o] = "probe"
          /\ \/ pc'[o] = "dropStop" /\ candidateID'[o] = svc[o]
             \/ pc'[o] = "restore" /\ ~Taken(svc[o])
      BY <1>2, <2>2, Arrives DEF ProbeCandidate, TypeOK, ReplacementTypeOK
    <3> QED
      BY <1>1, <1>2, <1>4, <3>1 DEF Standing, Preflight
  <2>3. CASE VerifyReplacement(o) \/ CheckHealth(o) \/ Commit(o)
    <3>1. /\ pc[o] \in {"verify", "health", "commit"}
          /\ \/ pc'[o] = pc[o]
             \/ pc'[o] = "dropStop"
             \/ pc'[o] \in {"health", "commit"} /\ pc[o] = "verify" /\ Up(o)
             \/ pc[o] = "health" /\ pc'[o] = "commit"
             \/ pc[o] = "commit" /\ pc'[o] = "cleanup"
      BY <1>2, <2>3, Arrives DEF VerifyReplacement, CheckHealth, Commit
    <3>2. /\ stdout'[o] = stdout[o] /\ candidateID'[o] = candidateID[o]
          /\ candidateID[o] = stdout[o]
      BY <1>2, <2>3, <3>1 DEF VerifyReplacement, CheckHealth, Commit, progress,
         TransactionOK, ReplacementPlaced
    <3> QED
      BY <1>1, <1>2, <1>4, <3>1, <3>2 DEF Standing, Preflight, Up
  <2>4. CASE CheckCandidateGone(o)
    <3>1. /\ pc[o] = "dropCheck" /\ ~Taken(svc[o])
          /\ (candidateID[o] # svc[o] =>
                candidateID[o] \in ContainerId /\ ~Exists(candidateID[o]))
      BY <1>2, <2>4 DEF CheckCandidateGone, Standing
    <3>2. ~Found(candidateID[o])
      <4>1. \A c \in ContainerId : Exists(c) => containers[c].name \in ContainerName
        BY <1>2 DEF TypeOK, HostTypeOK, Container, Unborn, Exists, Alive
      <4> QED
        BY <1>2, <3>1, <4>1, NamesDistinct DEF Found, Refers, Taken, Holds
    <3>3. pc'[o] = "restore"
      BY <1>2, <2>4, <3>2 DEF CheckCandidateGone, TypeOK, ReplacementTypeOK
    <3> QED
      BY <1>1, <1>2, <1>4, <3>1, <3>3 DEF Standing, Preflight
  <2>5. CASE InspectRestored(o)
    <3>1. pc[o] = "inspect" /\ Holds(orig[o], svc[o])
      BY <1>2, <2>5 DEF InspectRestored, Standing
    <3>2. pc'[o] = IF life[o] = "running" THEN "restart" ELSE "restarting"
      <4>1. Goto(o, IF life[o] = "running" THEN "restart" ELSE "restarting")
        BY <1>2, <2>5, <3>1 DEF InspectRestored
      <4> QED
        BY <1>2, <4>1 DEF Goto, TypeOK, ReplacementTypeOK
    <3> QED
      BY <1>1, <1>2, <1>4, <3>1, <3>2 DEF Standing, Preflight
  <2> QED
    BY <2>1, <2>2, <2>3, <2>4, <2>5
<1> QED
  BY <1>1, <1>3, <1>4, <1>5, NotYet, StepKeepsServing

\* Those that change the lifecycle of one container: the stops and the restart.
LEMMA LifeServes ==
  ASSUME IInv, IInv', ServInv, ForwardFaultsOnly, NEW o \in Op,
         StopOriginal(o) \/ StopCandidate(o) \/ RestartOriginal(o)
  PROVE  ServInv'
<1> USE DEF Forward, Backward, Created, Restored
<1>1. /\ Mutation(o) /\ UNCHANGED transaction /\ UNCHANGED progress
      /\ pc[o] \in {"stop", "dropStop", "restart"}
  BY DEF Mutation, Rollback, StopOriginal, StopCandidate, RestartOriginal
<1>2. /\ TypeOK /\ HostTypeOK /\ Tidy /\ Standing(o) /\ TransactionOK(o) /\ svc[o] \in Name
      /\ life[o] \in {"running", "stopped"}
      /\ orig[o] \in ContainerId /\ Exists(orig[o]) /\ containers[orig[o]].service = svc[o]
      /\ \A c \in ContainerId : Holds(c, containers[orig[o]].name) => c = orig[o]
      /\ \A c \in ContainerId : Holds(c, svc[o]) => containers[c].service = svc[o]
      /\ \A c \in ContainerId : c # svc[o] /\ c # Backup[o]
  BY <1>1, FarFacts DEF Ended
<1> DEFINE To == IF pc[o] = "restart" THEN "running" ELSE "stopped"
<1>3. \/ UNCHANGED containers /\ pc[o] # "restart"
      \/ \E c \in ContainerId :
           /\ Exists(c) /\ SetLife(c, To)
           /\ containers[c].service = svc[o]
           /\ pc[o] # "dropStop" => c = orig[o]
  <2>1. CASE StopOriginal(o)
    <3>1. \A c \in ContainerId : Refers(c, Backup[o]) => c = orig[o]
      <4>1. containers[orig[o]].name = Backup[o]
        BY <1>2, <2>1 DEF StopOriginal, TransactionOK, OriginalPlaced, Renamed
      <4> QED
        BY <1>2, <4>1 DEF Refers, Holds
    <3>2. pc[o] = "stop" /\ \E ok \in BOOLEAN : PodmanStop(Backup[o], ok)
      BY <2>1 DEF StopOriginal
    <3>3. To = "stopped"
      BY <3>2
    <3> QED
      BY <1>2, <3>1, <3>2, <3>3 DEF PodmanStop, FailsCleanly, Stoppable, Refers
  <2>2. CASE StopCandidate(o)
    <3>1. \A c \in ContainerId : Refers(c, candidateID[o]) => Holds(c, svc[o])
      <4>1. \A c \in ContainerId : Exists(c) => containers[c].name \in ContainerName
        BY <1>2 DEF HostTypeOK, Container, Unborn, Exists, Alive
      <4>2. CASE candidateID[o] = svc[o]
        BY <1>2, <4>2 DEF Refers, Holds
      <4>3. CASE candidateID[o] # svc[o]
        <5>1. candidateID[o] \in ContainerId /\ Holds(candidateID[o], svc[o])
          BY <1>2, <2>2, <4>3 DEF StopCandidate, Standing
        <5> QED
          BY <4>1, <5>1, NamesDistinct DEF Refers
      <4> QED
        BY <4>2, <4>3
    <3>2. /\ pc[o] = "dropStop"
          /\ (UNCHANGED containers \/ \E ok \in BOOLEAN : PodmanStop(candidateID[o], ok))
      BY <2>2 DEF StopCandidate
    <3>3. To = "stopped"
      BY <3>2
    <3>4. CASE UNCHANGED containers
      BY <3>2, <3>4
    <3>5. CASE \E c \in ContainerId : Refers(c, candidateID[o]) /\ SetLife(c, "stopped")
      BY <1>2, <3>1, <3>2, <3>3, <3>5 DEF Refers
    <3> QED
      BY <3>2, <3>4, <3>5 DEF PodmanStop, FailsCleanly, Stoppable
  <2>3. CASE RestartOriginal(o)
    <3>1. pc[o] = "restart" /\ Holds(orig[o], svc[o])
      BY <1>2, <2>3 DEF RestartOriginal, Standing
    <3>2. \A c \in ContainerId : Refers(c, svc[o]) => c = orig[o]
      BY <1>2, <3>1 DEF Refers, Holds
    <3>3. Stoppable(orig[o], svc[o])
      BY <1>2, <3>1 DEF Stoppable, Refers, Holds, Tidy
    <3>4. PICK ok \in BOOLEAN : PodmanStart(svc[o], ok)
      BY <2>3 DEF RestartOriginal
    <3>5. ~FailsCleanly("start", \E c \in ContainerId : Stoppable(c, svc[o]), ok)
      BY <1>2, <3>3 DEF FailsCleanly, ForwardFaultsOnly
    <3> QED
      BY <1>2, <3>1, <3>2, <3>4, <3>5 DEF PodmanStart, Stoppable, Refers
  <2> QED
    BY <2>1, <2>2, <2>3
<1>4. /\ Reaches(o) /\ Lives
      /\ \A c \in ContainerId : Kept(c)
      /\ To = "stopped" =>
           \A c \in ContainerId : containers[c].life = "stopped" => containers'[c].life = "stopped"
      /\ pc[o] = "restart" => containers'[orig[o]].life = "running"
  <2>1. CASE UNCHANGED containers /\ pc[o] # "restart"
    BY <1>2, <2>1, StillReaches, StillKeeps
  <2>2. ASSUME NEW c \in ContainerId, Exists(c), SetLife(c, To),
               containers[c].service = svc[o], pc[o] # "dropStop" => c = orig[o]
        PROVE  <1>4
    <3>1. containers[c].life # "unborn" /\ To \in Life \ {"unborn"} /\ To \in Alive
      BY <2>2 DEF Exists, Alive, Life
    <3>2. /\ \A d \in ContainerId : d # c => containers'[d] = containers[d]
          /\ SameRecord(c) /\ containers'[c].life = To
      BY <1>2, <2>2, <3>1, SetLifeFacts
    <3>3. Reaches(o) /\ Lives
      BY <1>2, <2>2, <3>2, OneReaches DEF SameRecord
    <3>4. \A d \in ContainerId : Kept(d)
      BY <1>2, <2>2, <3>1, AliveKeeps
    <3> QED
      BY <2>2, <3>2, <3>3, <3>4
  <2> QED
    BY <1>3, <2>1, <2>2
<1>5. /\ \A c \in ContainerId : Holds(c, svc[o])' <=> Holds(c, svc[o])
      /\ Taken(svc[o])' <=> Taken(svc[o])
      /\ svc'[o] = svc[o] /\ life'[o] = life[o] /\ orig'[o] = orig[o]
      /\ stdout'[o] = stdout[o] /\ candidateID'[o] = candidateID[o]
  BY <1>1, <1>4 DEF Holds, Taken, Kept, SameRecord, SameExistence, transaction, progress
<1>6. \/ pc[o] = "stop" /\ pc'[o] \in {"stopping", "restore"}
      \/ pc[o] = "dropStop" /\ pc'[o] = "dropRemove"
      \/ pc[o] = "restart" /\ pc'[o] = "restarting"
  BY <1>1, <1>2, Arrives DEF StopOriginal, StopCandidate, RestartOriginal
<1>7. Standing(o)' /\ pc'[o] \notin Preflight \cup {"done"}
  <2>1. CASE pc[o] = "stop"
    BY <1>2, <1>4, <1>5, <1>6, <2>1 DEF Standing, Preflight
  <2>2. CASE pc[o] = "dropStop"
    BY <1>2, <1>4, <1>5, <1>6, <2>2 DEF Standing, Preflight
  <2>3. CASE pc[o] = "restart"
    BY <1>2, <1>4, <1>5, <1>6, <2>3 DEF Standing, Preflight
  <2> QED
    BY <1>6, <2>1, <2>2, <2>3
<1> QED
  BY <1>1, <1>4, <1>5, <1>7, NotYet, StepKeepsServing

\* The two renames.
LEMMA RenameServes ==
  ASSUME IInv, IInv', ServInv, ForwardFaultsOnly, NEW o \in Op,
         RenameAway(o) \/ RestoreName(o)
  PROVE  ServInv'
<1> USE DEF Forward, Backward, Created, Restored
<1>1. /\ Mutation(o) /\ UNCHANGED transaction /\ UNCHANGED progress
      /\ pc[o] \in {"rename", "restore"} /\ specs' = specs
  BY DEF Mutation, Rollback, RenameAway, RestoreName, StoreUnchanged, DiscardCandidateSpec,
     storeVars
<1>2. /\ TypeOK /\ HostTypeOK /\ NamesUnique /\ Tidy /\ Standing(o) /\ TransactionOK(o)
      /\ svc[o] \in Name /\ svc[o] \in ContainerName
      /\ life[o] \in {"running", "stopped"}
      /\ orig[o] \in ContainerId /\ Exists(orig[o]) /\ containers[orig[o]].service = svc[o]
      /\ \A c \in ContainerId : Holds(c, containers[orig[o]].name) => c = orig[o]
      /\ Backup[o] \in ContainerName /\ Backup[o] # svc[o]
  BY <1>1, FarFacts, NamesFacts DEF Ended
<1>3. svc'[o] = svc[o] /\ life'[o] = life[o] /\ orig'[o] = orig[o]
  BY <1>1 DEF transaction
<1>4. ASSUME NEW from \in ContainerName, NEW to \in ContainerName, from # to, NEW ok,
             PodmanRename(from, to, ok), Holds(orig[o], from), ~UNCHANGED containers
      PROVE  /\ Reaches(o) /\ Lives
             /\ containers'[orig[o]].name = to
             /\ containers'[orig[o]].life = containers[orig[o]].life
             /\ \A d \in ContainerId \ {orig[o]} : containers'[d] = containers[d]
  <2>1. PICK c \in ContainerId : Holds(c, from) /\ containers' = [containers EXCEPT ![c].name = to]
    BY <1>4 DEF PodmanRename, FailsCleanly
  <2>2. c = orig[o]
    BY <1>2, <1>4, <2>1 DEF Holds
  <2>3. containers[c] \in [life: Life \ {"unborn"}, name: ContainerName,
                           service: ContainerName \cup {Unmanaged},
                           deployment: Deployment]
    BY <1>2, <2>1 DEF HostTypeOK, Container, Unborn, Holds, Exists, Alive
  <2>4. /\ \A d \in ContainerId : d # c => containers'[d] = containers[d]
        /\ containers'[c] = [containers[c] EXCEPT !.name = to]
    BY <1>2, <2>1 DEF HostTypeOK
  <2>5. /\ containers'[c].life = containers[c].life /\ containers'[c].service = svc[o]
        /\ containers'[c].name = to
    BY <1>2, <2>2, <2>3, <2>4
  <2>6. containers[c].life \in {"running", "stopped"}
    BY <1>2, <2>2 DEF Tidy
  <2>7. Reaches(o) /\ Lives
    <3>1. \A d \in ContainerId \ {c} : containers'[d] = containers[d]
      BY <2>4
    <3>2. /\ containers[c].service = svc[o]
          /\ containers'[c].life \in {"running", "stopped", "removed"}
      BY <1>2, <2>2, <2>5, <2>6
    <3> QED
      BY <1>2, <2>5, <3>1, <3>2, OneReaches
  <2> QED
    BY <2>2, <2>4, <2>5, <2>7
<1>5. CASE RenameAway(o)
  <2>1. PICK ok \in BOOLEAN :
          /\ PodmanRename(svc[o], Backup[o], ok)
          /\ \/ ok /\ Goto(o, IF life[o] = "running" THEN "stop" ELSE "create")
             \/ ~ok /\ Finish(o, "unchanged")
    BY <1>5 DEF RenameAway
  <2>2. pc[o] = "rename" /\ Holds(orig[o], svc[o]) /\ containers[orig[o]].life = life[o]
    BY <1>2, <1>5 DEF RenameAway, Holds, Standing, TransactionOK, OriginalPlaced
  <2>3. CASE ~ok
    <3>1. UNCHANGED containers /\ pc'[o] = "done"
      BY <1>2, <2>1, <2>3, Arrives DEF PodmanRename, Reports, ForwardFaultsOnly, FailsCleanly
    <3>2. Standing(o)' /\ Reaches(o) /\ Lives
      BY <1>2, <3>1, StillReaches DEF Standing
    <3> QED
      BY <1>1, <1>2, <2>2, <3>1, <3>2, ServedStays, StepKeepsServing DEF Preflight
  <2>4. CASE ok
    <3>1. /\ Reaches(o) /\ Lives
          /\ containers'[orig[o]].name = Backup[o]
          /\ containers'[orig[o]].life = containers[orig[o]].life
          /\ \A d \in ContainerId \ {orig[o]} : containers'[d] = containers[d]
      <4>1. ~UNCHANGED containers
        <5>1. PICK c \in ContainerId :
                Holds(c, svc[o]) /\ containers' = [containers EXCEPT ![c].name = Backup[o]]
          BY <2>1, <2>4 DEF PodmanRename, FailsCleanly
        <5>2. containers[c] \in [life: Life \ {"unborn"}, name: ContainerName,
                                 service: ContainerName \cup {Unmanaged},
                                 deployment: Deployment]
          BY <1>2, <5>1 DEF HostTypeOK, Container, Unborn, Holds, Exists, Alive
        <5>3. containers'[c] = [containers[c] EXCEPT !.name = Backup[o]]
          BY <1>2, <5>1 DEF HostTypeOK
        <5>4. containers'[c].name # containers[c].name
          BY <1>2, <5>1, <5>2, <5>3 DEF Holds
        <5> QED
          BY <5>4
      <4> QED
        BY <1>2, <1>4, <2>1, <2>2, <4>1
    <3>2. ~Taken(svc[o])'
      BY <1>2, <1>3, <2>2, <3>1 DEF Taken, Holds, Exists
    <3>3. pc'[o] = IF life[o] = "running" THEN "stop" ELSE "create"
      BY <1>2, <2>1, <2>4 DEF Goto, TypeOK, ReplacementTypeOK
    <3>4. Standing(o)' /\ pc'[o] \notin Preflight \cup {"done"}
      BY <1>2, <1>3, <2>2, <3>1, <3>2, <3>3 DEF Standing, Preflight
    <3> QED
      BY <1>1, <1>3, <3>1, <3>4, NotYet, StepKeepsServing
  <2> QED
    BY <2>3, <2>4
<1>6. CASE RestoreName(o)
  <2>1. PICK ok \in BOOLEAN : PodmanRename(Backup[o], svc[o], ok)
    BY <1>6 DEF RestoreName
  <2>2. pc[o] = "restore" /\ Holds(orig[o], Backup[o]) /\ ~Taken(svc[o])
    BY <1>2, <1>6 DEF RestoreName, Holds, Standing, TransactionOK, OriginalPlaced, Renamed
  <2>3. /\ Reaches(o) /\ Lives
        /\ containers'[orig[o]].name = svc[o]
        /\ containers'[orig[o]].life = containers[orig[o]].life
    <3>1. PICK c \in ContainerId :
            Holds(c, Backup[o]) /\ containers' = [containers EXCEPT ![c].name = svc[o]]
      BY <1>2, <2>1, <2>2 DEF PodmanRename, FailsCleanly, ForwardFaultsOnly, Taken
    <3>2. containers[c] \in [life: Life \ {"unborn"}, name: ContainerName,
                             service: ContainerName \cup {Unmanaged},
                             deployment: Deployment]
      BY <1>2, <3>1 DEF HostTypeOK, Container, Unborn, Holds, Exists, Alive
    <3>3. containers'[c] = [containers[c] EXCEPT !.name = svc[o]]
      BY <1>2, <3>1 DEF HostTypeOK
    <3>4. containers'[c].name # containers[c].name
      BY <1>2, <3>1, <3>2, <3>3 DEF Holds
    <3> QED
      BY <1>2, <1>4, <2>1, <2>2, <3>4
  <2>4. pc'[o] = "inspect"
    BY <1>2, <1>6, Arrives DEF RestoreName
  <2>5. Standing(o)' /\ pc'[o] \notin Preflight \cup {"done"}
    <3>1. Holds(orig[o], svc[o])'
      BY <1>3, <2>2, <2>3 DEF Holds, Exists
    <3> QED
      BY <1>2, <1>3, <2>2, <2>3, <2>4, <3>1 DEF Standing, Preflight
  <2> QED
    BY <1>1, <1>3, <2>3, <2>5, NotYet, StepKeepsServing
<1> QED
  BY <1>5, <1>6

\* The creation: of a container that is sought, or under whose ID the rollback runs.
LEMMA CreateServes ==
  ASSUME IInv, IInv', ServInv, ForwardFaultsOnly, NEW o \in Op, CreateReplacement(o)
  PROVE  ServInv'
<1> USE DEF Forward, Backward, Created, Restored
<1>1. /\ Mutation(o) /\ UNCHANGED transaction
      /\ pc[o] = "create"
  BY DEF Mutation, CreateReplacement
<1>2. /\ TypeOK /\ HostTypeOK /\ Tidy /\ Standing(o)
      /\ svc[o] \in ContainerName /\ life[o] \in {"running", "stopped"}
      /\ orig[o] \in ContainerId /\ Exists(orig[o])
  BY <1>1, FarFacts DEF Ended
<1>3. PICK c \in ContainerId, ok \in BOOLEAN, printed \in BOOLEAN :
        /\ PodmanCreate(c, svc[o], svc[o], want[o], life[o], ok)
        /\ ok /\ ~printed => "anonymous" \in Faults
        /\ stdout' = [stdout EXCEPT ![o] = IF printed THEN c ELSE NoId]
        /\ \/ ok /\ printed /\ Goto(o, "verify")
           \/ ok /\ ~printed
           \/ ~ok /\ Goto(o, "probe")
  BY <1>1 DEF CreateReplacement
<1>4. /\ \A d \in ContainerId : d # c => containers'[d] = containers[d]
      /\ containers[c] = Unborn
      /\ containers'[c].name = svc[o]
      /\ containers'[c].service = svc[o]
      /\ containers'[c].life \in {"running", "stopped"}
  <2>1. /\ HostTypeOK /\ svc[o] \in ContainerName /\ life[o] \in {"running", "stopped"}
        /\ PodmanCreate(c, svc[o], svc[o], want[o], life[o], ok)
    BY <1>2, <1>3
  <2>2. PICK d \in Deployment :
          containers' = [containers EXCEPT ![c] =
             [life |-> IF ok THEN life[o] ELSE "stopped", name |-> svc[o],
              service |-> svc[o], deployment |-> d]]
    BY <2>1 DEF PodmanCreate
  <2>3. containers[c] = Unborn
    BY <2>1 DEF PodmanCreate, HostTypeOK, Container
  <2> QED
    BY <2>1, <2>2, <2>3 DEF HostTypeOK
<1>5. ~Exists(c) /\ c # orig[o]
  BY <1>2, <1>4 DEF Unborn, Exists, Alive
<1>6. Reaches(o) /\ Lives
  BY <1>2, <1>4, <1>5, OneReaches
<1>7. svc'[o] = svc[o] /\ life'[o] = life[o] /\ orig'[o] = orig[o]
  BY <1>1 DEF transaction
<1>8. \/ pc'[o] = "probe"
      \/ pc'[o] = "verify" /\ stdout'[o] = c
  BY <1>2, <1>3, Arrives DEF ForwardFaultsOnly, TypeOK, ReplacementTypeOK
<1>9. Holds(c, svc[o])' /\ containers'[orig[o]] = containers[orig[o]]
  BY <1>2, <1>4, <1>5, <1>7 DEF Holds, Exists, Alive
<1>10. Standing(o)' /\ pc'[o] \notin Preflight \cup {"done"}
  BY <1>1, <1>2, <1>7, <1>8, <1>9 DEF Standing, Preflight
<1> QED
  BY <1>1, <1>6, <1>7, <1>10, NotYet, StepKeepsServing

\* What a removal by force leaves, when it cannot fail.
LEMMA RemoveWorks ==
  ASSUME HostTypeOK, "rm" \notin Faults, NEW ident, NEW ok, PodmanForceRemove(ident, ok)
  PROVE  \/ UNCHANGED containers /\ ~Found(ident)
         \/ \E c \in ContainerId :
              /\ Refers(c, ident)
              /\ \A d \in ContainerId \ {c} : containers'[d] = containers[d]
              /\ SameRecord(c) /\ containers'[c].life = "removed"
<1>1. CASE \E c \in ContainerId : Refers(c, ident) /\ SetLife(c, "removed")
  <2>1. PICK c \in ContainerId : Refers(c, ident) /\ SetLife(c, "removed")
    BY <1>1
  <2>2. containers[c].life # "unborn" /\ "removed" \in Life \ {"unborn"}
    BY <2>1 DEF Refers, Exists, Alive, Life
  <2> QED
    BY <2>1, <2>2, SetLifeFacts
<1> QED
  BY <1>1 DEF PodmanForceRemove, FailsCleanly

\* The failed replacement goes, and with it goes the name.
LEMMA DropServes ==
  ASSUME IInv, IInv', ServInv, ForwardFaultsOnly, NEW o \in Op, RemoveCandidate(o)
  PROVE  ServInv'
<1> USE DEF Forward, Backward, Created, Restored
<1>1. /\ Mutation(o) /\ UNCHANGED transaction /\ UNCHANGED progress
      /\ pc[o] = "dropRemove"
  BY DEF Mutation, Rollback, RemoveCandidate
<1>2. /\ TypeOK /\ HostTypeOK /\ NamesUnique /\ Tidy /\ Standing(o) /\ TransactionOK(o)
      /\ svc[o] \in ContainerName
      /\ orig[o] \in ContainerId /\ Exists(orig[o])
      /\ \A c \in ContainerId : Holds(c, svc[o]) => containers[c].service = svc[o]
      /\ \A c \in ContainerId : c # svc[o] /\ c # Backup[o]
  BY <1>1, FarFacts DEF Ended
<1>3. /\ \A c \in ContainerId : Exists(c) => containers[c].name \in ContainerName
      /\ Backup[o] # svc[o] /\ containers[orig[o]].name = Backup[o]
  BY <1>1, <1>2, FarFacts, NamesFacts
     DEF HostTypeOK, Container, Unborn, Exists, Alive, TransactionOK, OriginalPlaced, Renamed, Ended
<1>4. \/ candidateID[o] = svc[o]
      \/ candidateID[o] \in ContainerId /\ Holds(candidateID[o], svc[o])
  BY <1>1, <1>2 DEF Standing
<1>5. \A c \in ContainerId :
        /\ Refers(c, candidateID[o]) => Holds(c, svc[o]) /\ c # orig[o]
        /\ Holds(c, svc[o]) => Refers(c, candidateID[o])
  <2>1. CASE candidateID[o] = svc[o]
    BY <1>2, <1>3, <2>1 DEF Refers, Holds
  <2>2. CASE candidateID[o] \in ContainerId /\ Holds(candidateID[o], svc[o])
    BY <1>2, <1>3, <2>2, NamesDistinct DEF Refers, Holds, NamesUnique
  <2> QED
    BY <1>4, <2>1, <2>2
<1>6. \/ UNCHANGED containers /\ ~Found(candidateID[o])
      \/ \E c \in ContainerId :
           /\ Refers(c, candidateID[o])
           /\ \A d \in ContainerId \ {c} : containers'[d] = containers[d]
           /\ SameRecord(c) /\ containers'[c].life = "removed"
  <2>1. candidateID[o] # NoId
    BY <1>2, <1>4, NamesDistinct
  <2> QED
    BY <1>2, <2>1, RemoveWorks DEF RemoveCandidate, ForwardFaultsOnly
<1>7. svc'[o] = svc[o] /\ life'[o] = life[o] /\ orig'[o] = orig[o]
      /\ candidateID'[o] = candidateID[o]
  BY <1>1 DEF transaction, progress
<1>8. /\ Reaches(o) /\ Lives
      /\ containers'[orig[o]] = containers[orig[o]]
      /\ ~Taken(svc[o])'
      /\ candidateID[o] \in ContainerId => ~Exists(candidateID[o])'
  <2>1. CASE UNCHANGED containers /\ ~Found(candidateID[o])
    <3>1. Reaches(o) /\ Lives
      BY <1>2, <2>1, StillReaches
    <3>2. ~Taken(svc[o]) /\ (candidateID[o] \in ContainerId => ~Exists(candidateID[o]))
      BY <1>5, <2>1 DEF Found, Taken, Refers
    <3> QED
      BY <1>7, <2>1, <3>1, <3>2 DEF Taken, Holds, Exists
  <2>2. ASSUME NEW c \in ContainerId, Refers(c, candidateID[o]),
               \A d \in ContainerId \ {c} : containers'[d] = containers[d],
               SameRecord(c), containers'[c].life = "removed"
        PROVE  <1>8
    <3>1. Holds(c, svc[o]) /\ c # orig[o] /\ containers[c].service = svc[o]
      BY <1>2, <1>5, <2>2
    <3>2. Reaches(o) /\ Lives
      BY <1>2, <2>2, <3>1, OneReaches DEF SameRecord
    <3>3. ~Exists(c)'
      BY <2>2 DEF Exists, Alive
    <3>4. \A d \in ContainerId : Holds(d, svc[o]) => d = c
      BY <1>2, <3>1 DEF NamesUnique, Holds
    <3>5. ~Taken(svc[o])'
      BY <1>7, <2>2, <3>3, <3>4 DEF Taken, Holds, Exists
    <3>6. candidateID[o] \in ContainerId => candidateID[o] = c
      BY <1>2, <1>4, <3>4
    <3> QED
      BY <1>2, <1>7, <2>2, <3>1, <3>2, <3>3, <3>5, <3>6
  <2> QED
    BY <1>6, <2>1, <2>2
<1>9. pc'[o] = "dropCheck"
  BY <1>2, Arrives DEF RemoveCandidate
<1>10. Standing(o)' /\ pc'[o] \notin Preflight \cup {"done"}
  BY <1>1, <1>2, <1>4, <1>7, <1>8, <1>9 DEF Standing, Preflight
<1> QED
  BY <1>1, <1>7, <1>8, <1>10, NotYet, StepKeepsServing

\* The original goes, and the replacement serves.
LEMMA CleanupServes ==
  ASSUME IInv, IInv', ServInv, ForwardFaultsOnly, NEW o \in Op, RemoveBackup(o)
  PROVE  ServInv'
<1> USE DEF Forward, Backward, Created, Restored
<1>1. /\ Mutation(o) /\ UNCHANGED transaction /\ UNCHANGED progress
      /\ pc[o] = "cleanup" /\ specs' = specs
  BY DEF Mutation, RemoveBackup, storeVars
<1>2. /\ TypeOK /\ HostTypeOK /\ Tidy /\ Standing(o) /\ TransactionOK(o)
      /\ svc[o] \in Name /\ orig[o] \in ContainerId
      /\ containers[orig[o]].service = svc[o]
      /\ \A c \in ContainerId : Holds(c, containers[orig[o]].name) => c = orig[o]
      /\ \A c \in ContainerId : c # svc[o] /\ c # Backup[o]
  BY <1>1, FarFacts DEF Ended
<1>3. \A c \in ContainerId : Refers(c, Backup[o]) => c = orig[o]
  <2>1. containers[orig[o]].name = Backup[o]
    BY <1>1, <1>2 DEF TransactionOK, OriginalPlaced, Renamed
  <2> QED
    BY <1>2, <2>1 DEF Refers, Holds
<1>4. /\ stdout[o] \in ContainerId /\ stdout[o] # orig[o]
      /\ Holds(stdout[o], svc[o]) /\ containers[stdout[o]].life = life[o]
      /\ containers[stdout[o]].service = svc[o]
      /\ containers[stdout[o]].deployment = specs[svc[o]]
  BY <1>1, <1>2 DEF Standing, TransactionOK, ReplacementPlaced, SpawnedPlaced, CandidateStaged,
     Ended
<1>5. /\ Reaches(o) /\ Lives
      /\ containers'[stdout[o]] = containers[stdout[o]]
  <2>1. CASE UNCHANGED containers
    BY <1>2, <2>1, StillReaches
  <2>2. ASSUME NEW c \in ContainerId, Refers(c, Backup[o]),
               \A d \in ContainerId \ {c} : containers'[d] = containers[d],
               SameRecord(c), containers'[c].life = "removed"
        PROVE  <1>5
    <3>1. c = orig[o] /\ containers[c].service = svc[o]
      BY <1>2, <1>3, <2>2
    <3>2. Reaches(o) /\ Lives
      BY <1>2, <2>2, <3>1, OneReaches DEF SameRecord
    <3> QED
      BY <1>4, <2>2, <3>1, <3>2
  <2> QED
    BY <1>2, <2>1, <2>2, RemoveWorks DEF RemoveBackup, ForwardFaultsOnly
<1>6. /\ pc'[o] = "done" /\ svc' = svc /\ life' = life
      /\ \A p \in Op \ {o} : pc'[p] = pc[p]
  <2>1. \E result : Finish(o, result)
    BY DEF RemoveBackup
  <2> QED
    BY <1>1, <1>2, <2>1 DEF Finish, TypeOK, ReplacementTypeOK, transaction
<1>7. Standing(o)'
  BY <1>6 DEF Standing
<1>8. ASSUME Untouched(svc[o])' PROVE Serves(svc[o])'
  <2>1. \A p \in Op : svc[p] = svc[o] => pc[p] # "crashed"
    BY <1>1, <1>6, <1>8 DEF Untouched, Preflight
  <2>2. \A p \in Op : svc[p] = svc[o] => life[p] = life[o]
    BY <1>2, <2>1 DEF ServInv, Agree
  <2> QED
    BY <1>1, <1>4, <1>5, <1>6, <2>2 DEF Serves, Holds, Exists
<1> QED
  BY <1>1, <1>5, <1>7, <1>8, StepKeepsServing

\* The original is back, and serves.
LEMMA RestoredServes ==
  ASSUME IInv, IInv', ServInv, ForwardFaultsOnly, NEW o \in Op, AwaitRestored(o)
  PROVE  ServInv'
<1> USE DEF Forward, Backward, Created, Restored
<1>1. /\ Mutation(o) /\ UNCHANGED transaction /\ UNCHANGED containers
      /\ pc[o] = "restarting" /\ specs' = specs
  BY DEF Mutation, Rollback, AwaitRestored, storeVars
<1>2. /\ TypeOK /\ Tidy /\ Standing(o) /\ TransactionOK(o)
      /\ svc[o] \in Name /\ orig[o] \in ContainerId
      /\ containers[orig[o]].service = svc[o]
  BY <1>1, FarFacts DEF Ended
<1>3. /\ Holds(orig[o], svc[o]) /\ containers[orig[o]].life = life[o]
      /\ containers[orig[o]].deployment = specs[svc[o]]
  BY <1>1, <1>2 DEF Standing, TransactionOK, OriginalPlaced, Uncommitted
<1>4. Reaches(o) /\ Lives
  BY <1>1, <1>2, StillReaches
<1>5. Finish(o, "rolledBack")
  BY <1>3 DEF AwaitRestored, OriginalRestored, ForwardFaultsOnly, ListingMayFail
<1>6. /\ pc'[o] = "done" /\ svc' = svc /\ life' = life
      /\ \A p \in Op \ {o} : pc'[p] = pc[p]
  BY <1>1, <1>2, <1>5 DEF Finish, TypeOK, ReplacementTypeOK, transaction
<1>7. Standing(o)'
  BY <1>6 DEF Standing
<1>8. ASSUME Untouched(svc[o])' PROVE Serves(svc[o])'
  <2>1. \A p \in Op : svc[p] = svc[o] => pc[p] # "crashed"
    BY <1>1, <1>6, <1>8 DEF Untouched, Preflight
  <2>2. \A p \in Op : svc[p] = svc[o] => life[p] = life[o]
    BY <1>2, <2>1 DEF ServInv, Agree
  <2> QED
    BY <1>1, <1>2, <1>3, <1>6, <2>2 DEF Serves, Holds, Exists
<1> QED
  BY <1>1, <1>4, <1>7, <1>8, StepKeepsServing

\* A request finds the service in the lifecycle all before it found it in.
LEMMA RequestServes ==
  ASSUME IInv, ServInv, Serial, NEW o \in Op, NEW c \in ContainerId, NEW d \in Deployment,
         Request(o, c, d)
  PROVE  ServInv'
<1> USE DEF Forward, Backward, Created, Restored
<1>1. /\ TypeOK /\ HostTypeOK /\ NamesUnique /\ NamedForService /\ Tidy
      /\ pc[o] = "idle" /\ Exists(c) /\ ~Busy(containers[c].name)
      /\ UNCHANGED <<containers, specs, candidates, stdout, candidateID, spawned>>
  BY DEF IInv, TypeOK, ServInv, Request, storeVars, progress
<1>2. containers[c].life \in {"running", "stopped"} /\ containers[c].service \in Name
  BY <1>1 DEF Tidy
<1>3. life' = [life EXCEPT ![o] = containers[c].life] /\ Goto(o, "resolve")
  BY <1>2, NamesFacts DEF Request
<1>4. /\ pc'[o] = "resolve" /\ orig'[o] = c /\ svc'[o] = containers[c].name
      /\ life'[o] = containers[c].life
      /\ \A p \in Op \ {o} : /\ pc'[p] = pc[p] /\ orig'[p] = orig[p] /\ svc'[p] = svc[p]
                            /\ life'[p] = life[p]
  BY <1>1, <1>3, Arrives DEF Request, Goto, TypeOK, ReplacementTypeOK
<1>5. Tidy'
  BY <1>1 DEF Tidy, Exists
<1>6. ASSUME NEW p \in Op PROVE Standing(p)'
  <2>1. CASE p = o
    BY <1>1, <1>4, <2>1 DEF Standing
  <2>2. CASE p # o
    BY <1>1, <1>4, <2>2 DEF ServInv, Standing, Taken, Holds, Exists
  <2> QED
    BY <2>1, <2>2
<1>7. \A p \in Op : pc'[p] = "idle" => svc'[p] = NoName
  BY <1>4 DEF ServInv
<1>8. ASSUME NEW p \in Op \ {o}, svc[p] = svc'[o], svc[p] \in Name,
             \A q \in Op : svc'[q] = svc[p] => pc'[q] # "crashed"
      PROVE  life[p] = life'[o]
  <2>1. \A q \in Op : svc[q] = svc[p] => q # o
    BY <1>1, <1>8, NamesDistinct DEF ServInv, ContainerName
  <2>2. \A q \in Op : svc[q] = svc[p] => pc[q] = "done"
    BY <1>1, <1>4, <1>8, <2>1, NamesDistinct DEF Busy, Ended, ServInv, ContainerName
  <2>3. Untouched(svc[p])
    BY <2>2 DEF Untouched
  <2>4. Holds(c, svc[p]) /\ containers[c].service = svc[p]
    BY <1>1, <1>4, <1>8, NameTellsService DEF Holds
  <2>5. specs[svc[p]] # NoSpec
    BY <1>1, <2>4 DEF Tidy
  <2>6. PICK x \in ContainerId :
          Holds(x, svc[p]) /\ \A q \in Op : svc[q] = svc[p] => containers[x].life = life[q]
    BY <1>8, <2>3, <2>5 DEF ServInv, Serves
  <2>7. x = c
    BY <1>1, <2>4, <2>6 DEF NamesUnique, Holds
  <2> QED
    BY <1>4, <2>6, <2>7
<1>9. Agree'
  <2> SUFFICES ASSUME NEW p \in Op, NEW q \in Op, svc'[p] = svc'[q], svc'[p] \in Name,
                      \A r \in Op : svc'[r] = svc'[p] => pc'[r] # "crashed"
               PROVE  life'[p] = life'[q]
    BY DEF Agree
  <2>1. CASE p = o \/ q = o
    BY <1>4, <1>8, <2>1
  <2>2. CASE p # o /\ q # o
    <3>1. svc[p] = svc[q] /\ svc[p] \in Name
      BY <1>4, <2>2
    <3>2. \A r \in Op : svc[r] = svc[p] => pc[r] # "crashed"
      BY <1>1, <1>4, <2>2
    <3> QED
      BY <1>4, <2>2, <3>1, <3>2 DEF ServInv, Agree
  <2> QED
    BY <2>1, <2>2
<1>10. ASSUME NEW n \in Name, specs[n] # NoSpec, Untouched(n)' PROVE Serves(n)'
  <2>1. \A p \in Op : svc[p] = n => p # o
    BY <1>1, <1>10, NamesDistinct DEF ServInv, ContainerName
  <2>2. Untouched(n)
    BY <1>4, <1>10, <2>1 DEF Untouched
  <2>3. PICK x \in ContainerId :
          /\ Holds(x, n) /\ containers[x].service = n /\ containers[x].deployment = specs[n]
          /\ \A p \in Op : svc[p] = n => containers[x].life = life[p]
    BY <1>10, <2>2 DEF ServInv, Serves
  <2>4. svc'[o] = n => x = c
    BY <1>1, <1>4, <2>3 DEF NamesUnique, Holds
  <2>5. \A p \in Op : svc'[p] = n => containers[x].life = life'[p]
    BY <1>4, <2>1, <2>3, <2>4
  <2> QED
    BY <1>1, <2>3, <2>5 DEF Serves, Holds, Exists
<1>11. ASSUME NEW p \in Op, svc'[p] \in Name PROVE specs[svc'[p]] # NoSpec
  <2>1. CASE p = o
    <3>1. containers[c].service = svc'[o]
      BY <1>1, <1>4, <1>11, <2>1, NameTellsService DEF Holds
    <3> QED
      BY <1>1, <2>1, <3>1 DEF Tidy
  <2>2. CASE p # o
    BY <1>4, <1>11, <2>2 DEF ServInv
  <2> QED
    BY <2>1, <2>2
<1> QED
  BY <1>1, <1>5, <1>6, <1>7, <1>9, <1>10, <1>11 DEF ServInv

\* Podder dies: nobody claims anything of the services it was at work on.
LEMMA CrashServes ==
  ASSUME IInv, ServInv, Crash \/ UNCHANGED vars
  PROVE  ServInv'
<1>1. /\ UNCHANGED <<containers, specs, orig, svc, life, stdout, candidateID>>
      /\ \A p \in Op : pc'[p] = pc[p] \/ (pc[p] \notin Ended /\ pc'[p] = "crashed")
  BY DEF Crash, vars, storeVars, transaction, progress
<1>2. Tidy'
  BY <1>1 DEF ServInv, Tidy, Exists
<1>3. ASSUME NEW p \in Op PROVE Standing(p)'
  <2>1. CASE pc'[p] = "crashed"
    BY <2>1 DEF Standing, Forward, Backward, Created, Restored
  <2>2. CASE pc'[p] = pc[p]
    BY <1>1, <2>2 DEF ServInv, Standing, Taken, Holds, Exists
  <2> QED
    BY <1>1, <2>1, <2>2
<1>4. Agree'
  BY <1>1 DEF ServInv, Agree
<1>5. ASSUME NEW n \in Name, specs[n] # NoSpec, Untouched(n)' PROVE Serves(n)'
  <2>1. Untouched(n)
    BY <1>1, <1>5 DEF Untouched, Preflight
  <2>2. Serves(n)
    BY <1>5, <2>1 DEF ServInv
  <2> QED
    BY <1>1, <2>2 DEF Serves, Holds, Exists
<1>6. \A p \in Op : pc'[p] = "idle" => svc'[p] = NoName
  BY <1>1 DEF ServInv
<1>7. \A p \in Op : svc'[p] \in Name => specs'[svc'[p]] # NoSpec
  BY <1>1 DEF ServInv
<1> QED
  BY <1>1, <1>2, <1>3, <1>4, <1>5, <1>6, <1>7 DEF ServInv

LEMMA InitServes == Init => ServInv
<1> SUFFICES ASSUME Init PROVE ServInv
  OBVIOUS
<1>1. PICK deployed \in [Name -> Deployment], up \in [Name -> {"running", "stopped"}] :
        /\ containers = [c \in ContainerId |->
             IF Home[c] = NoName THEN Unborn
             ELSE [life |-> up[Home[c]], name |-> Home[c], service |-> Home[c],
                   deployment |-> deployed[Home[c]]]]
        /\ specs = [n \in Name |->
             IF \E c \in ContainerId : Home[c] = n THEN deployed[n] ELSE NoSpec]
  BY DEF Init
<1>2. /\ pc = [o \in Op |-> "idle"] /\ svc = [o \in Op |-> NoName]
      /\ NoName \notin Name
  BY NamesFacts, NamesDistinct DEF Init, Quiet
<1>3. \A c \in ContainerId :
        Exists(c) => /\ Home[c] \in Name
                     /\ containers[c] = [life |-> up[Home[c]], name |-> Home[c],
                                         service |-> Home[c], deployment |-> deployed[Home[c]]]
  BY <1>1, ReplacementAssumption DEF Exists, Alive, Unborn
<1>4. Tidy
  <2> SUFFICES ASSUME NEW c \in ContainerId, Exists(c)
               PROVE  /\ containers[c].life \in {"running", "stopped"}
                      /\ containers[c].service \in Name
                      /\ specs[containers[c].service] # NoSpec
    BY DEF Tidy
  <2>1. /\ Home[c] \in Name /\ containers[c].service = Home[c]
        /\ containers[c].life = up[Home[c]]
    <3>1. /\ Home[c] \in Name
          /\ containers[c] = [life |-> up[Home[c]], name |-> Home[c],
                              service |-> Home[c], deployment |-> deployed[Home[c]]]
      BY <1>3
    <3> QED
      BY <3>1
  <2>2. specs[Home[c]] = deployed[Home[c]]
    BY <1>1, <2>1
  <2>3. deployed[Home[c]] # NoSpec /\ up[Home[c]] \in {"running", "stopped"}
    BY <2>1, NamesDistinct
  <2> QED
    BY <2>1, <2>2, <2>3
<1>5. ASSUME NEW n \in Name, specs[n] # NoSpec PROVE Serves(n)
  <2>1. PICK c \in ContainerId : Home[c] = n
    BY <1>1, <1>5
  <2>2. Home[c] # NoName
    BY <1>2, <2>1
  <2> QED
    BY <1>1, <1>2, <2>1, <2>2 DEF Serves, Holds, Exists, Alive
<1> QED
  BY <1>2, <1>4, <1>5
     DEF ServInv, Agree, Standing, Forward, Backward, Created, Restored

\* A transaction that returns leaves the service served, whatever on its way forward
\* failed, as long as its renames and what its rollback does take effect and
\* nobody interferes.
THEOREM ServesAlwaysAsStored ==
  ASSUME Serial, ForwardFaultsOnly
  PROVE  Spec => []ServesAsStored
<1>1. IInv /\ IInv' /\ ServInv /\ [Next]_vars => ServInv'
  <2> SUFFICES ASSUME IInv, IInv', ServInv, [Next]_vars PROVE ServInv'
    OBVIOUS
  <2>1. ASSUME NEW o \in Op, MutateContainerPorts(o) PROVE ServInv'
    BY <2>1, RequestServes, PreflightServes, LookServes, LifeServes, RenameServes,
       CreateServes, DropServes, CleanupServes, RestoredServes
       DEF MutateContainerPorts, Mutation, Rollback
  <2>2. ~Environment
    BY DEF Environment, HostMoves, Exits, Restarts, Pauses, ForeignRun, ForeignRemove,
       ForwardFaultsOnly
  <2> QED
    BY <2>1, <2>2, CrashServes DEF Next
<1>2. IInv /\ ServInv => ServesAsStored
  <2> SUFFICES ASSUME IInv, ServInv, NEW o \in Op, pc[o] = "done", svc[o] \in Name,
                      Untouched(svc[o])
               PROVE  \E c \in ContainerId : /\ Holds(c, svc[o])
                                            /\ containers[c].life = life[o]
                                            /\ containers[c].deployment = specs[svc[o]]
    BY DEF ServesAsStored
  <2>1. specs[svc[o]] # NoSpec
    BY DEF ServInv
  <2> QED
    BY <2>1 DEF ServInv, Serves
<1> QED
  BY <1>1, <1>2, InitServes, Invariance, PTL DEF Spec
===============================================================================
