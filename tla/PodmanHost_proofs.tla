--------------------------- MODULE PodmanHost_proofs ---------------------------
(***************************************************************************)
(* What each podman command leaves as it was.                              *)
(***************************************************************************)
EXTENDS PodmanHost, TLAPS

\* The step leaves what identifies container c alone.
SameRecord(c) ==
  /\ containers'[c].name = containers[c].name
  /\ containers'[c].service = containers[c].service
  /\ containers'[c].deployment = containers[c].deployment

\* The step neither creates nor removes c.
SameExistence(c) == Exists(c)' <=> Exists(c)

Kept(c) == SameRecord(c) /\ SameExistence(c)

\* A change of lifecycle changes nothing else, of this container or another.
LEMMA SetLifeFacts ==
  ASSUME HostTypeOK, NEW c \in ContainerId, containers[c].life # "unborn",
         NEW l \in Life \ {"unborn"}, SetLife(c, l)
  PROVE  /\ HostTypeOK'
         /\ \A d \in ContainerId : d # c => containers'[d] = containers[d]
         /\ SameRecord(c)
         /\ containers'[c].life = l
<1>1. containers[c] \in [life: Life \ {"unborn"}, name: ContainerName,
                         service: ContainerName \cup {Unmanaged},
                         deployment: Deployment]
  BY DEF HostTypeOK, Container, Unborn
<1>2. containers' = [containers EXCEPT ![c].life = l]
  BY DEF SetLife
<1>3. containers'[c] = [containers[c] EXCEPT !.life = l]
  BY <1>2 DEF HostTypeOK
<1>4. containers'[c] \in Container
  BY <1>1, <1>3 DEF Container
<1>5. \A d \in ContainerId : d # c => containers'[d] = containers[d]
  BY <1>2 DEF HostTypeOK
<1>6. HostTypeOK'
  BY <1>2, <1>4, <1>5 DEF HostTypeOK
<1>7. QED
  BY <1>1, <1>3, <1>5, <1>6 DEF SameRecord

\* Nothing that leaves the table alone matters to any container.
LEMMA StillKeeps ==
  ASSUME UNCHANGED containers
  PROVE  /\ HostTypeOK => HostTypeOK'
         /\ NamesUnique => NamesUnique'
         /\ \A c \in ContainerId : Kept(c)
BY DEF HostTypeOK, NamesUnique, Kept, SameRecord, SameExistence, Exists

\* Names stay unique in a step that keeps every container.
LEMMA KeptNamesUnique ==
  ASSUME NamesUnique, \A c \in ContainerId : Kept(c)
  PROVE  NamesUnique'
BY DEF NamesUnique, Kept, SameRecord, SameExistence

\* A step between two lifecycles of an existing container keeps every container.
LEMMA AliveKeeps ==
  ASSUME HostTypeOK, NEW c \in ContainerId, Exists(c), NEW l \in Alive, SetLife(c, l)
  PROVE  HostTypeOK' /\ \A d \in ContainerId : Kept(d)
<1>1. containers[c].life # "unborn" /\ l \in Life \ {"unborn"}
  BY DEF Exists, Alive, Life
<1>2. /\ HostTypeOK'
      /\ \A d \in ContainerId : d # c => containers'[d] = containers[d]
      /\ SameRecord(c)
      /\ containers'[c].life = l
  BY <1>1, SetLifeFacts
<1>3. \A d \in ContainerId : Kept(d)
  BY <1>2 DEF Kept, SameExistence, SameRecord, Exists
<1>4. QED
  BY <1>2, <1>3

LEMMA StopKeeps ==
  ASSUME HostTypeOK, NEW ident, NEW ok, PodmanStop(ident, ok)
  PROVE  HostTypeOK' /\ \A d \in ContainerId : Kept(d)
<1>1. CASE \E c \in ContainerId : Stoppable(c, ident) /\ SetLife(c, "stopped")
  BY <1>1, AliveKeeps DEF Stoppable, Refers, Alive
<1>2. CASE UNCHANGED containers
  BY <1>2, StillKeeps
<1>3. QED
  BY <1>1, <1>2 DEF PodmanStop, FailsCleanly

LEMMA StartKeeps ==
  ASSUME HostTypeOK, NEW ident, NEW ok, PodmanStart(ident, ok)
  PROVE  HostTypeOK' /\ \A d \in ContainerId : Kept(d)
<1>1. CASE \E c \in ContainerId : Stoppable(c, ident) /\ SetLife(c, "running")
  BY <1>1, AliveKeeps DEF Stoppable, Refers, Alive
<1>2. CASE UNCHANGED containers
  BY <1>2, StillKeeps
<1>3. QED
  BY <1>1, <1>2 DEF PodmanStart, FailsCleanly

\* rename changes the name of whatever held the old one, and nothing else.
LEMMA RenameFacts ==
  ASSUME HostTypeOK, NEW from, NEW to \in ContainerName, NEW ok,
         PodmanRename(from, to, ok)
  PROVE  /\ HostTypeOK'
         /\ NamesUnique => NamesUnique'
         /\ \A c \in ContainerId : ~Holds(c, from) => Kept(c)
         /\ \A c \in ContainerId :
              /\ SameExistence(c)
              /\ containers'[c].service = containers[c].service
              /\ containers'[c].deployment = containers[c].deployment
              /\ containers'[c].name \in {containers[c].name, to}
         /\ ok => \A c \in ContainerId : Holds(c, from) /\ NamesUnique => Holds(c, to)'
<1>1. ASSUME NEW c \in ContainerId, Holds(c, from), ~Taken(to),
             containers' = [containers EXCEPT ![c].name = to]
      PROVE  /\ HostTypeOK'
             /\ NamesUnique => NamesUnique'
             /\ \A d \in ContainerId : d # c => containers'[d] = containers[d]
             /\ containers'[c] = [containers[c] EXCEPT !.name = to]
             /\ containers[c] \in Container \ {Unborn}
             /\ Exists(c)'
  <2>1. containers[c] \in [life: Life \ {"unborn"}, name: ContainerName,
                           service: ContainerName \cup {Unmanaged},
                           deployment: Deployment]
    BY <1>1 DEF HostTypeOK, Container, Unborn, Holds, Exists, Alive
  <2>2. /\ \A d \in ContainerId : d # c => containers'[d] = containers[d]
        /\ containers'[c] = [containers[c] EXCEPT !.name = to]
    BY <1>1 DEF HostTypeOK
  <2>3. containers'[c] \in Container
    BY <2>1, <2>2 DEF Container
  <2>4. HostTypeOK'
    BY <1>1, <2>2, <2>3 DEF HostTypeOK
  <2>5. /\ containers'[c].life = containers[c].life
        /\ containers'[c].name = to
    BY <2>1, <2>2
  <2>6. NamesUnique => NamesUnique'
    BY <1>1, <2>2, <2>5 DEF NamesUnique, Taken, Holds, Exists
  <2>7. containers[c] # Unborn
    BY <1>1 DEF Unborn, Holds, Exists, Alive
  <2>8. QED
    BY <1>1, <2>1, <2>2, <2>4, <2>5, <2>6, <2>7 DEF Holds, Exists, Container
<1>2. CASE UNCHANGED containers /\ ~ok
  BY <1>2, StillKeeps DEF Kept, SameRecord, SameExistence
<1>3. CASE \E c \in ContainerId : /\ Holds(c, from) /\ ~Taken(to)
                                 /\ containers' = [containers EXCEPT ![c].name = to]
  <2>1. PICK c \in ContainerId : /\ Holds(c, from) /\ ~Taken(to)
                                /\ containers' = [containers EXCEPT ![c].name = to]
    BY <1>3
  <2>2. /\ HostTypeOK'
        /\ NamesUnique => NamesUnique'
        /\ \A d \in ContainerId : d # c => containers'[d] = containers[d]
        /\ containers'[c] = [containers[c] EXCEPT !.name = to]
        /\ containers[c] \in Container \ {Unborn}
        /\ Exists(c)'
    BY <1>1, <2>1
  <2>3. /\ containers'[c].service = containers[c].service
        /\ containers'[c].deployment = containers[c].deployment
        /\ containers'[c].name = to
    BY <2>2 DEF Container
  <2>4. \A d \in ContainerId : d # c => Kept(d)
    BY <2>2 DEF Kept, SameRecord, SameExistence, Exists
  <2>5. SameExistence(c)
    BY <2>1, <2>2 DEF SameExistence, Holds
  <2>6. ASSUME NEW d \in ContainerId, Holds(d, from), NamesUnique
        PROVE  Holds(d, to)'
    <3>1. d = c
      BY <2>1, <2>6 DEF NamesUnique, Holds
    <3>2. QED
      BY <3>1, <2>2, <2>3 DEF Holds
  <2>7. QED
    BY <2>1, <2>2, <2>3, <2>4, <2>5, <2>6 DEF Kept, SameRecord
<1>4. QED
  BY <1>2, <1>3 DEF PodmanRename, FailsCleanly

\* rm -f takes at most the container it was asked to take, and that one whole.
LEMMA RemoveFacts ==
  ASSUME HostTypeOK, NEW ident, NEW ok, PodmanForceRemove(ident, ok)
  PROVE  /\ HostTypeOK'
         /\ NamesUnique => NamesUnique'
         /\ \A c \in ContainerId :
              /\ ~Refers(c, ident) => Kept(c)
              /\ SameRecord(c)
              /\ Exists(c)' => Exists(c)
         /\ ok /\ Found(ident) =>
              \E c \in ContainerId : Refers(c, ident) /\ containers'[c].life = "removed"
<1>1. CASE UNCHANGED containers /\ (ok => ~Found(ident))
  BY <1>1, StillKeeps DEF Kept, SameRecord, SameExistence
<1>2. CASE \E c \in ContainerId : Refers(c, ident) /\ SetLife(c, "removed")
  <2>1. PICK c \in ContainerId : Refers(c, ident) /\ SetLife(c, "removed")
    BY <1>2
  <2>2. containers[c].life # "unborn" /\ "removed" \in Life \ {"unborn"}
    BY <2>1 DEF Refers, Exists, Alive, Life
  <2>3. /\ HostTypeOK'
        /\ \A d \in ContainerId : d # c => containers'[d] = containers[d]
        /\ SameRecord(c)
        /\ containers'[c].life = "removed"
    BY <2>1, <2>2, SetLifeFacts
  <2>4. \A d \in ContainerId : d # c => Kept(d)
    BY <2>3 DEF Kept, SameRecord, SameExistence, Exists
  <2>5. ~Exists(c)'
    BY <2>3 DEF Exists, Alive
  <2>6. \A d \in ContainerId : SameRecord(d) /\ (Exists(d)' => Exists(d))
    BY <2>3, <2>4, <2>5 DEF Kept, SameExistence
  <2>7. NamesUnique => NamesUnique'
    BY <2>6 DEF NamesUnique, SameRecord
  <2>8. QED
    BY <2>1, <2>3, <2>4, <2>6, <2>7
<1>3. QED
  BY <1>1, <1>2 DEF PodmanForceRemove, FailsCleanly

\* create turns an unused ID into a container with the name and labels asked for.
LEMMA CreateFacts ==
  ASSUME HostTypeOK, NEW c \in ContainerId, NEW name \in ContainerName,
         NEW service \in ContainerName, NEW deployment, NEW l \in {"running", "stopped"},
         NEW ok, PodmanCreate(c, name, service, deployment, l, ok)
  PROVE  /\ HostTypeOK'
         /\ NamesUnique => NamesUnique'
         /\ \A d \in ContainerId : d # c => Kept(d) /\ containers'[d] = containers[d]
         /\ containers[c] = Unborn
         /\ containers'[c].name = name
         /\ containers'[c].service = service
         /\ Exists(c)'
<1>1. PICK d \in Deployment :
        containers' = [containers EXCEPT ![c] =
           [life |-> IF ok THEN l ELSE "stopped", name |-> name,
            service |-> service, deployment |-> d]]
  BY DEF PodmanCreate
<1>2. /\ containers'[c] = [life |-> IF ok THEN l ELSE "stopped", name |-> name,
                           service |-> service, deployment |-> d]
      /\ \A e \in ContainerId : e # c => containers'[e] = containers[e]
  BY <1>1 DEF HostTypeOK
<1>3. (IF ok THEN l ELSE "stopped") \in {"running", "stopped"}
  OBVIOUS
<1>4. containers'[c] \in Container
  BY <1>2, <1>3 DEF Container, Life, Alive
<1>5. HostTypeOK'
  BY <1>1, <1>2, <1>4 DEF HostTypeOK
<1>6. \A e \in ContainerId : e # c => Kept(e) /\ containers'[e] = containers[e]
  BY <1>2 DEF Kept, SameRecord, SameExistence, Exists
<1>7. containers[c] = Unborn
  BY DEF PodmanCreate, HostTypeOK, Container
<1>8. /\ containers'[c].name = name
      /\ containers'[c].service = service
      /\ Exists(c)'
  BY <1>2, <1>3 DEF Exists, Alive
<1>9. NamesUnique => NamesUnique'
  BY <1>2, <1>8 DEF NamesUnique, PodmanCreate, Taken, Holds, Exists
<1>10. QED
  BY <1>5, <1>6, <1>7, <1>8, <1>9
================================================================================
