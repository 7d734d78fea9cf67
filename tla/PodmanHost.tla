------------------------------ MODULE PodmanHost ------------------------------
(***************************************************************************)
(* The container runtime as Podder sees it through the `podman` command    *)
(* line: a table of containers, the commands Podder issues against it, and *)
(* what happens on the host without Podder (containers exiting, restart    *)
(* policies, an operator at a shell).  Podman itself is not part of the    *)
(* repository; every command here is modelled from the way podman.go and   *)
(* mutations.go use it, including the failures they handle: a command that *)
(* fails without effect, and one that reports failure after its effect.    *)
(***************************************************************************)
EXTENDS PodderTypes

CONSTANTS
  Faults,         \* steps that may fail without taking effect
  LateFaults,     \* steps that may report failure after taking effect
  Ambient         \* what may happen on the host without Podder

\* What may fail: a podman command, the staging, the commit or the removal of a
\* spec file, a bind path when arguments are built, a health check; a create may
\* run something else than it was asked to ("drift") or print no ID ("anonymous").
Fallible == {"rename", "stop", "start", "create", "rm", "list", "candidate",
             "commit", "unlink", "arguments", "health", "drift", "anonymous"}
AmbientMoves == {"exit", "start", "pause", "foreign"}

ASSUME HostAssumption ==
  /\ Faults \subseteq Fallible
  /\ LateFaults \subseteq Fallible
  /\ Ambient \subseteq AmbientMoves

VARIABLE
  containers      \* the table `podman ps -a` lists, with the IDs not yet used

\* The lifecycle of an ID, as classifyLifecycle buckets it: "stopped" stands for
\* created, configured, exited and stopped; "unsupported" for every other state
\* of an existing container (paused, restarting, removing, ...).
Alive == {"running", "stopped", "unsupported"}
Life == Alive \cup {"unborn", "removed"}

Unborn == [life |-> "unborn", name |-> NoId, service |-> Unmanaged,
           deployment |-> NoId]

Container == {Unborn} \cup
  [life: Life \ {"unborn"}, name: ContainerName,
   service: ContainerName \cup {Unmanaged}, deployment: Deployment]

HostTypeOK == containers \in [ContainerId -> Container]

-------------------------------------------------------------------------------
(* Reading a listing.                                                      *)

Exists(c) == containers[c].life \in Alive
Holds(c, n) == Exists(c) /\ containers[c].name = n
Taken(n) == \E c \in ContainerId : Holds(c, n)

\* findContainerByIdentity: an identity argument is an ID or a name.
Refers(c, ident) == Exists(c) /\ (c = ident \/ containers[c].name = ident)
Found(ident) == \E c \in ContainerId : Refers(c, ident)

\* Podman gives a name to one container at a time.
NamesUnique ==
  \A c, d \in ContainerId :
    Exists(c) /\ Exists(d) /\ containers[c].name = containers[d].name => c = d

\* Taking a listing is one command; it may fail, and its caller then knows
\* nothing.
ListingMayFail == "list" \in Faults

-------------------------------------------------------------------------------
(* Commands.  ok is the exit status Podder sees.                           *)

SetLife(c, life) == containers' = [containers EXCEPT ![c].life = life]

\* Did the command named cmd end with status ok, given that it took effect?
Reports(cmd, ok) == ok \/ cmd \in LateFaults

\* Did cmd fail without effect, either by chance or because it was not possible?
FailsCleanly(cmd, possible, ok) ==
  /\ ~ok
  /\ cmd \in Faults \/ ~possible
  /\ UNCHANGED containers

\* podman rename <from> <to>
PodmanRename(from, to, ok) ==
  \/ \E c \in ContainerId :
       /\ Holds(c, from)
       /\ ~Taken(to)
       /\ containers' = [containers EXCEPT ![c].name = to]
       /\ Reports("rename", ok)
  \/ FailsCleanly("rename", Taken(from) /\ ~Taken(to), ok)

Stoppable(c, ident) ==
  Refers(c, ident) /\ containers[c].life \in {"running", "stopped"}

\* podman stop <ident>
PodmanStop(ident, ok) ==
  \/ \E c \in ContainerId :
       /\ Stoppable(c, ident)
       /\ SetLife(c, "stopped")
       /\ Reports("stop", ok)
  \/ FailsCleanly("stop", \E c \in ContainerId : Stoppable(c, ident), ok)

\* podman start <ident>
PodmanStart(ident, ok) ==
  \/ \E c \in ContainerId :
       /\ Stoppable(c, ident)
       /\ SetLife(c, "running")
       /\ Reports("start", ok)
  \/ FailsCleanly("start", \E c \in ContainerId : Stoppable(c, ident), ok)

\* podman rm -f <ident>: any lifecycle, running or not.  Removing what does
\* not exist is not an error under -f.
PodmanForceRemove(ident, ok) ==
  \/ \E c \in ContainerId :
       /\ Refers(c, ident)
       /\ SetLife(c, "removed")
       /\ Reports("rm", ok)
  \/ ok /\ ~Found(ident) /\ UNCHANGED containers
  \/ FailsCleanly("rm", Found(ident), ok)

\* podman run / podman create --name <name>: a fresh container c, labelled for
\* service.  What it runs is what was asked for unless the runtime drifts from
\* the arguments.  A failure after the effect leaves it created, not running.
PodmanCreate(c, name, service, deployment, life, ok) ==
  /\ containers[c].life = "unborn"
  /\ ~Taken(name)
  /\ \E d \in Deployment :
       /\ d = deployment \/ "drift" \in Faults
       /\ containers' = [containers EXCEPT ![c] =
            [life |-> IF ok THEN life ELSE "stopped", name |-> name,
             service |-> service, deployment |-> d]]
  /\ Reports("create", ok)

\* The same command when it leaves nothing behind.
PodmanCreateFails(name) ==
  FailsCleanly("create", ~Taken(name), FALSE)

-------------------------------------------------------------------------------
(* What happens on the host without Podder.                                *)

\* A container's process ends.
Exits(c) ==
  /\ "exit" \in Ambient
  /\ containers[c].life = "running"
  /\ SetLife(c, "stopped")

\* A restart policy or an operator starts a container again.
Restarts(c) ==
  /\ "start" \in Ambient
  /\ containers[c].life = "stopped"
  /\ SetLife(c, "running")

\* An operator pauses or unpauses a container.
Pauses(c) ==
  /\ "pause" \in Ambient
  /\ \/ containers[c].life = "running" /\ SetLife(c, "unsupported")
     \/ containers[c].life = "unsupported" /\ SetLife(c, "running")

\* An operator runs a container of their own under any free name.
ForeignRun(c) ==
  /\ "foreign" \in Ambient
  /\ containers[c].life = "unborn"
  /\ \E n \in ContainerName, d \in Deployment :
       /\ ~Taken(n)
       /\ containers' = [containers EXCEPT ![c] =
            [life |-> "running", name |-> n, service |-> Unmanaged,
             deployment |-> d]]

\* An operator removes a container that is not Podder's.
ForeignRemove(c) ==
  /\ "foreign" \in Ambient
  /\ Exists(c)
  /\ containers[c].service = Unmanaged
  /\ SetLife(c, "removed")

HostMoves ==
  \E c \in ContainerId :
    Exits(c) \/ Restarts(c) \/ Pauses(c) \/ ForeignRun(c) \/ ForeignRemove(c)
===============================================================================
