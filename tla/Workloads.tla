-------------------------------- MODULE Workloads --------------------------------
(***************************************************************************)
(* Everything Podder does to workloads, on one host and one services       *)
(* directory: port mutations, deployments, adoptions, creations, deletions *)
(* and removals, each a transaction, in any order and interleaved.         *)
(***************************************************************************)
EXTENDS Deployment, Adoption, Creation, Upkeep

CONSTANTS
  Kinds,    \* the operations on offer
  Lost      \* the services that have a spec but no container at the start

Operations == {"mutate", "deploy", "adopt", "create", "delete", "remove"}

ASSUME WorkloadsAssumption == Kinds \subseteq Operations /\ Lost \subseteq Name

VARIABLE kind   \* kind[o]: which operation transaction o is

allVars == <<vars, kind>>

\* A service of Home is deployed as its stored spec says, or the container under
\* its name is somebody else's; a lost service is a spec alone.
WorkloadsInit ==
  /\ \E deployed \in [Name -> Deployment], owned \in SUBSET Name,
        up \in [Name -> {"running", "stopped"}] :
       /\ containers = [c \in ContainerId |->
            IF Home[c] = NoName THEN Unborn
            ELSE [life |-> up[Home[c]], name |-> Home[c],
                  service |-> IF Home[c] \in owned THEN Home[c] ELSE Unmanaged,
                  deployment |-> deployed[Home[c]]]]
       /\ specs = [n \in Name |->
            IF n \in Lost \/ \E c \in ContainerId : Home[c] = n /\ n \in owned
              THEN deployed[n] ELSE NoSpec]
  /\ Quiet
  /\ kind = [o \in Op |-> "none"]

-------------------------------------------------------------------------------

Begins(o, k) == k \in Kinds /\ kind' = [kind EXCEPT ![o] = k]

\* With Serial, no transaction under way is about service n, or container c.
FreeService(n) == Serial => ~Busy(n)
FreeContainer(c) ==
  /\ FreeService(containers[c].name)
  /\ FreeService(containers[c].service)
  /\ Serial => \A p \in Op : pc[p] \notin Ended => orig[p] # c

Asks(o) ==
  \/ /\ Begins(o, "mutate")
     /\ \E c \in ContainerId, d \in Deployment :
          FreeContainer(c) /\ Request(o, c, d)
  \/ /\ Begins(o, "deploy")
     /\ \E n \in Name : FreeService(n) /\ DeployRequest(o, n)
  \/ /\ Begins(o, "adopt")
     /\ \E c \in ContainerId : FreeContainer(c) /\ AdoptRequest(o, c)
  \/ /\ Begins(o, "create")
     /\ \E n \in Name, d \in Deployment, managed \in BOOLEAN :
          FreeService(n) /\ CreateRequest(o, n, d, managed)
  \/ /\ Begins(o, "delete")
     /\ \E n \in Name : FreeService(n) /\ DeleteRequest(o, n)
  \/ /\ Begins(o, "remove")
     /\ \E c \in ContainerId :
          FreeContainer(c) /\ (RemoveRequest(o, c) \/ StopToRemove(o, c))

Step(o) ==
  /\ \/ kind[o] = "mutate" /\ Mutation(o)
     \/ kind[o] = "deploy" /\ Deploy(o)
     \/ kind[o] = "adopt" /\ Adopt(o)
     \/ kind[o] = "create" /\ Create(o)
     \/ kind[o] \in {"delete", "remove"} /\ Maintain(o)
  /\ UNCHANGED kind

WorkloadsNext ==
  \/ \E o \in Op : Asks(o) \/ Step(o)
  \/ Environment /\ UNCHANGED kind
  \/ Crash /\ UNCHANGED kind

WorkloadsSpec == WorkloadsInit /\ [][WorkloadsNext]_allVars

-------------------------------------------------------------------------------
(* Correctness.                                                            *)

WorkloadsTypeOK ==
  /\ HostTypeOK
  /\ StoreTypeOK
  /\ pc \in [Op -> Steps \cup DeploySteps \cup CreationSteps \cup UpkeepSteps]
  /\ orig \in [Op -> ContainerId \cup {NoId}]
  /\ svc \in [Op -> ContainerName \cup {NoName}]
  /\ stdout \in [Op -> ContainerId \cup {NoId}]
  /\ polls \in [Op -> 0 .. PollAttempts]
  /\ outcome \in [Op -> Outcomes \cup {"removed", "failed"}]
  /\ spawned \in [Op -> SUBSET ContainerId]
  /\ kind \in [Op -> Operations \cup {"none"}]

\* A container labelled as managed has a spec of its service, unless the
\* transaction that created it is still at work, died, or told the user to look.
OrphansAccountedFor ==
  \A c \in ContainerId : Managed(c) /\ specs[containers[c].service] = NoSpec =>
    \E o \in Op : /\ c \in spawned[o]
                  /\ pc[o] # "done" \/ outcome[o] = "manual"

\* Nobody is at work on the service, nobody died at it, and nobody who worked on
\* it left a mess to the user.
Settled(n) ==
  \A o \in Op : svc[o] = n =>
    pc[o] = "idle" \/ (pc[o] = "done" /\ outcome[o] # "manual")

\* In a settled service, what carries the service's name and label runs what its
\* stored spec says: a later deployment reproduces it.
SettledAsStored ==
  \A c \in ContainerId :
    LET n == containers[c].service
    IN Managed(c) /\ containers[c].name = n /\ Settled(n) =>
         specs[n] = containers[c].deployment

\* A transaction removes no container but those it created itself, the one a user
\* asked it to remove, and the original of a mutation or deployment that has its
\* replacement in place; an adoption never removes its original.
DisposesOnlyOfItsOwn ==
  [][\A c \in ContainerId : Exists(c) /\ ~Exists(c)' /\ pc' # pc =>
       \E o \in Op :
         /\ pc'[o] # pc[o]
         /\ \/ c \in spawned[o]
            \/ c = orig[o] /\ kind[o] = "remove"
            \/ /\ c = orig[o] /\ kind[o] \in {"mutate", "deploy"}
               /\ pc[o] = "cleanup"
               /\ \E r \in spawned[o] :
                    Holds(r, svc[o]) /\ containers[r].deployment = specs[svc[o]]]_allVars

\* "Not changed" (mutations.go:584) is said when the rename of the original failed.
\* The original is the one that was looked at, has its name, and on a host that
\* leaves it alone its lifecycle; a rename that failed after its effect leaves it
\* under the backup's name, which is all the report hides.
NotChangedTruly(o) ==
  Reported(o, "unchanged") /\ pc[o] = "rename" /\ "foreign" \notin Ambient =>
    /\ \/ Holds(orig[o], svc[o])'
       \/ "rename" \in LateFaults /\ Holds(orig[o], Backup[o])'
    /\ Ambient = {} => containers'[orig[o]].life = life[o]

\* "The previous container was retained, stopped, as" its backup (adoption.go:641):
\* so it is, unless the host has started it again.
SetAsideTruly(o) ==
  Reported(o, "backupLeft") /\ kind[o] = "adopt" /\ "foreign" \notin Ambient =>
    /\ Holds(orig[o], Backup[o])
    /\ Ambient = {} => containers[orig[o]].life = "stopped"

\* What a transaction reports is so when it reports it.
ReportsTruly ==
  \A o \in Op :
    /\ NotChangedTruly(o) /\ SetAsideTruly(o)
    /\ Reported(o, "rolledBack") =>
         /\ Holds(orig[o], svc[o])
         /\ containers[orig[o]].life = life[o]
         /\ \A c \in spawned[o] : ~Exists(c)
    /\ Reported(o, "removed") \/ Reported(o, "unchanged") =>
         \A c \in spawned[o] : ~Exists(c)
    /\ (Reported(o, "success") \/ Reported(o, "backupLeft")) /\ stdout[o] # NoId =>
         /\ specs'[svc[o]] = want[o]
         /\ \E c \in ContainerId :
              /\ Holds(c, svc[o])
              /\ containers[c].deployment = want[o]
              /\ containers[c].service = svc[o]

ReportsTruthful == [][ReportsTruly]_allVars

\* A staged candidate file outlives its transaction only with a word to the
\* user, or after an adoption that failed to commit it.
FilesAccountedFor ==
  \A o \in Op : pc[o] = "done" /\ candidates[o] # NoSpec =>
    outcome[o] = "manual" \/ (kind[o] = "adopt" /\ outcome[o] = "rolledBack")
===============================================================================
