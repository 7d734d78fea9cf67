------------------------------ MODULE PodderTypes ------------------------------
(***************************************************************************)
(* The vocabulary the modules share: the identities Podder deals in, kept  *)
(* apart from each other the way the strings of the program are.           *)
(***************************************************************************)
CONSTANTS
  Name,         \* service names, in their validated form
  Op,           \* transactions
  Backup,       \* Backup[o]: the name newBackupName makes up for transaction o
  ContainerId,  \* container IDs; podman never reuses one
  Deployment,   \* what a spec asks for and a container runs: image, ports, ...
  NoId,         \* the empty identity
  NoName,       \* not a name
  NoSpec,       \* no such spec file
  Unmanaged     \* the service label of a container Podder does not own

ContainerName == Name \cup {Backup[o] : o \in Op}

\* A backup name is a service name with a timestamp and random bytes: it is
\* taken to be no other name of the host, and no other transaction's.
ASSUME NamesDistinct ==
  /\ \A o \in Op : Backup[o] \notin Name
  /\ \A o, p \in Op : Backup[o] = Backup[p] => o = p
  /\ ContainerId \cap ContainerName = {}
  /\ NoId \notin ContainerId \cup ContainerName \cup Deployment
  /\ NoName \notin ContainerName
  /\ Unmanaged \notin ContainerName
  /\ NoSpec \notin Deployment
===============================================================================
