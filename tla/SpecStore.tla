------------------------------- MODULE SpecStore -------------------------------
(***************************************************************************)
(* The services directory, $XDG_CONFIG_HOME/podder/services: one           *)
(* authoritative file per service name, and candidate files that a         *)
(* transaction stages under a random name of its own.  A candidate is      *)
(* never read as authoritative; it becomes so only when the transaction    *)
(* renames it over the service's file, which the file system does          *)
(* atomically.                                                             *)
(***************************************************************************)
EXTENDS PodderTypes

VARIABLES
  specs,       \* specs[n]: the content of <n>.json
  candidates   \* candidates[o]: the candidate file transaction o has staged

StoreTypeOK ==
  /\ specs \in [Name -> Deployment \cup {NoSpec}]
  /\ candidates \in [Op -> Deployment \cup {NoSpec}]

\* writeCandidateSpec: CreateTemp, write, sync and close under a fresh name.
\* An error on the way removes the file again.
WriteCandidateSpec(o, d) ==
  /\ candidates' = [candidates EXCEPT ![o] = d]
  /\ UNCHANGED specs

\* commitCandidateSpec: os.Rename of the candidate over <n>.json.
CommitCandidateSpec(o, n) ==
  /\ candidates[o] # NoSpec
  /\ specs' = [specs EXCEPT ![n] = candidates[o]]
  /\ candidates' = [candidates EXCEPT ![o] = NoSpec]

\* discardCandidateSpec: best effort, and harmless when the file is gone.
DiscardCandidateSpec(o) ==
  /\ candidates' = [candidates EXCEPT ![o] = NoSpec]
  /\ UNCHANGED specs

\* os.Remove of <n>.json; a file that is already gone is no error.
RemoveSpec(n) ==
  /\ specs' = [specs EXCEPT ![n] = NoSpec]
  /\ UNCHANGED candidates

StoreUnchanged == UNCHANGED <<specs, candidates>>
===============================================================================
