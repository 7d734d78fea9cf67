# Podder: specification and proofs

Podder is a desktop application (Go service, web front end) that drives the
`podman` command line. Its own logic, beyond showing what podman reports, is
the management of *workloads*: a container whose labels say that Podder owns
it, and a spec file, `$XDG_CONFIG_HOME/podder/services/<name>.json`, that says
what it must run. Podder changes a workload only by replacing its container in
a transaction made of podman commands and file renames. None of these steps is
atomic with the next, every one may fail, there is no lock and no journal, and
the host moves underneath. That is what this project models, checks and proves.

## 1. Inventory

| component | source | state it keeps | operations |
|---|---|---|---|
| port mutation | `mutations.go` | one stack frame per call: target, backup name, candidate file, candidate identity, rollback result | `MutateContainerPorts`, `executeRollback`, `GetContainerPortEditState` |
| deployment | `specs.go` 506-690 | as above, without candidate file | `DeploySpec` (create or replace) |
| adoption | `adoption.go` | as above; turns an unmanaged container into a workload, retains the original | `AssessContainerForAdoption`, `AdoptContainer` |
| managed creation | `podman.go` 547-652 | candidate file, created ID | `CreateContainer` |
| spec store | `specs.go` | `<name>.json`, `<name>.candidate-*.json` | `SaveSpec`, `GetSpec`, `ListSpecs`, `DeleteSpec`, write / commit / discard candidate |
| container runtime boundary | `podman.go`, `cmdrunner.go` | none: podman's container table | list, start, stop, remove, run, rename, ... |
| port claims | `ports.go` | none | claims of containers, specs, registry and host listeners; conflicts; validation; free-port search; overview with reconciliation |
| publish grammar | `endpoint.go` | none | parse and format publish specs, ranges, declared-endpoint equality |
| port registry, settings | `registry.go` | `config.json`, the registry YAML | load tolerant / strict, save settings, classify drift |
| provenance | `provenance.go` | none | who owns a container, from its labels |
| run arguments | `runargs.go`, `command.go` | none | spec to `podman run` / `podman create` arguments |
| networks | `networks.go` | none | list, create, remove with checks |
| trusted compose paths, compose editor, quadlet generator | `pathtrust.go`, `compose_edit.go`, `quadlet.go` | none | text and path predicates |
| command-line front end | `main.go` | none | pass-through to podman, compose provider, socket preflight |
| user interface | `frontend/src` | view state, polled lists | calls the service; each call runs in a goroutine of its own |
| packaging | `build/` | none | generated project files |

How they interact: the front end calls bound methods of `PodmanService`, which
may run at the same time; the transactions call podman through one runner and
share the container table and the services directory; all of them consult
port claims and the registry in their preflight. `executeRollback` is shared
by mutation, deployment and adoption.

What is hard, and what would make each part right:

* **Transactions** (mutation, deployment, adoption, creation): a command that
  fails after its effect; a listing that fails when a decision needs it; a
  container that changes between the poll and the commit; two transactions on
  one service; death of the process between two steps. Right means: the
  original outlives everything until the new spec is committed; a spec never
  lies about its container; a result that says "rolled back" or "success" is
  true; no transaction hangs on its own logic; nothing of somebody else's is
  removed.
* **Spec store**: only committed files are authoritative, and no managed
  container is without one (creation, deletion).
* **Port claims**: the conflict relation is the overlap of sockets (wildcard
  addresses, families, ranges, protocols); the strict collection fails closed.
* **Overview**: everything is looked at twice while it changes, and most sources
  may be missing; what is shown as free or missing must be so, and what was there
  must not be dropped.
* **Registry and settings**: no entry is lost; a save replaces the file whole.
* **Networks**: a change is decided on a list that takes many commands to obtain;
  refusals on overlap and on attached containers are complete.

`PROJECT.json` lists the hazards at their lines, with the properties that
address them or the reason why none does.

## 2. Modules

    PodderTypes          names, identities, deployments and how they differ
      PodmanHost         podman's container table; its commands; host activity
      SpecStore          the services directory
        Replacement      what all replacing transactions share; executeRollback
          PortMutation   MutateContainerPorts; properties; the invariant
            Deployment   DeploySpec
            Adoption     AdoptContainer
            Creation     CreateContainer
            Upkeep       DeleteSpec, RemoveContainer, StopAndRemoveContainer
              Workloads  all of them on one host, in any order and interleaved
      WorkloadStore      abstract: make before break; PortMutation instantiates it

    PortClaims           addresses, ranges, conflict; the sockets behind them
      PortHost           containers that publish ports, and the sockets they hold
        PortValidation   validation and free-port search on a host that moves
      Registry           the registry file: loading, scoping, comparing
        Overview         GetPortOverview on a host that moves (with PortHost)

    Settings             SaveSettings and the files it opens, writes and renames
    Networks             ListNetworks, CreateNetwork, RemoveNetwork

`MCPortMutation`, `MCWorkloads`, `MCPortValidation`, `MCOverview` and
`MCNetworks` give TLC constants; `Settings` needs none. Eight modules
`*_proofs` hold the theorems (section 4).

### Workloads

**Abstractions.** A *deployment* stands for the whole of what a spec asks for
and a container runs: image identity, ports, binds, environment. Two
deployments are equal when the code's comparisons (image ID, port set,
`portMappingSetEqual`) say so. An adoption compares ports only: `PortsOf` says
which deployments share them. It is the identity in the runs, for a managed
container is created by image ID (`runargs.go` 28-31), so that what
drifts is seen in the ports. Container IDs are never reused by podman. Backup
names carry a nanosecond timestamp and random bytes (`newBackupName`) and are
taken to be unique (`NamesDistinct`). An identity given to podman is an ID or a
name, as in `findContainerByIdentity`; the prefix match there is left out since
every identity a transaction holds is a full ID or a full name.

**PodmanHost.** `containers[c]` is the row of the container with ID `c`: its
lifecycle, name, service label and deployment. Each command has an exit status
`ok` and may (a) take effect and report success, (b) fail without effect, when
`Faults` has it or when it is impossible, (c) take effect and report failure,
when `LateFaults` has it. A created container may run something else than was
asked ("drift": what the verification of image and ports exists for), and a
successful create may print no ID ("anonymous": the code has a branch for it).
`Ambient` chooses what happens without Podder: exits, restarts, pauses, and an
operator's own containers under any free name, backup names included.
Podman itself is external; it is modelled from how the code uses it.

**SpecStore.** `specs[n]` is `<n>.json`; `candidates[o]` the file staged by
transaction `o`. Commit is one `os.Rename`, hence one step.

**Transactions.** One step per podman command, listing or file operation, with
the code that follows it up to the next one. `pc[o]` is the position in the
code; steps that are the same code, or the same sequence of commands, are the
same action for all that take them:

| `pc` | code |
|---|---|
| `idle` | not asked yet: `Request`, `DeployRequest`, `AdoptRequest`, `CreateRequest`, `DeleteRequest`, `RemoveRequest`, `StopToRemove` are the call up to its first decision |
| `resolve`, `snapshot` | mutation: `Resolve` (`GetSpec`, comparison with the listed target, validation), `Snapshot` (`writeCandidateSpec`); adoption: `ReviewTarget`, its second look |
| `rename`, `stop`, `stopping` | QUIESCE: `RenameAway`, `StopOriginal`, `AwaitStopped`; `AwaitHalted` for a deployment |
| `create`, `probe` | CREATE: arguments, `podman run`/`create`, the look for leftovers (`CreateReplacement`, `Recreate`, `Reproduce`) |
| `verify`, `health` | VERIFY: poll for the replacement, compare it; a mutation's health check |
| `commit`, `cleanup`, `gone` | COMMIT: promote the candidate, then remove the backup; a deployment also polls for that |
| `dropStop`, `dropRemove`, `dropCheck` | `executeRollback`: stop, remove, verify the candidate gone |
| `restore`, `inspect`, `restart`, `restarting` | `executeRollback`: rename back, check by ID, start, poll the lifecycle |
| `survey`, `run`, `prove` | deployment without a container to replace |
| `leftover`, `leftStop`, `leftRemove`, `leftGone` | its clean-up after a failed run, by ID |
| `undoStop`, `undoRemove`, `undoGone` | its clean-up after a failed verification, by name |
| `plain`, `stage`, `launch`, `seek`, `check`, `settle`, `clear`, `cleared` | creation: unmanaged; staging, run, look for a leftover, verification, commit, clean-up |
| `unlink`, `erase` | the removal of a spec file, of a container |
| `done` | returned, with `outcome[o]` |
| `crashed` | the process died |

An operation returns with an `outcome`: refused before it did anything; `unchanged`, when
it says so or has undone its staging; `rolledBack`, `removed`, `success`, `backupLeft`; `manual`,
when it tells the user to look; and `failed`, when the error of a single command is passed
on and nothing is promised: a plain creation, the removals, and the unlinking of a spec file.

`Resolve` compares what the first listing showed with the spec file it reads
next; the comparison is made on the current table, which is exact unless the
host moves between these two adjacent steps. Validation of ports against the
host and the registry may refuse for its own reasons, so a preflight may always
refuse. `Crash` stops all running transactions; the table and the
directory are what is left. `spawned[o]` is a history variable: the containers
`o` has created, plain creations included. `kind[o]`, in `Workloads`, says which operation `o` is.

**WorkloadStore.** The promise without names, lifecycles, transactions and
failures: a spec becomes authoritative only for what is there (`Promote`), and
what the authoritative spec describes does not go away (`Retire`, `Forget`).
`PortMutation` instantiates it with `present <- Present`, the deployments that
managed containers of a service run; `ImplementsStore` is its `Spec`.

### Ports

**PortClaims.** The comparisons of `ports.go` and `endpoint.go` as operators on
claims (`AddressesConflict`, `ClaimsConflict`, `Conflicts` for `FindConflict`,
`CoversListener`), and beside them what claims stand for: `Reach`, the
interfaces a socket bound to an address receives on, and `Overlap`, that the
kernel would refuse to bind both. An address is one of eleven texts: omitted, `*`, the
wildcards of both families as they are usually written, an IPv6 wildcard in another spelling
(`::0` stands for `0:0:0:0:0:0:0:0` too), an IPv4-mapped one, the loopbacks, one of them
IPv4-mapped, an interface's address, and the name `localhost`. Brackets, zones, case and
trimming, which `NormalizeAddress` takes care of, are left out, and so are other names and the
rest of 127.0.0.0/8. `Misjudged` names the pairs of addresses that the comparison does not
relate although they may share an interface: they differ, neither is a wildcard that
`IsWildcardAddress` knows, and one is a name or a wildcard in another spelling. It is used
by properties only. `SocketAddress`, in `PortHost`, is how `ss` prints the address of a
published mapping's socket; `PublishedAssumption` says that podman publishes on IP addresses
and on ports that there are.

**PortValidation.** One call, of validation for a sequence of mappings
(`validateMappingsForCreate`, `validateMappingsForMutation`, and
`ValidatePortMapping` for each mapping) or of `FindFreePort`. `phase` is the
source `CollectBlockingClaimsStrict` looks at next: `podman`, `ss`, `registry`,
then `decide`; every mapping starts again at `podman`. Between two steps
containers are created, started, stopped and removed, other processes open and
close sockets (never two that overlap), and an operator edits the registry.
The TCP and the UDP listing of `ss` are one step. Mappings without a host port
(podman picks one, and the collision check is skipped) and the checks of a
single number or word are left out. `held` is a history variable: what others
than the ignored container have held ever since the call began.

**Registry, Overview.** A registry file is the sequence of its entries; `Kept`
is `validateAndFilterRegistryPorts`, `Local` the scoping to this node,
`Equivalent` the equality of declared endpoints, and
`ClassifyMissing` the status of an entry that matches nothing; the statuses of those that
match, and of listeners, are wording and left out. `phase` is the source `GetPortOverview` reads
next: `containers`, `sockets`, `settings`, `registry`, and then the second round
of `collectAllClaims`: `claimants`, `unclaimed`, `declared`; at `done` the operators
`Items`, `Reconciled`, `UnmatchedStatus` and `ContainerInConflict` are what the call
returns. Every source but the first listing may fail and is then left out. `stayed` and `held` are history variables as above.

**Settings.** Files are inodes: `config.json` and `config.json.tmp` name
them, and a saver that has opened one writes to it under whatever name it has by
then. `saving[s]` is `open`, `write` or `rename`, the next system call.

### Networks

One call, a command at a time: `inspect all`, or else `ls` and `inspect named`;
`ps`; one `inspect` per container; the decision; `interfaces`; `create` or `rm`.
The strict look, for changes, fails where the tolerant one, for display, skips. An
address is a string of bits and a subnet an address with a mask
length, as in `net.IPNet`, whose address need not be the first of the subnet.
Podman refuses some of what Podder checks for by itself; the model leaves
that out, so that what holds, holds by Podder's checks.

## 3. Properties and runs

`CHECK_DEADLOCK FALSE` in every run: a finite supply of calls ends, and the
system may then stop.

| run | instance | checks |
|---|---|---|
| `mutation_ambient` | one mutation, one service, two free IDs, every fault and late fault, every ambient move, crash anywhere, two polls | `TypeOK`, `IInv`, `OriginalKept`, `SpecBacked`, `CandidateSettled`, `RollbackTruthful`, `SuccessTruthful` |
| `mutation_forward` | two mutations on one service, one after the other, two polls; faults of stop, creation, verification and commit, late faults of stop, start, creation and removal; fair | `ServesAsStored`, `NeverBothRunning`, `Returns` |
| `mutation_overlap` | two mutations on one service, interleaved; clean failures | `NeverBothRunning`, `RollbackTruthful` |
| `workloads` | two operations out of five kinds on two services, interleaved, every fault but of listings, every late fault | `OrphansAccountedFor`, `SettledAsStored`, `ImplementsStore`, `ReportsTruthful` |
| `workload_faults` | one operation out of six kinds, one service lost, every fault, every late fault but of creation, exits, restarts and pauses, two polls | `WorkloadsTypeOK`, `OrphansAccountedFor`, `SettledAsStored`, `FilesAccountedFor`, `DisposesOnlyOfItsOwn`, `ReportsTruthful` |
| `port_validation` | four ports, two containers (one with a range), two sockets of processes, a ranged reservation, five requests, four searches, among their addresses wildcards in another spelling, every source may fail | `TypeOK`, `PassedIsFree`, `NotInItsOwnWay`, `AcceptedTogether`, `FoundIsFree` |
| `overview` | two containers, two sockets, three registry files, three settings, one unreadable; two moves of the host, sources that fail | `TypeOK`, `MissingIsMissing`, `FreeIsFree`, `EveryEntryShown`, `SocketsAccountedFor`, `ContainerConflictsShown` |
| `settings` | two saves one after the other, every step may fail, death anywhere | `ConfigWhole`, `SaveTruthful` |
| `networks` | four subnets of both families, three interfaces, a container, one move, every command may fail | `TypeOK`, `ListedWhole`, `CreatedApart`, `RemovedUnused` |
| `overlap_loss`, `stopped_claim`, `torn_settings` | smallest instances that show a finding | see section 5 |

**What they show, in words.** *Transactions*: the original outlives everything
until the new spec is committed (`OriginalKept`); every stored spec has a
container that runs what it says (`SpecBacked`, `SettledAsStored`); no managed
container is without a spec once its transaction has returned, unless the user
was told (`OrphansAccountedFor`); staged files go (`CandidateSettled`,
`FilesAccountedFor`); nothing is removed but what the transaction made, what the
user pointed at, or an original whose replacement stands (`DisposesOnlyOfItsOwn`);
what is reported is so (`RollbackTruthful`, `SuccessTruthful`, `ReportsTruthful`);
calls return (`Returns`). *Ports*: what passes validation, or is found or shown
as free, was held by nobody throughout; a socket that was there throughout is shown or
covered by a container's mapping, and two containers that were there throughout are
shown to be in each other's way; each with the exceptions below. *Networks*: what is created overlaps nothing that
stayed, and what is removed was in nobody's use throughout. "Throughout" is the strongest
that a call which looks before it acts can promise: whatever comes after the look
may be missed.

**Bounds.** Three containers for one service: the original, a replacement, and
one more for an operator's or another transaction's; four for two services,
one of which has nothing at the start. Two deployments: the old and the new one
(drift yields either). One poll where only the last attempt matters, two where
the difference between "again" and "last" does (`PollAttempts`). Transactions are
one-shot: a second one is a second member of `Op`, which may run after the
first, on the same service, or beside it on another. `mutation_overlap` polls once. `workloads` leaves faults of
listings, and `workload_faults` late faults of creation, out: together they
are (f) of section 5. `Lost` has the service with a spec and no container, which makes
`DeploySpec` create. `MaxMoves` bounds how often the host moves during one overview
(two: one in each round) or one network call (one: there are no more than two looks at
any one thing). In `port_validation` the last port is 4, the first is privileged and a
search moves from it to 2; two containers are needed to have one
ignored and one not; requests have two mappings, so that the second is validated
with fresh observations; moves after the verdict are cut off. In `overview` the
registry files have active, reserved, planned and deprecated entries, repeated ids, entries that shadow
each other, and endpoints equal in meaning and not in text. Networks have two-bit
addresses: one subnet within another, two apart, and an interface whose address is
not the first of its subnet. Symmetry, over transactions, deployments and unused IDs, is used in runs
without liveness only.

**`Serial`, `OneSaver`.** With `Serial = TRUE` a request on a service waits
until no other transaction on that service runs; with `OneSaver = TRUE` a save
until no other does. The code enforces neither; they are the assumptions on use
under which the guarantees hold, and constants so that `mutation_overlap`,
`overlap_loss` and `torn_settings` drop them. `CandidateSettled` and `FilesAccountedFor`
survive any overlap, by proof. `NeverBothRunning` and `RollbackTruthful` survive that of
two mutations, which `mutation_overlap` checks, and not of three, for which TLC finds
counterexamples (section 5). `SpecBacked` and `ConfigWhole` do not survive at all.

**What is assumed of faults.** `ServesAsStored` is about forward failures: with rollback
commands that fail, the code says "manual recovery required" and the service may
be down, truthfully. `NeverBothRunning` is checked for overlapping mutations without late
failures, and is about what Podder does: a container that a restart policy or an operator
starts again is outside its reach.

**Fairness.** `FairSpec` asks weak fairness of `Mutation(o)`: a call, once made,
is a goroutine that runs on. Every podman command is taken to return:
`cmdrunner.go` sets no timeout, so a hanging podman would block its caller, and
the model does not show that. Requests, host moves and crashes have no
fairness.

**Exceptions.** Without these the properties would not hold of the code; the letters are
those of section 5.

* `PassedIsFree` and `FoundIsFree` except sockets that a container's mapping was taken to
  account for (`Masked`: finding 2), and these two, `AcceptedTogether`, `FreeIsFree` and
  `ContainerConflictsShown` except `Misjudged` addresses (a).
* `MissingIsMissing` excepts entries an earlier entry shadows (`Shadowed`).
* `FreeIsFree` and `SocketsAccountedFor` say nothing when `ss` could not be asked, in either
  round (c), `ContainerConflictsShown` nothing when podman could not be asked the
  second time. `FreeIsFree` is about the entry's first port, the only one the code looks at.
* `SocketsAccountedFor` allows a socket to be covered by the mapping of a container that does
  not hold it, or that came during the call and is itself shown nowhere (b).
* `ContainerConflictsShown` is about two containers. A process's socket that a mapping
  conflicts with is covered by it, and so is never a claim against it (`ports.go` 515-541,
  980-1015): the code does not show such a conflict, and nothing is stated of it.
* `ReportsTruthful` accepts that after a rename which failed late, where `LateFaults` has it,
  the original has its backup's name (d). What was created must be gone after every
  report of "unchanged" or "removed"; an error that is just passed on (`failed`) promises
  nothing. Of the original's name it speaks only where operators do not remove containers,
  of its lifecycle only where the host does not move by itself.
* `FilesAccountedFor` excepts an adoption that failed to commit (`adoption.go` 623), which
  leaves its file.
* `DisposesOnlyOfItsOwn` is checked where no operator runs containers of his own.

Every property of a passing run has a mutant, a plausible slip in the code that
makes it fail; mutants stand next to the definitions they change.

## 4. Proofs

Nothing is bounded in the theorems: any sets of names, containers, transactions,
deployments, claims, files and moves, and any choice of faults.

`PodmanHost_proofs` states what each command does to the table: it keeps the
type, keeps names unique, changes only the container it refers to.

| module | theorem | statement | assumes |
|---|---|---|---|
| `PortMutation_proofs` | `TypeCorrect` | `Spec => []TypeOK` | the constants' assumptions |
| | `CandidateAlwaysSettled` | `Spec => []CandidateSettled` | the same |
| | `Invariance` | `Spec => []IInv` | also `Serial` |
| | `SpecAlwaysBacked` | `Spec => []SpecBacked` | also `Serial` |
| | `OriginalAlwaysKept` | `Spec => []OriginalKept` | also `Serial` |
| | `RollbackAlwaysTruthful` | `Spec => RollbackTruthful` | also `Serial` |
| | `SuccessAlwaysTruthful` | `Spec => SuccessTruthful` | also `Serial` |
| | `NeverBothEverRunning` | `Spec => []NeverBothRunning` | also `Serial`, `Ambient \cap {"start", "pause"} = {}` |
| | `MutationImplementsStore` | `Spec => ImplementsStore` | also `Serial` |
| | `ServesAlwaysAsStored` | `Spec => []ServesAsStored` | also `Serial`, `ForwardFaultsOnly` |
| `Workloads_proofs` | `WorkloadsTypeCorrect` | `WorkloadsSpec => []WorkloadsTypeOK` | the constants' assumptions |
| | `FilesAlwaysAccountedFor` | `WorkloadsSpec => []FilesAccountedFor` | the same |
| | `WorkloadsInvariance` | `WorkloadsSpec => []WInv` | also `Serial` |
| | `OrphansAlwaysAccountedFor` | `WorkloadsSpec => []OrphansAccountedFor` | also `Serial`, `SeesWhatItMakes` |
| | `SettledAlwaysAsStored` | `WorkloadsSpec => []SettledAsStored` | also `Serial`, `SeesWhatItMakes`, `KnowsWhatItRuns` |
| | `ReportsAlwaysTruthful` | `WorkloadsSpec => ReportsTruthful` | also `Serial`, `SeesWhatItMakes`, `KnowsWhatItRuns` |
| | `DisposesAlwaysOfItsOwn` | `WorkloadsSpec => DisposesOnlyOfItsOwn` | also `Serial`, `"foreign" \notin Ambient` |
| | `SpecsAlwaysBacked` | `WorkloadsSpec => []SpecBacked` | also `Serial`, `KnowsWhatItRuns`, `Lost = {}`, `"remove" \notin Kinds` |
| | `OperationsImplementStore` | `WorkloadsSpec => ImplementsStore` | the same as the last |
| `PortHost_proofs` | `ConflictExact` | of the claims that cannot both be bound, the code finds exactly those in conflict that it does not misjudge | the addresses are `AddressText`s |
| | `ConflictSymmetric` | the conflict relation is symmetric | nothing |
| `PortValidation_proofs` | `TypeCorrect`, `Invariance` | `Spec => []TypeOK`, `Spec => []IInv` | the constants' assumptions |
| | `PassedAlwaysFree` | `Spec => []PassedIsFree` | the constants' assumptions |
| | `FoundAlwaysFree` | `Spec => []FoundIsFree` | the constants' assumptions |
| | `AcceptedAlwaysTogether` | `Spec => []AcceptedTogether` | the constants' assumptions |
| | `NeverInItsOwnWay` | `Spec => []NotInItsOwnWay` | the constants' assumptions |
| `Overview_proofs` | `TypeCorrect` | `Spec => []TypeOK` | the constants' assumptions |
| | `EveryEntryAlwaysShown` | `Spec => []EveryEntryShown` | the same |
| | `SocketsAlwaysAccountedFor` | `Spec => []SocketsAccountedFor` | the same |
| | `ContainerConflictsAlwaysShown` | `Spec => []ContainerConflictsShown` | the same |
| | `FreeAlwaysFree` | `Spec => []FreeIsFree` | the same |
| | `MissingAlwaysMissing` | `Spec => []MissingIsMissing` | the same |
| `Networks_proofs` | `OverlapIsSharing` | two subnets overlap for the code exactly when they share an address | the constants' assumptions |
| | `TypeCorrect` | `Spec => []TypeOK` | the same |
| | `ListedAlwaysWhole` | `Spec => []ListedWhole` | the same |
| | `CreatedAlwaysApart` | `Spec => []CreatedApart` | the same |
| | `RemovedAlwaysUnused` | `Spec => []RemovedUnused` | the same |
| `Settings_proofs` | `ConfigAlwaysWhole` | `Spec => []ConfigWhole` | `OneSaver` |
| | `SaveAlwaysTruthful` | `Spec => SaveTruthful` | `OneSaver` |

**Mutation.** `SpecBacked` is not inductive: whether the removal of a
backup is harmless depends on what was verified five steps earlier. `IInv` adds,
for each transaction under way, where its original is and under which name
(`OriginalPlaced`), where the containers it created are (`SpawnedPlaced`),
that what is about to be committed was seen to match and that what a rollback
is about to remove is its own or holds the service's name while the original
does not (`ReplacementPlaced`), and that the staged file is what was asked for
(`CandidateStaged`). `NamesUnique`, `NamedForService` and `OneAtATime` make
the transactions independent: a command by one refers to no container of
another. The proof has one lemma per action and conjunct, a lemma that shows
that a step of one transaction leaves the others' facts alone, and one
for the host's moves.

**Never both running.** `RunInv`, beside `IInv`: at most one container runs for a
service, and none under another name while one has the service's (`OneRuns`); a
transaction that has renamed its original knows all that runs for the service, the
original is down from the creation to the removal of the replacement, and when the name
is restored one of the two does not run or is gone (`Guarded`). In most steps containers
only stop or go (`Fades`), which disturbs nothing; the two renames, the creation and
the restart are what is left. Without the assumption on `Ambient` it is false: a restart
policy may start the stopped backup.

**Refinement.** `MutationImplementsStore` rests on `IInv`. Every step is one of
`WorkloadStore`'s or a stutter: only a creation brings, only `Commit` promotes, and
what it promotes is there by `ReplacementPlaced`; a removal retires at most what
the authoritative spec does not describe, for a candidate's original still exists, and
a backup goes only after the commit.

**A return means service.** `ServInv`, beside `IInv`: whoever has a service's name is whom
the transaction takes it for, in the lifecycle it expects, and the name is free when
something is to be created or restored under it (`Standing`); transactions on a service
where none died found it in the same lifecycle (`Agree`); and a service nobody is at work
on is as its spec says (`Serves`). A rollback is then sure to find and remove what was
created, to free the name and to bring the original back. `ForwardFaultsOnly` says that
what fails is not a rename, nor a command a rollback depends on (a start, a removal, a
listing), and that nobody else moves containers. A stop, a start or a removal may report a
failure although it took effect, which the code sees by looking again. With other faults
the code says that manual recovery is required, and the statement is false.

**Files.** `FilesAlwaysAccountedFor` needs no `Serial`: candidate files have names
of their own. Its invariant says at which positions a transaction has staged
nothing, and what its staged file is until then.

**All operations.** The same idea as `IInv`, for seven kinds of operation that call
podman in different orders. None of the four properties follows from itself: a
report is true because of what the operation remembers, and what it remembers
stays true because no other operation touches it. `WInv` says of each
operation what it remembers and what has become of it: the containers it refers to have
existed and its step is one of its kind's (`RefersOK`); what it created bears its
service's label and name (`SpawnOK`); the original of a mutation or deployment
runs what the stored spec says, until the commit (`TargetOK`), that of an adoption
bears no label (`AdoptedOK`); from the rename on nothing else of Podder's has the
service's name (`ClearedOK`); the staged file is what was asked for (`FilesOK`); the
replacement exists and was seen to run it (`BuiltOK`); what is to be erased
is nobody else's (`UpkeepOK`). Most steps neither create nor rename nor remove;
for these the proof lists the ways from step to step of each procedure and shows
that a way alone disturbs nothing. Creations, renames, removals and
commits are taken one by one; then a step of one operation is shown to spare the
facts about the others. Reports follow by sorting the returns: nothing was begun, nothing of
it is left, the original was put back, or the replacement serves. What a report says of the
original needs `PlacedInv` beside `WInv`: on a host without strangers, an original that is
not touched yet is where it was found, and one that is put aside has its backup's name and,
once an adoption counts on it, does not run (`Untouching`, `Aside`). The operations' own
commands, other operations and the host's moves are each shown to leave it there. `SettledAsStored` needs one
more invariant (`StoredInv`): with only `Calm` operations on a service, those that
have touched nothing or returned without a warning, its container is as stored.

**Every spec backed, and the store.** `SpecBacked` of all operations needs more
than itself: what backs a spec must not be what an operation may still take back.
`BackedInv` says so, of every operation that is `Provisional`, that is, not yet at
its last steps. Only a commit and a deletion write a spec, and they touch no container;
the one is of what was created and seen to run it, the other when no container has
the label; and of what a spec describes only an original goes, at the last step of
its replacement, which runs the same spec. With that every step is one of `WorkloadStore`'s.

What these six assume beyond `Serial` is where the code's own knowledge ends:

- `SeesWhatItMakes`: not both a creation that takes effect though it reports a
  failure and a listing that fails. With both, a managed creation looks for what it
  may have made, is told nothing, and reports a plain failure: (f) of section 5.
- `KnowsWhatItRuns`: a created container runs what was asked, or its ports tell
  deployments apart. An adoption verifies its replacement by ports alone, so it cannot
  see another kind of drift.
- No `"remove"` and nothing `Lost`, for the last two only: a removal takes away what a
  spec describes, because a user asked for it, and a service that has lost its container
  has a spec that nothing backs until it is deployed again.
- No `"foreign"` containers, for `DisposesAlwaysOfItsOwn` only: a leftover is removed by name
  (`mutations.go` 637, 645), and a stranger who takes the name between the rename and
  the creation is removed as one.

**Networks.** `OverlapIsSharing` gives the comparison of subnets its meaning: the code asks
whether one contains the other's address, and that is the same as having an address in
common, for any width of address. The invariant says what the
call has been shown of what stayed: a network that has been there since
the call began is among those seen (`SeenOK`), and an attachment that has been there
since then is among the containers seen attached (`ConnectedOK`), once the command that
looks for it has succeeded. A creation or a removal is decided on these, so a new
subnet is apart from every one that stayed, and a removed network had no
attachment that stayed.

**Validation.** What has been held throughout is held now (`HeldNow`),
so each source, at the moment it is looked at, shows all of its part of it
(`Collected`); the claims are fresh for each mapping and no listener that podman's
claims cover is among them (`Fresh`); and `ConflictExact` turns a claim that
overlaps into one that conflicts, unless it is misjudged.

**Overview.** What stayed is there now (`StillThere`), and what stayed was
noticed by every look that has been taken and has not failed (`Noticed`); what
the call returns is then a matter of sets. The sockets of mappings are addresses that `ss`
prints, by `PublishedAssumption` and `SocketAddress`.

**Settings.** With one saver at a time (`Alone`) one whole document is in force
(`Whole`), and the temporary file is another file than the one in force
(`Apart`): a saver that has not opened it has none of its own yet (`Fresh`), and one that has
writes to it, and has its document alone in it before the rename (`Holding`).
What was in force when a save began stays in force until it ends (`Remembered`).

**Model-checked only.** `Returns` (liveness under fairness is out of the
prover's reach), and `NeverBothRunning` and `RollbackTruthful` of two mutations that
overlap. Both are proved of any number of mutations that do not; without `Serial` they
are false of three, so there is nothing to prove for every `Op`.

## 5. Findings

1. *Overlapping mutations lose a service* (`overlap_loss`). The second mutation
   passes its preflight while the first is under way, and renames and stops the
   first's replacement, which now has the name. The first fails to verify,
   removes its replacement and restores the original; the second's create fails
   on the taken name, takes whatever holds it for its own leftover
   (`mutations.go` 637) and force-removes the restored original.
2. *A stopped container hides a process's socket* (`stopped_claim`). A listener is
   taken for a container's when any configured mapping conflicts with it, though
   the container may not run (`ports.go` 641). If that container is the ignored one,
   or its mapping is narrower than the socket, nothing is left that conflicts, and
   a port held all along is "free and available".
3. *Torn settings* (`torn_settings`). All saves share `config.json.tmp`
   (`registry.go` 242): one renames what another has just opened and cut off, and
   `config.json` does not parse.

**Exceptions of properties**, that is, what the code says of itself and does not do. Each is
found by TLC when the exception is taken out, or the constants named are changed:

* (a) *A wildcard in another spelling.* `IsWildcardAddress` "returns true if the address
  represents all interfaces" (`ports.go` 238) and compares texts (241): `::0`,
  `0:0:0:0:0:0:0:0` or `::ffff:0.0.0.0` is an address of its own, and a mapping on it passes
  beside a socket it cannot be bound with. `CategorizeExposure` (200) knows these spellings.
  `PassedIsFree` without `Misjudged` fails.
* (b) *A listener that is not listed.* The overview adds "host listeners that are not owned by
  Podman mappings" (`ports.go` 974), and leaves one out when any configured mapping of the
  second listing covers it (983): that of a stopped container, or of one that came during the
  call and is not shown itself. That every process's socket of `held` is in `SpareSockets` fails.
* (c) *Free, for ss was not heard.* The error of `ss` is dropped (`ports.go` 717), and a reserved
  port that is in use is "currently unused" (`frontend/src/trust.js` 164). `FreeIsFree`
  without `"ss" \notin missed` fails.
* (d) *"Not changed" after a late rename.* A rename that takes effect and reports failure is
  answered without a look and without a rollback (`mutations.go` 582, `specs.go` 619,
  `adoption.go` 523): the original stays under a backup name nobody is told, while
  `mutations.go` 584 says that it was not changed and `adoption.go` 455-457 promises that it is
  untouched. `ReportsTruthful` without the backup's name in `NotChangedTruly` fails.
* (e) *A deletion overtaken by a creation.* Between the listing and the unlinking of `DeleteSpec`
  (`specs.go` 466, 484) a creation puts its container and its spec there; the container
  stays, labelled, without a spec, which the refusal at 477 is there to exclude.
  `OrphansAccountedFor` fails with `Serial = FALSE` and the kinds create and delete.
* (f) *A creation that was not seen.* The run of a managed creation fails after its effect, the
  listing that looks for the container fails too and counts as "not there" (`podman.go` 622):
  the container stays, labelled, without a spec, which `podman.go` 540-543 rules out.
  `OrphansAccountedFor` fails with a fault of listings and a late fault of creation.

**Also observed**, without a run:

* Three mutations that overlap on a service break what two do not (`mutation_overlap` with
  a third member of `Op` and a fourth container). One is asked for while a rollback has
  restored the name and not yet the lifecycle, so that it takes the original for a stopped
  one and does not stop it: the original runs under its backup name beside what the
  third creates. And a rollback restores an original, truthfully, that a
  commit of another mutation has meanwhile replaced in the spec.
* `RemovedCandidate` of a rollback is set without a look when the transaction
  believes it created nothing (`mutations.go` 987), which it also believes when the
  listing failed.
* After a create that failed, what holds the service's name is taken for the leftover
  and force-removed, be it an operator's container (`mutations.go` 637, 645).
* A registry entry on `localhost` reserves nothing on 127.0.0.1: the comparison knows no
  names (`ports.go` 244). The free-port search never tries 65535 (`ports.go` 1459).
* Overview: an earlier reserved, planned or retired entry for the same endpoint takes
  the match, and an active service that runs there is reported missing (`Shadowed`); a
  registry claim that is not reserved and comes earlier in the file hides a reserved
  conflict; a stopped container's mapping counts as a match though the status
  is documented as "declared and running" (`registry.go` 437-484); whether a reserved
  entry is free is asked of its first port only.
* Adoption: a container without a network of its own is not turned away
  (`adoption.go` 136), a stop timeout of zero becomes the default (219), step 5 of the
  comment says "remove the backup", which is kept.
* The settings page sends a document without `localNode` and `treatUnscopedAsLocal`
  (`frontend/src/main.js` 818-833), so that a save there resets both.

## 6. Not modelled

* *SaveSpec* (`specs.go` 238): nothing in the program calls it. *RestartContainer*,
  images, logs: single commands passed on to podman.
* *Provenance*: a classifier of labels; transactions see its verdict. *Run
  arguments, publish grammar, quadlet, compose editor (which refuses to write),
  trusted paths*: text to text, without state; a model would restate them.
* *Command line, user interface, packaging*: plumbing. That the interface can issue a second call
  while one runs is in the models.
* A podman command that never returns: there is no timeout, and nothing left to check.
* Ports and workloads together: the transactions see only that validation may
  refuse. What an adoption's kept backup means for later validations is in neither model.
