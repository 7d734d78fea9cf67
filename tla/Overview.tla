-------------------------------- MODULE Overview --------------------------------
(***************************************************************************)
(* GetPortOverview: the ports of the host as the user is shown them, held   *)
(* against the registry.  One call lists the containers and the sockets,    *)
(* reads the settings and the registry, and then looks at all of them a     *)
(* second time to find conflicts, while the host, the registry file and the *)
(* settings change.  A source that fails is left out, except for the first  *)
(* listing of the containers.                                              *)
(***************************************************************************)
EXTENDS PortHost, Registry

CONSTANTS
  NameOf,        \* NameOf[c]: the name of container c
  Proxy,         \* the process that holds the sockets of containers
  Listenable,    \* the sockets other processes may open
  Declarable,    \* what the registry file may hold
  Setting,       \* the settings there may be in config.json
  Default,       \* what holds without a file, or with one that does not parse
  Unreadable,    \* a config.json that does not parse
  Failing,       \* the sources that may fail
  MaxMoves       \* bound: how often the host moves during a call

ASSUME OverviewAssumption ==
  /\ NoContainer \notin Container
  /\ NameOf \in [Container -> STRING] /\ \A c \in Container : NameOf[c] # Unset
  /\ Listenable \subseteq [address: AddressText, port: Port, protocol: Protocol,
                           size: {0}, process: STRING]
  /\ Declarable \subseteq Seq(Entry)
  /\ Failing \subseteq {"podman", "ss"}
  /\ MaxMoves \in Nat
  /\ Setting \subseteq [enabled: BOOLEAN, unscopedAsLocal: BOOLEAN]
  /\ Default \in Setting /\ ~Default.enabled
  /\ Unreadable \notin Setting

VARIABLES
  state,        \* state[c]: "absent", "stopped" or "running"
  listeners,    \* sockets of other processes
  registry,     \* what the registry file holds
  config,       \* what config.json holds
  moves,        \* how often the host has moved during the call
  phase,        \* where the call is
  shown,        \* containers: the state as first listed
  heard,        \* the sockets as first listed
  setting,      \* the settings as first read
  records,      \* the registry as first loaded; <<>> when it is not
  claimants,    \* the containers of the second listing
  unclaimed,    \* the sockets of the second listing that no container claims
  declared,     \* declared[i]: the entries of the second loading about this node
  missed,       \* history: the sources that failed
  stayed,       \* history: the containers there have been all along
  held          \* history: the sockets there have been all along

host == <<state, listeners, registry, config>>
seen == <<shown, heard, setting, records, claimants, unclaimed, declared, missed>>
vars == <<state, listeners, registry, config, moves, phase, shown, heard, setting,
          records, claimants, unclaimed, declared, missed, stayed, held>>

Socket == [address: AddressText, port: Port, protocol: Protocol, size: {0},
           process: {l.process : l \in Listenable} \cup {Proxy}]

TypeOK ==
  /\ state \in [Container -> {"absent", "stopped", "running"}]
  /\ listeners \subseteq Listenable
  /\ registry \in Declarable
  /\ config \in Setting \cup {Unreadable}
  /\ moves \in 0 .. MaxMoves
  /\ phase \in {"idle", "containers", "sockets", "settings", "registry",
                "claimants", "unclaimed", "declared", "done", "failed"}
  /\ shown \in [Container -> {"absent", "stopped", "running"}]
  /\ heard \subseteq Socket
  /\ setting \in Setting
  /\ records \in Declarable \cup {<<>>}
  /\ claimants \subseteq Container
  /\ unclaimed \subseteq Socket
  /\ DOMAIN declared \subseteq Nat
  /\ missed \subseteq Failing
  /\ stayed \subseteq Container
  /\ held \subseteq Socket

-------------------------------------------------------------------------------
(* The host.                                                               *)

There(s) == {c \in Container : s[c] # "absent"}

\* The sockets of the host, as ss lists them.
Sockets(s, ls) ==
  ls \cup {[address |-> b.address, port |-> b.port, protocol |-> b.protocol,
            size |-> 0, process |-> Proxy] : b \in Bound(s)}

Bindable(socket) == \A b \in Sockets(state, listeners) : ~Overlap(socket, b)

\* Bound: what happens outside of the call is of no interest.
OnTheWay == phase \notin {"idle", "done", "failed"}

HostMoves(newState, newListeners, newRegistry, newConfig) ==
  /\ OnTheWay
  /\ moves < MaxMoves
  /\ moves' = moves + 1
  /\ state' = newState
  /\ listeners' = newListeners
  /\ registry' = newRegistry
  /\ config' = newConfig
  /\ stayed' = stayed \cap There(newState)
  /\ held' = held \cap Sockets(newState, newListeners)
  /\ UNCHANGED <<phase, seen>>

Becomes(c, s) == HostMoves([state EXCEPT ![c] = s], listeners, registry, config)

ContainerMoves(c) ==
  \/ state[c] \in {"absent", "running"} /\ Becomes(c, "stopped")
  \/ /\ state[c] = "stopped"
     /\ \/ /\ \A m \in Published[c] : \A b \in SocketsOf(m) : Bindable(b)
           /\ Becomes(c, "running")
        \/ Becomes(c, "absent")

ProcessMoves(l) ==
  \/ /\ l \notin listeners /\ Bindable(l)
     /\ HostMoves(state, listeners \cup {l}, registry, config)
  \/ l \in listeners /\ HostMoves(state, listeners \ {l}, registry, config)

OperatorEdits(file) ==
  file # registry /\ HostMoves(state, listeners, file, config)

\* A save of the settings is one step here; Settings shows what that takes.
SettingsSaved(v) ==
  v # config /\ HostMoves(state, listeners, registry, v)

-------------------------------------------------------------------------------
(* The call.                                                               *)

Init ==
  /\ state \in [Container -> {"absent", "stopped", "running"}]
  /\ listeners \in SUBSET Listenable
  /\ \A a, b \in Sockets(state, listeners) : a = b \/ ~Overlap(a, b)
  /\ registry \in Declarable
  /\ config \in Setting \cup {Unreadable}
  /\ moves = 0
  /\ phase = "idle"
  /\ shown = [c \in Container |-> "absent"]
  /\ heard = {}
  /\ setting = Default
  /\ records = <<>>
  /\ claimants = {}
  /\ unclaimed = {}
  /\ declared = <<>>
  /\ missed = {}
  /\ stayed = {}
  /\ held = {}

GetPortOverview ==
  /\ phase = "idle"
  /\ phase' = "containers"
  /\ stayed' = There(state)
  /\ held' = Sockets(state, listeners)
  /\ UNCHANGED <<host, moves, seen>>

Looks(from, to) == phase = from /\ phase' = to /\ UNCHANGED <<host, moves, stayed, held>>

Answers == missed' = missed
Fails(source) == source \in Failing /\ missed' = missed \cup {source}

ListContainers ==
  /\ \/ Looks("containers", "sockets") /\ shown' = state /\ Answers
     \/ Looks("containers", "failed") /\ UNCHANGED shown /\ Fails("podman")
  /\ UNCHANGED <<heard, setting, records, claimants, unclaimed, declared>>

ListHostListeners ==
  /\ Looks("sockets", "settings")
  /\ \/ heard' = Sockets(state, listeners) /\ Answers
     \/ heard' = {} /\ Fails("ss")
  /\ UNCHANGED <<shown, setting, records, claimants, unclaimed, declared>>

\* Settings that do not parse are as good as none.
GetSettings == IF config = Unreadable THEN Default ELSE config

\* Mutant: the error is dropped, and what came with it is used.
ReadSettingsUnchecked ==
  /\ Looks("settings", "registry")
  /\ setting' = config
  /\ UNCHANGED <<shown, heard, records, claimants, unclaimed, declared, missed>>

ReadSettings ==
  /\ Looks("settings", "registry")
  /\ setting' = GetSettings
  /\ UNCHANGED <<shown, heard, records, claimants, unclaimed, declared, missed>>

LoadPortRegistry ==
  /\ Looks("registry", "claimants")
  /\ records' = IF setting.enabled THEN registry ELSE <<>>
  /\ UNCHANGED <<shown, heard, setting, claimants, unclaimed, declared, missed>>

\* CollectPortClaimsForDisplay, from here to the third source.
ClaimContainers ==
  /\ Looks("claimants", "unclaimed")
  /\ \/ claimants' = There(state) /\ Answers
     \/ claimants' = {} /\ Fails("podman")
  /\ UNCHANGED <<shown, heard, setting, records, unclaimed, declared>>

Claims == UNION {Owned(c, Published[c]) : c \in claimants}
Covered(l) == \E c \in Claims : CoversListener(c, l)

ClaimSockets ==
  /\ Looks("unclaimed", "declared")
  /\ \/ unclaimed' = {l \in Sockets(state, listeners) : ~Covered(l)} /\ Answers
     \/ unclaimed' = {} /\ Fails("ss")
  /\ UNCHANGED <<shown, heard, setting, records, claimants, declared>>

\* Settings and registry are read once more; here the two reads are one step.
ClaimRegistry ==
  /\ Looks("declared", "done")
  /\ declared' =
       IF GetSettings.enabled
         THEN [i \in Local(registry, GetSettings.unscopedAsLocal) |-> registry[i]]
         ELSE <<>>
  /\ UNCHANGED <<shown, heard, setting, records, claimants, unclaimed, missed>>

Call ==
  \/ GetPortOverview \/ ListContainers \/ ListHostListeners \/ ReadSettings
  \/ LoadPortRegistry \/ ClaimContainers \/ ClaimSockets \/ ClaimRegistry

Next ==
  \/ Call
  \/ \E c \in Container : ContainerMoves(c)
  \/ \E l \in Listenable : ProcessMoves(l)
  \/ \E file \in Declarable : OperatorEdits(file)
  \/ \E v \in Setting \cup {Unreadable} : SettingsSaved(v)

Spec == Init /\ [][Next]_vars

-------------------------------------------------------------------------------
(* What the call returns, once all is collected.                           *)

\* The containers' mappings and the sockets that are shown, each an endpoint with
\* its owner; the process that holds a socket may be unknown.
ContainerItems ==
  UNION {{[endpoint |-> m, owner |-> NameOf[c], container |-> c] : m \in Published[c]} :
           c \in There(shown)}

\* Mutant: what the registry declares counts as a container's.
SpareSocketsOfNobody ==
  {l \in heard : ~Covered(l) /\ \A i \in DOMAIN declared : ~CoversListener(declared[i], l)}

SpareSockets == {l \in heard : ~Covered(l)}

SocketItems ==
  {[endpoint |-> l, owner |-> l.process, container |-> NoContainer] : l \in SpareSockets}

Items == ContainerItems \cup SocketItems

Here == Local(records, setting.unscopedAsLocal)

OwnedBy(entry, item) == item.owner # Unset /\ entry.service = item.owner

First(is) == IF is = {} THEN 0 ELSE CHOOSE i \in is : \A j \in is : i <= j

\* findRegistryMatch: the first entry for the endpoint that is the owner's, or
\* that is about the endpoint whoever has it.
RegistryMatch(item) ==
  First({i \in Here : /\ EndpointMatches(records[i], item.endpoint)
                      /\ ExpectsBindMatch(records[i]) => OwnedBy(records[i], item)})

\* findRegistryOwnerMismatch and findRegistryBindMismatch; the latter is for
\* containers only.
OwnerMismatch(item) ==
  First({i \in Here : /\ EndpointMatches(records[i], item.endpoint)
                      /\ ExpectsBindMatch(records[i])
                      /\ ~OwnedBy(records[i], item)})
BindMismatch(item) ==
  First({i \in Here : /\ item.container # NoContainer
                      /\ ExpectsBindMatch(records[i])
                      /\ SameRange(records[i], item.endpoint)
                      /\ OwnedBy(records[i], item)
                      /\ ~Equivalent(records[i], item.endpoint)})

\* The entry an item is reconciled with, or 0.
Reconciled(item) ==
  LET match == RegistryMatch(item)
      owner == OwnerMismatch(item)
  IN IF match # 0 THEN match ELSE IF owner # 0 THEN owner ELSE BindMismatch(item)

\* FindConflict for a container's item, in the order of the claims: containers,
\* sockets, registry.  An entry that is neither reserved nor planned is no conflict,
\* and hides one that comes after it.
ContainerInConflict(item) ==
  \/ Conflicts(Claims \cup Owned(NoContainer, unclaimed), item.endpoint,
               item.container, NoContainer)
  \/ LET i == First({j \in DOMAIN declared : ClaimsConflict(declared[j], item.endpoint)})
     IN i # 0 /\ declared[i].state \in {"reserved", "planned"}

\* matchedRegistryIDs: entries are remembered by their ids.
MatchedIDs == {records[i].id : i \in {Reconciled(item) : item \in Items} \ {0}}
Unmatched ==
  LET matched == MatchedIDs IN {i \in Kept(records) : records[i].id \notin matched}

\* Mutant: the texts of the addresses are compared.
OccupiedAsWritten(entry) ==
  \E l \in heard : /\ l.port = entry.port
                   /\ l.protocol = entry.protocol
                   /\ l.address = entry.address

IsHostOccupied(entry) ==
  \E l \in heard : /\ l.port = entry.port
                   /\ l.protocol = entry.protocol
                   /\ AddressesConflict(l.address, entry.address)

\* The status of an entry that is reconciled with nothing that was seen.
UnmatchedStatus(i) ==
  LET entry == records[i]
  IN CASE i \notin Here /\ entry.node = Unset -> "UNSCOPED"
       [] i \notin Here /\ entry.node # Unset -> "REMOTE"
       [] i \in Here /\ entry.state = "reserved" ->
            IF IsHostOccupied(entry) THEN "RESERVED_IN_USE" ELSE "RESERVED_FREE"
       [] OTHER -> ClassifyMissing(entry.state)

-------------------------------------------------------------------------------
(* Correctness.                                                            *)

\* Endpoints that have been there during the whole of the call: the mappings of
\* containers, and the sockets of processes that no container's mapping covers.
Constant ==
  (UNION {{[endpoint |-> m, owner |-> NameOf[c]] : m \in Published[c]} : c \in stayed})
    \cup {[endpoint |-> l, owner |-> l.process] :
            l \in {x \in held \cap heard : ~Covered(x)}}

SamePorts(a, b) == a.protocol = b.protocol /\ Ports(a) = Ports(b)

\* An earlier entry for the same ports of this node.
Shadowed(i) == \E j \in Here : j < i /\ SamePorts(records[j], records[i])

\* A service that is declared active and has been where it is declared all along,
\* under its name, is not reported missing, unless an earlier entry has its ports.
MissingIsMissing ==
  phase = "done" =>
    \A i \in Unmatched : UnmatchedStatus(i) = "DECLARED_MISSING" =>
      Shadowed(i) \/ ~\E x \in Constant :
        /\ SamePorts(records[i], x.endpoint)
        /\ records[i].address = x.endpoint.address
        /\ OwnedBy(records[i], x)

\* A single reserved port is not reported free if a socket has had it all along,
\* provided that ss could be asked and that the addresses are not misjudged.
FreeIsFree ==
  phase = "done" /\ "ss" \notin missed =>
    \A i \in Unmatched : UnmatchedStatus(i) = "RESERVED_FREE" =>
      LET claim == [records[i] EXCEPT !.size = 0]
      IN \A l \in held : Overlap(claim, l) => Misjudged(claim, l)

\* No entry of the registry is lost: each is shown, with an item that was seen or
\* on its own.
EveryEntryShown ==
  phase = "done" =>
    Kept(records) \subseteq Unmatched \cup {Reconciled(item) : item \in Items}

\* A socket that has been open all along, on a host whose ss could be asked, is not
\* dropped without a container whose mapping covers it; and that container is shown
\* in its place, unless it came during the call.
SocketsAccountedFor ==
  phase = "done" /\ "ss" \notin missed =>
    \A l \in held :
      l \in SpareSockets \/ \E c \in claimants :
        /\ \E m \in Published[c] : CoversListener(m, l)
        /\ c \in stayed => \E item \in ContainerItems : item.container = c

\* Two containers that have been there all along with mappings that cannot both
\* be bound are shown to be in conflict, both of them, provided that podman could
\* be asked a second time and that the addresses are not misjudged.
ContainerConflictsShown ==
  phase = "done" /\ "podman" \notin missed =>
    \A x, y \in ContainerItems :
      /\ {x.container, y.container} \subseteq stayed /\ x.container # y.container
      /\ Overlap(x.endpoint, y.endpoint) /\ ~Misjudged(x.endpoint, y.endpoint)
      => ContainerInConflict(x)
===============================================================================
