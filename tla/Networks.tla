-------------------------------- MODULE Networks --------------------------------
(***************************************************************************)
(* One call of ListNetworks, CreateNetwork or RemoveNetwork: a strict or a  *)
(* tolerant look at all networks and at what every container is attached   *)
(* to, one command at a time, and then the change.  Networks, containers   *)
(* and interfaces come and go meanwhile, by operators and by other calls.  *)
(* What podman would refuse by itself is left out: what holds here holds   *)
(* by Podder's own checks.                                                 *)
(***************************************************************************)
EXTENDS Naturals

CONSTANTS
  NetworkName,      \* names of networks
  DefaultNetwork,   \* those that cannot be removed
  Container,        \* containers
  Width,            \* the bits of an address
  Subnet,           \* the subnets a network may have, or be asked to have
  Interface,        \* the addresses interfaces of the host may have
  LocalInterface,   \* those that are loopback or link-local
  Gateway,          \* the gateways a caller may ask for
  NoSubnet, NoGateway, NoName,
  CommandFaults,    \* the commands that may fail: a subset of Commands
  MaxMoves          \* bound: moves of the host during one call

Commands == {"inspect all", "ls", "inspect named", "ps", "inspect", "interfaces",
             "create", "rm"}

\* An IP address, and a net.IPNet: an address with the length of its mask.  The
\* bits of the address beyond the mask may be anything.
Families == {"IPv4", "IPv6"}
Address == [family : Families, bits : [1 .. Width -> {0, 1}]]
IPNet == [family : Families, bits : [1 .. Width -> {0, 1}], length : 0 .. Width]

ASSUME NetworksAssumption ==
  /\ Width \in Nat /\ MaxMoves \in Nat
  /\ Subnet \subseteq IPNet /\ Interface \subseteq IPNet
  /\ LocalInterface \subseteq Interface
  /\ Gateway \subseteq Address
  /\ DefaultNetwork \subseteq NetworkName
  /\ CommandFaults \subseteq Commands
  /\ NoSubnet \notin Subnet /\ NoGateway \notin Gateway /\ NoName \notin NetworkName

VARIABLES
  nets,       \* nets[n]: the subnets of network n; its domain is what exists
  uses,       \* uses[c]: the networks container c is attached to; likewise
  host,       \* the addresses of the host's interfaces
  call,       \* what was asked for: "list", "create" or "remove", and of what
  at,         \* the command that comes next
  seen,       \* the networks as they were listed
  connected,  \* <<n, c>>: container c was found attached to network n
  todo,       \* the containers still to be inspected
  stayed,     \* history: what has been there ever since the call began
  moves

hostVars == <<nets, uses, host>>
vars == <<hostVars, call, at, seen, connected, todo, stayed, moves>>

Answers == {"listed", "refused", "created", "removed", "failed"}
NoNetworks == [n \in {} |-> {}]

\* Every variable keeps its type; a network is listed with its subnets.
TypeOK ==
  /\ DOMAIN nets \subseteq NetworkName /\ \A n \in DOMAIN nets : nets[n] \subseteq Subnet
  /\ DOMAIN uses \subseteq Container /\ \A c \in DOMAIN uses : uses[c] \subseteq NetworkName
  /\ host \subseteq Interface
  /\ call \in [kind : {"none", "list", "create", "remove"},
               name : NetworkName \cup {NoName}, subnet : Subnet \cup {NoSubnet}]
  /\ at \in {"idle", "decide"} \cup Commands \cup Answers
  /\ DOMAIN seen \subseteq NetworkName
  /\ \A n \in DOMAIN seen : seen[n] # {} /\ seen[n] \subseteq Subnet
  /\ connected \subseteq NetworkName \X Container
  /\ todo \subseteq Container
  /\ stayed \in [nets : SUBSET NetworkName, attached : SUBSET Container,
                 host : SUBSET Interface]
  /\ moves \in 0 .. MaxMoves

\* A table with an entry more, or less.
With(f, x, v) == [y \in DOMAIN f \cup {x} |-> IF y = x THEN v ELSE f[y]]
Without(f, x) == [y \in DOMAIN f \ {x} |-> f[y]]

-------------------------------------------------------------------------------
(* Subnets.                                                                *)

\* IPNet.Contains.
Contains(s, address) ==
  /\ s.family = address.family
  /\ \A i \in 1 .. s.length : s.bits[i] = address.bits[i]

IPOf(s) == [family |-> s.family, bits |-> s.bits]

\* Mutant: only one of the two may lie within the other.
OverlapOneWay(a, b) == Contains(a, IPOf(b))

SubnetsOverlap(a, b) == Contains(a, IPOf(b)) \/ Contains(b, IPOf(a))

\* What overlapping is about: an address that lies in both.
Share(a, b) == \E address \in Address : Contains(a, address) /\ Contains(b, address)

\* Any address will do without a subnet.
ValidGateway(gateway, s) ==
  gateway # NoGateway /\ s # NoSubnet => Contains(s, gateway)

FindSubnetOverlap(s) == \E n \in DOMAIN seen : \E t \in seen[n] : SubnetsOverlap(s, t)
HostNetworks == host \ LocalInterface
FindHostNetworkOverlap(s) == \E h \in HostNetworks : SubnetsOverlap(s, h)

-------------------------------------------------------------------------------
(* The call.                                                               *)

Apart(s, taken) == \A t \in taken : ~Share(s, t)
OneOfEach(T) == \A s, t \in T : s.family = t.family => s = t
InUse == UNION {nets[n] : n \in DOMAIN nets}

Init ==
  /\ nets \in UNION {[S -> {T \in SUBSET Subnet : T # {} /\ OneOfEach(T)}] :
                       S \in SUBSET NetworkName}
  /\ \A n, m \in DOMAIN nets : n # m => \A s \in nets[n] : Apart(s, nets[m])
  /\ uses \in UNION {[S -> SUBSET DOMAIN nets] : S \in SUBSET Container}
  /\ host \in SUBSET Interface
  /\ call = [kind |-> "none", name |-> NoName, subnet |-> NoSubnet]
  /\ at = "idle"
  /\ seen = NoNetworks
  /\ connected = {}
  /\ todo = {}
  /\ stayed = [nets |-> {}, attached |-> {}, host |-> {}]
  /\ moves = 0

Strict == call.kind # "list"
MayFail(command) == command \in CommandFaults

Begin(kind, n, s) ==
  /\ at = "idle"
  /\ call' = [kind |-> kind, name |-> n, subnet |-> s]
  /\ stayed' = [nets |-> DOMAIN nets,
                attached |-> {c \in DOMAIN uses : n \in uses[c]},
                host |-> HostNetworks]
  /\ UNCHANGED <<hostVars, seen, connected, todo, moves>>

ListNetworks == Begin("list", NoName, NoSubnet) /\ at' = "inspect all"

\* The checks that need no command: the name's form, the driver and the CIDR may
\* refuse as well.
CreateNetwork(n, s, gateway) ==
  /\ Begin("create", n, s)
  /\ \/ ValidGateway(gateway, s) /\ at' = "inspect all"
     \/ at' = "refused"

RemoveNetwork(n) ==
  /\ Begin("remove", n, NoSubnet)
  /\ IF n \in DefaultNetwork THEN at' = "refused" ELSE at' = "inspect all"

Look == UNCHANGED <<hostVars, call, stayed, moves>>

\* podman network inspect -a
InspectAll ==
  /\ at = "inspect all"
  /\ \/ seen' = nets /\ at' = "ps"
     \/ MayFail(at) /\ at' = "ls" /\ UNCHANGED seen
  /\ Look /\ UNCHANGED <<connected, todo>>

\* podman network ls: the names alone.  There may be none.
ListNames ==
  /\ at = "ls"
  /\ \/ /\ seen' = nets
        /\ IF nets # NoNetworks THEN at' = "inspect named"
           ELSE at' = IF Strict THEN "decide" ELSE "listed"
     \/ MayFail(at) /\ at' = "refused" /\ UNCHANGED seen
  /\ Look /\ UNCHANGED <<connected, todo>>

\* Mutant: a named network that is gone is an entry without subnets.
InspectNamedLeniently ==
  /\ at = "inspect named"
  /\ seen' = [n \in DOMAIN seen |-> IF n \in DOMAIN nets THEN nets[n] ELSE {}]
  /\ at' = "ps"
  /\ Look /\ UNCHANGED <<connected, todo>>

\* Mutant: only one of the names is passed on.
InspectNamedFirst ==
  /\ at = "inspect named"
  /\ DOMAIN seen \subseteq DOMAIN nets
  /\ \E n \in DOMAIN seen : seen' = [m \in {n} |-> nets[m]]
  /\ at' = "ps"
  /\ Look /\ UNCHANGED <<connected, todo>>

\* podman network inspect <name>...: it fails when one of them is gone.
InspectNamed ==
  /\ at = "inspect named"
  /\ \/ /\ DOMAIN seen \subseteq DOMAIN nets
        /\ seen' = [n \in DOMAIN seen |-> nets[n]]
        /\ at' = "ps"
     \/ /\ ~(DOMAIN seen \subseteq DOMAIN nets) \/ MayFail(at)
        /\ at' = "refused" /\ UNCHANGED seen
  /\ Look /\ UNCHANGED <<connected, todo>>

\* podman ps -a; a display makes do without it.
ListContainers ==
  /\ at = "ps"
  /\ \/ todo' = DOMAIN uses /\ at' = "inspect"
     \/ /\ MayFail(at)
        /\ IF Strict THEN at' = "refused" ELSE at' = "listed"
        /\ UNCHANGED todo
  /\ Look /\ UNCHANGED <<seen, connected>>

\* Mutant: a container that cannot be inspected is skipped.
InspectSkipping(c) ==
  /\ at = "inspect" /\ c \in todo
  /\ todo' = todo \ {c}
  /\ \/ /\ c \in DOMAIN uses
        /\ connected' = connected \cup {<<n, c>> : n \in uses[c] \cap DOMAIN seen}
     \/ (c \notin DOMAIN uses \/ MayFail(at)) /\ UNCHANGED connected
  /\ Look /\ UNCHANGED <<at, seen>>

\* podman inspect <id>, for each container: it fails when that one is gone.
InspectContainer(c) ==
  /\ at = "inspect" /\ c \in todo
  /\ todo' = todo \ {c}
  /\ \/ /\ c \in DOMAIN uses
        /\ connected' = connected \cup {<<n, c>> : n \in uses[c] \cap DOMAIN seen}
        /\ UNCHANGED at
     \/ /\ c \notin DOMAIN uses \/ MayFail(at)
        /\ IF Strict THEN at' = "refused" ELSE UNCHANGED at
        /\ UNCHANGED connected
  /\ Look /\ UNCHANGED seen

InspectedAll ==
  /\ at = "inspect" /\ todo = {}
  /\ IF Strict THEN at' = "decide" ELSE at' = "listed"
  /\ Look /\ UNCHANGED <<seen, connected, todo>>

InUseBy(n) == {c \in Container : <<n, c>> \in connected}

\* Nothing of the name may be there; a subnet is held against those listed.
DecideToCreate ==
  /\ at = "decide" /\ call.kind = "create"
  /\ at' = IF call.name \in DOMAIN seen THEN "refused"
           ELSE IF call.subnet = NoSubnet THEN "create"
           ELSE IF FindSubnetOverlap(call.subnet) THEN "refused" ELSE "interfaces"
  /\ Look /\ UNCHANGED <<seen, connected, todo>>

DecideToRemove ==
  /\ at = "decide" /\ call.kind = "remove"
  /\ IF InUseBy(call.name) # {} THEN at' = "refused" ELSE at' = "rm"
  /\ Look /\ UNCHANGED <<seen, connected, todo>>

\* The host's own networks, which no bridge may overlap.
ReadInterfaces ==
  /\ at = "interfaces"
  /\ \/ ~FindHostNetworkOverlap(call.subnet) /\ at' = "create"
     \/ FindHostNetworkOverlap(call.subnet) /\ at' = "refused"
     \/ MayFail(at) /\ at' = "refused"
  /\ Look /\ UNCHANGED <<seen, connected, todo>>

\* podman network create: without a subnet podman picks one that is free.
CreateIt ==
  /\ at = "create"
  /\ \/ /\ call.name \notin DOMAIN nets
        /\ \E s \in Subnet :
             /\ IF call.subnet # NoSubnet THEN s = call.subnet
                ELSE Apart(s, InUse \cup host)
             /\ nets' = With(nets, call.name, {s})
        /\ at' = "created"
     \/ /\ call.name \in DOMAIN nets \/ MayFail(at)
        /\ at' = "failed" /\ UNCHANGED nets
  /\ UNCHANGED <<uses, host, call, seen, connected, todo, stayed, moves>>

Detached(n) == [c \in DOMAIN uses |-> uses[c] \ {n}]

\* podman network rm
RemoveIt ==
  /\ at = "rm"
  /\ \/ /\ call.name \in DOMAIN nets
        /\ nets' = Without(nets, call.name)
        /\ uses' = Detached(call.name)
        /\ at' = "removed"
     \/ /\ call.name \notin DOMAIN nets \/ MayFail(at)
        /\ at' = "failed" /\ UNCHANGED <<nets, uses>>
  /\ UNCHANGED <<host, call, seen, connected, todo, stayed, moves>>

-------------------------------------------------------------------------------
(* The host moves.  Nobody else makes networks that overlap, or removes one *)
(* that is in use.                                                         *)

Move ==
  /\ at \in Commands \cup {"decide"}
  /\ moves < MaxMoves
  /\ moves' = moves + 1
  /\ UNCHANGED <<call, at, seen, connected, todo>>

NetworkComes(n, s) ==
  /\ Move
  /\ n \notin DOMAIN nets /\ Apart(s, InUse)
  /\ nets' = With(nets, n, {s})
  /\ UNCHANGED <<uses, host, stayed>>

NetworkGoes(n) ==
  /\ Move
  /\ n \in DOMAIN nets /\ \A c \in DOMAIN uses : n \notin uses[c]
  /\ nets' = Without(nets, n)
  /\ stayed' = [stayed EXCEPT !.nets = @ \ {n}]
  /\ UNCHANGED <<uses, host>>

ContainerComes(c, S) ==
  /\ Move
  /\ c \notin DOMAIN uses /\ S \subseteq DOMAIN nets
  /\ uses' = With(uses, c, S)
  /\ UNCHANGED <<nets, host, stayed>>

ContainerGoes(c) ==
  /\ Move
  /\ c \in DOMAIN uses
  /\ uses' = Without(uses, c)
  /\ stayed' = [stayed EXCEPT !.attached = @ \ {c}]
  /\ UNCHANGED <<nets, host>>

\* podman network connect and disconnect
Reconnect(c, S) ==
  /\ Move
  /\ c \in DOMAIN uses /\ S \subseteq DOMAIN nets
  /\ uses' = [uses EXCEPT ![c] = S]
  /\ stayed' = IF call.name \in S THEN stayed
               ELSE [stayed EXCEPT !.attached = @ \ {c}]
  /\ UNCHANGED <<nets, host>>

InterfacesChange(H) ==
  /\ Move
  /\ host' = H
  /\ stayed' = [stayed EXCEPT !.host = @ \cap H]
  /\ UNCHANGED <<nets, uses>>

Environment ==
  \/ \E n \in NetworkName : NetworkGoes(n) \/ \E s \in Subnet : NetworkComes(n, s)
  \/ \E c \in Container : ContainerGoes(c)
       \/ \E S \in SUBSET NetworkName : ContainerComes(c, S) \/ Reconnect(c, S)
  \/ \E H \in SUBSET Interface : InterfacesChange(H)

Next ==
  \/ ListNetworks
  \/ \E n \in NetworkName : RemoveNetwork(n)
  \/ \E n \in NetworkName, s \in Subnet \cup {NoSubnet},
        gateway \in Gateway \cup {NoGateway} : CreateNetwork(n, s, gateway)
  \/ InspectAll \/ ListNames \/ InspectNamed \/ ListContainers
  \/ \E c \in Container : InspectContainer(c)
  \/ InspectedAll \/ DecideToCreate \/ DecideToRemove
  \/ ReadInterfaces \/ CreateIt \/ RemoveIt
  \/ Environment

Spec == Init /\ [][Next]_vars

-------------------------------------------------------------------------------
(* Correctness.                                                            *)

\* networks.go:288: a network created with a subnet shares no address with a network
\* that was there all along, nor with one the host was connected to all along.
CreatedApart ==
  [][at = "create" /\ at' = "created" /\ call.subnet # NoSubnet =>
       /\ \A n \in stayed.nets : Apart(call.subnet, nets[n])
       /\ Apart(call.subnet, stayed.host)]_vars

\* networks.go:376: no container that was attached all along loses its network,
\* whatever podman would have said to that.
RemovedUnused ==
  [][at = "rm" /\ at' = "removed" => stayed.attached = {}]_vars

\* A network that was there all along is in the list the user is shown, with all
\* its subnets, however the list had to be obtained.
ListedWhole ==
  at = "listed" => \A n \in stayed.nets : n \in DOMAIN seen /\ seen[n] = nets[n]
===============================================================================
