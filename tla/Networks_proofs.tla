---------------------------- MODULE Networks_proofs ----------------------------
(***************************************************************************)
(* A call that lists, creates or removes a network, whatever the host does  *)
(* meanwhile and whichever command fails: what it was shown of the networks *)
(* and attachments that stayed all along is still so when it acts on it.    *)
(***************************************************************************)
EXTENDS Networks, TLAPS

-------------------------------------------------------------------------------
(* Subnets.                                                                *)

\* Two subnets share an address exactly when one of them contains the address of
\* the other: what Podder compares is what matters.
THEOREM OverlapIsSharing ==
  ASSUME NEW a \in IPNet, NEW b \in IPNet
  PROVE  SubnetsOverlap(a, b) <=> Share(a, b)
<1>1. Width \in Nat /\ a.length \in 0 .. Width /\ b.length \in 0 .. Width
  BY NetworksAssumption DEF IPNet
<1>2. ASSUME NEW address \in Address, Contains(a, address), Contains(b, address)
      PROVE  SubnetsOverlap(a, b)
  <2>1. CASE a.length <= b.length
    BY <1>1, <1>2, <2>1 DEF SubnetsOverlap, Contains, IPOf
  <2>2. CASE b.length <= a.length
    BY <1>1, <1>2, <2>2 DEF SubnetsOverlap, Contains, IPOf
  <2> QED
    BY <1>1, <2>1, <2>2
<1>3. IPOf(a) \in Address /\ IPOf(b) \in Address
  BY DEF IPNet, Address, IPOf
<1>4. Contains(a, IPOf(a)) /\ Contains(b, IPOf(b))
  BY DEF Contains, IPOf
<1> QED
  BY <1>2, <1>3, <1>4 DEF SubnetsOverlap, Share

-------------------------------------------------------------------------------
(* The invariant.                                                          *)

Underway == Commands \cup {"decide"}

\* Networks have subnets, and containers are attached to networks there are.
HostOK ==
  /\ \A n \in DOMAIN nets : nets[n] # {}
  /\ \A c \in DOMAIN uses : uses[c] \subseteq DOMAIN nets

\* A change is about a network, and only a strict look ends in one; interfaces are
\* read for a subnet's sake.
CallOK ==
  /\ call.kind \in {"create", "remove"} => call.name \in NetworkName
  /\ at # "idle" => call.kind # "none"
  /\ at = "idle" => connected = {} /\ seen = NoNetworks
  /\ at \in {"decide", "interfaces", "create", "rm"} => Strict
  /\ at = "interfaces" => call.subnet # NoSubnet

\* What has stayed is there: networks, attachments to the network the call is
\* about, and the networks of the host.
StayedOK ==
  at \in Underway \cup {"listed"} =>
    /\ stayed.nets \subseteq DOMAIN nets
    /\ stayed.attached \subseteq {c \in DOMAIN uses : call.name \in uses[c]}
    /\ stayed.attached # {} => call.name \in stayed.nets
    /\ stayed.host \subseteq HostNetworks

\* What has stayed was seen: first the names, then the subnets as they are.
SeenOK ==
  /\ at = "inspect named" => stayed.nets \subseteq DOMAIN seen
  /\ at \in {"ps", "inspect", "decide", "interfaces", "create", "rm", "listed"} =>
       \A n \in stayed.nets : n \in DOMAIN seen /\ seen[n] = nets[n]

\* An attachment that has stayed was found, or its container is still to be asked.
ConnectedOK ==
  /\ at = "inspect" /\ Strict =>
       \A c \in stayed.attached : c \in todo \/ <<call.name, c>> \in connected
  /\ at = "decide" => \A c \in stayed.attached : <<call.name, c>> \in connected
  /\ at = "rm" => stayed.attached = {}

\* A subnet goes to podman only after it was compared with everything that was seen
\* and with the networks of the host.
ChosenOK ==
  /\ at = "interfaces" => ~FindSubnetOverlap(call.subnet)
  /\ at = "create" /\ call.subnet # NoSubnet =>
       /\ ~FindSubnetOverlap(call.subnet)
       /\ \A h \in stayed.host : ~SubnetsOverlap(call.subnet, h)

IInv ==
  /\ TypeOK
  /\ HostOK
  /\ CallOK
  /\ StayedOK
  /\ SeenOK
  /\ ConnectedOK
  /\ ChosenOK

-------------------------------------------------------------------------------
(* The steps of a call.                                                    *)

LEMMA InitIInv == Init => IInv
<1> SUFFICES ASSUME Init PROVE IInv
  OBVIOUS
<1>1. PICK S \in SUBSET NetworkName :
        nets \in [S -> {T \in SUBSET Subnet : T # {} /\ OneOfEach(T)}]
  BY DEF Init
<1>2. PICK C \in SUBSET Container : uses \in [C -> SUBSET DOMAIN nets]
  BY DEF Init
<1>3. DOMAIN seen = {}
  BY DEF Init, NoNetworks
<1>4. TypeOK
  BY <1>1, <1>2, <1>3, NetworksAssumption DEF Init, TypeOK
<1> QED
  BY <1>1, <1>2, <1>3, <1>4
     DEF Init, IInv, HostOK, CallOK, StayedOK, SeenOK, ConnectedOK, ChosenOK, Underway,
         Commands

\* A request notes what is there.
LEMMA BeginKeeps ==
  ASSUME IInv, NEW kind \in {"list", "create", "remove"},
         NEW n \in NetworkName \cup {NoName}, kind # "list" => n \in NetworkName,
         NEW s \in Subnet \cup {NoSubnet},
         Begin(kind, n, s), at' \in {"inspect all", "refused"}
  PROVE  IInv'
<1>1. /\ call'.kind = kind /\ call'.name = n /\ call'.subnet = s
      /\ stayed'.nets = DOMAIN nets
      /\ stayed'.attached = {c \in DOMAIN uses : n \in uses[c]}
      /\ stayed'.host = HostNetworks
  BY DEF Begin
<1>2. HostNetworks' = HostNetworks /\ UNCHANGED <<nets, uses, host, seen, connected, todo, moves>>
  BY DEF Begin, HostNetworks, hostVars
<1>3. TypeOK'
  BY <1>1, <1>2 DEF IInv, TypeOK, Begin, HostNetworks, Commands, Answers
<1>4. HostOK' /\ CallOK' /\ ConnectedOK' /\ ChosenOK' /\ SeenOK'
  BY <1>1, <1>2 DEF IInv, HostOK, CallOK, SeenOK, ConnectedOK, ChosenOK
<1>5. StayedOK'
  BY <1>1, <1>2 DEF IInv, HostOK, StayedOK
<1> QED
  BY <1>3, <1>4, <1>5 DEF IInv

\* A step that looks leaves the host, the call and what has stayed alone.
LEMMA LookKeeps ==
  ASSUME IInv, Look, at' \in Commands \cup {"decide"} \cup Answers, at \in Underway
  PROVE  /\ HostOK' /\ StayedOK'
         /\ Strict' = Strict
          /\ at' # "idle" /\ call.kind # "none"
         /\ stayed' = stayed /\ nets' = nets /\ call' = call /\ uses' = uses
         /\ /\ DOMAIN seen' \subseteq NetworkName
            /\ \A n \in DOMAIN seen' : seen'[n] # {} /\ seen'[n] \subseteq Subnet
            /\ connected' \subseteq NetworkName \X Container
            /\ todo' \subseteq Container
            => TypeOK'
<1> USE DEF Look, hostVars
<1>1. at # "idle" /\ at' # "idle"
  BY DEF Underway, Commands, Answers
<1>2. StayedOK'
  BY DEF IInv, StayedOK, HostNetworks
<1>3. HostOK'
  BY DEF IInv, HostOK
<1> QED
  BY <1>1, <1>2, <1>3
     DEF IInv, CallOK, TypeOK, Strict

LEMMA InspectAllKeeps ==
  ASSUME IInv, InspectAll
  PROVE  IInv'
<1>1. /\ Look /\ at \in Underway /\ at' \in Commands \cup {"decide"} \cup Answers
      /\ UNCHANGED <<connected, todo>>
  BY DEF InspectAll, Underway, Commands
<1>2. \/ at' = "ps" /\ seen' = nets
      \/ at' = "ls" /\ seen' = seen
  BY DEF InspectAll
<1>3. /\ HostOK' /\ StayedOK' /\ TypeOK'
      /\ at' # "idle" /\ call.kind # "none"
      /\ stayed' = stayed /\ nets' = nets /\ call' = call
  BY <1>1, <1>2, LookKeeps DEF IInv, TypeOK, HostOK
<1>4. stayed.nets \subseteq DOMAIN nets
  BY <1>1 DEF IInv, StayedOK
<1> QED
  BY <1>2, <1>3, <1>4 DEF IInv, CallOK, SeenOK, ConnectedOK, ChosenOK

LEMMA ListNamesKeeps ==
  ASSUME IInv, ListNames
  PROVE  IInv'
<1>1. /\ Look /\ at \in Underway /\ at' \in Commands \cup {"decide"} \cup Answers
      /\ UNCHANGED <<connected, todo>>
  BY DEF ListNames, Underway, Commands, Answers
<1>2. \/ at' = "inspect named" /\ seen' = nets
      \/ seen' = nets /\ nets = NoNetworks /\ at' = IF Strict THEN "decide" ELSE "listed"
      \/ at' = "refused" /\ seen' = seen
  BY DEF ListNames
<1>3. /\ HostOK' /\ StayedOK' /\ TypeOK'
      /\ Strict' = Strict
      /\ at' # "idle" /\ call.kind # "none"
      /\ stayed' = stayed /\ nets' = nets /\ call' = call
  BY <1>1, <1>2, LookKeeps DEF IInv, TypeOK, HostOK
<1>4. /\ stayed.nets \subseteq DOMAIN nets
      /\ stayed.attached # {} => call.name \in stayed.nets
  BY <1>1 DEF IInv, StayedOK
<1>5. nets = NoNetworks => stayed.nets = {} /\ stayed.attached = {}
  BY <1>4 DEF NoNetworks
<1> QED
  BY <1>2, <1>3, <1>4, <1>5 DEF IInv, CallOK, SeenOK, ConnectedOK, ChosenOK

LEMMA InspectNamedKeeps ==
  ASSUME IInv, InspectNamed
  PROVE  IInv'
<1>1. /\ Look /\ at \in Underway /\ at' \in Commands \cup {"decide"} \cup Answers
      /\ UNCHANGED <<connected, todo>>
  BY DEF InspectNamed, Underway, Commands, Answers
<1>2. \/ /\ at' = "ps" /\ DOMAIN seen' = DOMAIN seen /\ DOMAIN seen \subseteq DOMAIN nets
         /\ \A n \in DOMAIN seen : seen'[n] = nets[n]
      \/ at' = "refused" /\ seen' = seen
  BY DEF InspectNamed
<1>3. /\ HostOK' /\ StayedOK' /\ TypeOK'
      /\ at' # "idle" /\ call.kind # "none"
      /\ stayed' = stayed /\ nets' = nets /\ call' = call
  BY <1>1, <1>2, LookKeeps DEF IInv, TypeOK, HostOK
<1>4. stayed.nets \subseteq DOMAIN seen
  BY DEF InspectNamed, IInv, SeenOK
<1> QED
  BY <1>2, <1>3, <1>4 DEF IInv, CallOK, SeenOK, ConnectedOK, ChosenOK

LEMMA ListContainersKeeps ==
  ASSUME IInv, ListContainers
  PROVE  IInv'
<1>1. /\ Look /\ at \in Underway /\ at' \in Commands \cup {"decide"} \cup Answers
      /\ UNCHANGED <<seen, connected>>
  BY DEF ListContainers, Underway, Commands, Answers
<1>2. \/ at' = "inspect" /\ todo' = DOMAIN uses
      \/ at' \in {"refused", "listed"} /\ todo' = todo
  BY DEF ListContainers
<1>3. /\ HostOK' /\ StayedOK' /\ TypeOK'
      /\ at' # "idle" /\ call.kind # "none"
      /\ stayed' = stayed /\ nets' = nets /\ call' = call
  BY <1>1, <1>2, LookKeeps DEF IInv, TypeOK
<1>4. /\ stayed.attached \subseteq DOMAIN uses
      /\ \A n \in stayed.nets : n \in DOMAIN seen /\ seen[n] = nets[n]
  BY <1>1 DEF ListContainers, IInv, StayedOK, SeenOK
<1> QED
  BY <1>1, <1>2, <1>3, <1>4 DEF IInv, CallOK, SeenOK, ConnectedOK, ChosenOK

\* A container that stays attached is found to be; that it cannot be inspected ends a
\* strict look.
LEMMA InspectContainerKeeps ==
  ASSUME IInv, NEW c \in Container, InspectContainer(c)
  PROVE  IInv'
<1>1. /\ Look /\ at \in Underway /\ at' \in Commands \cup {"decide"} \cup Answers
      /\ at = "inspect" /\ seen' = seen /\ todo' = todo \ {c}
  BY DEF InspectContainer, Underway, Commands, Answers
<1>2. \/ /\ at' = "inspect" /\ c \in DOMAIN uses
         /\ connected' = connected \cup {<<n, c>> : n \in uses[c] \cap DOMAIN seen}
      \/ at' = "refused" /\ connected' = connected
      \/ at' = "inspect" /\ ~Strict /\ connected' = connected
  BY DEF InspectContainer
<1>3. /\ HostOK' /\ StayedOK' /\ TypeOK'
      /\ Strict' = Strict
      /\ at' # "idle" /\ call.kind # "none"
      /\ stayed' = stayed /\ nets' = nets /\ call' = call
  <2>1. connected' \subseteq NetworkName \X Container
    BY <1>2 DEF IInv, TypeOK
  <2> QED
    BY <1>1, <2>1, LookKeeps DEF IInv, TypeOK
<1>4. /\ stayed.attached \subseteq {x \in DOMAIN uses : call.name \in uses[x]}
      /\ stayed.attached # {} => call.name \in DOMAIN seen
      /\ \A n \in stayed.nets : n \in DOMAIN seen /\ seen[n] = nets[n]
  BY <1>1 DEF IInv, StayedOK, SeenOK
<1>5. ConnectedOK'
  <2>1. ASSUME at' = "inspect", Strict, NEW x \in stayed.attached
        PROVE  x \in todo' \/ <<call.name, x>> \in connected'
    <3>1. x \in todo \/ <<call.name, x>> \in connected
      BY <1>1, <2>1 DEF IInv, ConnectedOK
    <3>2. call.name \in uses[x] \cap DOMAIN seen
      BY <1>4, <2>1
    <3> QED
      BY <1>1, <1>2, <2>1, <3>1, <3>2
  <2> QED
    BY <1>2, <1>3, <2>1 DEF ConnectedOK
<1> QED
  BY <1>1, <1>2, <1>3, <1>4, <1>5 DEF IInv, CallOK, SeenOK, ChosenOK

LEMMA InspectedAllKeeps ==
  ASSUME IInv, InspectedAll
  PROVE  IInv'
<1>1. /\ Look /\ at \in Underway /\ at' \in Commands \cup {"decide"} \cup Answers
      /\ at = "inspect" /\ todo = {} /\ UNCHANGED <<seen, connected, todo>>
      /\ at' = IF Strict THEN "decide" ELSE "listed"
  BY DEF InspectedAll, Underway, Commands, Answers
<1>2. /\ HostOK' /\ StayedOK' /\ TypeOK'
      /\ Strict' = Strict
      /\ at' # "idle" /\ call.kind # "none"
      /\ stayed' = stayed /\ nets' = nets /\ call' = call
  BY <1>1, LookKeeps DEF IInv, TypeOK
<1> QED
  BY <1>1, <1>2 DEF IInv, CallOK, SeenOK, ConnectedOK, ChosenOK

LEMMA DecideKeeps ==
  ASSUME IInv, DecideToCreate \/ DecideToRemove
  PROVE  IInv'
<1>1. /\ Look /\ at \in Underway /\ at' \in Commands \cup {"decide"} \cup Answers
      /\ at = "decide" /\ UNCHANGED <<seen, connected, todo>>
  BY DEF DecideToCreate, DecideToRemove, Underway, Commands, Answers
<1>2. \/ at' = "refused"
      \/ at' = "create" /\ call.subnet = NoSubnet
      \/ at' = "interfaces" /\ call.subnet # NoSubnet /\ ~FindSubnetOverlap(call.subnet)
      \/ at' = "rm" /\ InUseBy(call.name) = {}
  BY DEF DecideToCreate, DecideToRemove
<1>3. /\ HostOK' /\ StayedOK' /\ TypeOK'
      /\ Strict /\ Strict' = Strict
      /\ at' # "idle" /\ call.kind # "none"
      /\ stayed' = stayed /\ nets' = nets /\ call' = call
  BY <1>1, LookKeeps DEF IInv, TypeOK, CallOK
<1>4. InUseBy(call.name) = {} => stayed.attached = {}
  BY <1>1 DEF IInv, ConnectedOK, TypeOK, InUseBy
<1> QED
  BY <1>1, <1>2, <1>3, <1>4
     DEF IInv, CallOK, SeenOK, ConnectedOK, ChosenOK, FindSubnetOverlap

LEMMA ReadInterfacesKeeps ==
  ASSUME IInv, ReadInterfaces
  PROVE  IInv'
<1>1. /\ Look /\ at \in Underway /\ at' \in Commands \cup {"decide"} \cup Answers
      /\ at = "interfaces" /\ UNCHANGED <<seen, connected, todo>>
      /\ at' = "refused" \/ (at' = "create" /\ ~FindHostNetworkOverlap(call.subnet))
  BY DEF ReadInterfaces, Underway, Commands, Answers
<1>2. /\ HostOK' /\ StayedOK' /\ TypeOK'
      /\ Strict /\ Strict' = Strict
      /\ at' # "idle" /\ call.kind # "none"
      /\ stayed' = stayed /\ nets' = nets /\ call' = call
  BY <1>1, LookKeeps DEF IInv, TypeOK, CallOK
<1>3. stayed.host \subseteq HostNetworks
  BY <1>1 DEF IInv, StayedOK
<1> QED
  BY <1>1, <1>2, <1>3
     DEF IInv, CallOK, SeenOK, ConnectedOK, ChosenOK, FindSubnetOverlap,
         FindHostNetworkOverlap

\* After the change nothing is promised any more but types.
LEMMA CreateItKeeps ==
  ASSUME IInv, CreateIt
  PROVE  IInv'
<1>1. at' \in {"created", "failed"} /\ at = "create"
      /\ UNCHANGED <<uses, host, call, seen, connected, todo, stayed, moves>>
  BY DEF CreateIt
<1>2. \/ nets' = nets
      \/ /\ call.name \notin DOMAIN nets
         /\ \E s \in Subnet : nets' = With(nets, call.name, {s})
  BY DEF CreateIt
<1>3. HostOK' /\ TypeOK'
  <2>1. CASE nets' = nets
    BY <1>1, <2>1 DEF IInv, HostOK, TypeOK, Answers
  <2>2. ASSUME NEW s \in Subnet, call.name \notin DOMAIN nets,
               nets' = With(nets, call.name, {s})
        PROVE  HostOK' /\ TypeOK'
    <3>1. /\ DOMAIN nets' = DOMAIN nets \cup {call.name}
          /\ nets'[call.name] = {s}
          /\ \A n \in DOMAIN nets : nets'[n] = nets[n]
      BY <2>2 DEF With
    <3>2. call.name \in NetworkName /\ Strict
      BY <1>1 DEF IInv, CallOK, Strict, TypeOK
    <3>3. HostOK'
      BY <1>1, <2>2, <3>1 DEF IInv, HostOK
    <3>4. /\ DOMAIN nets' \subseteq NetworkName
          /\ \A n \in DOMAIN nets' : nets'[n] \subseteq Subnet
      BY <3>1, <3>2 DEF IInv, TypeOK
    <3> QED
      BY <1>1, <3>3, <3>4 DEF IInv, TypeOK, Answers
  <2> QED
    BY <1>2, <2>1, <2>2
<1> QED
  BY <1>1, <1>3
     DEF IInv, CallOK, StayedOK, SeenOK, ConnectedOK, ChosenOK, Underway, Commands

LEMMA RemoveItKeeps ==
  ASSUME IInv, RemoveIt
  PROVE  IInv'
<1>1. at' \in {"removed", "failed"} /\ at = "rm"
      /\ UNCHANGED <<host, call, seen, connected, todo, stayed, moves>>
  BY DEF RemoveIt
<1>2. \/ nets' = nets /\ uses' = uses
      \/ nets' = Without(nets, call.name) /\ uses' = Detached(call.name)
  BY DEF RemoveIt
<1>3. HostOK' /\ TypeOK'
  <2>1. CASE nets' = nets /\ uses' = uses
    BY <1>1, <2>1 DEF IInv, HostOK, TypeOK, Answers
  <2>2. CASE nets' = Without(nets, call.name) /\ uses' = Detached(call.name)
    BY <1>1, <2>2 DEF IInv, HostOK, TypeOK, Answers, Without, Detached
  <2> QED
    BY <1>2, <2>1, <2>2
<1> QED
  BY <1>1, <1>3
     DEF IInv, CallOK, StayedOK, SeenOK, ConnectedOK, ChosenOK, Underway, Commands

-------------------------------------------------------------------------------
(* The host moves: what is gone, or is no longer what it was, has not stayed. *)

LEMMA MoveKeeps ==
  ASSUME IInv, Environment
  PROVE  /\ at \in Underway /\ at' = at
         /\ moves' \in 0 .. MaxMoves
         /\ UNCHANGED <<call, seen, connected, todo>>
<1>1. Move
  BY DEF Environment, NetworkGoes, NetworkComes, ContainerGoes, ContainerComes, Reconnect,
     InterfacesChange
<1> QED
  BY <1>1, NetworksAssumption DEF Move, Underway, IInv, TypeOK

\* It is enough that every host there may be is one, and that what is still there
\* of what has stayed is as it was.
LEMMA MovedKeeps ==
  ASSUME IInv, Environment, HostOK',
         DOMAIN nets' \subseteq NetworkName, \A n \in DOMAIN nets' : nets'[n] \subseteq Subnet,
         DOMAIN uses' \subseteq Container, \A c \in DOMAIN uses' : uses'[c] \subseteq NetworkName,
         host' \subseteq Interface,
         stayed' \in [nets : SUBSET stayed.nets, attached : SUBSET stayed.attached,
                     host : SUBSET stayed.host],
         stayed'.nets \subseteq DOMAIN nets',
         \A n \in stayed'.nets : nets'[n] = nets[n],
         stayed'.attached \subseteq {c \in DOMAIN uses' : call.name \in uses'[c]},
         call.name \in stayed.nets \ stayed'.nets => stayed'.attached = {},
         stayed'.host \subseteq HostNetworks'
  PROVE  IInv'
<1>1. /\ at \in Underway /\ at' = at
      /\ moves' \in 0 .. MaxMoves
      /\ UNCHANGED <<call, seen, connected, todo>>
  BY MoveKeeps
<1>2. /\ stayed'.nets \subseteq stayed.nets
      /\ stayed'.attached \subseteq stayed.attached
      /\ stayed'.host \subseteq stayed.host
  OBVIOUS
<1>3. TypeOK'
  BY <1>1, <1>2 DEF IInv, TypeOK
<1>4. StayedOK'
  BY <1>1, <1>2 DEF IInv, StayedOK
<1>5. CallOK' /\ SeenOK' /\ ConnectedOK' /\ ChosenOK'
  BY <1>1, <1>2
     DEF IInv, CallOK, SeenOK, ConnectedOK, ChosenOK, Strict, FindSubnetOverlap
<1> QED
  BY <1>3, <1>4, <1>5 DEF IInv

LEMMA NetworkMoves ==
  ASSUME IInv, Environment, NEW n \in NetworkName,
         NetworkGoes(n) \/ \E s \in Subnet : NetworkComes(n, s)
  PROVE  IInv'
<1>1. /\ at \in Underway
      /\ uses' = uses /\ host' = host
  BY MoveKeeps DEF NetworkGoes, NetworkComes
<1>2. /\ stayed.nets \subseteq DOMAIN nets
      /\ stayed.attached \subseteq {c \in DOMAIN uses : call.name \in uses[c]}
      /\ stayed.host \subseteq HostNetworks
  BY <1>1 DEF IInv, StayedOK
<1>3. CASE NetworkGoes(n)
  <2>1. /\ DOMAIN nets' = DOMAIN nets \ {n}
        /\ \A m \in DOMAIN nets' : nets'[m] = nets[m]
        /\ \A c \in DOMAIN uses : n \notin uses[c]
    BY <1>3 DEF NetworkGoes, Without
  <2>2. /\ stayed'.nets = stayed.nets \ {n}
        /\ stayed'.attached = stayed.attached /\ stayed'.host = stayed.host
        /\ stayed' \in [nets : SUBSET stayed.nets, attached : SUBSET stayed.attached,
                        host : SUBSET stayed.host]
    BY <1>3 DEF NetworkGoes, IInv, TypeOK
  <2>3. HostOK'
    BY <1>1, <2>1 DEF IInv, HostOK
  <2>4. HostNetworks' = HostNetworks
    BY <1>1 DEF HostNetworks
  <2>5. call.name = n => stayed.attached = {}
    BY <1>2, <2>1
  <2> QED
    BY <1>1, <1>2, <2>1, <2>2, <2>3, <2>4, <2>5, MovedKeeps DEF IInv, TypeOK
<1>4. ASSUME NEW s \in Subnet, NetworkComes(n, s)
      PROVE  IInv'
  <2>1. /\ n \notin DOMAIN nets
        /\ DOMAIN nets' = DOMAIN nets \cup {n}
        /\ nets'[n] = {s}
        /\ \A m \in DOMAIN nets : nets'[m] = nets[m]
    BY <1>4 DEF NetworkComes, With
  <2>2. /\ stayed' = stayed
        /\ stayed' \in [nets : SUBSET stayed.nets, attached : SUBSET stayed.attached,
                        host : SUBSET stayed.host]
    BY <1>4 DEF NetworkComes, IInv, TypeOK
  <2>3. HostOK'
    BY <1>1, <2>1 DEF IInv, HostOK
  <2>4. HostNetworks' = HostNetworks
    BY <1>1 DEF HostNetworks
  <2> QED
    BY <1>1, <1>2, <2>1, <2>2, <2>3, <2>4, MovedKeeps DEF IInv, TypeOK
<1> QED
  BY <1>3, <1>4

LEMMA ContainerMoves ==
  ASSUME IInv, Environment, NEW c \in Container,
         \/ ContainerGoes(c)
         \/ \E S \in SUBSET NetworkName : ContainerComes(c, S) \/ Reconnect(c, S)
  PROVE  IInv'
<1>1. /\ at \in Underway
      /\ nets' = nets /\ host' = host
  BY MoveKeeps DEF ContainerGoes, ContainerComes, Reconnect
<1>2. /\ stayed.nets \subseteq DOMAIN nets
      /\ stayed.attached \subseteq {x \in DOMAIN uses : call.name \in uses[x]}
      /\ stayed.host \subseteq HostNetworks
      /\ HostNetworks' = HostNetworks
  BY <1>1 DEF IInv, StayedOK, HostNetworks
<1>3. CASE ContainerGoes(c)
  <2>1. /\ DOMAIN uses' = DOMAIN uses \ {c}
        /\ \A x \in DOMAIN uses' : uses'[x] = uses[x]
    BY <1>3 DEF ContainerGoes, Without
  <2>2. /\ stayed'.attached = stayed.attached \ {c}
        /\ stayed'.nets = stayed.nets /\ stayed'.host = stayed.host
        /\ stayed' \in [nets : SUBSET stayed.nets, attached : SUBSET stayed.attached,
                        host : SUBSET stayed.host]
    BY <1>3 DEF ContainerGoes, IInv, TypeOK
  <2>3. HostOK'
    BY <1>1, <2>1 DEF IInv, HostOK
  <2> QED
    BY <1>1, <1>2, <2>1, <2>2, <2>3, MovedKeeps DEF IInv, TypeOK
<1>4. ASSUME NEW S \in SUBSET NetworkName, ContainerComes(c, S)
      PROVE  IInv'
  <2>1. /\ c \notin DOMAIN uses /\ S \subseteq DOMAIN nets
        /\ DOMAIN uses' = DOMAIN uses \cup {c}
        /\ uses'[c] = S
        /\ \A x \in DOMAIN uses : uses'[x] = uses[x]
    BY <1>4 DEF ContainerComes, With
  <2>2. /\ stayed' = stayed
        /\ stayed' \in [nets : SUBSET stayed.nets, attached : SUBSET stayed.attached,
                        host : SUBSET stayed.host]
    BY <1>4 DEF ContainerComes, IInv, TypeOK
  <2>3. HostOK'
    BY <1>1, <2>1 DEF IInv, HostOK
  <2> QED
    BY <1>1, <1>2, <2>1, <2>2, <2>3, MovedKeeps DEF IInv, TypeOK
<1>5. ASSUME NEW S \in SUBSET NetworkName, Reconnect(c, S)
      PROVE  IInv'
  <2>1. /\ c \in DOMAIN uses /\ S \subseteq DOMAIN nets
        /\ DOMAIN uses' = DOMAIN uses
        /\ \A x \in DOMAIN uses : uses'[x] = IF x = c THEN S ELSE uses[x]
    BY <1>5 DEF Reconnect
  <2>2. /\ stayed'.attached = IF call.name \in S THEN stayed.attached
                              ELSE stayed.attached \ {c}
        /\ stayed'.nets = stayed.nets /\ stayed'.host = stayed.host
        /\ stayed' \in [nets : SUBSET stayed.nets, attached : SUBSET stayed.attached,
                        host : SUBSET stayed.host]
    BY <1>5 DEF Reconnect, IInv, TypeOK
  <2>3. HostOK'
    BY <1>1, <2>1 DEF IInv, HostOK
  <2>4. stayed'.attached \subseteq {x \in DOMAIN uses' : call.name \in uses'[x]}
    BY <1>2, <2>1, <2>2
  <2> QED
    BY <1>1, <1>2, <2>1, <2>2, <2>3, <2>4, MovedKeeps DEF IInv, TypeOK
<1> QED
  BY <1>3, <1>4, <1>5

LEMMA InterfaceMoves ==
  ASSUME IInv, Environment, NEW H \in SUBSET Interface, InterfacesChange(H)
  PROVE  IInv'
<1>1. /\ at \in Underway
      /\ nets' = nets /\ uses' = uses /\ host' = H
  BY MoveKeeps DEF InterfacesChange
<1>2. /\ stayed.nets \subseteq DOMAIN nets
      /\ stayed.attached \subseteq {x \in DOMAIN uses : call.name \in uses[x]}
      /\ stayed.host \subseteq host \ LocalInterface
  BY <1>1 DEF IInv, StayedOK, HostNetworks
<1>3. /\ stayed'.host = stayed.host \cap H
      /\ stayed'.nets = stayed.nets /\ stayed'.attached = stayed.attached
      /\ stayed' \in [nets : SUBSET stayed.nets, attached : SUBSET stayed.attached,
                      host : SUBSET stayed.host]
  BY DEF InterfacesChange, IInv, TypeOK
<1>4. HostOK' /\ stayed'.host \subseteq HostNetworks'
  BY <1>1, <1>2, <1>3 DEF IInv, HostOK, HostNetworks
<1> QED
  BY <1>1, <1>2, <1>3, <1>4, MovedKeeps DEF IInv, TypeOK

LEMMA EnvironmentKeeps ==
  ASSUME IInv, Environment
  PROVE  IInv'
BY NetworkMoves, ContainerMoves, InterfaceMoves DEF Environment

LEMMA StutterKeeps ==
  ASSUME IInv, UNCHANGED vars
  PROVE  IInv'
<1> USE DEF vars, hostVars, IInv
<1>1. TypeOK' /\ HostOK'
  BY DEF TypeOK, HostOK
<1>2. CallOK' /\ StayedOK' /\ SeenOK'
  BY DEF CallOK, StayedOK, SeenOK, Strict, HostNetworks
<1>3. ConnectedOK' /\ ChosenOK'
  BY DEF ConnectedOK, ChosenOK, Strict, FindSubnetOverlap
<1> QED
  BY <1>1, <1>2, <1>3

LEMMA RequestKeeps ==
  ASSUME IInv,
         \/ ListNetworks
         \/ \E n \in NetworkName : RemoveNetwork(n)
         \/ \E n \in NetworkName, s \in Subnet \cup {NoSubnet},
               gateway \in Gateway \cup {NoGateway} : CreateNetwork(n, s, gateway)
  PROVE  IInv'
BY BeginKeeps DEF ListNetworks, RemoveNetwork, CreateNetwork

-------------------------------------------------------------------------------
(* The theorems.                                                           *)

LEMMA Invariance == Spec => []IInv
<1>1. IInv /\ [Next]_vars => IInv'
  BY RequestKeeps, InspectAllKeeps, ListNamesKeeps, InspectNamedKeeps, ListContainersKeeps,
     InspectContainerKeeps, InspectedAllKeeps, DecideKeeps, ReadInterfacesKeeps,
     CreateItKeeps, RemoveItKeeps, EnvironmentKeeps, StutterKeeps
     DEF Next
<1> QED
  BY <1>1, InitIInv, PTL DEF Spec

\* Every variable keeps its type, and a network is never seen without its subnets.
THEOREM TypeCorrect == Spec => []TypeOK
<1>1. IInv => TypeOK
  BY DEF IInv
<1> QED
  BY <1>1, Invariance, PTL

\* A list that is shown has every network that was there all along, whole.
THEOREM ListedAlwaysWhole == Spec => []ListedWhole
<1>1. IInv => ListedWhole
  BY DEF IInv, SeenOK, ListedWhole
<1> QED
  BY <1>1, Invariance, PTL

\* A network created with a subnet shares no address with what was there all along.
THEOREM CreatedAlwaysApart == Spec => CreatedApart
<1>1. ASSUME IInv, Next, at = "create", at' = "created", call.subnet # NoSubnet
      PROVE  /\ \A n \in stayed.nets : Apart(call.subnet, nets[n])
             /\ Apart(call.subnet, stayed.host)
  <2>1. call.subnet \in IPNet
    BY <1>1, NetworksAssumption DEF IInv, TypeOK
  <2>2. /\ \A n \in stayed.nets : n \in DOMAIN seen /\ seen[n] = nets[n]
        /\ \A n \in DOMAIN seen : \A t \in seen[n] : ~SubnetsOverlap(call.subnet, t)
        /\ \A h \in stayed.host : ~SubnetsOverlap(call.subnet, h)
    BY <1>1 DEF IInv, SeenOK, ChosenOK, FindSubnetOverlap
  <2>3. /\ \A n \in DOMAIN seen : seen[n] \subseteq IPNet
        /\ stayed.host \subseteq IPNet
    BY <1>1, NetworksAssumption DEF IInv, TypeOK
  <2> QED
    BY <2>1, <2>2, <2>3, OverlapIsSharing DEF Apart
<1>2. IInv /\ [Next]_vars =>
        [at = "create" /\ at' = "created" /\ call.subnet # NoSubnet =>
           /\ \A n \in stayed.nets : Apart(call.subnet, nets[n])
           /\ Apart(call.subnet, stayed.host)]_vars
  BY <1>1
<1> QED
  BY <1>2, Invariance, PTL DEF Spec, CreatedApart

\* A network is removed only when no container was attached to it all along.
THEOREM RemovedAlwaysUnused == Spec => RemovedUnused
<1>1. IInv /\ [Next]_vars =>
        [at = "rm" /\ at' = "removed" => stayed.attached = {}]_vars
  BY DEF IInv, ConnectedOK
<1> QED
  BY <1>1, Invariance, PTL DEF Spec, RemovedUnused
===============================================================================
