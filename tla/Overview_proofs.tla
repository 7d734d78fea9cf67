---------------------------- MODULE Overview_proofs ----------------------------
(***************************************************************************)
(* Theorems about GetPortOverview, for any host, registry and faults: what   *)
(* stays as it is during a call is seen by both looks at it, and what the     *)
(* report made of them then says of it.                                    *)
(***************************************************************************)
EXTENDS Overview, PortHost_proofs, WellFoundedInduction

-------------------------------------------------------------------------------
(* Type correctness.                                                       *)

LEMMA SocketsAreSockets ==
  ASSUME NEW s, NEW ls \in SUBSET Listenable
  PROVE  Sockets(s, ls) \subseteq Socket
<1>1. ls \subseteq Socket
  BY OverviewAssumption DEF Socket
<1>2. Bound(s) \subseteq Claim
  BY OverviewAssumption, BoundType
<1> QED
  BY <1>1, <1>2 DEF Sockets, Socket, Claim
\* A file that is read or loaded is a sequence of entries; so is what is left out.
LEMMA FileFacts ==
  ASSUME NEW file \in Declarable \cup {<<>>}
  PROVE  /\ file \in Seq(Entry) /\ DOMAIN file \subseteq Nat \ {0}
         /\ \A b : Local(file, b) \subseteq Kept(file)
         /\ Kept(file) \subseteq DOMAIN file
<1>1. file \in Seq(Entry)
  <2>1. <<>> \in Seq(Entry)
    OBVIOUS
  <2>2. Declarable \subseteq Seq(Entry)
    BY OverviewAssumption
  <2> QED
    BY <2>1, <2>2
<1> QED
  BY <1>1 DEF Local, Kept

LEMMA InitOverview ==
  ASSUME Init
  PROVE  TypeOK
<1>1. /\ DOMAIN declared \subseteq Nat /\ moves \in 0 .. MaxMoves
      /\ records \in Declarable \cup {<<>>} /\ setting \in Setting
  BY OverviewAssumption DEF Init
<1>2. shown \in [Container -> {"absent", "stopped", "running"}]
  BY DEF Init
<1> QED
  BY <1>1, <1>2 DEF Init, TypeOK

LEMMA HostType ==
  ASSUME TypeOK, NEW s \in [Container -> {"absent", "stopped", "running"}],
         NEW ls \in SUBSET Listenable, NEW file \in Declarable,
         NEW v \in Setting \cup {Unreadable}, HostMoves(s, ls, file, v)
  PROVE  TypeOK'
<1>1. moves' \in 0 .. MaxMoves
  BY OverviewAssumption DEF TypeOK, HostMoves
<1>2. stayed' \subseteq Container /\ held' \subseteq Socket
  BY DEF TypeOK, HostMoves
<1>3. DOMAIN declared' \subseteq Nat
  BY DEF TypeOK, HostMoves, seen
<1>4. /\ UNCHANGED phase
      /\ UNCHANGED <<shown, heard, setting, records, claimants, unclaimed, missed>>
      /\ state' = s /\ listeners' = ls /\ registry' = file /\ config' = v
  BY DEF HostMoves, seen
<1> QED
  BY <1>1, <1>2, <1>3, <1>4 DEF TypeOK

LEMMA EnvironmentMoves ==
  ASSUME TypeOK,
         \/ \E c \in Container : ContainerMoves(c)
         \/ \E l \in Listenable : ProcessMoves(l)
         \/ \E file \in Declarable : OperatorEdits(file)
         \/ \E v \in Setting \cup {Unreadable} : SettingsSaved(v)
  PROVE  \E s \in [Container -> {"absent", "stopped", "running"}],
            ls \in SUBSET Listenable, file \in Declarable,
            v \in Setting \cup {Unreadable} : HostMoves(s, ls, file, v)
<1>1. ASSUME NEW c \in Container, NEW x \in {"absent", "stopped", "running"}
      PROVE  [state EXCEPT ![c] = x] \in [Container -> {"absent", "stopped", "running"}]
  BY DEF TypeOK
<1>2. ASSUME NEW l \in Listenable
      PROVE  listeners \cup {l} \in SUBSET Listenable /\ listeners \ {l} \in SUBSET Listenable
  BY DEF TypeOK
<1>3. /\ state \in [Container -> {"absent", "stopped", "running"}]
      /\ listeners \in SUBSET Listenable /\ registry \in Declarable
      /\ config \in Setting \cup {Unreadable}
  BY DEF TypeOK
<1>4. CASE \E c \in Container : ContainerMoves(c)
  BY <1>1, <1>3, <1>4 DEF ContainerMoves, Becomes
<1>5. CASE \E l \in Listenable : ProcessMoves(l)
  BY ONLY <1>2, <1>3, <1>5 DEF ProcessMoves
<1>6. CASE \E file \in Declarable : OperatorEdits(file)
  BY <1>3, <1>6 DEF OperatorEdits
<1>7. CASE \E v \in Setting \cup {Unreadable} : SettingsSaved(v)
  BY <1>3, <1>7 DEF SettingsSaved
<1> QED
  BY <1>4, <1>5, <1>6, <1>7

LEMMA CallType ==
  ASSUME TypeOK, Call
  PROVE  TypeOK'
<1> USE OverviewAssumption
<1>1. CASE GetPortOverview
  BY <1>1, SocketsAreSockets DEF GetPortOverview, There, TypeOK, host, seen
<1>2. CASE ListContainers
  BY <1>2 DEF ListContainers, Looks, Answers, Fails, TypeOK, host
<1>3. CASE ListHostListeners
  BY <1>3, SocketsAreSockets DEF ListHostListeners, Looks, Answers, Fails, TypeOK, host
<1>4. CASE ReadSettings
  BY <1>4 DEF ReadSettings, GetSettings, Looks, TypeOK, host
<1>5. CASE LoadPortRegistry
  BY <1>5 DEF LoadPortRegistry, Looks, TypeOK, host
<1>6. CASE ClaimContainers
  BY <1>6 DEF ClaimContainers, There, Looks, Answers, Fails, TypeOK, host
<1>7. CASE ClaimSockets
  BY <1>7, SocketsAreSockets DEF ClaimSockets, Looks, Answers, Fails, TypeOK, host
<1>8. CASE ClaimRegistry
  <2>1. \A b : Local(registry, b) \subseteq Nat
    BY FileFacts DEF TypeOK
  <2>2. DOMAIN <<>> = {}
    OBVIOUS
  <2>3. DOMAIN declared' \subseteq Nat
    BY <1>8, <2>1, <2>2 DEF ClaimRegistry
  <2> QED
    BY <1>8, <2>3 DEF ClaimRegistry, Looks, TypeOK, host
<1> QED
  BY <1>1, <1>2, <1>3, <1>4, <1>5, <1>6, <1>7, <1>8 DEF Call

\* Every variable keeps its type.
THEOREM TypeCorrect == Spec => []TypeOK
<1>1. TypeOK /\ [Next]_vars => TypeOK'
  <2> SUFFICES ASSUME TypeOK, [Next]_vars
               PROVE  TypeOK'
    OBVIOUS
  <2>1. CASE Call
    BY <2>1, CallType
  <2>2. CASE UNCHANGED vars
    BY <2>2 DEF vars, TypeOK
  <2>3. CASE Next /\ ~Call
    BY <2>3, EnvironmentMoves, HostType DEF Next
  <2> QED
    BY <2>1, <2>2, <2>3
<1> QED
  BY <1>1, InitOverview, PTL DEF Spec

-------------------------------------------------------------------------------
(* What has been there all along has been seen.                            *)

Later == {"settings", "registry", "claimants", "unclaimed", "declared", "done"}

\* What has been there all along is there now.
StillThere ==
  OnTheWay => stayed \subseteq There(state) /\ held \subseteq Sockets(state, listeners)

\* Each source that was looked at and answered has shown it.
Noticed ==
  /\ phase \in {"sockets"} \cup Later => stayed \subseteq There(shown)
  /\ phase \in Later /\ "ss" \notin missed => held \subseteq heard
  /\ phase \in {"unclaimed", "declared", "done"} /\ "podman" \notin missed =>
       stayed \subseteq claimants

OverviewInv == TypeOK /\ StillThere /\ Noticed

LEMMA HostKeeps ==
  ASSUME OverviewInv, NEW s, NEW ls, NEW file, NEW v, HostMoves(s, ls, file, v)
  PROVE  StillThere' /\ Noticed'
BY DEF OverviewInv, HostMoves, seen, StillThere, Noticed, OnTheWay

LEMMA CallKeeps ==
  ASSUME OverviewInv, Call
  PROVE  StillThere' /\ Noticed'
<1> USE DEF OverviewInv, StillThere, Noticed, OnTheWay, Later, Looks, Answers, Fails, host, seen
<1>1. CASE GetPortOverview
  BY <1>1 DEF GetPortOverview
<1>2. CASE ListContainers
  BY <1>2 DEF ListContainers
<1>3. CASE ListHostListeners
  BY <1>3 DEF ListHostListeners
<1>4. CASE ReadSettings
  BY <1>4 DEF ReadSettings
<1>5. CASE LoadPortRegistry
  BY <1>5 DEF LoadPortRegistry
<1>6. CASE ClaimContainers
  BY <1>6 DEF ClaimContainers
<1>7. CASE ClaimSockets
  BY <1>7 DEF ClaimSockets
<1>8. CASE ClaimRegistry
  BY <1>8 DEF ClaimRegistry
<1> QED
  BY <1>1, <1>2, <1>3, <1>4, <1>5, <1>6, <1>7, <1>8 DEF Call

LEMMA OverviewInvariance == Spec => []OverviewInv
<1>1. Init => StillThere /\ Noticed
  BY DEF Init, StillThere, Noticed, OnTheWay, Later
<1>2. OverviewInv /\ [Next]_vars => StillThere' /\ Noticed'
  <2> SUFFICES ASSUME OverviewInv, [Next]_vars
               PROVE  StillThere' /\ Noticed'
    OBVIOUS
  <2>1. CASE Call
    BY <2>1, CallKeeps
  <2>2. CASE UNCHANGED vars
    BY <2>2 DEF vars, OverviewInv, StillThere, Noticed, OnTheWay, Later
  <2>3. CASE Next /\ ~Call
    BY <2>3, EnvironmentMoves, HostKeeps DEF Next, OverviewInv
  <2> QED
    BY <2>1, <2>2, <2>3
<1>3. OverviewInv <=> TypeOK /\ StillThere /\ Noticed
  BY DEF OverviewInv
<1> QED
  BY <1>1, <1>2, <1>3, TypeCorrect, PTL DEF Spec

-------------------------------------------------------------------------------
(* The report.                                                             *)

\* A set of numbers has a least one.
LEMMA LeastNumber ==
  ASSUME NEW T \in SUBSET Nat, T # {}
  PROVE  \E x \in T : \A y \in T : x <= y
<1> DEFINE R == {ss \in Nat \X Nat : ss[1] < ss[2]}
<1>1. IsWellFoundedOn(R, Nat)
  BY NatLessThanWellFounded DEF OpToRel
<1>2. \A x, y \in Nat : y < x => <<y, x>> \in R
  OBVIOUS
<1> HIDE DEF R
<1>3. PICK x \in T : \A y \in T : ~(<<y, x>> \in R)
  BY <1>1, WFMin
<1>4. \A y \in T : ~(y < x)
  BY <1>2, <1>3
<1> QED
  BY <1>4

\* The first of some entries is one of them, and none comes before it.
LEMMA FirstFacts ==
  ASSUME NEW is \in SUBSET (Nat \ {0})
  PROVE  /\ First(is) \in is \cup {0}
         /\ is # {} => First(is) \in is /\ \A j \in is : First(is) <= j
<1>1. CASE is = {}
  BY <1>1 DEF First
<1>2. CASE is # {}
  <2>1. \E i \in is : \A j \in is : i <= j
    BY <1>2, LeastNumber
  <2> QED
    BY <1>2, <2>1 DEF First
<1> QED
  BY <1>1, <1>2

LEMMA RecordsFacts ==
  ASSUME TypeOK
  PROVE  /\ Here \subseteq Kept(records) /\ Kept(records) \subseteq Nat \ {0}
         /\ \A i \in Kept(records) : records[i] \in Entry /\ WellFormed(records[i])
<1>1. records \in Declarable \cup {<<>>}
  BY DEF TypeOK
<1> QED
  BY <1>1, FileFacts DEF Here, Kept

\* Of the kept entries no two share an id.
LEMMA IdsDistinct ==
  ASSUME TypeOK, NEW i \in Kept(records), NEW j \in Kept(records), records[i].id = records[j].id
  PROVE  i = j
<1>1. i \in Nat \ {0} /\ j \in Nat \ {0}
  BY RecordsFacts
<1>2. /\ \A k \in 1 .. i - 1 : WellFormed(records[k]) => records[k].id # records[i].id
      /\ \A k \in 1 .. j - 1 : WellFormed(records[k]) => records[k].id # records[j].id
      /\ WellFormed(records[i]) /\ WellFormed(records[j])
  BY DEF Kept
<1> QED
  BY <1>1, <1>2

\* What an item is reconciled with is an entry about this node.
LEMMA ReconciledHere ==
  ASSUME TypeOK, NEW item
  PROVE  Reconciled(item) \in Here \cup {0}
<1>1. \A is \in SUBSET Here : is \in SUBSET (Nat \ {0})
  BY RecordsFacts
<1>2. RegistryMatch(item) \in Here \cup {0}
  BY <1>1, FirstFacts DEF RegistryMatch
<1>3. OwnerMismatch(item) \in Here \cup {0}
  BY <1>1, FirstFacts DEF OwnerMismatch
<1>4. BindMismatch(item) \in Here \cup {0}
  BY <1>1, FirstFacts DEF BindMismatch
<1> QED
  BY <1>2, <1>3, <1>4 DEF Reconciled

\* Each entry of the registry is shown, with an item that was seen or on its own.
THEOREM EveryEntryAlwaysShown == Spec => []EveryEntryShown
<1>1. ASSUME TypeOK
      PROVE  EveryEntryShown
  <2> SUFFICES ASSUME NEW i \in Kept(records), i \notin Unmatched
               PROVE  i \in {Reconciled(item) : item \in Items}
    BY DEF EveryEntryShown
  <2>1. records[i].id \in MatchedIDs
    BY DEF Unmatched
  <2>2. PICK item \in Items : /\ Reconciled(item) # 0
                              /\ records[Reconciled(item)].id = records[i].id
    BY <2>1 DEF MatchedIDs
  <2>3. Reconciled(item) \in Kept(records)
    BY <1>1, <2>2, ReconciledHere, RecordsFacts
  <2>4. Reconciled(item) = i
    BY <1>1, <2>2, <2>3, IdsDistinct
  <2> QED
    BY <2>4
<1> QED
  BY <1>1, TypeCorrect, PTL

-------------------------------------------------------------------------------
(* Statuses of entries that are reconciled with nothing.                   *)

LEMMA FreeStatus ==
  ASSUME NEW i, UnmatchedStatus(i) = "RESERVED_FREE"
  PROVE  i \in Here /\ ~IsHostOccupied(records[i])
BY DEF UnmatchedStatus, ClassifyMissing

LEMMA MissingStatus ==
  ASSUME NEW i, records[i].state \in Lifecycle, UnmatchedStatus(i) = "DECLARED_MISSING"
  PROVE  i \in Here /\ records[i].state = "active"
BY DEF UnmatchedStatus, ClassifyMissing, Lifecycle

\* A socket that has part of a single port is on that port, at an address that
\* conflicts with its own, unless the two are misjudged.
LEMMA SocketOccupies ==
  ASSUME NEW e \in Entry, NEW l \in Socket,
         Overlap([e EXCEPT !.size = 0], l), ~Misjudged([e EXCEPT !.size = 0], l)
  PROVE  /\ l.port = e.port /\ l.protocol = e.protocol
         /\ AddressesConflict(l.address, e.address)
<1> DEFINE claim == [e EXCEPT !.size = 0]
<1>1. /\ claim.address = e.address /\ claim.port = e.port /\ claim.protocol = e.protocol
      /\ e.address \in AddressText /\ l.address \in AddressText /\ claim.size = 0
  BY DEF Entry, Socket
<1>2. Overlap(l, claim) /\ ~Misjudged(l, claim)
  BY OverlapSymmetric, MisjudgedSymmetric
<1> HIDE DEF claim
<1>3. AddressesConflict(l.address, e.address)
  BY <1>1, <1>2, AddressesExact DEF Overlap
<1>4. Ports(claim) = {e.port} /\ Ports(l) = {l.port}
  BY <1>1 DEF Socket, Ports
<1> QED
  BY <1>1, <1>2, <1>3, <1>4 DEF Overlap

\* A single reserved port is not reported free if a socket has had it all along,
\* provided that ss could be asked and that the addresses are not misjudged.
THEOREM FreeAlwaysFree == Spec => []FreeIsFree
<1>1. ASSUME OverviewInv
      PROVE  FreeIsFree
  <2> SUFFICES ASSUME phase = "done", "ss" \notin missed, NEW i \in Unmatched,
                      UnmatchedStatus(i) = "RESERVED_FREE", NEW l \in held,
                      Overlap([records[i] EXCEPT !.size = 0], l),
                      ~Misjudged([records[i] EXCEPT !.size = 0], l)
               PROVE  FALSE
    BY DEF FreeIsFree
  <2>1. TypeOK /\ l \in heard /\ l \in Socket
    BY <1>1 DEF OverviewInv, Noticed, Later, TypeOK
  <2>2. records[i] \in Entry
    BY <2>1, RecordsFacts DEF Unmatched
  <2>3. ~IsHostOccupied(records[i])
    BY FreeStatus
  <2> QED
    BY <2>1, <2>2, <2>3, SocketOccupies DEF IsHostOccupied
<1> QED
  BY <1>1, OverviewInvariance, PTL

-------------------------------------------------------------------------------
(* Missing.                                                                *)

\* Ranges that fit are the same if their ports are, and the other way round.
LEMMA RangeIsItsPorts ==
  ASSUME NEW a, NEW b, a.port \in Nat \ {0}, b.port \in Nat \ {0},
         a.size \in Int, b.size \in Int, RangeFits(a), RangeFits(b)
  PROVE  Ports(a) = Ports(b) <=>
           a.port = b.port /\ NormalizedRangeSize(a.size) = NormalizedRangeSize(b.size)
<1> DEFINE last(x) == x.port + NormalizedRangeSize(x.size) - 1
<1>1. \A p : p \in Ports(a) <=> p \in Nat /\ a.port <= p /\ p <= last(a)
  BY LastPortAssumption DEF Ports, Port, RangeFits, NormalizedRangeSize
<1>2. \A p : p \in Ports(b) <=> p \in Nat /\ b.port <= p /\ p <= last(b)
  BY LastPortAssumption DEF Ports, Port, RangeFits, NormalizedRangeSize
<1>3. /\ last(a) \in Nat /\ last(b) \in Nat /\ a.port <= last(a) /\ b.port <= last(b)
      /\ NormalizedRangeSize(a.size) \in Int /\ NormalizedRangeSize(b.size) \in Int
  BY DEF NormalizedRangeSize
<1>4. ASSUME Ports(a) = Ports(b)
      PROVE  a.port = b.port /\ last(a) = last(b)
  <2>1. a.port \in Ports(b) /\ last(a) \in Ports(b) /\ b.port \in Ports(a) /\ last(b) \in Ports(a)
    BY <1>1, <1>2, <1>3, <1>4
  <2>2. b.port <= a.port /\ a.port <= b.port /\ last(a) <= last(b) /\ last(b) <= last(a)
    BY <1>1, <1>2, <2>1
  <2> QED
    BY <1>3, <2>2
<1>5. ASSUME a.port = b.port, NormalizedRangeSize(a.size) = NormalizedRangeSize(b.size)
      PROVE  Ports(a) = Ports(b)
  <2>1. last(a) = last(b)
    BY <1>5
  <2>2. \A p : p \in Ports(a) <=> p \in Ports(b)
    BY <1>1, <1>2, <1>5, <2>1
  <2>3. Ports(a) \subseteq Nat /\ Ports(b) \subseteq Nat
    BY <1>1, <1>2
  <2> QED
    BY <2>2, <2>3
<1>6. ASSUME a.port = b.port, last(a) = last(b)
      PROVE  NormalizedRangeSize(a.size) = NormalizedRangeSize(b.size)
  BY <1>3, <1>6
<1> QED
  BY <1>4, <1>5, <1>6

\* An entry that an item matches and that comes first is what it is shown with.
LEMMA MatchedOrShadowed ==
  ASSUME TypeOK, NEW i \in Here, NEW item \in Items,
         SamePorts(records[i], item.endpoint), records[i].address = item.endpoint.address,
         item.endpoint.port \in Nat \ {0}, item.endpoint.size \in Int,
         RangeFits(item.endpoint), OwnedBy(records[i], item)
  PROVE  Shadowed(i) \/ i \notin Unmatched
<1> DEFINE M == {j \in Here : /\ EndpointMatches(records[j], item.endpoint)
                              /\ ExpectsBindMatch(records[j]) => OwnedBy(records[j], item)}
           j == First(M)
<1>1. \A k \in Here : /\ k \in Nat \ {0}
                      /\ records[k].port \in Nat \ {0} /\ records[k].size \in Int
                      /\ RangeFits(records[k])
  BY RecordsFacts DEF Entry, WellFormed, RangeFits
<1>2. \A k \in Here : SamePorts(records[k], item.endpoint) <=> SameRange(records[k], item.endpoint)
  BY <1>1, RangeIsItsPorts DEF SamePorts, SameRange
<1>3. i \in M
  BY <1>2 DEF EndpointMatches, Equivalent
<1>4. j \in M /\ j <= i /\ RegistryMatch(item) = j
  <2>1. M \in SUBSET (Nat \ {0})
    BY <1>1
  <2>2. RegistryMatch(item) = First(M)
    BY DEF RegistryMatch
  <2> HIDE DEF M
  <2> QED
    BY <1>3, <2>1, <2>2, FirstFacts
<1> HIDE DEF j
<1>5. j \in Here /\ SamePorts(records[j], item.endpoint)
  BY <1>2, <1>4 DEF EndpointMatches
<1>6. CASE j = i
  <2>1. Reconciled(item) = i /\ i # 0
    BY <1>1, <1>4, <1>5, <1>6 DEF Reconciled
  <2>2. records[i].id \in MatchedIDs
    BY <2>1 DEF MatchedIDs
  <2> QED
    BY <2>2 DEF Unmatched
<1>7. CASE j # i
  <2>1. j < i
    BY <1>1, <1>4, <1>5, <1>7
  <2> QED
    BY <1>5, <2>1 DEF Shadowed, SamePorts
<1> QED
  BY <1>6, <1>7

\* What has been there all along is an item.
LEMMA ConstantShown ==
  ASSUME OverviewInv, phase = "done", NEW x \in Constant
  PROVE  \E item \in Items :
           /\ item.endpoint = x.endpoint /\ item.owner = x.owner
           /\ x.endpoint.port \in Nat \ {0} /\ x.endpoint.size \in Int
           /\ RangeFits(x.endpoint)
<1>1. TypeOK /\ stayed \subseteq There(shown)
  BY DEF OverviewInv, Noticed, Later
<1>2. CASE \E c \in stayed : \E m \in Published[c] : x = [endpoint |-> m, owner |-> NameOf[c]]
  <2> PICK c \in stayed : \E m \in Published[c] : x = [endpoint |-> m, owner |-> NameOf[c]]
    BY <1>2
  <2>1. PICK m \in Published[c] : x = [endpoint |-> m, owner |-> NameOf[c]]
    OBVIOUS
  <2>2. [endpoint |-> m, owner |-> NameOf[c], container |-> c] \in ContainerItems
    BY <1>1, <2>1 DEF ContainerItems
  <2>3. c \in Container /\ m \in Claim /\ RangeFits(m)
    BY <1>1, PublishedAssumption DEF TypeOK
  <2> QED
    BY <2>1, <2>2, <2>3 DEF Items, Claim, Port
<1>3. CASE \E l \in held \cap heard : ~Covered(l) /\ x = [endpoint |-> l, owner |-> l.process]
  <2>1. PICK l \in held \cap heard : ~Covered(l) /\ x = [endpoint |-> l, owner |-> l.process]
    BY <1>3
  <2>2. [endpoint |-> l, owner |-> l.process, container |-> NoContainer] \in SocketItems
    BY <2>1 DEF SocketItems, SpareSockets
  <2>3. l \in Socket
    BY <1>1 DEF TypeOK
  <2> QED
    BY <2>1, <2>2, <2>3 DEF Items, Socket, Port, RangeFits
<1> DEFINE Mapped == {{[endpoint |-> m, owner |-> NameOf[c]] : m \in Published[c]} : c \in stayed}
           Open == {[endpoint |-> l, owner |-> l.process] :
                      l \in {h \in held \cap heard : ~Covered(h)}}
<1>4. Constant = (UNION Mapped) \cup Open
  BY DEF Constant
<1>5. ASSUME x \in UNION Mapped
      PROVE  \E c \in stayed : \E m \in Published[c] : x = [endpoint |-> m, owner |-> NameOf[c]]
  BY <1>5
<1>6. ASSUME x \in Open
      PROVE  \E l \in held \cap heard : ~Covered(l) /\ x = [endpoint |-> l, owner |-> l.process]
  BY <1>6
<1> HIDE DEF Mapped, Open
<1> QED
  BY <1>2, <1>3, <1>4, <1>5, <1>6

\* A service that is declared active and has been where it is declared all along,
\* under its name, is not reported missing, unless an earlier entry has its ports.
THEOREM MissingAlwaysMissing == Spec => []MissingIsMissing
<1>1. ASSUME OverviewInv
      PROVE  MissingIsMissing
  <2> SUFFICES ASSUME phase = "done", NEW i \in Unmatched,
                      UnmatchedStatus(i) = "DECLARED_MISSING", NEW x \in Constant,
                      SamePorts(records[i], x.endpoint),
                      records[i].address = x.endpoint.address, OwnedBy(records[i], x)
               PROVE  Shadowed(i)
    BY DEF MissingIsMissing
  <2>1. TypeOK
    BY <1>1 DEF OverviewInv
  <2>2. i \in Here
    BY <2>1, RecordsFacts, MissingStatus DEF Unmatched, WellFormed
  <2>3. PICK item \in Items :
          /\ item.endpoint = x.endpoint /\ item.owner = x.owner
          /\ x.endpoint.port \in Nat \ {0} /\ x.endpoint.size \in Int
          /\ RangeFits(x.endpoint)
    BY <1>1, ConstantShown
  <2>4. OwnedBy(records[i], item)
    BY <2>3 DEF OwnedBy
  <2> QED
    BY <2>1, <2>2, <2>3, <2>4, MatchedOrShadowed
<1> QED
  BY <1>1, OverviewInvariance, PTL

-------------------------------------------------------------------------------
(* Sockets accounted for, and conflicts.                                   *)

\* A socket that has been open all along, on a host whose ss could be asked, is not
\* dropped without a container whose mapping covers it; and that container is shown
\* in its place, unless it came during the call.
THEOREM SocketsAlwaysAccountedFor == Spec => []SocketsAccountedFor
<1>1. ASSUME OverviewInv
      PROVE  SocketsAccountedFor
  <2> SUFFICES ASSUME phase = "done", "ss" \notin missed, NEW l \in held, Covered(l)
               PROVE  \E c \in claimants :
                        /\ \E m \in Published[c] : CoversListener(m, l)
                        /\ c \in stayed => \E item \in ContainerItems : item.container = c
    BY <1>1 DEF SocketsAccountedFor, SpareSockets, OverviewInv, Noticed, Later
  <2> DEFINE Own(c, m) == [address |-> m.address, port |-> m.port, protocol |-> m.protocol,
                          size |-> m.size, owner |-> c]
  <2> PICK c \in claimants : \E m \in Published[c] : CoversListener(Own(c, m), l)
    BY DEF Covered, Claims, Owned
  <2>1. PICK m \in Published[c] : CoversListener(Own(c, m), l)
    OBVIOUS
  <2>2. CoversListener(m, l)
    BY <2>1 DEF CoversListener, ExpandClaimRange, Ports
  <2>3. ASSUME c \in stayed
        PROVE  \E item \in ContainerItems : item.container = c
    <3>1. c \in There(shown)
      BY <1>1, <2>3 DEF OverviewInv, Noticed, Later
    <3>2. [endpoint |-> m, owner |-> NameOf[c], container |-> c] \in ContainerItems
      BY <3>1 DEF ContainerItems
    <3> QED
      BY <3>2
  <2> QED
    BY <2>2, <2>3
<1> QED
  BY <1>1, OverviewInvariance, PTL

\* Two containers that have been there all along with mappings that cannot both
\* be bound are shown to be in conflict, both of them, provided that podman could
\* be asked a second time and that the addresses are not misjudged.
THEOREM ContainerConflictsAlwaysShown == Spec => []ContainerConflictsShown
<1>1. ASSUME OverviewInv
      PROVE  ContainerConflictsShown
  <2> SUFFICES ASSUME phase = "done", "podman" \notin missed,
                      NEW x \in ContainerItems, NEW y \in ContainerItems,
                      {x.container, y.container} \subseteq stayed, x.container # y.container,
                      Overlap(x.endpoint, y.endpoint), ~Misjudged(x.endpoint, y.endpoint)
               PROVE  ContainerInConflict(x)
    BY DEF ContainerConflictsShown
  <2>1. /\ y.container \in Container /\ y.container \in claimants
        /\ y.endpoint \in Published[y.container]
    BY <1>1 DEF OverviewInv, Noticed, Later, ContainerItems, There
  <2>2. x.endpoint \in Claim /\ y.endpoint \in Claim
    <3>1. ASSUME NEW z \in ContainerItems
          PROVE  \E c \in Container : z.endpoint \in Published[c]
      BY DEF ContainerItems, There
    <3> QED
      BY <3>1, PublishedAssumption
  <2> DEFINE m == y.endpoint
             c == [address |-> m.address, port |-> m.port, protocol |-> m.protocol,
                   size |-> m.size, owner |-> y.container]
  <2>3. c \in Claims
    BY <2>1 DEF Claims, Owned
  <2>4. Overlap(c, x.endpoint) /\ ~Misjudged(c, x.endpoint)
    BY OverlapSymmetric, MisjudgedSymmetric DEF Overlap, Ports, Misjudged
  <2>5. ClaimsConflict(c, x.endpoint)
    BY <2>2, <2>4, ConflictExact DEF Claim
  <2> QED
    BY <2>3, <2>5 DEF ContainerInConflict, Conflicts
<1> QED
  BY <1>1, OverviewInvariance, PTL
===============================================================================
