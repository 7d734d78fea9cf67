------------------------- MODULE PortValidation_proofs -------------------------
(***************************************************************************)
(* Theorems about PortValidation, for any host, any claims and any faults:  *)
(* looking at the three sources one after the other misses nothing that is  *)
(* held throughout.                                                        *)
(***************************************************************************)
EXTENDS PortValidation, PortHost_proofs

-------------------------------------------------------------------------------
(* Type correctness.                                                       *)

\* Type correctness, at the start and for every step.
LEMMA InitTypeOK ==
  ASSUME Init
  PROVE  TypeOK
<1>1. search \in Searched
  <2>1. \E s : s \in Searched
    BY ValidationAssumption
  <2> QED
    BY <2>1 DEF Init
<1>2. state \in [Container -> {"absent", "stopped", "running"}]
  BY DEF Init
<1> QED
  BY <1>1, <1>2 DEF Init, TypeOK

LEMMA NextTypeOK ==
  ASSUME TypeOK, [Next]_vars
  PROVE  TypeOK'
<1> USE ValidationAssumption
<1>1. ASSUME NEW s \in [Container -> {"absent", "stopped", "running"}],
             NEW l \in SUBSET Listenable, NEW r \in SUBSET Reservable,
             HostMoves(s, l, r)
      PROVE  TypeOK'
  BY <1>1 DEF HostMoves, TypeOK, asked
<1>2. ASSUME NEW c \in Container, ContainerMoves(c) PROVE TypeOK'
  BY <1>1, <1>2 DEF ContainerMoves, TypeOK
<1>3. ASSUME NEW l \in Listenable, ProcessMoves(l) PROVE TypeOK'
  <2>1. listeners \cup {l} \in SUBSET Listenable /\ listeners \ {l} \in SUBSET Listenable
    BY DEF TypeOK
  <2>2. state \in [Container -> {"absent", "stopped", "running"}] /\ reserved \in SUBSET Reservable
    BY DEF TypeOK
  <2> QED
    BY ONLY <1>1, <1>3, <2>1, <2>2 DEF ProcessMoves
<1>4. ASSUME NEW r \in Reservable, OperatorEdits(r) PROVE TypeOK'
  <2>1. reserved \cup {r} \in SUBSET Reservable /\ reserved \ {r} \in SUBSET Reservable
    BY DEF TypeOK
  <2>2. state \in [Container -> {"absent", "stopped", "running"}] /\ listeners \in SUBSET Listenable
    BY DEF TypeOK
  <2> QED
    BY ONLY <1>1, <1>4, <2>1, <2>2 DEF OperatorEdits
<1>5. ASSUME NEW i \in Container \cup {NoContainer}
      PROVE  Claimed(state, listeners, reserved, i) \subseteq OwnedClaim
  <2>1. listeners \cup reserved \in SUBSET Claim
    BY DEF TypeOK
  <2> QED
    BY <2>1, ListedType, OwnedType DEF Claimed
<1>6. ASSUME NEW ms \in Requested, NEW i \in Container \cup {NoContainer}, Validate(ms, i)
      PROVE  TypeOK'
  <2>1. held' \subseteq OwnedClaim
    BY <1>5, <1>6 DEF Validate, Begin
  <2>2. item' = 1 /\ wanted' \in Requested
    BY <1>6 DEF Validate, Begin
  <2> QED
    BY <1>6, <2>1, <2>2 DEF Validate, Begin, TypeOK, host
<1>7. ASSUME NEW s \in Searched, FindFreePort(s) PROVE TypeOK'
  <2>1. held' \subseteq OwnedClaim
    BY <1>5, <1>7 DEF FindFreePort, Begin
  <2>2. s \in [address: AddressText, protocol: Protocol, port: Port]
    OBVIOUS
  <2>3. search' \in Searched \cup {[q EXCEPT !.port = DefaultStart] : q \in Searched}
    BY <1>7, <2>2 DEF FindFreePort
  <2> QED
    BY <1>7, <2>1, <2>3 DEF FindFreePort, Begin, TypeOK, host
<1>8. ASSUME SourceFails PROVE TypeOK'
  BY <1>8 DEF SourceFails, Answer, TypeOK, host, asked
<1>9. ASSUME NEW from, NEW to \in {"ss", "registry", "decide"},
             NEW more \in SUBSET OwnedClaim, Collect(from, to, more)
      PROVE  TypeOK'
  BY <1>9 DEF Collect, TypeOK, host, asked
<1>10. ASSUME ListContainers PROVE TypeOK'
  BY <1>9, <1>10, ListedType DEF ListContainers
<1>11. ASSUME ListHostListeners PROVE TypeOK'
  <2>1. Bound(state) \cup listeners \in SUBSET Claim
    BY BoundType DEF TypeOK
  <2> DEFINE left == {l \in Bound(state) \cup listeners : \A c \in claims : ~CoversListener(c, l)}
  <2>2. Owned(NoContainer, left) \subseteq OwnedClaim
    BY <2>1, OwnedType
  <2> QED
    BY <1>9, <1>11, <2>2 DEF ListHostListeners
<1>12. ASSUME LoadReservations PROVE TypeOK'
  <2>1. Owned(NoContainer, reserved) \subseteq OwnedClaim
    BY OwnedType DEF TypeOK
  <2> QED
    BY <1>9, <1>12, <2>1 DEF LoadReservations
<1>13. ASSUME Decide PROVE TypeOK'
  <2>1. ASSUME NEW a \in {"accepted", "refused"}, Answer(a), UNCHANGED found
        PROVE  TypeOK'
    BY <2>1 DEF Answer, TypeOK, host, asked
  <2>2. CASE /\ item < Len(wanted)
             /\ phase' = "podman"
             /\ item' = item + 1
             /\ claims' = {}
             /\ UNCHANGED <<host, asked, answer, held>>
             /\ UNCHANGED found
    <3>1. wanted \in Requested /\ wanted \in Seq(Claim)
      BY <1>13 DEF Decide, TypeOK
    <3>2. item + 1 \in DOMAIN wanted
      BY <2>2, <3>1 DEF TypeOK
    <3> QED
      BY <2>2, <3>2 DEF TypeOK, host, asked
  <2> QED
    BY <1>13, <2>1, <2>2 DEF Decide
<1>14. ASSUME Pick PROVE TypeOK'
  <2>1. search.port \in Port
    BY DEF TypeOK
  <2>2. FreePorts \subseteq Port
    BY <2>1, LastPortAssumption DEF FreePorts, Scanned, Port
  <2> QED
    BY <1>14, <2>2 DEF Pick, Answer, TypeOK, host, asked
<1>15. CASE UNCHANGED vars
  BY <1>15 DEF vars, TypeOK
<1> QED
  BY <1>2, <1>3, <1>4, <1>6, <1>7, <1>8, <1>10, <1>11, <1>12, <1>13, <1>14, <1>15
     DEF Next, Call

\* Every variable keeps its type: in particular no mapping beyond the last one is
\* looked at, and a search returns a port.
THEOREM TypeCorrect == Spec => []TypeOK
<1>1. TypeOK /\ [Next]_vars => TypeOK'
  BY NextTypeOK
<1> QED
  BY <1>1, InitTypeOK, PTL DEF Spec

-------------------------------------------------------------------------------
(* Nothing that is held throughout is missed.                              *)

\* The sources that have been looked at, in the current collection.
PodmanSeen == phase \in {"ss", "registry", "decide"} \/ answer \in {"accepted", "found"}
ListenersSeen == phase \in {"registry", "decide"} \/ answer \in {"accepted", "found"}
RegistrySeen == phase = "decide" \/ answer \in {"accepted", "found"}

\* What has been held throughout is held now, and not by the ignored container.
HeldNow == phase # "done" => held \subseteq Claimed(state, listeners, reserved, ignored)
HeldByOthers == \A h \in held : h.owner = NoContainer \/ h.owner # ignored

\* A claim is a container's, a process's or a reservation.
HasSource(h) ==
  \/ \E c \in Container : h \in Owned(c, Published[c])
  \/ h \in Owned(NoContainer, Listenable)
  \/ h \in Owned(NoContainer, Reservable)

\* Each source that has been looked at has shown what is held throughout.
Collected ==
  /\ \A h \in held : PodmanSeen /\ h.owner \in Container => h \in claims
  /\ \A h \in held \cap Owned(NoContainer, Listenable) :
       ListenersSeen => h \in claims \/ Masked(h)
  /\ \A h \in held \cap Owned(NoContainer, Reservable) : RegistrySeen => h \in claims
  /\ \A h \in held : HasSource(h)

\* A collection starts from nothing.  Podman's claims are containers', with all of
\* a container's mappings; no listener that they cover joins them.
Fresh ==
  /\ phase = "podman" => claims = {}
  /\ phase = "ss" => \A c \in claims : c.owner \in Container
  /\ \A c \in claims : phase \in {"ss", "registry"} /\ c.owner \in Container =>
       Owned(c.owner, Published[c.owner]) \subseteq claims
  /\ phase = "registry" =>
       \A c, d \in claims :
         c.owner \in Container /\ d.owner = NoContainer => ~CoversListener(c, d)

\* A port that was found had no conflict with the claims, which are still those.
FoundThere ==
  /\ answer # "none" <=> phase = "done"
  /\ answer = "found" => found \in FreePorts
  /\ answer = "found" => wanted = <<>>

\* The mappings before the current one fit and do not conflict with each other;
\* all of them once the request is accepted.
Passed(i) ==
  /\ RangeFits(wanted[i])
  /\ \A j \in 1 .. i - 1 : ~ClaimsConflict(wanted[j], wanted[i])

EarlierPassed ==
  /\ \A i \in 1 .. item - 1 : Passed(i)
  /\ answer = "accepted" => \A i \in DOMAIN wanted : Passed(i)

IInv ==
  /\ TypeOK
  /\ HeldNow
  /\ HeldByOthers
  /\ Collected
  /\ Fresh
  /\ FoundThere
  /\ EarlierPassed

\* The steps of the host, of the collection and of the verdict, one lemma each.
LEMMA InitIInv ==
  ASSUME Init
  PROVE  IInv
<1>1. TypeOK
  BY InitTypeOK
<1> QED
  BY <1>1 DEF Init, IInv, HeldNow, HeldByOthers, Collected, Fresh, FoundThere, EarlierPassed

\* The host's moves only take from what is held throughout.
LEMMA HostIInv ==
  ASSUME IInv, TypeOK', NEW s, NEW l, NEW r, HostMoves(s, l, r)
  PROVE  IInv'
<1> USE DEF IInv
<1>1. held' \subseteq held /\ held' \subseteq Claimed(s, l, r, ignored)
  BY DEF HostMoves
<1>2. /\ phase' = phase /\ answer' = answer /\ claims' = claims /\ found' = found
      /\ wanted' = wanted /\ search' = search /\ ignored' = ignored /\ item' = item
      /\ state' = s /\ listeners' = l /\ reserved' = r
  BY DEF HostMoves, asked
<1>3. HeldNow'
  BY <1>1, <1>2 DEF HeldNow
<1>4. HeldByOthers'
  BY <1>1, <1>2 DEF HeldByOthers
<1>5. Fresh'
  BY <1>2 DEF Fresh
<1>6. Collected'
  <2>1. \A h : Masked(h) => Masked(h)'
    BY <1>2 DEF Masked
  <2>2. /\ PodmanSeen' <=> PodmanSeen
        /\ ListenersSeen' <=> ListenersSeen
        /\ RegistrySeen' <=> RegistrySeen
    BY <1>2 DEF PodmanSeen, ListenersSeen, RegistrySeen
  <2> QED
    BY <1>1, <1>2, <2>1, <2>2 DEF Collected, HasSource
<1>7. FoundThere'
  BY <1>2 DEF FoundThere, FreePorts, Scanned, Candidate
<1>8. EarlierPassed'
  BY <1>2 DEF EarlierPassed, Passed
<1> QED
  BY <1>3, <1>4, <1>5, <1>6, <1>7, <1>8

\* A claim that two sets of claims have in common is of a claim in both.
LEMMA OwnedBoth ==
  ASSUME NEW A \in SUBSET Claim, NEW B \in SUBSET Claim, NEW o, NEW q,
         NEW h \in Owned(o, A) \cap Owned(q, B)
  PROVE  h \in Owned(o, A \cap B) /\ o = q
<1>1. PICK a \in A : h = [address |-> a.address, port |-> a.port, protocol |-> a.protocol,
                          size |-> a.size, owner |-> o]
  BY DEF Owned
<1>2. PICK b \in B : h = [address |-> b.address, port |-> b.port, protocol |-> b.protocol,
                          size |-> b.size, owner |-> q]
  BY DEF Owned
<1>3. a = b /\ o = q
  <2>1. /\ a.address = b.address /\ a.port = b.port /\ a.protocol = b.protocol
        /\ a.size = b.size /\ o = q
    BY <1>1, <1>2
  <2>2. a \in [address: AddressText, port: Port, protocol: Protocol, size: Nat]
    BY DEF Claim
  <2>3. b \in [address: AddressText, port: Port, protocol: Protocol, size: Nat]
    BY DEF Claim
  <2> QED
    BY <2>1, <2>2, <2>3
<1> QED
  BY <1>1, <1>3 DEF Owned

\* What podman lists is a container's.
LEMMA ListedOwner ==
  ASSUME NEW s, NEW h \in Listed(s)
  PROVE  h.owner \in Container
  BY DEF Listed, Owned

\* What is no container's has no owner.
LEMMA UnownedOwner ==
  ASSUME NEW A, NEW h \in Owned(NoContainer, A)
  PROVE  h.owner = NoContainer /\ h.owner \notin Container
  BY ValidationAssumption DEF Owned

\* What is claimed by others has a source, and not the ignored container.
LEMMA ClaimedOwners ==
  ASSUME TypeOK, NEW i \in Container \cup {NoContainer}, NEW h \in Claimed(state, listeners, reserved, i)
  PROVE  /\ h.owner = NoContainer \/ h.owner # i
         /\ HasSource(h)
<1>1. CASE h \in Listed(state) /\ h.owner # i
  BY <1>1 DEF HasSource, Listed
<1>2. CASE h \in Owned(NoContainer, listeners \cup reserved)
  BY <1>2, UnownedOwner DEF Owned, TypeOK, HasSource
<1> QED
  BY <1>1, <1>2 DEF Claimed

\* A call begins with nothing collected and everything held that is claimed.
LEMMA BeginIInv ==
  ASSUME IInv, TypeOK', NEW ms, NEW i \in Container \cup {NoContainer}, Begin(ms, i)
  PROVE  IInv'
<1> USE DEF IInv
<1>1. held' = Claimed(state, listeners, reserved, i) /\ ignored' = i /\ phase' = "podman"
      /\ item' = 1 /\ answer' = "none" /\ claims' = {} /\ UNCHANGED <<state, listeners, reserved>>
  BY DEF Begin, FoundThere, host
<1>2. HeldNow' /\ HeldByOthers'
  BY <1>1, ClaimedOwners DEF HeldNow, HeldByOthers
<1>3. Collected'
  BY <1>1, ClaimedOwners DEF Collected, PodmanSeen, ListenersSeen, RegistrySeen
<1>4. Fresh' /\ FoundThere' /\ EarlierPassed'
  BY <1>1 DEF Fresh, FoundThere, EarlierPassed
<1> QED
  BY <1>2, <1>3, <1>4

\* A refusal promises nothing.
LEMMA RefusedIInv ==
  ASSUME IInv, TypeOK', Answer("refused"), UNCHANGED found
  PROVE  IInv'
  BY DEF Answer, IInv, HeldNow, HeldByOthers, Collected, HasSource, Fresh, FoundThere, EarlierPassed, Passed,
         PodmanSeen, ListenersSeen, RegistrySeen, host, asked

\* What a step of the collection leaves alone.
LEMMA CollectIInv ==
  ASSUME IInv, TypeOK', NEW from \in {"podman", "ss", "registry"},
         NEW to \in {"ss", "registry", "decide"}, NEW more, Collect(from, to, more), Collected', Fresh'
  PROVE  IInv'
<1>1. answer' = answer /\ answer = "none"
  BY DEF Collect, IInv, FoundThere
<1> QED
  BY <1>1 DEF Collect, IInv, HeldNow, HeldByOthers, FoundThere, EarlierPassed, Passed, host, asked

\* The listing shows what containers hold throughout.
LEMMA ListContainersIInv ==
  ASSUME IInv, TypeOK', ListContainers
  PROVE  IInv'
<1>1. /\ phase = "podman" /\ phase' = "ss" /\ claims' = claims \cup Listed(state)
      /\ held' = held /\ answer' = "none" /\ answer = "none"
  BY DEF ListContainers, Collect, IInv, FoundThere
<1>2. ASSUME NEW h \in held, h.owner \in Container
      PROVE  h \in Listed(state)
  <2>1. h \in Claimed(state, listeners, reserved, ignored)
    BY <1>1 DEF IInv, HeldNow
  <2>2. h \notin Owned(NoContainer, listeners \cup reserved)
    BY <1>2, ValidationAssumption DEF Owned
  <2> QED
    BY <2>1, <2>2 DEF Claimed
<1>3. Collected'
  BY <1>1, <1>2 DEF Collected, HasSource, IInv, PodmanSeen, ListenersSeen, RegistrySeen
<1>4. Fresh'
  <2>1. claims' = Listed(state)
    BY <1>1 DEF IInv, Fresh
  <2>2. ASSUME NEW c \in Listed(state)
        PROVE  c.owner \in Container /\ Owned(c.owner, Published[c.owner]) \subseteq Listed(state)
    BY DEF Listed, Owned
  <2> QED
    BY <1>1, <2>1, <2>2 DEF Fresh
<1> QED
  BY <1>3, <1>4, CollectIInv DEF ListContainers

\* ss shows what processes hold throughout, unless it is masked.
LEMMA ListHostListenersIInv ==
  ASSUME IInv, TypeOK', ListHostListeners
  PROVE  IInv'
<1> DEFINE left == {l \in Bound(state) \cup listeners : \A c \in claims : ~CoversListener(c, l)}
<1>1. /\ phase = "ss" /\ phase' = "registry" /\ claims' = claims \cup Owned(NoContainer, left)
      /\ held' = held /\ answer' = "none" /\ answer = "none"
  BY DEF ListHostListeners, Collect, IInv, FoundThere
<1>2. ASSUME NEW h \in held \cap Owned(NoContainer, Listenable)
      PROVE  h \in Owned(NoContainer, left) \/ Masked(h)
  <2>1. h \in Claimed(state, listeners, reserved, ignored) /\ h \notin Listed(state)
    BY <1>1, UnownedOwner, ListedOwner DEF IInv, HeldNow
  <2>2. h \in Owned(NoContainer, listeners \cup reserved)
    BY <2>1 DEF Claimed
  <2>3. /\ Listenable \in SUBSET Claim /\ listeners \cup reserved \in SUBSET Claim
        /\ Listenable \cap (listeners \cup reserved) \subseteq listeners
    BY ValidationAssumption DEF IInv, TypeOK
  <2>4. h \in Owned(NoContainer, Listenable \cap (listeners \cup reserved))
    BY <2>2, <2>3, OwnedBoth
  <2>5. PICK l \in listeners : h = [address |-> l.address, port |-> l.port,
            protocol |-> l.protocol, size |-> l.size, owner |-> NoContainer]
    BY <2>3, <2>4 DEF Owned
  <2>6. CASE l \in left
    BY <2>5, <2>6 DEF Owned
  <2>7. CASE l \notin left
    <3>1. PICK c \in claims : CoversListener(c, l)
      BY <2>7
    <3>2. CoversListener(c, h)
      BY <3>1, <2>5 DEF CoversListener
    <3> QED
      BY <1>1, <3>1, <3>2 DEF Masked, IInv, Fresh
  <2> QED
    BY <2>6, <2>7
<1>3. Collected'
  <2>1. \A h : Masked(h) => Masked(h)'
    BY <1>1 DEF Masked
  <2>2. \A h \in held : h.owner \in Container => h \in claims
    BY <1>1 DEF Collected, IInv, PodmanSeen
  <2> QED
    BY <1>1, <1>2, <2>1, <2>2
       DEF Collected, HasSource, IInv, PodmanSeen, ListenersSeen, RegistrySeen
<1>4. Fresh'
  <2>1. \A c \in claims : c.owner \in Container /\ Owned(c.owner, Published[c.owner]) \subseteq claims
    BY <1>1 DEF Fresh, IInv
  <2>2. ASSUME NEW c \in claims, NEW d \in Owned(NoContainer, left)
        PROVE  ~CoversListener(c, d)
    <3>1. PICK l \in left : d = [address |-> l.address, port |-> l.port,
              protocol |-> l.protocol, size |-> l.size, owner |-> NoContainer]
      BY DEF Owned
    <3>2. ~CoversListener(c, l)
      OBVIOUS
    <3> QED
      BY <3>1, <3>2 DEF CoversListener
  <2>3. \A d \in Owned(NoContainer, left) : d.owner = NoContainer /\ d.owner \notin Container
    BY UnownedOwner
  <2>4. \A c \in claims : c.owner # NoContainer
    BY <2>1, ValidationAssumption
  <2> QED
    BY <1>1, <2>1, <2>2, <2>3, <2>4 DEF Fresh
<1> QED
  BY <1>3, <1>4, CollectIInv DEF ListHostListeners

\* The registry shows what is reserved throughout.
LEMMA LoadReservationsIInv ==
  ASSUME IInv, TypeOK', LoadReservations
  PROVE  IInv'
<1>1. /\ phase = "registry" /\ phase' = "decide" /\ held' = held
      /\ claims' = claims \cup Owned(NoContainer, reserved)
      /\ answer' = "none" /\ answer = "none"
  BY DEF LoadReservations, Collect, IInv, FoundThere
<1>2. ASSUME NEW h \in held \cap Owned(NoContainer, Reservable)
      PROVE  h \in Owned(NoContainer, reserved)
  <2>1. h \in Claimed(state, listeners, reserved, ignored) /\ h \notin Listed(state)
    BY <1>1, UnownedOwner, ListedOwner DEF IInv, HeldNow
  <2>2. h \in Owned(NoContainer, listeners \cup reserved)
    BY <2>1 DEF Claimed
  <2>3. /\ Reservable \in SUBSET Claim /\ listeners \cup reserved \in SUBSET Claim
        /\ Reservable \cap (listeners \cup reserved) \subseteq reserved
    BY ValidationAssumption DEF IInv, TypeOK
  <2>4. h \in Owned(NoContainer, Reservable \cap (listeners \cup reserved))
    BY <2>2, <2>3, OwnedBoth
  <2> QED
    BY <2>3, <2>4 DEF Owned
<1>3. Collected'
  <2>1. \A h : Masked(h) => Masked(h)'
    BY <1>1 DEF Masked
  <2>2. /\ \A h \in held : h.owner \in Container => h \in claims
        /\ \A h \in held \cap Owned(NoContainer, Listenable) : h \in claims \/ Masked(h)
    BY <1>1 DEF Collected, IInv, PodmanSeen, ListenersSeen
  <2> QED
    BY <1>1, <1>2, <2>1, <2>2 DEF Collected, HasSource, IInv
<1>4. Fresh'
  BY <1>1 DEF Fresh
<1> QED
  BY <1>3, <1>4, CollectIInv DEF LoadReservations

\* The verdict on a mapping adds it to those that have passed.
LEMMA DecideIInv ==
  ASSUME IInv, TypeOK', Decide
  PROVE  IInv'
<1>1. phase = "decide" /\ answer = "none" /\ wanted # <<>> /\ item \in DOMAIN wanted /\ item \in Nat \ {0}
      /\ DOMAIN wanted = 1 .. Len(wanted) /\ Len(wanted) \in Nat
  <2>1. wanted \in Requested /\ wanted \in Seq(Claim) /\ wanted # <<>>
    BY ValidationAssumption DEF Decide, IInv, TypeOK
  <2>2. DOMAIN wanted = 1 .. Len(wanted) /\ Len(wanted) \in Nat \ {0}
    BY <2>1
  <2> QED
    BY <2>1, <2>2 DEF Decide, IInv, TypeOK, FoundThere
<1>2. CASE Answer("refused") /\ UNCHANGED found
  BY <1>2, RefusedIInv
<1>3. ASSUME Valid(wanted[item])
      PROVE  \A i \in 1 .. item : Passed(i)
  <2>1. Passed(item)
    BY <1>3 DEF Valid, Passed
  <2>2. \A i \in 1 .. item : i = item \/ i \in 1 .. item - 1
    BY <1>1
  <2> QED
    BY <2>1, <2>2 DEF IInv, EarlierPassed
<1>4. CASE Valid(wanted[item]) /\ item = Len(wanted) /\ Answer("accepted") /\ UNCHANGED found
  <2>1. /\ phase' = "done" /\ answer' = "accepted" /\ UNCHANGED <<wanted, item, claims, held, ignored>>
    BY <1>4 DEF Answer, asked
  <2>2. HeldNow' /\ HeldByOthers' /\ Fresh' /\ FoundThere'
    BY <2>1 DEF IInv, HeldNow, HeldByOthers, Fresh, FoundThere
  <2>3. Collected'
    BY <1>1, <2>1 DEF IInv, Collected, HasSource, Masked, PodmanSeen, ListenersSeen, RegistrySeen
  <2>4. EarlierPassed'
    BY <1>1, <1>3, <1>4, <2>1 DEF IInv, EarlierPassed, Passed
  <2> QED
    BY <2>2, <2>3, <2>4 DEF IInv
<1>5. CASE /\ Valid(wanted[item])
           /\ phase' = "podman"
           /\ item' = item + 1
           /\ claims' = {}
           /\ UNCHANGED <<host, asked, answer, held, found>>
  <2>1. UNCHANGED <<state, listeners, reserved, wanted, search, ignored, answer, held, found>>
    BY <1>5 DEF host, asked
  <2>2. HeldNow' /\ HeldByOthers' /\ Fresh' /\ FoundThere'
    BY <1>1, <1>5, <2>1 DEF IInv, HeldNow, HeldByOthers, Fresh, FoundThere
  <2>3. Collected'
    BY <1>1, <1>5, <2>1 DEF IInv, Collected, HasSource, PodmanSeen, ListenersSeen, RegistrySeen
  <2>4. item' - 1 = item
    BY <1>1, <1>5
  <2>5. EarlierPassed'
    BY <1>1, <1>3, <1>5, <2>1, <2>4 DEF IInv, EarlierPassed, Passed
  <2> QED
    BY <2>2, <2>3, <2>5 DEF IInv
<1> QED
  BY <1>2, <1>4, <1>5 DEF Decide

\* The search picks a port without a conflict.
LEMMA PickIInv ==
  ASSUME IInv, TypeOK', Pick
  PROVE  IInv'
<1>1. /\ phase = "decide" /\ answer = "none" /\ phase' = "done" /\ wanted = <<>>
      /\ UNCHANGED <<wanted, search, ignored, item, claims, held>>
      /\ (answer' = "found" /\ found' \in FreePorts) \/ answer' = "exhausted"
  BY DEF Pick, Answer, IInv, FoundThere, asked
<1>2. HeldNow' /\ HeldByOthers' /\ Fresh' /\ EarlierPassed'
  BY <1>1 DEF IInv, HeldNow, HeldByOthers, Fresh, EarlierPassed, Passed
<1>3. FoundThere'
  BY <1>1 DEF FoundThere, FreePorts, Scanned, Candidate
<1>4. Collected'
  BY <1>1 DEF IInv, Collected, HasSource, Masked, PodmanSeen, ListenersSeen, RegistrySeen
<1> QED
  BY <1>2, <1>3, <1>4 DEF IInv

\* IInv is inductive.
THEOREM Invariance == Spec => []IInv
<1>1. IInv /\ [Next]_vars => IInv'
  <2> SUFFICES ASSUME IInv, [Next]_vars PROVE IInv'
    OBVIOUS
  <2>1. TypeOK'
    BY NextTypeOK DEF IInv
  <2>2. ASSUME NEW c \in Container, ContainerMoves(c) PROVE IInv'
    BY <2>1, <2>2, HostIInv DEF ContainerMoves
  <2>3. ASSUME NEW l \in Listenable, ProcessMoves(l) PROVE IInv'
    BY <2>1, <2>3, HostIInv DEF ProcessMoves
  <2>4. ASSUME NEW r \in Reservable, OperatorEdits(r) PROVE IInv'
    BY <2>1, <2>4, HostIInv DEF OperatorEdits
  <2>5. ASSUME NEW ms \in Requested, NEW i \in Container \cup {NoContainer}, Validate(ms, i)
        PROVE  IInv'
    BY <2>1, <2>5, BeginIInv DEF Validate
  <2>6. ASSUME NEW s \in Searched, FindFreePort(s) PROVE IInv'
    BY <2>1, <2>6, BeginIInv DEF FindFreePort
  <2>7. CASE SourceFails
    BY <2>1, <2>7, RefusedIInv DEF SourceFails
  <2>8. CASE ListContainers \/ ListHostListeners \/ LoadReservations \/ Decide \/ Pick
    BY <2>1, <2>8, ListContainersIInv, ListHostListenersIInv, LoadReservationsIInv,
       DecideIInv, PickIInv
  <2>9. CASE UNCHANGED vars
    BY <2>1, <2>9 DEF vars, IInv, HeldNow, HeldByOthers, Collected, HasSource, Masked, Fresh,
       FoundThere, FreePorts, Scanned, Candidate, EarlierPassed, Passed, PodmanSeen,
       ListenersSeen, RegistrySeen
  <2> QED
    BY <2>2, <2>3, <2>4, <2>5, <2>6, <2>7, <2>8, <2>9 DEF Next, Call
<1> QED
  BY <1>1, InitIInv, PTL DEF Spec

\* A claim of another's, collected, is in the way of what overlaps it, unless the
\* two are misjudged.
LEMMA HeldConflicts ==
  ASSUME IInv, NEW h \in held, h \in claims, NEW m,
         m.address \in AddressText, Overlap(m, h), ~Misjudged(m, h)
  PROVE  Conflicts(claims, m, ignored, NoContainer) /\ Conflicts(claims, m, NoContainer, NoContainer)
<1>1. h.address \in AddressText
  BY DEF IInv, TypeOK, OwnedClaim
<1>2. ClaimsConflict(h, m)
  BY <1>1, ConflictExact, OverlapSymmetric, MisjudgedSymmetric
<1>3. h.owner = NoContainer \/ h.owner # ignored
  BY DEF IInv, HeldByOthers
<1> QED
  BY <1>2, <1>3 DEF Conflicts

\* Once all sources have been looked at, what is held throughout is among the
\* claims, or is masked.
LEMMA HeldSeen ==
  ASSUME IInv, PodmanSeen, ListenersSeen, RegistrySeen, NEW h \in held
  PROVE  h \in claims \/ Masked(h)
<1>1. \A c \in Container : h \in Owned(c, Published[c]) => h.owner \in Container
  BY DEF Owned
<1> QED
  BY <1>1 DEF IInv, Collected, HasSource

\* Nobody else's port passes, for any sets of containers, sockets, reservations
\* and requests, whatever happens between the looks at the three sources, misjudged
\* addresses excepted.
THEOREM PassedAlwaysFree == Spec => []PassedIsFree
<1>1. IInv => PassedIsFree
  <2> SUFFICES ASSUME IInv, phase = "decide", wanted # <<>>, Valid(wanted[item]),
                      NEW h \in held, Overlap(wanted[item], h), ~Misjudged(wanted[item], h)
               PROVE  Masked(h)
    BY DEF PassedIsFree
  <2>1. wanted \in Requested /\ item \in DOMAIN wanted
    <3>1. wanted \in Requested /\ wanted \in Seq(Claim) /\ wanted # <<>>
      BY ValidationAssumption DEF IInv, TypeOK
    <3>2. 1 \in DOMAIN wanted
      BY <3>1
    <3> QED
      BY <3>1, <3>2 DEF IInv, TypeOK
  <2>2. wanted[item].address \in AddressText
    <3>1. wanted \in Seq(Claim)
      BY <2>1, ValidationAssumption
    <3>2. wanted[item] \in Claim
      BY <2>1, <3>1
    <3> QED
      BY <3>2 DEF Claim
  <2>3. ~Conflicts(claims, wanted[item], ignored, NoContainer)
    BY DEF Valid
  <2>4. h \notin claims
    BY <2>2, <2>3, HeldConflicts
  <2> QED
    BY <2>4, HeldSeen DEF PodmanSeen, ListenersSeen, RegistrySeen
<1> QED
  BY <1>1, Invariance, PTL

\* Nobody else's port is found by a search, in the same sense.
THEOREM FoundAlwaysFree == Spec => []FoundIsFree
<1>1. IInv => FoundIsFree
  <2> SUFFICES ASSUME IInv, answer = "found", NEW h \in held, Overlap(Candidate(found), h),
                      ~Misjudged(Candidate(found), h)
               PROVE  Masked(h)
    BY DEF FoundIsFree
  <2>1. ~Conflicts(claims, Candidate(found), NoContainer, NoContainer)
    BY DEF IInv, FoundThere, FreePorts
  <2>2. Candidate(found).address \in AddressText
    BY ValidationAssumption DEF Candidate, IInv, TypeOK
  <2>3. h \notin claims
    BY <2>1, <2>2, HeldConflicts
  <2> QED
    BY <2>3, HeldSeen DEF PodmanSeen, ListenersSeen, RegistrySeen
<1> QED
  BY <1>1, Invariance, PTL

\* The mappings of an accepted request can be bound beside each other, unless they
\* are misjudged, and no range passes the last port.
THEOREM AcceptedAlwaysTogether == Spec => []AcceptedTogether
<1>1. IInv => AcceptedTogether
  <2> SUFFICES ASSUME IInv, answer = "accepted"
               PROVE  AcceptedTogether
    BY DEF AcceptedTogether
  <2>1. \A i \in DOMAIN wanted : Passed(i)
    BY DEF IInv, EarlierPassed
  <2>2. wanted = <<>> \/ wanted \in Requested
    BY DEF IInv, TypeOK
  <2>3. /\ DOMAIN wanted = 1 .. Len(wanted) /\ Len(wanted) \in Nat
        /\ \A i \in DOMAIN wanted : wanted[i] \in Claim
    <3>1. CASE wanted = <<>>
      BY <3>1
    <3>2. CASE wanted \in Requested
      <4>1. wanted \in Seq(Claim)
        BY <3>2, ValidationAssumption
      <4> QED
        BY <4>1
    <3> QED
      BY <2>2, <3>1, <3>2
  <2>4. ASSUME NEW i \in DOMAIN wanted, NEW j \in DOMAIN wanted, i # j,
               Overlap(wanted[i], wanted[j])
        PROVE  Misjudged(wanted[i], wanted[j])
    <3>1. CASE i < j
      <4>1. ~ClaimsConflict(wanted[i], wanted[j])
        BY <2>1, <2>3, <3>1 DEF Passed
      <4> QED
        BY <2>3, <2>4, <4>1, ConflictExact DEF Claim
    <3>2. CASE j < i
      <4>1. ~ClaimsConflict(wanted[j], wanted[i])
        BY <2>1, <2>3, <3>2 DEF Passed
      <4>2. Misjudged(wanted[j], wanted[i])
        BY <2>3, <2>4, <4>1, ConflictExact, OverlapSymmetric DEF Claim
      <4> QED
        BY <4>2, MisjudgedSymmetric
    <3> QED
      BY <2>3, <2>4, <3>1, <3>2
  <2>5. ASSUME NEW i \in DOMAIN wanted
        PROVE  wanted[i].port + wanted[i].size <= LastPort + 1
    BY <2>1, <2>3, LastPortAssumption DEF Passed, RangeFits, Claim, Port
  <2> QED
    BY <2>4, <2>5 DEF AcceptedTogether
<1> QED
  BY <1>1, Invariance, PTL

\* A container to be replaced is never in its own way, whatever ranges it publishes.
THEOREM NeverInItsOwnWay == Spec => []NotInItsOwnWay
<1>1. IInv => NotInItsOwnWay
  <2> SUFFICES ASSUME IInv, phase = "registry", ignored \in Container,
                      NEW c \in claims, c.owner = ignored,
                      NEW m \in Published[ignored],
                      NEW d \in Owned(NoContainer, SocketsOf(m)), d \in claims
               PROVE  FALSE
    BY DEF NotInItsOwnWay
  <2> DEFINE own == [address |-> m.address, port |-> m.port, protocol |-> m.protocol,
                     size |-> m.size, owner |-> ignored]
  <2>1. own \in Owned(ignored, Published[ignored])
    BY DEF Owned
  <2>2. own \in claims
    BY <2>1 DEF IInv, Fresh
  <2>3. d.owner = NoContainer
    BY UnownedOwner
  <2>4. ~CoversListener(own, d)
    BY <2>2, <2>3 DEF IInv, Fresh
  <2>5. PICK l \in SocketsOf(m) : d.address = l.address /\ d.protocol = l.protocol /\ d.port = l.port
    BY DEF Owned
  <2>6. CoversListener(m, l)
    BY CoversItsOwn
  <2>7. Ports(own) = Ports(m)
    BY DEF Ports
  <2> QED
    BY <2>4, <2>5, <2>6, <2>7 DEF CoversListener, ExpandClaimRange
<1> QED
  BY <1>1, Invariance, PTL
===============================================================================
