---------------------------- MODULE PortHost_proofs ----------------------------
(***************************************************************************)
(* Theorems about the comparison of claims, for any ports and addresses:     *)
(* which claims that cannot both be bound it misses, and that it misses no   *)
(* others.                                                                  *)
(***************************************************************************)
EXTENDS PortHost, TLAPS

-------------------------------------------------------------------------------
(* The comparison.                                                         *)

\* Addresses that share an interface are in conflict, or one is a name or a
\* wildcard in a spelling that the code does not know.
LEMMA AddressesExact ==
  ASSUME NEW a, NEW b, a.address \in AddressText, b.address \in AddressText,
         Reach(a.address) \cap Reach(b.address) # {}
  PROVE  AddressesConflict(a.address, b.address) <=> ~Misjudged(a, b)
  BY DEF AddressText, Reach, Interface, Interface4, AddressesConflict, NormalizeAddress,
         IsWildcardAddress, IsIP, ParsedIP, Misjudged, Misread

\* Of the claims that cannot both be bound, ranges and all spellings included,
\* FindConflict misses exactly those that it misjudges.
THEOREM ConflictExact ==
  ASSUME NEW a, NEW b,
         a.address \in AddressText, b.address \in AddressText, Overlap(a, b)
  PROVE  ClaimsConflict(a, b) <=> ~Misjudged(a, b)
<1>1. PICK p : p \in Ports(a) /\ p \in Ports(b)
  BY DEF Overlap
<1>2. AddressesConflict(a.address, b.address) <=> ~Misjudged(a, b)
  BY AddressesExact DEF Overlap
<1> QED
  BY <1>1, <1>2 DEF ClaimsConflict, Overlap, ExpandClaimRange

\* The order of the two claims does not matter, neither for the kernel nor for
\* the code.
LEMMA OverlapSymmetric ==
  ASSUME NEW a, NEW b, Overlap(a, b)
  PROVE  Overlap(b, a)
  BY DEF Overlap

THEOREM ConflictSymmetric ==
  ASSUME NEW a, NEW b, ClaimsConflict(a, b)
  PROVE  ClaimsConflict(b, a)
  BY DEF ClaimsConflict, AddressesConflict

LEMMA MisjudgedSymmetric ==
  ASSUME NEW a, NEW b, Misjudged(a, b)
  PROVE  Misjudged(b, a)
  BY DEF Misjudged

-------------------------------------------------------------------------------
(* Types.                                                                  *)

\* Claims keep their type when an owner is written on them.
LEMMA OwnedType ==
  ASSUME NEW owner \in Container \cup {NoContainer}, NEW cs \in SUBSET Claim
  PROVE  Owned(owner, cs) \subseteq OwnedClaim
  BY DEF Owned, OwnedClaim, Claim

\* What podman lists are owned claims.
LEMMA ListedType ==
  ASSUME NEW s
  PROVE  Listed(s) \subseteq OwnedClaim
  BY OwnedType, PublishedAssumption DEF Listed

\* A range is cut off at the last port.
LEMMA PortsType ==
  ASSUME NEW c \in Claim
  PROVE  Ports(c) \subseteq Port
  BY DEF Ports, Claim, Port

\* Every socket is a claim on a single port.
LEMMA SocketsType ==
  ASSUME NEW c \in Claim
  PROVE  SocketsOf(c) \subseteq Claim
<1>1. SocketAddress(c.address) \in AddressText
  BY DEF Claim, SocketAddress, ParsedIP, AddressText
<1> QED
  BY <1>1, PortsType DEF SocketsOf, Claim

\* A published mapping accounts for each of its sockets, however ss prints it.
LEMMA CoversItsOwn ==
  ASSUME NEW c \in Container, NEW m \in Published[c], NEW l \in SocketsOf(m)
  PROVE  CoversListener(m, l)
<1>1. m \in Claim /\ IsIP(m.address)
  BY PublishedAssumption
<1>2. AddressesConflict(m.address, SocketAddress(m.address))
  BY <1>1 DEF Claim, AddressText, SocketAddress, AddressesConflict, NormalizeAddress,
         IsWildcardAddress, IsIP, ParsedIP
<1> QED
  BY <1>2 DEF SocketsOf, CoversListener, ExpandClaimRange

\* Sockets of running containers are claims.
LEMMA BoundType ==
  ASSUME NEW s
  PROVE  Bound(s) \subseteq Claim
  BY SocketsType, PublishedAssumption DEF Bound
================================================================================
