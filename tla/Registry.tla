-------------------------------- MODULE Registry --------------------------------
(***************************************************************************)
(* The port registry: what an operator declares about the ports of many    *)
(* nodes in one YAML file, how the file is loaded, and when a record and an *)
(* observed endpoint are the same.  A file is the sequence of its entries;  *)
(* one that cannot be read, parsed or is of another version is <<>>.        *)
(***************************************************************************)
EXTENDS PortClaims, Sequences

Lifecycle == {"active", "reserved", "planned", "temporary", "deprecated", "retired"}

\* A field that is not given.
Unset == ""

\* An entry, defaults filled in: an id, a service or a node may be unset; the rest
\* may be outside of what is allowed.  The container's port, inner, may be left at 0.
Entry == [id: STRING, service: STRING, node: {Unset, "here", "elsewhere"},
          state: STRING, address: AddressText, port: Nat, inner: Nat, protocol: STRING,
          size: Int]

-------------------------------------------------------------------------------
(* Loading.                                                                *)

WellFormed(entry) ==
  /\ entry.id # Unset
  /\ entry.port # 0
  /\ entry.protocol \in Protocol
  /\ entry.state \in Lifecycle
  /\ entry.size >= 0
  /\ entry.size > 1 =>
       \A p \in {entry.port, entry.inner} \ {0} : p + entry.size - 1 <= LastPort

\* Mutant: ids are not compared.
KeptTwice(file) == {i \in DOMAIN file : WellFormed(file[i])}

\* validateAndFilterRegistryPorts: the indices of the entries that are kept.  Of
\* those that share an id, that is the first that is well formed.
Kept(file) ==
  {i \in DOMAIN file :
     /\ WellFormed(file[i])
     /\ \A j \in 1 .. i - 1 : WellFormed(file[j]) => file[j].id # file[i].id}

-------------------------------------------------------------------------------
(* Comparing.                                                              *)

NodeApplies(entry, unscopedAsLocal) ==
  IF entry.node = Unset THEN unscopedAsLocal ELSE entry.node = "here"

\* The indices of the kept entries that are about this node.
Local(file, unscopedAsLocal) ==
  {i \in Kept(file) : NodeApplies(file[i], unscopedAsLocal)}

\* CanonicalDeclaredBind: all spellings of one address are one; an omitted address,
\* the wildcard of IPv4 and that of IPv6 are three.
CanonicalDeclaredBind(address) ==
  CASE address = "*" -> "0.0.0.0"
    [] address = "localhost" -> "127.0.0.1"
    [] OTHER -> ParsedIP(address)

NormalizedRangeSize(size) == IF size <= 1 THEN 1 ELSE size

\* Mutant: sizes are compared as written.
SameRangeAsWritten(a, b) ==
  a.port = b.port /\ a.protocol = b.protocol /\ a.size = b.size

SameRange(a, b) ==
  /\ a.port = b.port
  /\ a.protocol = b.protocol
  /\ NormalizedRangeSize(a.size) = NormalizedRangeSize(b.size)

\* EndpointsEquivalentForReconciliation, and registryEndpointMatches with it.
Equivalent(a, b) == CanonicalDeclaredBind(a.address) = CanonicalDeclaredBind(b.address)
EndpointMatches(entry, endpoint) == SameRange(entry, endpoint) /\ Equivalent(entry, endpoint)

\* registryStateExpectsBindMatch: the states that say something runs now.
ExpectsBindMatch(entry) == entry.state \in {"active", "temporary", "deprecated"}

\* The status of an entry that nothing of what was seen is reconciled with.
ClassifyMissing(state) ==
  CASE state = "planned" -> "PLANNED"
    [] state = "temporary" -> "TEMPORARY_MISSING"
    [] state = "deprecated" -> "DEPRECATED_MISSING"
    [] state = "retired" -> "RETIRED_FREE"
    [] OTHER -> "DECLARED_MISSING"
===============================================================================
