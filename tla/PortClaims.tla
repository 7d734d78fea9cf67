------------------------------- MODULE PortClaims -------------------------------
(***************************************************************************)
(* When do two claims on host ports conflict?  The comparison of addresses, *)
(* the expansion of ranges and the search through a set of claims, as       *)
(* ports.go and endpoint.go compute them, next to what they approximate:    *)
(* the sockets of the host a claim stands for.  An address is one of a few  *)
(* texts that the comparisons tell apart.                                   *)
(***************************************************************************)
EXTENDS Integers

CONSTANT LastPort      \* 65535

ASSUME LastPortAssumption == LastPort \in Nat \ {0}

Port == 1 .. LastPort
Protocol == {"tcp", "udp"}

\* The texts of addresses: omitted, the wildcards as they are usually written and
\* in another spelling (IPv6, and IPv4-mapped), the loopbacks (one of them
\* IPv4-mapped), an interface's address, and a name that is no IP literal.
AddressText == {"", "*", "0.0.0.0", "::", "::0", "::ffff:0.0.0.0", "127.0.0.1", "::1",
                "::ffff:127.0.0.1", "192.168.1.5", "localhost"}

\* A claim: size 0 and 1 both mean a single port.
Claim == [address: AddressText, port: Port, protocol: Protocol, size: Nat]

-------------------------------------------------------------------------------
(* The host: what a claim occupies.                                        *)

Interface4 == {"127.0.0.1", "192.168.1.5"}
Interface == Interface4 \cup {"::1"}

\* The interfaces a socket bound to an address receives on; :: is dual-stack.
Reach(address) ==
  CASE address \in {"", "*", "::", "::0"} -> Interface
    [] address \in {"0.0.0.0", "::ffff:0.0.0.0"} -> Interface4
    [] address \in {"127.0.0.1", "::ffff:127.0.0.1", "localhost"} -> {"127.0.0.1"}
    [] address = "::1" -> {"::1"}
    [] address = "192.168.1.5" -> {"192.168.1.5"}

\* expandClaimRange: the ports of a claim, cut off at the last one.
Ports(claim) ==
  IF claim.size <= 1 THEN {claim.port}
  ELSE {p \in Port : claim.port <= p /\ p < claim.port + claim.size}

\* Two claims cannot both be bound.
Overlap(a, b) ==
  /\ a.protocol = b.protocol
  /\ Ports(a) \cap Ports(b) # {}
  /\ Reach(a.address) \cap Reach(b.address) # {}

-------------------------------------------------------------------------------
(* The comparisons of the code.                                            *)

NormalizeAddress(address) ==
  IF address \in {"", "*"} THEN "0.0.0.0" ELSE address

\* Mutant: the IPv6 wildcard is forgotten.
IsWildcard4(address) == NormalizeAddress(address) = "0.0.0.0"

\* By the text: other spellings of a wildcard are not known.
IsWildcardAddress(address) == NormalizeAddress(address) \in {"0.0.0.0", "::"}

\* net.ParseIP and net.IP.Equal, for addresses that are neither omitted nor "*".
IsIP(address) == address # "localhost"
ParsedIP(address) ==
  CASE address = "::0" -> "::"
    [] address = "::ffff:0.0.0.0" -> "0.0.0.0"
    [] address = "::ffff:127.0.0.1" -> "127.0.0.1"
    [] OTHER -> address

\* Mutant: a range is its first port.
FirstPorts(claim) == {claim.port}

AddressesConflict(a, b) ==
  \/ IsWildcardAddress(a)
  \/ IsWildcardAddress(b)
  \/ NormalizeAddress(a) = NormalizeAddress(b)
  \/ IsIP(a) /\ IsIP(b) /\ ParsedIP(a) = ParsedIP(b)

ExpandClaimRange(claim) == Ports(claim)

ClaimsConflict(a, b) ==
  /\ a.protocol = b.protocol
  /\ \E p \in ExpandClaimRange(a), q \in ExpandClaimRange(b) :
       p = q /\ AddressesConflict(a.address, b.address)

\* Two claims that the comparison of addresses does not relate although one of them
\* is on every interface, in an unusual spelling, or is a name.
Misread == {"::0", "::ffff:0.0.0.0", "localhost"}

Misjudged(a, b) ==
  /\ a.address # b.address
  /\ ~IsWildcardAddress(a.address) /\ ~IsWildcardAddress(b.address)
  /\ {a.address, b.address} \cap Misread # {}

\* FindConflict: is there a claim in the way, other than the ignored container's?
\* Each claim carries its owner; what no container owns is never ignored.
Conflicts(claims, candidate, ignored, none) ==
  \E c \in claims :
    /\ c.owner = none \/ c.owner # ignored
    /\ ClaimsConflict(c, candidate)

\* Mutant: only the first port of a range covers.
CoversFirst(claim, socket) ==
  /\ claim.protocol = socket.protocol
  /\ socket.port = claim.port
  /\ AddressesConflict(claim.address, socket.address)

\* claimCoversListener: is an observed socket one a container claims?
CoversListener(claim, socket) ==
  /\ claim.protocol = socket.protocol
  /\ socket.port \in ExpandClaimRange(claim)
  /\ AddressesConflict(claim.address, socket.address)

\* The check of a requested range against the last port.
RangeFits(mapping) ==
  mapping.size > 1 => mapping.port + mapping.size - 1 <= LastPort
===============================================================================
