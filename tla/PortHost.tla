-------------------------------- MODULE PortHost --------------------------------
(***************************************************************************)
(* Containers with published ports, in a given state s of the host: what   *)
(* podman lists of them, and the sockets that running ones hold.           *)
(***************************************************************************)
EXTENDS PortClaims

CONSTANTS
  Container,      \* container IDs
  NoContainer,    \* the owner of what is no container's
  Published       \* Published[c]: the mappings container c is created with

\* Podman publishes on IP addresses and on ports that there are.
ASSUME PublishedAssumption ==
  /\ Published \in [Container -> SUBSET Claim]
  /\ \A c \in Container : \A m \in Published[c] : IsIP(m.address) /\ RangeFits(m)

Owned(owner, cs) ==
  {[address |-> c.address, port |-> c.port, protocol |-> c.protocol,
    size |-> c.size, owner |-> owner] : c \in cs}

OwnedClaim == [address: AddressText, port: Port, protocol: Protocol, size: Nat,
               owner: Container \cup {NoContainer}]

\* The mappings of all containers, running or not.
Listed(s) == UNION {Owned(c, Published[c]) : c \in {d \in Container : s[d] # "absent"}}

\* The address of a socket as ss prints it: * for one on every interface of both
\* families, and otherwise the usual spelling.
SocketAddress(address) ==
  CASE address = "" -> "*"
    [] address = "localhost" -> "127.0.0.1"
    [] OTHER -> ParsedIP(address)

\* One socket per port, as ss lists them.
SocketsOf(claim) ==
  {[address |-> SocketAddress(claim.address), port |-> p, protocol |-> claim.protocol, size |-> 0] :
     p \in Ports(claim)}

Bound(s) ==
  UNION {SocketsOf(m) : m \in UNION {Published[c] : c \in {d \in Container : s[d] = "running"}}}
===============================================================================
