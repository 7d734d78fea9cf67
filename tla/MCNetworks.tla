------------------------------- MODULE MCNetworks -------------------------------
(***************************************************************************)
(* Networks on two-bit addresses of both families: two halves and a        *)
(* quarter of IPv4, all of IPv6; an interface whose address is not the     *)
(* first of its subnet, one in a quarter, and one that is local.           *)
(***************************************************************************)
EXTENDS Networks

CONSTANTS podman, n1

Net(f, a, b, l) == [family |-> f, bits |-> <<a, b>>, length |-> l]

MCSubnet == {Net("IPv4", 0, 0, 1), Net("IPv4", 0, 1, 2), Net("IPv4", 1, 0, 1),
             Net("IPv6", 0, 0, 0)}
MCLocal == {Net("IPv4", 0, 0, 2)}
MCInterface == {Net("IPv4", 1, 1, 1), Net("IPv4", 0, 1, 2)} \cup MCLocal
MCGateway == {IPOf(Net("IPv4", 0, 1, 2))}
AllCommandFaults == Commands
===============================================================================
