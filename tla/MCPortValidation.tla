---------------------------- MODULE MCPortValidation ----------------------------
(***************************************************************************)
(* PortValidation with small constants: three or four ports, of which the   *)
(* first is privileged.                                                     *)
(***************************************************************************)
EXTENDS PortValidation

CONSTANTS c1, c2

At(address, port, protocol, size) ==
  [address |-> address, port |-> port, protocol |-> protocol, size |-> size]

\* A range on every interface, and single ports on the loopback and on a wildcard in
\* another spelling; the replaced container is either.
MCPublished == [c \in Container |->
  IF c = c1 THEN {At("0.0.0.0", 1, "tcp", 2)}
            ELSE {At("127.0.0.1", 3, "tcp", 0), At("::0", 4, "udp", 1)}]
OnePublished == [c \in Container |-> {At("127.0.0.1", 2, "tcp", 0)}]

MCListenable == {At("0.0.0.0", 3, "tcp", 0), At("127.0.0.1", 2, "udp", 0)}
OneListenable == {At("127.0.0.1", 2, "tcp", 0)}

MCReservable == {At("::", 2, "tcp", 2)}

\* A range and a port beside it, the same with a wildcard, a range past the last
\* port, one that reaches it, and addresses in another spelling.
MCRequested ==
  {<<At("127.0.0.1", 1, "tcp", 2), At("127.0.0.1", 3, "tcp", 1)>>,
   <<At("::1", 1, "tcp", 3), At("", 3, "tcp", 0)>>,
   <<At("192.168.1.5", 3, "tcp", 0), At("192.168.1.5", 4, "tcp", 2)>>,
   <<At("::ffff:127.0.0.1", 2, "udp", 0), At("::", 3, "udp", 2)>>,
   <<At("::0", 2, "udp", 0), At("::ffff:0.0.0.0", 2, "udp", 2)>>}
OneRequested == {<<At("127.0.0.1", 2, "tcp", 0)>>}

MCSearched == {[address |-> "127.0.0.1", protocol |-> "tcp", port |-> 1],
               [address |-> "", protocol |-> "tcp", port |-> 3],
               [address |-> "::0", protocol |-> "udp", port |-> 1],
               [address |-> "::ffff:127.0.0.1", protocol |-> "udp", port |-> 2]}
===============================================================================
