------------------------------- MODULE MCOverview -------------------------------
(***************************************************************************)
(* Overview with small constants: three ports, two containers whose        *)
(* mappings overlap, two sockets of processes, and registry files in which *)
(* entries are broken, repeated, remote, and shadow each other.            *)
(***************************************************************************)
EXTENDS Overview

CONSTANTS c1, c2

At(address, port, protocol, size) ==
  [address |-> address, port |-> port, protocol |-> protocol, size |-> size]

MCPublished == [c \in Container |->
  IF c = c1 THEN {At("::", 1, "tcp", 2)} ELSE {At("::1", 2, "tcp", 0), At("", 3, "udp", 1)}]
MCNameOf == [c \in Container |-> IF c = c1 THEN "web" ELSE "db"]

Opened(address, port, protocol, process) ==
  [address |-> address, port |-> port, protocol |-> protocol, size |-> 0,
   process |-> process]
MCListenable == {Opened("*", 3, "tcp", "sshd"), Opened("127.0.0.1", 3, "udp", "")}

Declares(id, service, node, st, m) ==
  [address |-> m.address, port |-> m.port, protocol |-> m.protocol, size |-> m.size,
   inner |-> 0, id |-> id, service |-> service, node |-> node, state |-> st]

\* The first: a remote entry, one without a port whose id comes again, and the
\* declarations of both containers, one on another bind, and one whose range passes
\* the last port inside of its container.  The second: all are reserved, unscoped or
\* planned, one id stands for two, and one address is misjudged.  The third is broken.
MCDeclarable ==
  {<<Declares("a", "web", "elsewhere", "active", At("::", 1, "tcp", 2)),
     Declares("b", "db", "here", "active", At("::1", 0, "tcp", 0)),
     Declares("b", "db", "here", "active", At("::1", 2, "tcp", 1)),
     Declares("c", "db", "here", "deprecated", At("0.0.0.0", 3, "udp", 0)),
     Declares("d", "sshd", "here", "active", At("0.0.0.0", 3, "tcp", 0)),
     [Declares("e", "web", "here", "active", At("::", 1, "tcp", 2)) EXCEPT !.inner = LastPort]>>,
   <<Declares("a", "web", "here", "planned", At("::", 1, "tcp", 2)),
     Declares("b", "web", "here", "active", At("::", 1, "tcp", 2)),
     Declares("c", "ops", "here", "reserved", At("::ffff:127.0.0.1", 3, "udp", 0)),
     Declares("d", "ops", "", "reserved", At("127.0.0.1", 3, "tcp", 0)),
     Declares("d", "db", "here", "active", At("", 3, "udp", 0)),
     Declares("e", "ops", "here", "reserved", At("::0", 3, "udp", 0))>>,
   <<>>}

MCSetting == [enabled: BOOLEAN, unscopedAsLocal: BOOLEAN] \
               {[enabled |-> FALSE, unscopedAsLocal |-> TRUE]}
MCDefault == [enabled |-> FALSE, unscopedAsLocal |-> FALSE]
===============================================================================
