----------------------------- MODULE PortValidation -----------------------------
(***************************************************************************)
(* Is a port free?  ValidatePortMapping, as the preflights of creation and  *)
(* of mutation call it for each mapping they were asked for, and            *)
(* FindFreePort.  Both look at three sources one after the other, podman's  *)
(* table, the sockets of the host and the reservations of the registry      *)
(* (CollectBlockingClaimsStrict), while containers start and stop and other *)
(* processes come and go.                                                   *)
(***************************************************************************)
EXTENDS PortHost, Sequences, FiniteSets

CONSTANTS
  Listenable,     \* the sockets other processes may open
  Reservable,     \* the reservations an operator may write for this node
  Requested,      \* the requests: sequences of mappings
  Searched,       \* the [address, protocol, port] a free port is searched from
  Unprivileged,   \* 1024
  DefaultStart,   \* 3000
  Failing         \* the sources that may fail

ASSUME ValidationAssumption ==
  /\ NoContainer \notin Container
  /\ Listenable \subseteq Claim /\ \A l \in Listenable : l.size = 0
  /\ Reservable \subseteq Claim \ Listenable
  /\ Requested \subseteq Seq(Claim) \ {<<>>}
  /\ Searched # {}
  /\ Searched \subseteq [address: AddressText, protocol: Protocol, port: Port]
  /\ Unprivileged \in Port /\ DefaultStart \in Port
  /\ Failing \subseteq {"podman", "ss", "registry"}

VARIABLES
  state,       \* state[c]: "absent", "stopped" or "running"
  listeners,   \* sockets of other processes
  reserved,    \* the registry's reservations for this node
  phase,       \* where the call is
  wanted,      \* the mappings to validate; <<>> for a search
  search,      \* the search's arguments, as FindFreePort adjusts them
  ignored,     \* ignoreContainerID
  item,        \* index of the mapping being validated
  claims,      \* the claims collected so far, each with its owner
  answer,      \* "none", "accepted", "refused", "found" or "exhausted"
  found,       \* the port a search returned
  held         \* history: what others have held ever since the call began

host == <<state, listeners, reserved>>
asked == <<wanted, search, ignored>>
vars == <<state, listeners, reserved, phase, wanted, search, ignored, item,
          claims, answer, found, held>>

TypeOK ==
  /\ state \in [Container -> {"absent", "stopped", "running"}]
  /\ listeners \subseteq Listenable
  /\ reserved \subseteq Reservable
  /\ phase \in {"idle", "podman", "ss", "registry", "decide", "done"}
  /\ wanted \in Requested \cup {<<>>}
  /\ search \in Searched \cup {[s EXCEPT !.port = DefaultStart] : s \in Searched}
  /\ ignored \in Container \cup {NoContainer}
  /\ item \in DOMAIN wanted \cup {1}
  /\ claims \subseteq OwnedClaim
  /\ answer \in {"none", "accepted", "refused", "found", "exhausted"}
  /\ found \in Port \cup {0}
  /\ held \subseteq OwnedClaim

-------------------------------------------------------------------------------
(* The host.                                                               *)

\* The kernel binds no two sockets that overlap.
Bindable(socket) == \A b \in Bound(state) \cup listeners : ~Overlap(socket, b)

\* What is claimed by others than the ignored container.
Claimed(s, ls, rs, ign) ==
  {c \in Listed(s) : c.owner # ign} \cup Owned(NoContainer, ls \cup rs)

\* Bound: what the host does after the verdict is of no interest.
HostMoves(newState, newListeners, newReserved) ==
  /\ phase # "done"
  /\ state' = newState
  /\ listeners' = newListeners
  /\ reserved' = newReserved
  /\ held' = held \cap Claimed(newState, newListeners, newReserved, ignored)
  /\ UNCHANGED <<phase, asked, item, claims, answer, found>>

ContainerMoves(c) ==
  \/ /\ state[c] = "absent"
     /\ HostMoves([state EXCEPT ![c] = "stopped"], listeners, reserved)
  \/ /\ state[c] = "stopped"
     /\ \A m \in Published[c] : \A b \in SocketsOf(m) : Bindable(b)
     /\ HostMoves([state EXCEPT ![c] = "running"], listeners, reserved)
  \/ /\ state[c] = "running"
     /\ HostMoves([state EXCEPT ![c] = "stopped"], listeners, reserved)
  \/ /\ state[c] = "stopped"
     /\ HostMoves([state EXCEPT ![c] = "absent"], listeners, reserved)

ProcessMoves(l) ==
  \/ /\ l \notin listeners
     /\ Bindable(l)
     /\ HostMoves(state, listeners \cup {l}, reserved)
  \/ /\ l \in listeners
     /\ HostMoves(state, listeners \ {l}, reserved)

OperatorEdits(r) ==
  \/ r \notin reserved /\ HostMoves(state, listeners, reserved \cup {r})
  \/ r \in reserved /\ HostMoves(state, listeners, reserved \ {r})

-------------------------------------------------------------------------------
(* The calls.                                                              *)

Init ==
  /\ state = [c \in Container |-> "absent"]
  /\ listeners = {}
  /\ reserved = {}
  /\ phase = "idle"
  /\ wanted = <<>>
  /\ search = CHOOSE s \in Searched : TRUE
  /\ ignored = NoContainer
  /\ item = 1
  /\ claims = {}
  /\ answer = "none"
  /\ found = 0
  /\ held = {}

Begin(ms, ign) ==
  /\ phase = "idle"
  /\ phase' = "podman"
  /\ wanted' = ms
  /\ ignored' = ign
  /\ item' = 1
  /\ claims' = {}
  /\ held' = Claimed(state, listeners, reserved, ign)
  /\ UNCHANGED <<host, answer, found>>

\* validateMappingsForCreate and validateMappingsForMutation; only the latter
\* ignores a container, the one it is going to replace.
Validate(ms, ign) ==
  /\ ign # NoContainer => state[ign] # "absent"
  /\ Begin(ms, ign)
  /\ UNCHANGED search

\* FindFreePort: a start among the privileged ports is moved.
FindFreePort(s) ==
  /\ Begin(<<>>, NoContainer)
  /\ search' = [s EXCEPT !.port = IF s.port < Unprivileged THEN DefaultStart ELSE s.port]

Answer(a) ==
  /\ phase' = "done"
  /\ answer' = a
  /\ UNCHANGED <<host, asked, item, claims, held>>

\* A source that fails ends the call: an incomplete observation is no evidence.
SourceFails ==
  /\ \/ phase = "podman" /\ "podman" \in Failing
     \/ phase = "ss" /\ "ss" \in Failing
     \/ phase = "registry" /\ "registry" \in Failing
  /\ Answer("refused")
  /\ UNCHANGED found

Collect(from, to, more) ==
  /\ phase = from
  /\ phase' = to
  /\ claims' = claims \cup more
  /\ UNCHANGED <<host, asked, item, answer, found, held>>

ListContainers == Collect("podman", "ss", Listed(state))

\* Mutant: a failed ss counts as a host without sockets.
ListHostListenersTolerantly ==
  \/ Collect("ss", "registry", Owned(NoContainer, Bound(state) \cup listeners))
  \/ "ss" \in Failing /\ Collect("ss", "registry", {})

\* A socket that a collected claim covers is taken to be that container's.
ListHostListeners ==
  Collect("ss", "registry",
    Owned(NoContainer, {l \in Bound(state) \cup listeners :
                          \A c \in claims : ~CoversListener(c, l)}))

LoadReservations == Collect("registry", "decide", Owned(NoContainer, reserved))

\* Mutant: the mappings of one request are not compared with each other.
ValidAlone(m) == RangeFits(m) /\ ~Conflicts(claims, m, ignored, NoContainer)

Valid(m) ==
  /\ RangeFits(m)
  /\ ~Conflicts(claims, m, ignored, NoContainer)
  /\ \A i \in 1 .. item - 1 : ~ClaimsConflict(wanted[i], m)

\* Mutant: one mapping too many.
DecideOnePast ==
  /\ phase = "decide"
  /\ wanted # <<>>
  /\ \/ ~Valid(wanted[item]) /\ Answer("refused")
     \/ /\ Valid(wanted[item])
        /\ phase' = "podman"
        /\ item' = item + 1
        /\ claims' = {}
        /\ UNCHANGED <<host, asked, answer, held>>
  /\ UNCHANGED found

\* The verdict on one mapping; the next is looked at with fresh observations.
Decide ==
  /\ phase = "decide"
  /\ wanted # <<>>
  /\ \/ ~Valid(wanted[item]) /\ Answer("refused")
     \/ Valid(wanted[item]) /\ item = Len(wanted) /\ Answer("accepted")
     \/ /\ Valid(wanted[item]) /\ item < Len(wanted)
        /\ phase' = "podman"
        /\ item' = item + 1
        /\ claims' = {}
        /\ UNCHANGED <<host, asked, answer, held>>
  /\ UNCHANGED found

Candidate(p) ==
  [address |-> search.address, port |-> p, protocol |-> search.protocol, size |-> 0]

\* The scan ends before the last port.
Scanned == search.port .. LastPort - 1
FreePorts == {p \in Scanned : ~Conflicts(claims, Candidate(p), NoContainer, NoContainer)}

Pick ==
  /\ phase = "decide"
  /\ wanted = <<>>
  /\ \/ \E p \in FreePorts :
          /\ \A q \in FreePorts : p <= q
          /\ Answer("found")
          /\ found' = p
     \/ FreePorts = {} /\ Answer("exhausted") /\ UNCHANGED found

Call ==
  \/ \E ms \in Requested, ign \in Container \cup {NoContainer} : Validate(ms, ign)
  \/ \E s \in Searched : FindFreePort(s)
  \/ SourceFails \/ ListContainers \/ ListHostListeners \/ LoadReservations
  \/ Decide \/ Pick

Next ==
  \/ Call
  \/ \E c \in Container : ContainerMoves(c)
  \/ \E l \in Listenable : ProcessMoves(l)
  \/ \E r \in Reservable : OperatorEdits(r)

Spec == Init /\ [][Next]_vars

-------------------------------------------------------------------------------
(* Correctness.                                                            *)

\* A process's socket that a container's mapping was taken to account for.  The
\* kernel keeps that from being wrong of a running container, not of a stopped
\* one; see FreeWhenSaidFree.
Masked(h) ==
  /\ h \in Owned(NoContainer, Listenable)
  /\ \E c \in claims : c.owner \in Container /\ CoversListener(c, h)

\* A mapping that passes is free: no port of it has been held by another
\* container, another process or a reservation all the time from the request to
\* the verdict, at whatever moment each source was looked at, except for addresses
\* that the comparison misjudges.
PassedIsFree ==
  phase = "decide" /\ wanted # <<>> /\ Valid(wanted[item]) =>
    \A h \in held : Overlap(wanted[item], h) => Masked(h) \/ Misjudged(wanted[item], h)

\* A container to be replaced is not in its own way: no socket of any port of its
\* ranges is left among the claims as if it were another process's.
NotInItsOwnWay ==
  phase = "registry" /\ ignored \in Container /\ (\E c \in claims : c.owner = ignored) =>
    \A m \in Published[ignored] : Owned(NoContainer, SocketsOf(m)) \cap claims = {}

\* The mappings of an accepted request can all be bound, beside each other and
\* within the ports there are, again except for misjudged addresses.
AcceptedTogether ==
  answer = "accepted" =>
    /\ \A i, j \in DOMAIN wanted :
         i # j /\ Overlap(wanted[i], wanted[j]) => Misjudged(wanted[i], wanted[j])
    /\ \A i \in DOMAIN wanted : wanted[i].port + wanted[i].size <= LastPort + 1

\* A port that a search returns was free, in the same sense.
FoundIsFree ==
  answer = "found" =>
    \A h \in held :
      Overlap(Candidate(found), h) => Masked(h) \/ Misjudged(Candidate(found), h)

-------------------------------------------------------------------------------
(* What the code says of itself and does not do.                           *)

\* "Port ... is free and available": without the exception for masked sockets.  A
\* stopped container holds no socket, and still its mapping covers another
\* process's, which then is no claim any more.
FreeWhenSaidFree ==
  answer = "accepted" =>
    \A i \in DOMAIN wanted, h \in held : ~Overlap(wanted[i], h)
===============================================================================
