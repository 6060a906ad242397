----------------------------- MODULE TcpConnect -----------------------------
(***************************************************************************)
(* The outbound constructor of rmrf::net::tcp_client and the destructor    *)
(* (src/net/tcp_client.cpp): an application tries to connect, again and    *)
(* again, and every system call may fail.                                  *)
(*                                                                         *)
(* The constructor blocks.  `pc' is its place between two system calls:    *)
(*                                                                         *)
(*   "none"      there is no client, the last attempt is over              *)
(*   "socket"    before the first socket()                                 *)
(*   "resolve"   before getaddrinfo                                        *)
(*   "try"       at the head of the do loop                                *)
(*   "connect"   before connect()                                          *)
(*   "name"      before getsockname                                        *)
(*   "start"     before io.start                                           *)
(*   "client"    the client exists                                         *)
(*                                                                         *)
(* An exception unwinds the auto_fd handles that are alive at the place    *)
(* where it is thrown.                                                     *)
(***************************************************************************)
EXTENDS Naturals, Sequences, SequencesExt, AutoFd, SocketAddr

CONSTANTS
    Addresses,    \* what names resolve to
    MaxResults,   \* bound: the length of an addrinfo list
    MaxAttempts   \* bound: constructor calls in a behaviour

ASSUME BoundsAssumption == MaxResults \in Nat /\ MaxAttempts \in Nat

VARIABLES
    pc,
    family,      \* the argument ip_addr_family
    candidates,  \* connection_candidates
    netSocket,   \* the member net_socket
    candidate,   \* the local variable socket_candidate
    port,        \* the member port: 0, "local", or "any" for garbage
    watched,     \* the descriptor the started watcher has, or NullFd
    failure,     \* how the last attempt ended: "" or the exception
    \* the kernel
    open,        \* the descriptors the process has open
    connected,   \* of these, the connected ones
    nonblock,    \* of these, the ones with O_NONBLOCK
    \* history
    attempts,    \* constructor calls so far
    resolved,    \* the addrinfo list of this attempt
    tried        \* the addresses this attempt has passed over, in order

local == <<pc, family, candidates, candidate>>
member == <<netSocket, port, watched>>
kernel == <<open, connected, nonblock>>
history == <<attempts, resolved, tried>>
vars == <<local, member, kernel, failure, history>>

Families == {"AF_INET", "AF_INET6", "AF_UNSPEC"}
Places == {"none", "socket", "resolve", "try", "connect", "name", "start", "client"}
Failures == {"", "family", "socket", "resolve", "candidates", "localaddr"}
Lists == UNION {[1 .. n -> Addresses] : n \in 1 .. MaxResults}

TypeOK ==
    /\ pc \in Places
    /\ family \in Families
    /\ candidates \in Seq(Addresses)
    /\ netSocket \in Handles
    /\ candidate \in Handles
    /\ port \in {"0", "local", "any"}
    /\ watched \in Handles
    /\ failure \in Failures
    /\ open \subseteq Fds
    /\ connected \subseteq open
    /\ nonblock \subseteq open
    /\ attempts \in 0 .. MaxAttempts
    /\ resolved \in Seq(Addresses)
    /\ tried \in Seq(Addresses)

Init ==
    /\ pc = "none"
    /\ family = "AF_UNSPEC"
    /\ candidates = <<>>
    /\ netSocket = NullFd
    /\ candidate = NullFd
    /\ port = "0"
    /\ watched = NullFd
    /\ failure = ""
    /\ open = {}
    /\ connected = {}
    /\ nonblock = {}
    /\ attempts = 0
    /\ resolved = <<>>
    /\ tried = <<>>

----------------------------------------------------------------------------

\* The descriptors in `left' stay open.
Keep(left) ==
    /\ open' = left
    /\ connected' = connected \cap left
    /\ nonblock' = nonblock \cap left

\* Unwinding: ~auto_fd of socket_candidate, where it is alive, and of the
\* member net_socket; ~io stops the watcher.
Throw(reason) ==
    /\ failure' = reason
    /\ Keep(AfterClose(AfterClose(open, candidate), netSocket))
    /\ pc' = "none"
    /\ candidates' = <<>>
    /\ candidate' = NullFd
    /\ netSocket' = NullFd
    /\ watched' = NullFd
    /\ UNCHANGED <<family, port, history>>

\* The application constructs a client; the delegating constructors pass
\* AF_UNSPEC.  Any other family than the two is refused before the first
\* system call.
Construct(f) ==
    /\ pc = "none"
    /\ attempts < MaxAttempts
    /\ attempts' = attempts + 1
    /\ family' = f
    /\ port' = "0"
    /\ resolved' = <<>>
    /\ tried' = <<>>
    /\ IF f \in {"AF_INET", "AF_INET6"}
       THEN pc' = "socket" /\ failure' = ""
       ELSE pc' = "none" /\ failure' = "family"
    /\ UNCHANGED <<candidates, candidate, netSocket, watched, kernel>>

\* socket() for the member.
FirstSocket ==
    /\ pc = "socket"
    /\ \E fd \in Fds \ open :
          /\ open' = open \cup {fd}
          /\ netSocket' = fd
    /\ pc' = "resolve"
    /\ UNCHANGED <<family, candidates, candidate, port, watched, connected,
                   nonblock, failure, history>>

FirstSocketFails == pc = "socket" /\ Throw("socket")

\* IPv4 addresses are queued in the order of the resolver, every IPv6 address
\* before the ones queued so far.
Queued(list) == IF family = "AF_INET6" THEN Reverse(list) ELSE list

\* getaddrinfo yields addresses of the family it was asked for.
Resolve(list) ==
    /\ pc = "resolve"
    /\ resolved' = list
    /\ candidates' = Queued(list)
    /\ pc' = "try"
    /\ UNCHANGED <<family, candidate, member, kernel, failure, attempts, tried>>

ResolveFails == pc = "resolve" /\ Throw("resolve")

NoCandidateLeft ==
    /\ pc = "try"
    /\ candidates = <<>>
    /\ Throw("candidates")

\* The head of the loop: the next candidate gets a socket.
TryCandidate ==
    /\ pc = "try"
    /\ candidates # <<>>
    /\ candidates' = Tail(candidates)
    /\ tried' = Append(tried, Head(candidates))
    /\ \E fd \in Fds \ open :
          /\ open' = open \cup {fd}
          /\ candidate' = fd
    /\ pc' = "connect"
    /\ UNCHANGED <<family, member, connected, nonblock, failure, attempts, resolved>>

\* No socket for this candidate: the loop goes on with the next.
CandidateSocketFails ==
    /\ pc = "try"
    /\ candidates # <<>>
    /\ candidates' = Tail(candidates)
    /\ tried' = Append(tried, Head(candidates))
    /\ UNCHANGED <<pc, family, candidate, member, kernel, failure, attempts, resolved>>

\* Faulty variant: the failed candidate ends the loop with what is left.
ConnectFailsGivesUp ==
    /\ pc = "connect"
    /\ Keep(AfterClose(open, candidate))
    /\ candidate' = NullFd
    /\ candidates' = <<>>
    /\ pc' = "try"
    /\ UNCHANGED <<family, member, failure, history>>

\* Faulty variant: the candidate is tried again and again.
ConnectFailsRetries ==
    /\ pc = "connect"
    /\ Keep(AfterClose(open, candidate))
    /\ candidate' = NullFd
    /\ candidates' = <<tried[Len(tried)]>> \o candidates
    /\ tried' = SubSeq(tried, 1, Len(tried) - 1)
    /\ pc' = "try"
    /\ UNCHANGED <<family, member, failure, attempts, resolved>>

\* connect() fails: ~auto_fd at the end of the loop body.
ConnectFails ==
    /\ pc = "connect"
    /\ Keep(AfterClose(open, candidate))
    /\ candidate' = NullFd
    /\ pc' = "try"
    /\ UNCHANGED <<family, candidates, member, failure, history>>

\* Faulty variant: the flag is set on the socket that is replaced.
ConnectSucceedsFlagsOld ==
    /\ pc = "connect"
    /\ LET left == AfterAssign(open, netSocket, candidate)
       IN  /\ open' = left
           /\ connected' = (connected \cap left) \cup {candidate}
           /\ nonblock' = (nonblock \cup {netSocket}) \cap left
    /\ netSocket' = candidate
    /\ candidate' = NullFd
    /\ pc' = "name"
    /\ UNCHANGED <<family, candidates, port, watched, failure, history>>

\* connect() succeeds: the candidate moves into net_socket, whose first
\* socket is closed, and gets O_NONBLOCK.
ConnectSucceeds ==
    /\ pc = "connect"
    /\ LET left == AfterAssign(open, netSocket, candidate)
       IN  /\ open' = left
           /\ connected' = (connected \cap left) \cup {candidate}
           /\ nonblock' = (nonblock \cap left) \cup {candidate}
    /\ netSocket' = candidate
    /\ candidate' = NullFd
    /\ pc' = "name"
    /\ UNCHANGED <<family, candidates, port, watched, failure, history>>

\* getsockname succeeds and returns 0: the branch that sets the port is not
\* taken.
NameKnown ==
    /\ pc = "name"
    /\ pc' = "start"
    /\ UNCHANGED <<family, candidates, candidate, member, kernel, failure, history>>

\* The port is read from a sockaddr_in or a sockaddr_in6.
HasPort(address) == \E type \in {"AF_INET", "AF_INET6"} : As(type, address) # {}

\* getsockname fails: sa_local is assigned to itself uninitialized.  The
\* assignment throws, or the switch over its family does, or the port is taken
\* from it.
NameUnknown ==
    /\ pc = "name"
    /\ \E garbage \in AnyFamily :
          IF \E address \in FromSockaddr(garbage) : HasPort(address)
          THEN /\ port' = "any"
               /\ pc' = "start"
               /\ UNCHANGED <<family, candidates, candidate, netSocket, watched,
                              kernel, failure, history>>
          ELSE Throw("localaddr")

\* The loop ends, the candidates go out of scope, and the watcher starts.
StartIo ==
    /\ pc = "start"
    /\ candidates' = <<>>
    /\ watched' = netSocket
    /\ pc' = "client"
    /\ UNCHANGED <<family, candidate, netSocket, port, kernel, failure, history>>

\* ~tcp_client stops the watcher; its members close the socket.
DestroyClient ==
    /\ pc = "client"
    /\ Keep(AfterClose(open, netSocket))
    /\ netSocket' = NullFd
    /\ watched' = NullFd
    /\ pc' = "none"
    /\ UNCHANGED <<family, candidates, candidate, port, failure, history>>

Constructor ==
    \/ FirstSocket \/ FirstSocketFails
    \/ \E list \in Lists : Resolve(list)
    \/ ResolveFails
    \/ TryCandidate \/ CandidateSocketFails \/ NoCandidateLeft
    \/ ConnectSucceeds \/ ConnectFails
    \/ NameKnown \/ NameUnknown
    \/ StartIo

Next ==
    \/ \E f \in Families : Construct(f)
    \/ Constructor
    \/ DestroyClient

Spec == Init /\ [][Next]_vars

\* The constructor runs to its end: each system call returns.
FairSpec == Spec /\ WF_vars(Constructor)

----------------------------------------------------------------------------
(* Properties.                                                             *)

(***************************************************************************)
(* Every open descriptor is owned by exactly one auto_fd, through the move *)
(* of the candidate into the member, the loop and every exception: none    *)
(* leaks over many attempts and none is closed while a handle has it.      *)
(***************************************************************************)
OneOwner ==
    /\ open = {netSocket, candidate} \ {NullFd}
    /\ netSocket = candidate => netSocket = NullFd

(***************************************************************************)
(* A client that exists watches its own, connected, non-blocking socket:   *)
(* cb_ev relies on all three, and the first socket of the constructor has  *)
(* none of the properties.                                                 *)
(***************************************************************************)
ClientIsEstablished ==
    pc = "client" => /\ netSocket \in connected \cap nonblock
                     /\ watched = netSocket

(***************************************************************************)
(* An attempt that gives up has tried every address the name resolved to,  *)
(* each once, the IPv6 ones last first.                                    *)
(***************************************************************************)
AllTried == failure = "candidates" => tried = Queued(resolved)

(***************************************************************************)
(* A constructor that was called returns or throws.                        *)
(***************************************************************************)
ConstructorEnds == (pc = "socket") ~> (pc \in {"none", "client"})

(***************************************************************************)
(* The comment above getsockname (in German): the port of this side is     *)
(* known only after a successful connect, so that is where it is recorded. *)
(***************************************************************************)
PortRecorded == pc = "client" => port = "local"
=============================================================================
