----------------------------- MODULE TcpServer -----------------------------
(***************************************************************************)
(* A listening server in the event loop: rmrf::net::tcp_server_socket and  *)
(* the async_server_socket it shares with libev, the tcp_client made for   *)
(* each accepted connection, and rmrf::ev::loop with its stdin_waiter      *)
(* (src/net/tcp_server_socket.cpp, src/net/async_server.cpp,               *)
(* src/mumta/evloop.cpp).                                                  *)
(*                                                                         *)
(* `pc' is the place of the one thread:                                    *)
(*                                                                         *)
(*   "loop"      in ev_run, or in application code that ev_run called      *)
(*   "accept"    in await_raw_socket_incomming, before accept              *)
(*   "listener"  inside the application's client_listener                  *)
(*   "destruct"  in ~tcp_client of the client the listener was given       *)
(*   "returned"  ev_run has returned                                       *)
(*                                                                         *)
(* An exception leaves ev_run and main ("threw"); the AddressSanitizer of  *)
(* the build ends the process on an access to a destroyed object           *)
(* ("aborted").                                                            *)
(***************************************************************************)
EXTENDS Naturals, Sequences, AutoFd

CONSTANTS
    Conns,       \* the connections peers may make
    Backlog,     \* the argument of listen, 5 in the code
    MaxWritten,  \* bound: bytes a listener writes to one client
    MaxServers   \* bound: servers constructed in a behaviour

VARIABLES
    pc,
    outcome,     \* "running", "threw" or "aborted"
    \* tcp_server_socket and async_server_socket
    server,      \* does the tcp_server_socket exist?
    inHandler,   \* does cb_ev hold a reference to the async_server_socket?
    lfd,         \* the descriptor of the async_server_socket, or NullFd
    lwatch,      \* is its watcher started?
    count,       \* number_of_connected_clients
    \* the tcp_client of the connection being announced
    conn,        \* the connection, a set of at most one
    cfd,         \* the descriptor of the client
    cwatch,      \* is its watcher started?
    unsent,      \* bytes in its write queue
    \* stdin_waiter
    stdinWatch,  \* is its watcher started?
    stdinReady,  \* is there input (or the end of it) on stdin?
    \* the kernel
    open,        \* open descriptors, without stdin
    backlog,     \* connections waiting to be accepted
    \* history
    servers,     \* servers constructed so far
    made         \* connections made so far

socketVars == <<inHandler, lfd, lwatch>>
serverVars == <<server, count, socketVars>>
clientVars == <<conn, cfd, cwatch, unsent>>
stdinVars == <<stdinWatch, stdinReady>>
kernelVars == <<open, backlog>>
historyVars == <<servers, made>>
vars == <<pc, outcome, serverVars, clientVars, stdinVars, kernelVars, historyVars>>

TypeOK ==
    /\ pc \in {"loop", "accept", "listener", "destruct", "returned"}
    /\ outcome \in {"running", "threw", "aborted"}
    /\ server \in BOOLEAN
    /\ inHandler \in BOOLEAN
    /\ lfd \in Handles
    /\ lwatch \in BOOLEAN
    /\ count \in Nat
    /\ conn \subseteq Conns
    /\ cfd \in Handles
    /\ cwatch \in BOOLEAN
    /\ unsent \in 0 .. MaxWritten
    /\ stdinWatch \in BOOLEAN
    /\ stdinReady \in BOOLEAN
    /\ open \subseteq Fds
    /\ backlog \in Seq(Conns)
    /\ servers \in 0 .. MaxServers
    /\ made \subseteq Conns

\* No object exists.
Nothing ==
    /\ pc = "loop"
    /\ outcome = "running"
    /\ server = FALSE
    /\ inHandler = FALSE
    /\ lfd = NullFd
    /\ lwatch = FALSE
    /\ count = 0
    /\ conn = {}
    /\ cfd = NullFd
    /\ cwatch = FALSE
    /\ unsent = 0
    /\ stdinReady = FALSE
    /\ open = {}
    /\ backlog = <<>>
    /\ servers = 0
    /\ made = {}

\* rmrf::ev::loop has made its stdin_waiter and calls ev_run.
Init == Nothing /\ stdinWatch = TRUE

At(place) == outcome = "running" /\ pc = place

----------------------------------------------------------------------------
(* The application, in a callback that ev_run made.                        *)

\* The constructor: socket, bind, O_NONBLOCK, listen; the auto_fd moves into
\* the async_server_socket, whose constructor starts the watcher.
CreateServer ==
    /\ At("loop")
    /\ ~server
    /\ servers < MaxServers
    /\ servers' = servers + 1
    /\ \E fd \in Fds \ open :
          /\ open' = open \cup {fd}
          /\ lfd' = fd
    /\ server' = TRUE
    /\ lwatch' = TRUE
    /\ count' = 0
    /\ UNCHANGED <<pc, outcome, inHandler, clientVars, stdinVars, backlog, made>>

\* socket fails, or bind or listen do and the auto_fd closes the descriptor.
\* The application catches the netio_exception.
CreateServerFails ==
    /\ At("loop")
    /\ ~server
    /\ servers < MaxServers
    /\ servers' = servers + 1
    /\ UNCHANGED <<pc, outcome, serverVars, clientVars, stdinVars, kernelVars,
                   made>>

\* ~async_server_socket: the watcher is stopped, the descriptor closed, and
\* the kernel resets the connections that nobody accepted.
DestroySocket ==
    /\ lwatch' = FALSE
    /\ open' = AfterClose(open, lfd)
    /\ lfd' = NullFd
    /\ backlog' = <<>>

\* The server lets go of its async_server_socket, which lives on while cb_ev
\* holds a reference to it.
DestroyServer ==
    /\ outcome = "running"
    /\ pc \in {"loop", "listener"}
    /\ server
    /\ server' = FALSE
    /\ IF inHandler
       THEN UNCHANGED <<lfd, lwatch, kernelVars>>
       ELSE DestroySocket
    /\ UNCHANGED <<pc, outcome, count, inHandler, clientVars, stdinVars, historyVars>>

----------------------------------------------------------------------------
(* The kernel and the peers.                                               *)

Connect(c) ==
    /\ outcome = "running"
    /\ lfd # NullFd
    /\ c \notin made
    /\ Len(backlog) < Backlog
    /\ backlog' = Append(backlog, c)
    /\ made' = made \cup {c}
    /\ UNCHANGED <<pc, outcome, serverVars, clientVars, stdinVars, open, servers>>

\* A waiting peer gives up.  The system may take its connection off the queue.
Abort(i) ==
    /\ outcome = "running"
    /\ backlog' = SubSeq(backlog, 1, i - 1) \o SubSeq(backlog, i + 1, Len(backlog))
    /\ UNCHANGED <<pc, outcome, serverVars, clientVars, stdinVars, open, historyVars>>

StdinReadable ==
    /\ outcome = "running"
    /\ ~stdinReady
    /\ stdinReady' = TRUE
    /\ UNCHANGED <<pc, outcome, serverVars, clientVars, stdinWatch, kernelVars, historyVars>>

----------------------------------------------------------------------------
(* ev_run.                                                                 *)

\* Faulty variant: the watcher is not stopped.
PollStdinKeeps ==
    /\ At("loop")
    /\ stdinWatch
    /\ stdinReady
    /\ stdinReady' = FALSE
    /\ UNCHANGED <<pc, outcome, serverVars, clientVars, stdinWatch, kernelVars, historyVars>>

\* stdin_waiter::cb stops its watcher.
PollStdin ==
    /\ At("loop")
    /\ stdinWatch
    /\ stdinReady
    /\ stdinWatch' = FALSE
    /\ UNCHANGED <<pc, outcome, serverVars, clientVars, stdinReady, kernelVars, historyVars>>

\* async_server_socket::cb_ev calls the accept handler and hands it a
\* reference to the socket, which keeps the socket alive.
PollServer ==
    /\ At("loop")
    /\ lwatch
    /\ backlog # <<>>
    /\ inHandler' = TRUE
    /\ pc' = "accept"
    /\ UNCHANGED <<outcome, server, lfd, lwatch, count, clientVars, stdinVars,
                   kernelVars, historyVars>>

\* libev stops the watcher of an unusable descriptor and reports ERROR, on
\* which cb_ev returns at once.
PollServerError ==
    /\ At("loop")
    /\ lwatch
    /\ lwatch' = FALSE
    /\ UNCHANGED <<pc, outcome, server, count, inHandler, lfd, clientVars, stdinVars,
                   kernelVars, historyVars>>

\* Faulty variant: one iteration of the loop only.
RunReturnsOnce ==
    /\ At("loop")
    /\ pc' = "returned"
    /\ UNCHANGED <<outcome, serverVars, clientVars, stdinVars, kernelVars, historyVars>>

\* run(0) returns when no watcher is active.
RunReturns ==
    /\ At("loop")
    /\ ~stdinWatch /\ ~lwatch /\ ~cwatch
    /\ pc' = "returned"
    /\ UNCHANGED <<outcome, serverVars, clientVars, stdinVars, kernelVars, historyVars>>

----------------------------------------------------------------------------
(* await_raw_socket_incomming.                                             *)

\* accept, O_NONBLOCK, the count, and a temporary tcp_client, whose
\* constructor starts a watcher; the listener is called with it.
Accept ==
    /\ At("accept")
    /\ backlog # <<>>
    /\ \E fd \in Fds \ open :
          /\ open' = open \cup {fd}
          /\ cfd' = fd
    /\ conn' = {Head(backlog)}
    /\ backlog' = Tail(backlog)
    /\ count' = count + 1
    /\ cwatch' = TRUE
    /\ unsent' = 0
    /\ pc' = "listener"
    /\ UNCHANGED <<outcome, server, socketVars, stdinVars, historyVars>>

\* accept fails: nobody is waiting any more, or there is no descriptor.
AcceptFails ==
    /\ At("accept")
    /\ backlog = <<>> \/ open = Fds
    /\ outcome' = "threw"
    /\ UNCHANGED <<pc, serverVars, clientVars, stdinVars, kernelVars, historyVars>>

\* The listener calls write_data, which only queues: the loop is not running.
ListenerWrites ==
    /\ At("listener")
    /\ unsent < MaxWritten
    /\ unsent' = unsent + 1
    /\ UNCHANGED <<pc, outcome, serverVars, conn, cfd, cwatch, stdinVars, kernelVars,
                   historyVars>>

\* Faulty variant: the handler waits until everything is sent.
ListenerReturnsWhenSent ==
    /\ At("listener")
    /\ unsent = 0
    /\ pc' = "destruct"
    /\ UNCHANGED <<outcome, serverVars, clientVars, stdinVars, kernelVars, historyVars>>

\* tcp_client can be neither copied nor moved: the listener cannot keep it.
ListenerReturns ==
    /\ At("listener")
    /\ pc' = "destruct"
    /\ UNCHANGED <<outcome, serverVars, clientVars, stdinVars, kernelVars, historyVars>>

\* The end of the client: io.stop, the queue is discarded, the socket closed.
ClientGone ==
    /\ conn' = {}
    /\ cwatch' = FALSE
    /\ open' = AfterClose(open, cfd)
    /\ cfd' = NullFd
    /\ unsent' = 0

\* Faulty variants: the destructor does not call destructor_cb / does not stop
\* the watcher.
ClientDestructedUncounted ==
    /\ At("destruct")
    /\ server
    /\ ClientGone
    /\ inHandler' = FALSE
    /\ pc' = "loop"
    /\ UNCHANGED <<outcome, server, count, lfd, lwatch, backlog, stdinVars, servers, made>>
ClientDestructedWatched ==
    /\ At("destruct")
    /\ server
    /\ count' = count - 1
    /\ conn' = {} /\ cfd' = NullFd /\ unsent' = 0
    /\ open' = AfterClose(open, cfd)
    /\ inHandler' = FALSE
    /\ pc' = "loop"
    /\ UNCHANGED <<outcome, server, lfd, lwatch, cwatch, backlog, stdinVars, servers, made>>

\* ~tcp_client calls destructor_cb, which is client_destructed_cb of the
\* server; then cb_ev drops its reference and returns to the loop.
ClientDestructed ==
    /\ At("destruct")
    /\ server
    /\ count' = count - 1
    /\ ClientGone
    /\ inHandler' = FALSE
    /\ pc' = "loop"
    /\ UNCHANGED <<outcome, server, lfd, lwatch, backlog, stdinVars, servers, made>>

\* destructor_cb is bound to the raw `this' of a server that is gone.
DestructorCbDangling ==
    /\ At("destruct")
    /\ ~server
    /\ outcome' = "aborted"
    /\ UNCHANGED <<pc, serverVars, clientVars, stdinVars, kernelVars, historyVars>>

Handler ==
    \/ Accept \/ AcceptFails
    \/ ListenerReturns
    \/ ClientDestructed \/ DestructorCbDangling

----------------------------------------------------------------------------

Next ==
    \/ CreateServer \/ CreateServerFails \/ DestroyServer
    \/ \E c \in Conns : Connect(c)
    \/ \E i \in DOMAIN backlog : Abort(i)
    \/ StdinReadable
    \/ PollStdin \/ PollServer \/ PollServerError \/ RunReturns
    \/ ListenerWrites
    \/ Handler

Spec == Init /\ [][Next]_vars

----------------------------------------------------------------------------
(* Properties.                                                             *)

(***************************************************************************)
(* get_number_of_connected_clients() is the number of tcp_client objects   *)
(* that exist for the server: the increment before the constructor and     *)
(* the decrement in the callback from the destructor stay paired, and the  *)
(* unsigned counter never goes below zero.                                 *)
(***************************************************************************)
CountIsLive ==
    outcome = "running" /\ server => count = IF cfd = NullFd THEN 0 ELSE 1

(***************************************************************************)
(* Every open descriptor has an owner, and every owner's descriptor is     *)
(* open, over the listening socket and the clients, whoever is destroyed   *)
(* first; a server that is gone leaves its socket only to a running cb_ev. *)
(* libev never polls for an object that is gone: each started watcher has  *)
(* an owner whose descriptor is open.                                      *)
(***************************************************************************)
DescriptorsOwned ==
    /\ open = {lfd, cfd} \ {NullFd}
    /\ lfd = cfd => lfd = NullFd
    /\ lfd # NullFd => server \/ inHandler
    /\ lwatch => lfd \in open
    /\ cwatch => cfd \in open

(***************************************************************************)
(* A connection that waits is accepted, unless it is aborted, as long as   *)
(* the server exists, its watcher works and the process runs.              *)
(***************************************************************************)
Waiting(c) == \E i \in DOMAIN backlog : backlog[i] = c

EventuallyAccepted ==
    \A c \in Conns :
        (Waiting(c) /\ lwatch) ~> (~Waiting(c) \/ ~lwatch \/ outcome # "running")
=============================================================================
