----------------------------- MODULE TcpClient -----------------------------
(***************************************************************************)
(* One connected rmrf::net::tcp_client (src/net/tcp_client.cpp): its       *)
(* output queue, its libev watcher and the callback cb_ev that the event   *)
(* loop runs, together with the socket in the kernel and the peer.         *)
(*                                                                         *)
(* The program is single-threaded, but the kernel and the peer are not:    *)
(* cb_ev is split at its system calls and at the call of the application's *)
(* callback, so that bytes, a FIN or a reset may arrive between them and   *)
(* the application may call write_data, or destroy the client, from inside *)
(* its callback.  `pc' is the place in cb_ev:                              *)
(*                                                                         *)
(*   "loop"      the event loop is running or polling, cb_ev is not active *)
(*   "read"      before recv                                               *)
(*   "callback"  inside in_data_cb                                         *)
(*   "write"     before push_write_queue                                   *)
(*   "rearm"     before the final io.set                                   *)
(*   "freed"     cb_ev still runs, but its object has been destroyed       *)
(*                                                                         *)
(* An exception that leaves cb_ev leaves ev_run and main as well: nothing  *)
(* catches it, and the process ends ("threw").  The build links            *)
(* AddressSanitizer, so the first access to a destroyed client ends the    *)
(* process, too ("aborted").                                               *)
(***************************************************************************)
EXTENDS IoQueue

CONSTANTS
    MaxBytes,  \* bound: bytes the application writes in a behaviour
    MaxIn,     \* bound: bytes the peer sends in a behaviour
    SndBuf,    \* room in the kernel's send buffer
    RecvBuf    \* the size of cb_ev's buffer

ASSUME BoundsAssumption ==
    /\ MaxBytes \in Nat
    /\ MaxIn \in Nat
    /\ SndBuf \in Nat \ {0}
    /\ RecvBuf \in Nat \ {0}

VARIABLES
    \* the client object
    life,      \* "alive" or "dead": has the destructor run?
    queue,     \* write_queue
    interest,  \* the events the watcher `io' is set to
    active,    \* is the watcher started?
    hasCb,     \* is in_data_cb set?
    \* the running of cb_ev
    pc,        \* see above
    revents,   \* the argument `events' of cb_ev
    outcome,   \* "running", "threw" or "aborted": the fate of the process
    \* the socket and the peer
    space,     \* free room in the send buffer
    inbox,     \* bytes received by the kernel and not read yet
    peerSent,  \* bytes the peer has sent so far
    fin,       \* has the peer closed its sending side?
    reset,     \* has the connection been reset?
    \* history
    accepted,  \* bytes the application has passed to write_data
    wire       \* the bytes the kernel has taken, in order

objVars == <<life, queue, interest, active, hasCb>>
cbVars == <<pc, revents, outcome>>
sockVars == <<space, inbox, peerSent, fin, reset>>
histVars == <<accepted, wire>>
vars == <<objVars, cbVars, sockVars, histVars>>

READ == "READ"
WRITE == "WRITE"
Events == {READ, WRITE}

Places == {"loop", "read", "callback", "write", "rearm", "freed"}

TypeOK ==
    /\ life \in {"alive", "dead"}
    /\ queue \in Seq(IoRecord)
    /\ interest \in SUBSET Events
    /\ active \in BOOLEAN
    /\ hasCb \in BOOLEAN
    /\ pc \in Places
    /\ revents \in SUBSET Events
    /\ outcome \in {"running", "threw", "aborted"}
    /\ space \in 0 .. SndBuf
    /\ inbox \in Nat
    /\ peerSent \in 0 .. MaxIn
    /\ fin \in BOOLEAN
    /\ reset \in BOOLEAN
    /\ accepted \in Nat
    /\ wire \in Seq(Nat)

\* The client of an accepted or established connection: the constructors set
\* the watcher to READ and start it; no callback is registered yet.
Init ==
    /\ life = "alive"
    /\ queue = <<>>
    /\ interest = {READ}
    /\ active = TRUE
    /\ hasCb = FALSE
    /\ pc = "loop"
    /\ revents = {}
    /\ outcome = "running"
    /\ space = SndBuf
    /\ inbox = 0
    /\ peerSent = 0
    /\ fin = FALSE
    /\ reset = FALSE
    /\ accepted = 0
    /\ wire = <<>>

Running == outcome = "running"

----------------------------------------------------------------------------
(* The application.  It runs in other callbacks of the loop, when pc is    *)
(* "loop", and inside in_data_cb.                                          *)

AppMayCall == Running /\ life = "alive" /\ pc \in {"loop", "callback"}

SetIncommingDataCallback ==
    /\ AppMayCall
    /\ hasCb' = TRUE
    /\ UNCHANGED <<life, queue, interest, active, cbVars, sockVars, histVars>>

\* Faulty variant: the watcher is left as it is.
WriteDataNoArm(n) ==
    /\ AppMayCall
    /\ accepted + n <= MaxBytes
    /\ queue' = PushBack(queue, NewRecord(accepted, n))
    /\ accepted' = accepted + n
    /\ UNCHANGED <<life, interest, active, hasCb, cbVars, sockVars, wire>>

\* io.set stops and restarts an active watcher and leaves an inactive one
\* stopped: `active' does not change.
WriteData(n) ==
    /\ AppMayCall
    /\ accepted + n <= MaxBytes
    /\ queue' = PushBack(queue, NewRecord(accepted, n))
    /\ interest' = {READ, WRITE}
    /\ accepted' = accepted + n
    /\ UNCHANGED <<life, active, hasCb, cbVars, sockVars, wire>>

\* ~tcp_client: destructor_cb, io.stop, and the members: the queue is
\* discarded and the socket closed.
Destroy ==
    /\ life' = "dead"
    /\ active' = FALSE
    /\ queue' = <<>>
    /\ UNCHANGED <<interest, hasCb>>

AppDestroys ==
    /\ AppMayCall
    /\ Destroy
    /\ UNCHANGED <<cbVars, sockVars, histVars>>

----------------------------------------------------------------------------
(* The kernel and the peer.                                                *)

Connected == Running /\ life = "alive" /\ ~reset

PeerSends(n) ==
    /\ Connected
    /\ ~fin
    /\ peerSent + n <= MaxIn
    /\ peerSent' = peerSent + n
    /\ inbox' = inbox + n
    /\ UNCHANGED <<objVars, cbVars, space, fin, reset, histVars>>

\* The peer closes its sending side; it may go on reading.
PeerFinishes ==
    /\ Connected
    /\ ~fin
    /\ fin' = TRUE
    /\ UNCHANGED <<objVars, cbVars, space, inbox, peerSent, reset, histVars>>

\* What the kernel has received before the reset may still be read.
PeerResets ==
    /\ Connected
    /\ reset' = TRUE
    /\ UNCHANGED <<objVars, cbVars, space, inbox, peerSent, fin, histVars>>

\* The peer acknowledges bytes, which frees room in the send buffer.
PeerDrains ==
    /\ Connected
    /\ space < SndBuf
    /\ space' \in space + 1 .. SndBuf
    /\ UNCHANGED <<objVars, cbVars, inbox, peerSent, fin, reset, histVars>>

Readable == inbox > 0 \/ fin \/ reset
Writable == space > 0 \/ reset
Ready == {e \in interest : \/ e = READ /\ Readable
                           \/ e = WRITE /\ Writable}

----------------------------------------------------------------------------
(* The event loop dispatches cb_ev.  libev is level-triggered: it reports  *)
(* every event that is ready, and it may report one that is not.           *)

Dispatch(events) ==
    /\ Running
    /\ pc = "loop"
    /\ active
    /\ events # {}
    /\ revents' = events
    /\ pc' = IF READ \in events THEN "read" ELSE "write"
    /\ UNCHANGED <<objVars, outcome, sockVars, histVars>>

PollReady == Dispatch(Ready)

PollSpurious ==
    \E events \in SUBSET interest :
        /\ Ready \subseteq events
        /\ events # Ready
        /\ Dispatch(events)

\* libev stops the watcher of an unusable descriptor and reports ERROR, on
\* which cb_ev returns at once.  Nobody is told, and nothing starts the
\* watcher again.
PollError ==
    /\ Running
    /\ pc = "loop"
    /\ active
    /\ active' = FALSE
    /\ UNCHANGED <<life, queue, interest, hasCb, cbVars, sockVars, histVars>>

----------------------------------------------------------------------------
(* cb_ev.                                                                  *)

At(place) == Running /\ pc = place

Throw ==
    /\ outcome' = "threw"
    /\ UNCHANGED <<pc, revents>>

\* cb_ev after its READ part.
ToWritePart == pc' = IF WRITE \in revents THEN "write" ELSE "rearm"

\* recv yields data, and cb_ev calls in_data_cb.
RecvData ==
    /\ At("read")
    /\ \E n \in 1 .. RecvBuf :
          /\ n <= inbox
          /\ inbox' = inbox - n
    /\ hasCb
    /\ pc' = "callback"
    /\ UNCHANGED <<objVars, revents, outcome, space, peerSent, fin, reset, histVars>>

\* in_data_cb is empty: std::bad_function_call.
RecvNoCallback ==
    /\ At("read")
    /\ \E n \in 1 .. RecvBuf :
          /\ n <= inbox
          /\ inbox' = inbox - n
    /\ ~hasCb
    /\ Throw
    /\ UNCHANGED <<objVars, space, peerSent, fin, reset, histVars>>

\* recv yields 0: `delete this', and cb_ev goes on.
RecvEof ==
    /\ At("read")
    /\ ~reset /\ fin /\ inbox = 0
    /\ Destroy
    /\ pc' = "freed"
    /\ UNCHANGED <<revents, outcome, sockVars, histVars>>

\* recv fails: on a reset connection, or with EAGAIN after a spurious event.
RecvFails ==
    /\ At("read")
    /\ reset \/ (inbox = 0 /\ ~fin)
    /\ Throw
    /\ UNCHANGED <<objVars, sockVars, histVars>>

CallbackReturns ==
    /\ At("callback")
    /\ IF life = "alive" THEN ToWritePart ELSE pc' = "freed"
    /\ UNCHANGED <<objVars, revents, outcome, sockVars, histVars>>

\* An access to a member of the destroyed object (write_queue, io).
TouchFreed ==
    /\ At("freed")
    /\ outcome' = "aborted"
    /\ UNCHANGED <<objVars, pc, revents, sockVars, histVars>>

\* push_write_queue: nothing to write.
PushNothing ==
    /\ At("write")
    /\ queue = <<>>
    /\ interest' = {READ}
    /\ pc' = "rearm"
    /\ UNCHANGED <<life, queue, active, hasCb, revents, outcome, sockVars, histVars>>

\* push_write_queue: the kernel takes n bytes, the rest goes back to the front.
PushBytes ==
    /\ At("write")
    /\ queue # <<>>
    /\ ~reset
    /\ LET buffer == Popped(queue)
       IN  \E n \in 1 .. space :
              /\ n <= Size(buffer)
              /\ space' = space - n
              /\ wire' = wire \o [k \in 1 .. n |-> Ptr(buffer) + k]
              /\ queue' = PushFront(AfterPop(queue), Advance(buffer, n))
    /\ pc' = "rearm"
    /\ UNCHANGED <<life, interest, active, hasCb, revents, outcome,
                   inbox, peerSent, fin, reset, accepted>>

\* push_write_queue: EAGAIN, the record goes back to the front unchanged.
PushAgain ==
    /\ At("write")
    /\ queue # <<>>
    /\ ~reset /\ space = 0
    /\ queue' = PushFront(AfterPop(queue), Popped(queue))
    /\ pc' = "rearm"
    /\ UNCHANGED <<life, interest, active, hasCb, revents, outcome, sockVars, histVars>>

\* push_write_queue: any other error.  The record has left the queue.
PushFails ==
    /\ At("write")
    /\ queue # <<>>
    /\ reset
    /\ queue' = AfterPop(queue)
    /\ Throw
    /\ UNCHANGED <<life, interest, active, hasCb, sockVars, histVars>>

PushWriteQueue == PushNothing \/ PushBytes \/ PushAgain \/ PushFails

\* Faulty variants: only what is pending is armed / WRITE is dropped whatever
\* the queue holds / never dropped.
RearmPending ==
    /\ At("rearm")
    /\ interest' = IF queue = <<>> THEN {} ELSE {WRITE}
    /\ pc' = "loop"
    /\ UNCHANGED <<life, queue, active, hasCb, revents, outcome, sockVars, histVars>>
RearmReadOnly ==
    /\ At("rearm")
    /\ interest' = {READ}
    /\ pc' = "loop"
    /\ UNCHANGED <<life, queue, active, hasCb, revents, outcome, sockVars, histVars>>
RearmBoth ==
    /\ At("rearm")
    /\ interest' = {READ, WRITE}
    /\ pc' = "loop"
    /\ UNCHANGED <<life, queue, active, hasCb, revents, outcome, sockVars, histVars>>

\* The end of cb_ev.
Rearm ==
    /\ At("rearm")
    /\ interest' = IF queue = <<>> THEN {READ} ELSE {READ, WRITE}
    /\ pc' = "loop"
    /\ UNCHANGED <<life, queue, active, hasCb, revents, outcome, sockVars, histVars>>

Recv == RecvData \/ RecvNoCallback \/ RecvEof \/ RecvFails

CbEv == Recv \/ CallbackReturns \/ PushWriteQueue \/ Rearm \/ TouchFreed

----------------------------------------------------------------------------

App ==
    \/ SetIncommingDataCallback
    \/ \E n \in 0 .. MaxBytes : WriteData(n)
    \/ AppDestroys

Environment ==
    \/ \E n \in 1 .. MaxIn : PeerSends(n)
    \/ PeerFinishes
    \/ PeerResets
    \/ PeerDrains

Loop == PollReady \/ PollSpurious \/ PollError

Next == App \/ Environment \/ Loop \/ CbEv

Spec == Init /\ [][Next]_vars

\* The thread keeps running: the loop reports what is ready, a started cb_ev
\* goes on, and in_data_cb returns.  The peer reads what it is sent.
Fairness ==
    /\ WF_vars(PollReady)
    /\ WF_vars(CbEv)
    /\ WF_vars(PeerDrains)

FairSpec == Spec /\ Fairness

----------------------------------------------------------------------------
(* Properties.                                                             *)

\* The event loop serves this client.
Serving == Running /\ life = "alive" /\ active

\* A client whose object is alive in a running process.
Up == Running /\ life = "alive"

(***************************************************************************)
(* The queue holds exactly the accepted bytes that the kernel has not      *)
(* taken: its records follow each other without a gap or an overlap, the   *)
(* first unsent byte is the one after the last byte on the wire, and no    *)
(* queued record is exhausted (ioqueue drops empty records at both ends).  *)
(* It is about push_write_queue taking a record out, writing a part of it  *)
(* and putting the rest back while write_data appends.                     *)
(***************************************************************************)
QueueCoversUnsent == Up => Covers(queue, Len(wire), accepted)

(***************************************************************************)
(* The peer gets the accepted bytes in order, none twice and none left     *)
(* out, through partial writes, EAGAIN and failures alike.                 *)
(***************************************************************************)
WireInOrder ==
    /\ Len(wire) <= accepted
    /\ \A i \in 1 .. Len(wire) : wire[i] = i

(***************************************************************************)
(* Whenever the loop polls, unsent bytes have WRITE armed and READ is      *)
(* armed: no interleaving of write_data, inside or outside the callback,   *)
(* with the io.set at the end of cb_ev disarms a pending write.            *)
(***************************************************************************)
NoStall ==
    Up /\ pc = "loop" =>
      /\ READ \in interest
      /\ queue # <<>> => WRITE \in interest

(***************************************************************************)
(* Every byte accepted by write_data is eventually taken by the kernel, as *)
(* long as the client is served and the peer reads: partial writes, full   *)
(* buffers and incoming data do not starve the output.                     *)
(***************************************************************************)
EventuallySent ==
    \A k \in 1 .. MaxBytes :
        (Serving /\ accepted >= k) ~> (Len(wire) >= k \/ ~Serving)

(***************************************************************************)
(* Received data is eventually handed to the application, as long as the   *)
(* client is served: output does not starve the input.                     *)
(***************************************************************************)
EventuallyRead ==
    (Serving /\ inbox > 0) ~> (inbox = 0 \/ ~Serving)

(***************************************************************************)
(* The loop does not go on polling for WRITE without anything to write,    *)
(* which would make it spin on an idle connection (write_data("") arms     *)
(* WRITE and queues nothing).                                              *)
(***************************************************************************)
IdleWriter == queue = <<>> /\ WRITE \in interest

NoSpin == (Serving /\ IdleWriter) ~> (~Serving \/ (pc = "loop" /\ ~IdleWriter))

(***************************************************************************)
(* The client implements the byte stream: it accepts, sends in order, and  *)
(* stops for good when it fails or is destroyed.                           *)
(***************************************************************************)
Stream == INSTANCE ByteStream WITH out <- wire, up <- Up

ImplementsByteStream == Stream!Spec

(***************************************************************************)
(* No access to a destroyed object: what AddressSanitizer, which the       *)
(* Makefile compiles into every binary, asserts at run time.               *)
(***************************************************************************)
NoUseAfterDelete == outcome # "aborted"
============================================================================
