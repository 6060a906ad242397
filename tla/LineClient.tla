----------------------------- MODULE LineClient -----------------------------
(***************************************************************************)
(* A connection_line_buffer on a tcp_client: the two objects of            *)
(* LineBuffer and TcpClient, who owns them, and the callback that ties     *)
(* them together (src/net/connection_line_buffer.cpp, tcp_client.cpp).     *)
(*                                                                         *)
(* cb_ev calls conn_data_in_cb, which calls the application once per line: *)
(* the passes of LineBuffer run while the client is in its "callback".     *)
(* The application acts between two events of the loop, and inside         *)
(* found_next_line_cb.                                                     *)
(*                                                                         *)
(* The client is owned by std::shared_ptrs: one of the application, which  *)
(* it may drop, and one in the buffer.  The callback is bound to the raw   *)
(* `this' of the buffer, and nothing takes it back when the buffer dies.   *)
(***************************************************************************)
EXTENDS LineBuffer

CONSTANTS MaxBytes, MaxIn, SndBuf, RecvBuf  \* as in TcpClient

ASSUME ClientBoundsAssumption ==
    /\ MaxBytes \in Nat /\ MaxIn \in Nat
    /\ SndBuf \in Nat \ {0} /\ RecvBuf \in Nat \ {0}

VARIABLES
    \* the client, as in TcpClient; its pc is cpc
    life, queue, interest, active, hasCb, cpc, revents, outcome,
    space, inbox, peerSent, fin, reset, accepted, wire,
    buffer,    \* "none", "alive" or "dead": the line buffer
    appHolds,  \* does the application hold a shared_ptr to the client?
    called     \* is found_next_line_cb running, called by the last pass?

C == INSTANCE TcpClient WITH pc <- cpc

ownerVars == <<buffer, appHolds>>
cbVars == <<cpc, revents, outcome>>
sockVars == <<space, inbox, peerSent, fin, reset>>
objVars == <<life, queue, interest, active, hasCb>>
histVars == <<accepted, wire>>
clientVars == <<objVars, cbVars, sockVars, histVars>>
allVars == <<vars, clientVars, ownerVars, called>>

AllInit ==
    /\ Init
    /\ C!Init
    /\ buffer = "none"
    /\ appHolds = TRUE
    /\ called = FALSE

----------------------------------------------------------------------------
(* The application                                                         *)

AppMayCall == C!AppMayCall /\ (cpc = "callback" => called)

\* The constructor of the buffer registers conn_data_in_cb.
MakeBuffer ==
    /\ AppMayCall
    /\ appHolds
    /\ buffer = "none"
    /\ C!SetIncommingDataCallback
    /\ buffer' = "alive"
    /\ UNCHANGED <<vars, appHolds, called>>

\* The client lives on while somebody holds it, and is destroyed otherwise.
ReleasedBy(held) ==
    IF held
    THEN UNCHANGED objVars
    ELSE C!Destroy

\* A faulty variant: the callback shares the ownership of the client, which
\* keeps itself alive.
DestroyBufferCycle ==
    /\ AppMayCall
    /\ buffer = "alive"
    /\ buffer' = "dead"
    /\ UNCHANGED <<vars, clientVars, appHolds, called>>

\* The application destroys the buffer.
DestroyBuffer ==
    /\ AppMayCall
    /\ buffer = "alive"
    /\ buffer' = "dead"
    /\ ReleasedBy(appHolds)
    /\ UNCHANGED <<vars, cbVars, sockVars, histVars, appHolds, called>>

\* A faulty variant: the buffer holds a plain pointer to the client.
DropClientSole ==
    /\ AppMayCall
    /\ appHolds
    /\ appHolds' = FALSE
    /\ C!Destroy
    /\ UNCHANGED <<vars, cbVars, sockVars, histVars, buffer, called>>

\* The application drops its shared_ptr to the client.
DropClient ==
    /\ AppMayCall
    /\ appHolds
    /\ appHolds' = FALSE
    /\ ReleasedBy(buffer = "alive")
    /\ UNCHANGED <<vars, cbVars, sockVars, histVars, buffer, called>>

\* The application answers, through the shared_ptr it holds.
Write(n) ==
    /\ AppMayCall
    /\ appHolds
    /\ C!WriteData(n)
    /\ UNCHANGED <<vars, ownerVars, called>>

----------------------------------------------------------------------------
(* The data in the client's callback                                       *)

\* recv yields all there is and room for, and the client calls conn_data_in_cb.
\* What the characters are does not matter before they are received.
RecvData ==
    /\ buffer = "alive"
    /\ C!RecvData
    /\ \E c \in Chunks :
          /\ Len(c) = inbox - inbox'
          /\ Len(c) = RecvBuf \/ inbox' = 0
          /\ Receive(c)
    /\ called' = FALSE
    /\ UNCHANGED ownerVars

\* The callback is still bound to a buffer that is gone.
RecvIntoDead ==
    /\ C!At("read")
    /\ hasCb
    /\ inbox > 0
    /\ buffer = "dead"
    /\ outcome' = "aborted"
    /\ UNCHANGED <<vars, objVars, cpc, revents, sockVars, histVars,
                   ownerVars, called>>

\* A pass of conn_data_in_cb.  LineFound and FlushRest call the application.
Pass ==
    /\ C!At("callback")
    /\ buffer = "alive"
    /\ \/ (LineFound \/ FlushRest) /\ called' = TRUE
       \/ KeepRest /\ called' = FALSE
    /\ UNCHANGED <<clientVars, ownerVars>>

\* The buffer was destroyed from inside found_next_line_cb, after which
\* conn_data_in_cb empties `data'.
PassOnDead ==
    /\ C!At("callback")
    /\ buffer = "dead"
    /\ outcome' = "aborted"
    /\ UNCHANGED <<vars, objVars, cpc, revents, sockVars, histVars,
                   ownerVars, called>>

\* conn_data_in_cb returns to cb_ev.
Return ==
    /\ buffer = "alive"
    /\ pc = "idle"
    /\ C!CallbackReturns
    /\ called' = FALSE
    /\ UNCHANGED <<vars, ownerVars>>

\* Steps of the client, its socket and the loop that leave the buffer alone.
ClientStep ==
    /\ \/ C!PeerSends(1)
       \/ C!PeerFinishes
       \/ C!PeerResets
       \/ C!PeerDrains
       \/ C!Loop
       \/ C!RecvNoCallback
       \/ C!RecvEof
       \/ C!RecvFails
       \/ C!PushWriteQueue
       \/ C!Rearm
       \/ C!TouchFreed
    /\ UNCHANGED <<vars, ownerVars, called>>

\* Everything that goes on once cb_ev is called.
CbEv ==
    \/ RecvData \/ RecvIntoDead \/ Pass \/ PassOnDead \/ Return
    \/ /\ \/ C!RecvNoCallback \/ C!RecvEof \/ C!RecvFails
          \/ C!PushWriteQueue \/ C!Rearm \/ C!TouchFreed
       /\ UNCHANGED <<vars, ownerVars, called>>

AllNext ==
    \/ MakeBuffer
    \/ DestroyBuffer
    \/ DropClient
    \/ \E n \in 1 .. MaxBytes : Write(n)
    \/ RecvData \/ RecvIntoDead \/ Pass \/ PassOnDead \/ Return
    \/ ClientStep

AllSpec == AllInit /\ [][AllNext]_allVars

\* As in TcpClient; the application's callback returns.
Poll == C!PollReady /\ UNCHANGED <<vars, ownerVars, called>>

AllFairSpec == AllSpec /\ WF_allVars(Poll) /\ WF_allVars(CbEv)

----------------------------------------------------------------------------
(* Properties                                                              *)

\* The buffer is there, registered, and its client is served by the loop.
Connected == C!Serving /\ buffer = "alive"

\* All that the peer has sent is read, and its line ends are reported.
CaughtUp ==
    /\ inbox = 0
    /\ pc = "idle"
    /\ \A k \in 1 .. peerSent :
          received[k] \in {"CR", "LF"} =>
              \E i \in 1 .. Len(ends) : ends[i] \in {k, k + 1}

\* Every line end that the peer sends is eventually reported to the
\* application, as long as the connection is served: however recv cuts the
\* text, while the output competes for the same callback and the application
\* writes from inside its own.
EventuallyComplete ==
    Connected ~> (~Connected \/ CaughtUp)

\* The client dies only with its last shared_ptr, except for the `delete this'
\* of a connection that the peer has closed: a buffer never uses a client that
\* the application has let go.
OwnersKeepAlive ==
    life = "dead" /\ cpc # "freed" => buffer # "alive" /\ ~appHolds

\* A destroyed buffer is called only if the application has kept the client, or
\* has destroyed the buffer from inside the buffer's own callback.
CalledDeadOnlyIfKept ==
    outcome = "aborted" /\ cpc # "freed"
        => buffer = "dead" /\ (appHolds \/ cpc = "callback")
=============================================================================
