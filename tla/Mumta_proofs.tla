---------------------------- MODULE Mumta_proofs ----------------------------
(***************************************************************************)
(* Proofs about TcpServer, for every number of connections, descriptors    *)
(* and servers and every backlog, and about Mumta, for every set of        *)
(* versions and every instance of TcpServer.                               *)
(***************************************************************************)
EXTENDS Mumta, Integers, TLAPS

----------------------------------------------------------------------------
(* The server.                                                             *)

\* The places of the thread at which the objects exist.
Places ==
    /\ lfd \in Handles /\ cfd \in Handles /\ count \in Nat
    /\ cfd # NullFd <=> pc \in {"listener", "destruct"}
    /\ inHandler <=> pc \in {"accept", "listener", "destruct"}
    /\ server \/ inHandler => lfd # NullFd

\* The counter and the descriptors are inductive together with the places:
\* ~tcp_client decrements a counter that Accept has incremented, and it closes
\* a descriptor that nobody else has closed in between.
IInv == CountIsLive /\ DescriptorsOwned /\ Places

\* A step that touches none of the objects and stays at its place.
LEMMA FrameStep ==
    ASSUME IInv,
           UNCHANGED <<pc, server, inHandler, lfd, count, cfd, cwatch, open>>,
           outcome' = "running" => outcome = "running",
           lwatch' => lwatch
    PROVE  IInv'
BY DEF IInv, CountIsLive, DescriptorsOwned, Places

LEMMA InitIInv == Init => IInv
BY NullFdAssumption
   DEF Init, Nothing, IInv, CountIsLive, DescriptorsOwned, Places, Handles

\* Each step of the loop, the handler, the application and the peers.
LEMMA Step == ASSUME IInv, [Next]_vars PROVE IInv'
<1> USE NullFdAssumption
<1> USE DEF CountIsLive, DescriptorsOwned, Places, Handles, At
<1>1. CASE CreateServer
  BY <1>1 DEF IInv, CreateServer, clientVars
<1>2. CASE \/ CreateServerFails \/ StdinReadable \/ PollStdin \/ PollServerError
           \/ AcceptFails \/ ListenerWrites \/ DestructorCbDangling
           \/ (\E c \in Conns : Connect(c)) \/ (\E i \in DOMAIN backlog : Abort(i))
  BY <1>2, FrameStep
     DEF CreateServerFails, StdinReadable, PollStdin, PollServerError, AcceptFails,
         ListenerWrites, DestructorCbDangling, Connect, Abort,
         serverVars, socketVars, clientVars, kernelVars
<1>3. CASE DestroyServer
  <2>1. CASE inHandler
    BY <1>3, <2>1 DEF IInv, DestroyServer, clientVars, kernelVars
  <2>2. CASE ~inHandler
    BY <1>3, <2>2 DEF IInv, DestroyServer, DestroySocket, AfterClose, Valid, clientVars
  <2>3. QED
    BY <2>1, <2>2
<1>4. CASE PollServer
  BY <1>4 DEF IInv, PollServer, clientVars, kernelVars
<1>5. CASE RunReturns
  BY <1>5 DEF IInv, RunReturns, serverVars, socketVars, clientVars, kernelVars
<1>6. CASE Accept
  BY <1>6 DEF IInv, Accept, socketVars
<1>7. CASE ListenerReturns
  BY <1>7 DEF IInv, ListenerReturns, serverVars, socketVars, clientVars, kernelVars
<1>8. CASE ClientDestructed
  BY <1>8 DEF IInv, ClientDestructed, ClientGone, AfterClose, Valid
<1>9. CASE UNCHANGED vars
  BY <1>9, FrameStep DEF vars, serverVars, socketVars, clientVars, kernelVars
<1>10. QED
  BY <1>1, <1>2, <1>3, <1>4, <1>5, <1>6, <1>7, <1>8, <1>9 DEF Next, Handler

\* get_number_of_connected_clients() counts the existing clients, and the
\* unsigned counter never wraps.
THEOREM CountIsExact == Spec => []CountIsLive
<1>1. IInv => CountIsLive
  BY DEF IInv
<1>2. QED
  BY <1>1, InitIInv, Step, PTL DEF Spec

\* No descriptor of a server or of a client leaks, and libev polls none that
\* is closed, in whatever order the objects go.
THEOREM DescriptorsAreOwned == Spec => []DescriptorsOwned
<1>1. IInv => DescriptorsOwned
  BY DEF IInv
<1>2. QED
  BY <1>1, InitIInv, Step, PTL DEF Spec

----------------------------------------------------------------------------
(* The daemon.                                                             *)

\* What is true at the places of the thread.
Placed ==
    /\ conn # {} => pc \in {"listener", "destruct"}
    /\ backlog # <<>> => server \/ inHandler
    /\ pc = "returned" => outcome = "running" /\ ~stdinWatch /\ ~lwatch /\ ~cwatch

\* What is true in the phases of main.
Phases ==
    /\ phase \in {"checking", "notifying"} => pc = "loop"
    /\ phase = "stopping" => pc = "returned"
    /\ "STOPPING" \in notes => phase \in {"stopping", "exited"} /\ pc = "returned"

\* StoppingIsQuiet speaks of the notification, which main sends when the loop
\* has returned: what holds there must hold on.
MainIInv == IInv /\ Placed /\ Phases

\* A step of the loop.
LEMMA PlacedStep == ASSUME IInv, Placed, Next PROVE Placed'
<1> USE DEF Placed, IInv, Places, At
<1>1. CASE CreateServer
  BY <1>1 DEF CreateServer, clientVars, stdinVars
<1>2. CASE CreateServerFails \/ StdinReadable \/ ListenerWrites
  BY <1>2 DEF CreateServerFails, StdinReadable, ListenerWrites,
              serverVars, socketVars, clientVars, stdinVars, kernelVars
<1>3. CASE DestroyServer
  BY <1>3 DEF DestroyServer, DestroySocket, clientVars, stdinVars, kernelVars
<1>4. ASSUME NEW c \in Conns, Connect(c) PROVE Placed'
  BY <1>4 DEF Connect, serverVars, socketVars, clientVars, stdinVars, DescriptorsOwned
<1>5. ASSUME NEW i \in DOMAIN backlog, Abort(i) PROVE Placed'
  <2>1. backlog # <<>>
    BY <1>5
  <2>2. QED
    BY <1>5, <2>1 DEF Abort, serverVars, socketVars, clientVars, stdinVars
<1>6. CASE PollStdin \/ PollServer \/ PollServerError \/ RunReturns
  BY <1>6 DEF PollStdin, PollServer, PollServerError, RunReturns,
              serverVars, socketVars, clientVars, stdinVars, kernelVars
<1>7. CASE Accept \/ AcceptFails \/ ListenerReturns
  BY <1>7 DEF Accept, AcceptFails, ListenerReturns,
              serverVars, socketVars, clientVars, stdinVars, kernelVars
<1>8. CASE ClientDestructed \/ DestructorCbDangling
  BY <1>8 DEF ClientDestructed, ClientGone, DestructorCbDangling,
              serverVars, socketVars, clientVars, stdinVars, kernelVars
<1>9. QED
  BY <1>1, <1>2, <1>3, <1>4, <1>5, <1>6, <1>7, <1>8 DEF Next, Handler

\* The loop does not leave its last place.
LEMMA ReturnedStays == ASSUME IInv, Next, pc = "returned" PROVE pc' = "returned"
BY DEF Next, Handler, At, CreateServer, CreateServerFails, DestroyServer, Connect, Abort,
       StdinReadable, PollStdin, PollServer, PollServerError, RunReturns, ListenerWrites,
       Accept, AcceptFails, ListenerReturns, ClientDestructed, DestructorCbDangling

LEMMA MainInitIsGood == MainInit => MainIInv
BY NullFdAssumption
   DEF MainInit, Nothing, MainIInv, IInv, CountIsLive, DescriptorsOwned,
       Places, Handles, Placed, Phases

LEMMA MainStep == ASSUME MainIInv, [MainNext]_allVars PROVE MainIInv'
<1> USE DEF MainIInv
<1>1. CASE Loop
  <2>1. IInv' /\ Placed'
    BY <1>1, Step, PlacedStep DEF Loop
  <2>2. Phases'
    BY <1>1 DEF Loop, Phases, mainVars
  <2>3. QED
    BY <2>1, <2>2
<1>2. CASE Outside
  <2>1. Next /\ pc' = pc /\ UNCHANGED mainVars
    BY <1>2 DEF Outside, Next, Connect, Abort, StdinReadable
  <2>2. IInv' /\ Placed'
    BY <2>1, Step, PlacedStep
  <2>3. QED
    BY <2>1, <2>2 DEF Phases, mainVars
<1>3. CASE EnterLoop \/ NotifyStopping
  <2>1. IInv'
    BY <1>3, FrameStep
       DEF EnterLoop, NotifyStopping, serverVars, socketVars, clientVars, kernelVars
  <2>2. Placed'
    BY <1>3 DEF EnterLoop, NotifyStopping, Placed, Phases,
                serverVars, socketVars, clientVars, kernelVars
  <2>3. Phases'
    BY <1>3 DEF EnterLoop, NotifyStopping, Notify, Phases, At
  <2>4. QED
    BY <2>1, <2>2, <2>3
<1>4. CASE \/ CheckLibev \/ CheckLibnl \/ CheckOpenssl \/ NotifyReady
           \/ Exit \/ Terminate \/ UNCHANGED allVars
  <2>1. UNCHANGED vars
    BY <1>4 DEF CheckLibev, CheckLibnl, CheckOpenssl, Check, NotifyReady, Exit, Terminate,
                allVars
  <2>2. IInv'
    BY <2>1, Step
  <2>3. Placed'
    BY <2>1 DEF vars, Placed, serverVars, socketVars, clientVars, stdinVars, kernelVars
  <2>4. Phases'
    BY <1>4, <2>1 DEF CheckLibev, CheckLibnl, CheckOpenssl, Check, NotifyReady, Notify,
                      Exit, Terminate, allVars, mainVars, vars, Phases, Placed
  <2>5. QED
    BY <2>2, <2>3, <2>4
<1>5. QED
  BY <1>1, <1>2, <1>3, <1>4 DEF MainNext, Main

\* STOPPING is not told while anything is watched, nor while a peer waits at a
\* server that is gone.
THEOREM StoppingIsTrue == MainSpec => []StoppingIsQuiet
<1>1. MainIInv => StoppingIsQuiet
  BY DEF MainIInv, IInv, Places, Placed, Phases, StoppingIsQuiet
<1>2. QED
  BY <1>1, MainInitIsGood, MainStep, PTL DEF MainSpec

\* In the daemon too no descriptor leaks, from its start to its end.
THEOREM DaemonOwnsDescriptors == MainSpec => []DescriptorsOwned
<1>1. MainIInv => DescriptorsOwned
  BY DEF MainIInv, IInv
<1>2. QED
  BY <1>1, MainInitIsGood, MainStep, PTL DEF MainSpec

----------------------------------------------------------------------------
(* The checks.                                                             *)

\* READY is told when every check has passed; the versions do not change.
ReadyInv ==
    /\ detected \in Versions
    /\ "libev" \in checked => LibevPasses
    /\ "libnl" \in checked => LibnlPasses
    /\ "libssl" \in checked => OpensslPasses
    /\ "READY" \in notes => checked = Libraries

\* Two numbers that agree in the upper half and ascend in the lower one.
LEMMA HalvesCompare ==
    ASSUME NEW h \in Nat \ {0}, NEW built \in Nat, NEW found \in Nat,
           found \div h = built \div h, found % h >= built % h
    PROVE  /\ \E patch \in 0 .. h - 1 : found = built + patch
           /\ found < (built \div h + 1) * h
<1> DEFINE q == built \div h
<1>1. /\ q \in Nat
      /\ built = q * h + (built % h) /\ built % h \in 0 .. h - 1
      /\ found = q * h + (found % h) /\ found % h \in 0 .. h - 1
  OBVIOUS
<1>2. (q + 1) * h = q * h + h
  BY <1>1
<1> HIDE DEF q
<1>3. q * h \in Int
  BY <1>1
<1>4. found = built + ((found % h) - (built % h)) /\ (found % h) - (built % h) \in 0 .. h - 1
  BY <1>1, <1>3
<1>5. found < (q + 1) * h
  BY <1>1, <1>2, <1>3
<1>6. QED
  BY <1>4, <1>5 DEF q

LEMMA ReadyInvStep == ASSUME ReadyInv, [MainNext]_allVars PROVE ReadyInv'
<1> USE DEF ReadyInv, LibevPasses, LibnlPasses, OpensslPasses, Libraries
<1>1. CASE CheckLibev \/ CheckLibnl \/ CheckOpenssl
  BY <1>1 DEF CheckLibev, CheckLibnl, CheckOpenssl, Check
<1>2. CASE NotifyReady \/ EnterLoop \/ NotifyStopping
  BY <1>2 DEF NotifyReady, EnterLoop, NotifyStopping, Notify
<1>3. CASE Exit \/ Terminate \/ Loop \/ Outside \/ UNCHANGED allVars
  BY <1>3 DEF Exit, Terminate, Loop, Outside, mainVars, allVars
<1>4. QED
  BY <1>1, <1>2, <1>3 DEF MainNext, Main

\* The service manager is told READY by no process whose libraries do not fit,
\* whatever the versions.
THEOREM ReadyMeansCompatible == MainSpec => []ReadyIsCompatible
<1>1. MainInit => ReadyInv
  BY VersionsAssumption DEF MainInit, ReadyInv, Libraries
<1>2. ReadyInv => ReadyIsCompatible
  <2> SUFFICES ASSUME ReadyInv, "READY" \in notes PROVE ReadyIsCompatible
    BY DEF ReadyIsCompatible
  <2>1. LibevPasses /\ LibnlPasses /\ OpensslPasses
    BY DEF ReadyInv, Libraries
  <2>2. Compiled.libssl \in Nat /\ detected.libssl \in Nat
    BY VersionsAssumption DEF ReadyInv, Versions
  <2>3. /\ \E patch \in 0 .. HalfWord - 1 : detected.libssl = Compiled.libssl + patch
        /\ detected.libssl < (Compiled.libssl \div HalfWord + 1) * HalfWord
    BY <2>1, <2>2, HalvesCompare, VersionsAssumption DEF OpensslPasses
  <2>4. QED
    BY <2>1, <2>3 DEF ReadyIsCompatible, NewerOrSame, LibevPasses, LibnlPasses
<1>3. QED
  BY <1>1, <1>2, ReadyInvStep, PTL DEF MainSpec
=============================================================================
