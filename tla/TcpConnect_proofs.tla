------------------------- MODULE TcpConnect_proofs -------------------------
(***************************************************************************)
(* Proofs about TcpConnect, for every set of descriptors, every resolver   *)
(* result and any number of attempts.                                      *)
(***************************************************************************)
EXTENDS TcpConnect, SequenceTheorems, TLAPS

\* OneOwner is inductive once it is known which handles own nothing where: a
\* socket is stored only in a handle that is empty, so none is overwritten.
EmptyHandles ==
    /\ netSocket \in Handles /\ candidate \in Handles
    /\ candidate # NullFd => pc = "connect"
    /\ netSocket # NullFd => pc \notin {"none", "socket"}

IInv == OneOwner /\ EmptyHandles

\* An exception leaves nothing open.
LEMMA ThrowStep ==
    ASSUME IInv, NEW reason, Throw(reason)
    PROVE  IInv'
BY DEF IInv, OneOwner, EmptyHandles, Throw, Keep, AfterClose, Valid, Handles

LEMMA OwnerStep == ASSUME IInv, [Next]_vars PROVE IInv'
<1> USE NullFdAssumption
<1> USE DEF IInv, OneOwner, EmptyHandles, Handles, member, kernel
<1>1. ASSUME NEW f \in Families, Construct(f) PROVE IInv'
  BY <1>1 DEF Construct
<1>2. CASE FirstSocket
  BY <1>2 DEF FirstSocket
<1>3. CASE FirstSocketFails \/ ResolveFails \/ NoCandidateLeft
  BY <1>3, ThrowStep DEF FirstSocketFails, ResolveFails, NoCandidateLeft
<1>4. ASSUME NEW list \in Lists, Resolve(list) PROVE IInv'
  BY <1>4 DEF Resolve
<1>5. CASE TryCandidate
  BY <1>5 DEF TryCandidate
<1>6. CASE CandidateSocketFails
  BY <1>6 DEF CandidateSocketFails
<1>7. CASE ConnectSucceeds
  BY <1>7 DEF ConnectSucceeds, AfterAssign, AfterClose, Valid
<1>8. CASE ConnectFails
  BY <1>8 DEF ConnectFails, Keep, AfterClose, Valid
<1>9. CASE NameKnown
  BY <1>9 DEF NameKnown
<1>10. CASE NameUnknown
  <2>1. CASE Throw("localaddr")
    BY <2>1, ThrowStep
  <2>2. CASE port' = "any" /\ UNCHANGED <<candidate, netSocket, kernel>> /\ pc' = "start"
    BY <1>10, <2>2 DEF NameUnknown
  <2>3. QED
    BY <1>10, <2>1, <2>2 DEF NameUnknown
<1>11. CASE StartIo
  BY <1>11 DEF StartIo
<1>12. CASE DestroyClient
  BY <1>12 DEF DestroyClient, Keep, AfterClose, Valid
<1>13. CASE UNCHANGED vars
  BY <1>13 DEF vars, local
<1>14. QED
  BY <1>1, <1>2, <1>3, <1>4, <1>5, <1>6, <1>7, <1>8, <1>9, <1>10, <1>11, <1>12,
     <1>13 DEF Next, Constructor

\* The moves of descriptors between handles, the loop and the exceptions
\* neither leak a descriptor nor close one that is in use.
THEOREM NoDescriptorLeaks == Spec => []OneOwner
<1> USE NullFdAssumption
<1>1. Init => IInv
  BY DEF Init, IInv, OneOwner, EmptyHandles, Handles
<1>2. IInv /\ [Next]_vars => IInv'
  BY OwnerStep
<1>3. IInv => OneOwner
  BY DEF IInv
<1>4. QED
  BY <1>1, <1>2, <1>3, PTL DEF Spec

----------------------------------------------------------------------------

\* A client is established in four steps, and each leaves what the ones before
\* have done to the socket.
Established ==
    /\ pc = "connect" => candidate # NullFd
    /\ pc \in {"name", "start", "client"} => netSocket \in connected \cap nonblock
    /\ pc = "client" => watched = netSocket

TInv == IInv /\ TypeOK /\ Established

LEMMA NamesAreTyped ==
    /\ \A p \in {"none", "socket", "resolve", "try", "connect", "name", "start",
                "client"} : p \in Places
    /\ \A r \in {"", "family", "socket", "resolve", "candidates", "localaddr"} :
          r \in Failures
BY DEF Places, Failures

LEMMA AttemptsAreBounded ==
    /\ 0 \in 0 .. MaxAttempts
    /\ \A n \in 0 .. MaxAttempts : n < MaxAttempts => n + 1 \in 0 .. MaxAttempts
BY BoundsAssumption

LEMMA QueueMoves ==
    ASSUME NEW queue \in Seq(Addresses), queue # <<>>, NEW over \in Seq(Addresses)
    PROVE  Tail(queue) \in Seq(Addresses) /\ Append(over, Head(queue)) \in Seq(Addresses)
OBVIOUS

LEMMA ListsAreSequences ==
    ASSUME NEW list \in Lists
    PROVE  list \in Seq(Addresses) /\ Reverse(list) \in Seq(Addresses)
<1> USE BoundsAssumption
<1>1. PICK n \in 1 .. MaxResults : list \in [1 .. n -> Addresses]
  BY DEF Lists
<1>2. list \in Seq(Addresses) /\ Len(list) = n /\ n \in Nat
  BY <1>1
<1>3. Reverse(list) \in [1 .. n -> Addresses]
  BY <1>1, <1>2 DEF Reverse
<1>4. QED
  BY <1>2, <1>3

LEMMA ThrowIsTyped ==
    ASSUME TInv, NEW reason \in Failures, Throw(reason)
    PROVE  TypeOK' /\ Established'
<1>1. <<>> \in Seq(Addresses)
  OBVIOUS
<1>2. QED
  BY <1>1
     DEF TInv, TypeOK, Established, Throw, Keep, AfterClose, Valid, Handles, Places, history

\* The variables keep their types, and a client that exists watches its own
\* connected socket that does not block: what connect() gave the candidate
\* comes with it into the member, and nothing between there and the start of
\* the watcher takes it away.
THEOREM ClientIsReady == Spec => [](TypeOK /\ ClientIsEstablished)
<1>0. <<>> \in Seq(Addresses)
  OBVIOUS
<1> USE NullFdAssumption, BoundsAssumption, NamesAreTyped
<1>1. Init => TInv
  <2>1. Init => IInv
    BY DEF Init, IInv, OneOwner, EmptyHandles, Handles
  <2>2. Init => TypeOK
    <3>1. Init => port \in {"0", "local", "any"} /\ family \in Families
      BY DEF Init, Families
    <3>2. Init => attempts \in 0 .. MaxAttempts
      BY AttemptsAreBounded DEF Init
    <3>3. QED
      BY <1>0, <3>1, <3>2 DEF Init, TypeOK, Handles
  <2>3. Init => Established
    BY DEF Init, Established
  <2>4. QED
    BY <2>1, <2>2, <2>3 DEF TInv
<1>2. TInv /\ [Next]_vars => TInv'
  <2> SUFFICES ASSUME TInv, [Next]_vars PROVE TypeOK' /\ Established'
    BY OwnerStep DEF TInv
  <2> USE DEF TInv, TypeOK, Established, Handles, member, kernel, history
  <2>1. ASSUME NEW f \in Families, Construct(f) PROVE TypeOK' /\ Established'
    <3>1. attempts' \in 0 .. MaxAttempts
      BY <2>1, AttemptsAreBounded DEF Construct
    <3>2. /\ pc' \in {"socket", "none"} /\ failure' \in Failures
          /\ port' \in {"0", "local", "any"}
      BY <2>1 DEF Construct
    <3>3. /\ UNCHANGED <<candidates, candidate, netSocket, watched>>
          /\ UNCHANGED <<open, connected, nonblock>>
          /\ family' \in Families /\ resolved' = <<>> /\ tried' = <<>>
      BY <2>1 DEF Construct
    <3>4. QED
      BY <1>0, <3>1, <3>2, <3>3
  <2>2. CASE FirstSocket
    BY <2>2 DEF FirstSocket
  <2>3. CASE FirstSocketFails \/ ResolveFails \/ NoCandidateLeft
    BY <2>3, ThrowIsTyped DEF FirstSocketFails, ResolveFails, NoCandidateLeft
  <2>4. ASSUME NEW list \in Lists, Resolve(list) PROVE TypeOK' /\ Established'
    <3>1. list \in Seq(Addresses) /\ Queued(list) \in Seq(Addresses)
      BY ListsAreSequences DEF Queued
    <3>2. QED
      BY <2>4, <3>1 DEF Resolve
  <2>5. CASE TryCandidate \/ CandidateSocketFails
    <3>1. candidates # <<>>
      BY <2>5 DEF TryCandidate, CandidateSocketFails
    <3>2. /\ Tail(candidates) \in Seq(Addresses)
          /\ Append(tried, Head(candidates)) \in Seq(Addresses)
      BY <3>1, QueueMoves
    <3>3. QED
      BY <2>5, <3>2 DEF TryCandidate, CandidateSocketFails
  <2>6. CASE ConnectSucceeds
    <3>1. candidate # NullFd /\ candidate # netSocket /\ candidate \in open
      BY <2>6 DEF ConnectSucceeds, IInv, OneOwner, EmptyHandles, Valid
    <3>2. /\ netSocket' = candidate /\ candidate \in open'
          /\ candidate \in connected' \cap nonblock'
      BY <2>6, <3>1 DEF ConnectSucceeds, AfterAssign, AfterClose, Valid
    <3>3. open' \subseteq Fds /\ connected' \subseteq open' /\ nonblock' \subseteq open'
      BY <2>6, <3>1 DEF ConnectSucceeds, AfterAssign, AfterClose, Valid
    <3>4. /\ pc' = "name" /\ candidate' = NullFd
          /\ UNCHANGED <<family, candidates, port, watched, failure>>
          /\ UNCHANGED <<attempts, resolved, tried>>
      BY <2>6 DEF ConnectSucceeds
    <3>5. QED
      BY <3>2, <3>3, <3>4
  <2>7. CASE ConnectFails
    BY <2>7 DEF ConnectFails, Keep, AfterClose, Valid
  <2>8. CASE NameKnown
    BY <2>8 DEF NameKnown
  <2>9. CASE NameUnknown
    <3>1. CASE Throw("localaddr")
      BY <3>1, ThrowIsTyped
    <3>2. CASE ~Throw("localaddr")
      BY <2>9, <3>2 DEF NameUnknown
    <3>3. QED
      BY <3>1, <3>2
  <2>10. CASE StartIo
    BY <1>0, <2>10 DEF StartIo
  <2>11. CASE DestroyClient
    BY <2>11 DEF DestroyClient, Keep, AfterClose, Valid
  <2>12. CASE UNCHANGED vars
    <3>1. /\ UNCHANGED <<pc, family, candidates, candidate, netSocket, port, watched>>
          /\ UNCHANGED <<open, connected, nonblock, attempts, resolved, tried, failure>>
      BY <2>12 DEF vars, local
    <3>2. QED
      BY <3>1
  <2>13. QED
    BY <2>1, <2>2, <2>3, <2>4, <2>5, <2>6, <2>7, <2>8, <2>9, <2>10, <2>11, <2>12
       DEF Next, Constructor
<1>3. TInv => TypeOK /\ ClientIsEstablished
  BY DEF TInv, Established, ClientIsEstablished
<1>4. QED
  BY <1>1, <1>2, <1>3, PTL DEF Spec

----------------------------------------------------------------------------

\* What has been tried and what is queued is at every turn of the loop what the
\* resolver gave, in its order; an attempt that is on its way has not failed.
NothingPassedOver ==
    /\ pc \in {"socket", "resolve"} => tried = <<>>
    /\ pc \in {"try", "connect"} => tried \o candidates = Queued(resolved)
    /\ pc # "none" => failure = ""
    /\ AllTried

\* Moving the head of a queue to the end of what is done keeps their
\* concatenation.
LEMMA HeadMovesOver ==
    ASSUME NEW queue \in Seq(Addresses), queue # <<>>, NEW over \in Seq(Addresses)
    PROVE  Append(over, Head(queue)) \o Tail(queue) = over \o queue
<1> DEFINE left == Append(over, Head(queue)) \o Tail(queue)
           right == over \o queue
<1>1. /\ Len(queue) \in Nat \ {0} /\ Len(over) \in Nat
      /\ Head(queue) = queue[1] /\ Head(queue) \in Addresses
      /\ Tail(queue) \in Seq(Addresses) /\ Len(Tail(queue)) = Len(queue) - 1
  OBVIOUS
<1>2. left \in Seq(Addresses) /\ right \in Seq(Addresses) /\ Len(left) = Len(right)
  BY <1>1
<1>3. ASSUME NEW i \in 1 .. Len(right) PROVE left[i] = right[i]
  <2>1. CASE i <= Len(over)
    BY <1>1, <2>1
  <2>2. CASE i = Len(over) + 1
    BY <1>1, <2>2
  <2>3. CASE i > Len(over) + 1
    <3>1. Tail(queue)[i - Len(over) - 1] = queue[i - Len(over)]
      BY <1>1, <1>3, <2>3
    <3>2. QED
      BY <1>1, <2>3, <3>1
  <2>4. QED
    BY <1>1, <1>3, <2>1, <2>2, <2>3
<1>4. QED
  BY <1>2, <1>3

LEMMA LoopStep ==
    ASSUME TypeOK, NothingPassedOver, [Next]_vars
    PROVE  NothingPassedOver'
<1> USE DEF NothingPassedOver, AllTried
<1>1. ASSUME NEW f \in Families, Construct(f) PROVE NothingPassedOver'
  BY <1>1 DEF Construct
<1>2. CASE FirstSocket
  BY <1>2 DEF FirstSocket, history, Queued
<1>3. ASSUME NEW reason, Throw(reason), reason # "candidates" PROVE NothingPassedOver'
  BY <1>3 DEF Throw
<1>4. CASE FirstSocketFails \/ ResolveFails
  BY <1>3, <1>4 DEF FirstSocketFails, ResolveFails
<1>5. CASE NoCandidateLeft
  <2>1. tried \o <<>> = tried
    BY ConcatEmptySeq DEF TypeOK
  <2>2. QED
    BY <1>5, <2>1 DEF NoCandidateLeft, Throw, history, Queued
<1>6. ASSUME NEW list \in Lists, Resolve(list) PROVE NothingPassedOver'
  <2>1. <<>> \o Queued(list) = Queued(list)
    BY ListsAreSequences, ConcatEmptySeq DEF Queued
  <2>2. QED
    BY <1>6, <2>1 DEF Resolve, Queued
<1>7. CASE TryCandidate \/ CandidateSocketFails
  <2>1. Append(tried, Head(candidates)) \o Tail(candidates) = tried \o candidates
    BY <1>7, HeadMovesOver DEF TypeOK, TryCandidate, CandidateSocketFails
  <2>2. QED
    BY <1>7, <2>1 DEF TryCandidate, CandidateSocketFails, Queued
<1>8. CASE ConnectSucceeds
  BY <1>8 DEF ConnectSucceeds, history, Queued
<1>9. CASE ConnectFails
  BY <1>9 DEF ConnectFails, history, Queued
<1>10. CASE NameKnown
  BY <1>10 DEF NameKnown, history, Queued
<1>11. CASE NameUnknown
  <2>1. CASE Throw("localaddr")
    BY <1>3, <2>1
  <2>2. CASE ~Throw("localaddr")
    BY <1>11, <2>2 DEF NameUnknown, history, Queued
  <2>3. QED
    BY <2>1, <2>2
<1>12. CASE StartIo
  BY <1>12 DEF StartIo, history, Queued
<1>13. CASE DestroyClient
  BY <1>13 DEF DestroyClient, history, Queued
<1>14. CASE UNCHANGED vars
  BY <1>14 DEF vars, local, history, Queued
<1>15. QED
  BY <1>1, <1>2, <1>4, <1>5, <1>6, <1>7, <1>8, <1>9, <1>10, <1>11, <1>12, <1>13, <1>14
     DEF Next, Constructor

\* Whatever fails in between, an attempt that gives up has passed over every
\* address of the resolver, each once and in the order of the queue: the loop
\* loses none and tries none again.
THEOREM EveryAddressIsTried == Spec => []AllTried
<1>1. Init => NothingPassedOver
  BY DEF Init, NothingPassedOver, AllTried
<1>2. TypeOK /\ NothingPassedOver /\ [Next]_vars => NothingPassedOver'
  BY LoopStep
<1>3. NothingPassedOver => AllTried
  BY DEF NothingPassedOver
<1>4. QED
  BY <1>1, <1>2, <1>3, ClientIsReady, PTL DEF Spec
=============================================================================
