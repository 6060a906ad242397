-------------------------- MODULE TcpClient_proofs --------------------------
(***************************************************************************)
(* Proofs about TcpClient, for every number of bytes, every size of the    *)
(* send buffer and every size of the receive buffer.                       *)
(***************************************************************************)
EXTENDS TcpClient, SequenceTheorems, TLAPS

----------------------------------------------------------------------------
(* The operations of the queue.                                            *)

\* The ioqueue and iorecord operations yield queues of well-formed records.
LEMMA QueueTypes ==
    ASSUME NEW q \in Seq(IoRecord), NEW r \in IoRecord, NEW n \in Nat
    PROVE  /\ PushBack(q, r) \in Seq(IoRecord)
           /\ PushFront(q, r) \in Seq(IoRecord)
           /\ AfterPop(q) \in Seq(IoRecord)
           /\ Popped(q) \in IoRecord
           /\ Advance(r, n) \in IoRecord
           /\ \A at \in Nat : NewRecord(at, n) \in IoRecord
<1>1. PushBack(q, r) \in Seq(IoRecord)
  BY DEF PushBack
<1>2. PushFront(q, r) \in Seq(IoRecord)
  <2>1. <<r>> \o q \in Seq(IoRecord)
    BY <<r>> \in Seq(IoRecord), ConcatProperties
  <2>2. QED
    BY <2>1 DEF PushFront
<1>3. AfterPop(q) \in Seq(IoRecord)
  BY DEF AfterPop
<1>4. \A at, m \in Nat : NewRecord(at, m) \in IoRecord
  BY DEF NewRecord, IoRecord
<1>5. Popped(q) \in IoRecord
  BY <1>4 DEF Popped
<1>6. Advance(r, n) \in IoRecord
  <2>1. /\ r.at \in Nat /\ r.len \in Nat /\ r.offset \in Nat
        /\ r.offset <= r.len
        /\ r = [at |-> r.at, len |-> r.len, offset |-> r.offset]
    BY DEF IoRecord
  <2> DEFINE m == IF n < Size(r) THEN n ELSE Size(r)
  <2>2. m \in Nat /\ r.offset + m <= r.len
    BY <2>1 DEF Size
  <2>3. Advance(r, n) = [at |-> r.at, len |-> r.len, offset |-> r.offset + m]
    BY <2>1, Advance(r, n) = [r EXCEPT !.offset = @ + m] DEF Advance
  <2>4. QED
    BY <2>1, <2>2, <2>3 DEF IoRecord
<1>7. QED
  BY <1>1, <1>2, <1>3, <1>4, <1>5, <1>6

\* The empty queue and the empty record are well formed.
LEMMA EmptyQueue == <<>> \in Seq(IoRecord) /\ NewRecord(0, 0) \in IoRecord
BY EmptySeq DEF NewRecord, IoRecord

\* A record lies between two positions of the stream.
LEMMA RecordPositions == \A r \in IoRecord : End(r) \in Nat /\ Ptr(r) \in Nat
<1> TAKE r \in IoRecord
<1>1. r.at \in Nat /\ r.len \in Nat /\ r.offset \in Nat
  BY DEF IoRecord
<1>2. QED
  BY <1>1 DEF End, Ptr

\* Appending the next n bytes of the stream extends what the queue covers.
LEMMA CoversPushBack ==
    ASSUME NEW q \in Seq(IoRecord), NEW from \in Nat, NEW to \in Nat, NEW n \in Nat,
           from <= to, Covers(q, from, to)
    PROVE  Covers(PushBack(q, NewRecord(to, n)), from, to + n)
<1> DEFINE r == NewRecord(to, n)
           p == Append(q, r)
<1>1. Ptr(r) = to /\ End(r) = to + n /\ Size(r) = n
  BY DEF NewRecord, Ptr, End, Size
<1>2. CASE n = 0
  BY <1>1, <1>2 DEF PushBack, IsEmpty
<1>3. CASE n > 0
  <2>1. /\ Len(p) = Len(q) + 1
        /\ p[Len(p)] = r
        /\ \A i \in 1 .. Len(q) : p[i] = q[i]
        /\ p # <<>>
    OBVIOUS
  <2>2. Len(q) \in Nat /\ (q = <<>> <=> Len(q) = 0)
    OBVIOUS
  <2>3. \A i \in 1 .. Len(q) : End(q[i]) \in Nat /\ Ptr(q[i]) \in Nat
    BY \A i \in 1 .. Len(q) : q[i] \in IoRecord, RecordPositions
  <2>4. \A i \in 1 .. Len(p) : Ptr(p[i]) < End(p[i]) /\ End(p[i]) <= to + n
    <3>1. \A i \in 1 .. Len(q) : Ptr(p[i]) < End(p[i]) /\ End(p[i]) <= to + n
      BY <2>1, <2>3 DEF Covers
    <3>2. Ptr(p[Len(p)]) < End(p[Len(p)]) /\ End(p[Len(p)]) <= to + n
      BY <1>1, <1>3, <2>1
    <3>3. QED
      BY <2>1, <2>2, <3>1, <3>2
  <2>5. \A i \in 1 .. Len(p) - 1 : End(p[i]) = Ptr(p[i + 1])
    <3> SUFFICES ASSUME NEW i \in 1 .. Len(q) PROVE End(p[i]) = Ptr(p[i + 1])
      BY <2>1
    <3>1. CASE i = Len(q)
      BY <1>1, <2>1, <2>2, <3>1 DEF Covers
    <3>2. CASE i < Len(q)
      <4>1. i \in 1 .. Len(q) - 1 /\ i + 1 \in 1 .. Len(q)
        BY <3>2
      <4>2. QED
        BY <2>1, <4>1 DEF Covers
    <3>3. QED
      BY <3>1, <3>2
  <2>6. Ptr(p[1]) = from /\ End(p[Len(p)]) = to + n
    BY <1>1, <2>1, <2>2 DEF Covers
  <2>7. Covers(p, from, to + n)
    BY <2>1, <2>4, <2>5, <2>6 DEF Covers
  <2>8. QED
    BY <1>1, <1>3, <2>7 DEF PushBack, IsEmpty
<1>4. QED
  BY <1>2, <1>3

\* Writing n bytes of the first record leaves exactly the rest of the stream.
LEMMA CoversPushFront ==
    ASSUME NEW q \in Seq(IoRecord), NEW from \in Nat, NEW to \in Nat, NEW n \in Nat,
           q # <<>>, n <= Size(Head(q)), Covers(q, from, to)
    PROVE  /\ from + n <= to
           /\ Ptr(Head(q)) = from
           /\ Covers(PushFront(Tail(q), Advance(Head(q), n)), from + n, to)
<1> DEFINE h == Head(q)
           t == Tail(q)
           r == Advance(h, n)
<1>1. /\ h = q[1] /\ h \in IoRecord
      /\ t \in Seq(IoRecord)
      /\ Len(q) \in Nat \ {0}
      /\ Len(t) = Len(q) - 1
      /\ \A i \in 1 .. Len(t) : t[i] = q[i + 1]
  OBVIOUS
<1>2. r \in IoRecord
  BY <1>1, QueueTypes
<1>3. Size(h) \in Nat
  BY <1>1 DEF Size, IoRecord
<1>4. r = [h EXCEPT !.offset = @ + n]
  BY <1>3 DEF Advance
<1>5. Ptr(r) = Ptr(h) + n /\ End(r) = End(h) /\ Size(r) = Size(h) - n
  <2>1. h \in [at : Nat, len : Nat, offset : Nat]
    BY <1>1 DEF IoRecord
  <2>2. r.at = h.at /\ r.len = h.len /\ r.offset = h.offset + n
    BY <1>4, <2>1
  <2>3. QED
    BY <2>1, <2>2 DEF Ptr, End, Size
<1>6. Ptr(h) = from /\ End(h) <= to /\ End(h) = Ptr(h) + Size(h)
  <2>1. Ptr(h) = from /\ End(h) <= to
    BY <1>1 DEF Covers
  <2>2. h.at \in Nat /\ h.len \in Nat /\ h.offset \in Nat
    BY <1>1 DEF IoRecord
  <2>3. QED
    BY <2>1, <2>2 DEF Ptr, End, Size
<1>7. from + n <= to
  BY <1>3, <1>6
<1>8. \A i \in 1 .. Len(q) : End(q[i]) \in Nat /\ Ptr(q[i]) \in Nat
  BY \A i \in 1 .. Len(q) : q[i] \in IoRecord, RecordPositions
<1>9. CASE n = Size(h)
  <2>1. PushFront(t, r) = t
    BY <1>3, <1>5, <1>9 DEF PushFront, IsEmpty
  <2>2. from + n = End(q[1])
    BY <1>1, <1>3, <1>6, <1>9
  <2>3. \A i \in 1 .. Len(t) : i + 1 \in 2 .. Len(q) /\ i \in 1 .. Len(q) - 1
    BY <1>1
  <2>4. t = <<>> <=> Len(q) = 1
    <3>1. \A s \in Seq(IoRecord) : s # <<>> => Len(s) # 0
      BY EmptySeq
    <3>2. Len(t) = 0 <=> Len(q) = 1
      BY <1>1
    <3>3. Len(<<>>) = 0
      OBVIOUS
    <3>4. QED
      BY <1>1, <3>1, <3>2, <3>3, Zenon
  <2>5. Covers(t, from + n, to)
    <3>1. CASE t = <<>>
      <4>1. Len(q) = 1
        BY <2>4, <3>1
      <4>2. to = End(q[1])
        BY <4>1 DEF Covers
      <4>3. QED
        BY <2>2, <3>1, <4>2 DEF Covers
    <3>2. CASE t # <<>>
      <4>1. Len(q) > 1 /\ Len(t) \in 1 .. Len(t)
        BY <1>1, <2>4, <3>2
      <4>2. t[1] = q[2] /\ t[Len(t)] = q[Len(q)]
        BY <1>1, <4>1
      <4>3. Ptr(t[1]) = from + n /\ End(t[Len(t)]) = to
        BY <1>1, <2>2, <4>1, <4>2 DEF Covers
      <4>4. \A i \in 1 .. Len(t) : Ptr(t[i]) < End(t[i]) /\ End(t[i]) <= to
        BY <1>1, <2>3 DEF Covers
      <4>5. \A i \in 1 .. Len(t) - 1 : End(t[i]) = Ptr(t[i + 1])
        BY <1>1, <2>3 DEF Covers
      <4>6. QED
        BY <3>2, <4>3, <4>4, <4>5 DEF Covers
    <3>3. QED
      BY <3>1, <3>2
  <2>6. QED
    BY <1>6, <1>7, <2>1, <2>5
<1>10. CASE n # Size(h)
  <2> DEFINE p == <<r>> \o t
  <2>1. PushFront(t, r) = p
    BY <1>3, <1>5, <1>10 DEF PushFront, IsEmpty
  <2>2. /\ Len(p) = Len(q)
        /\ p[1] = r
        /\ \A i \in 2 .. Len(q) : p[i] = q[i]
        /\ p # <<>>
    <3>1. Len(p) = 1 + Len(t) /\ p[1] = r /\ \A i \in 1 .. Len(t) : p[i + 1] = t[i]
      BY <1>1, <1>2, ConcatProperties
    <3>2. QED
      BY <1>1, <3>1
  <2>3. \A i \in 2 .. Len(q) : i \in 1 .. Len(q)
    BY <1>1
  <2>4. \A i \in 1 .. Len(p) : Ptr(p[i]) < End(p[i]) /\ End(p[i]) <= to
    <3>1. Ptr(r) < End(r) /\ End(r) <= to
      BY <1>3, <1>5, <1>6, <1>10
    <3>2. \A i \in 2 .. Len(q) : Ptr(q[i]) < End(q[i]) /\ End(q[i]) <= to
      BY <2>3 DEF Covers
    <3>3. QED
      BY <1>1, <2>2, <3>1, <3>2
  <2>5. \A i \in 1 .. Len(p) - 1 : End(p[i]) = Ptr(p[i + 1])
    <3> SUFFICES ASSUME NEW i \in 1 .. Len(q) - 1
                 PROVE  End(p[i]) = Ptr(p[i + 1])
      BY <2>2
    <3>1. i + 1 \in 2 .. Len(q) /\ End(q[i]) = Ptr(q[i + 1])
      BY <1>1 DEF Covers
    <3>2. End(p[i]) = End(q[i])
      BY <1>1, <1>5, <2>2
    <3>3. QED
      BY <2>2, <3>1, <3>2
  <2>6. Ptr(p[1]) = from + n /\ End(p[Len(p)]) = to
    <3>1. End(q[Len(q)]) = to
      BY DEF Covers
    <3>2. CASE Len(q) = 1
      BY <1>1, <1>5, <1>6, <2>2, <3>1, <3>2
    <3>3. CASE Len(q) > 1
      BY <1>1, <1>5, <1>6, <2>2, <3>1, <3>3
    <3>4. QED
      BY <1>1, <3>2, <3>3
  <2>7. Covers(p, from + n, to)
    BY <2>2, <2>4, <2>5, <2>6 DEF Covers
  <2>8. QED
    BY <1>6, <1>7, <2>1, <2>7
<1>11. QED
  BY <1>9, <1>10

----------------------------------------------------------------------------
(* Type correctness.                                                       *)

LEMMA InitTypes ==
    ASSUME Init
    PROVE  TypeOK
<1> USE BoundsAssumption DEF BoundsAssumption
<1>1. queue \in Seq(IoRecord) /\ wire \in Seq(Nat)
  BY EmptyQueue, <<>> \in Seq(Nat), Zenon DEF Init
<1>2. revents \in SUBSET Events /\ interest \in SUBSET Events
  BY DEF Init, Events
<1>3. /\ space \in 0 .. SndBuf /\ inbox \in Nat
      /\ peerSent \in 0 .. MaxIn /\ accepted \in Nat
  BY DEF Init
<1>4. pc \in Places
  BY DEF Init, Places
<1>5. /\ life \in {"alive", "dead"}
      /\ outcome \in {"running", "threw", "aborted"}
      /\ active \in BOOLEAN /\ hasCb \in BOOLEAN
      /\ fin \in BOOLEAN /\ reset \in BOOLEAN
  BY DEF Init
<1>6. QED
  BY <1>1, <1>2, <1>3, <1>4, <1>5, Zenon DEF TypeOK

LEMMA TypeStep ==
    ASSUME TypeOK, [Next]_vars
    PROVE  TypeOK'
<1> USE BoundsAssumption DEF BoundsAssumption
<1>1. CASE App
  <2>1. CASE SetIncommingDataCallback
    BY <2>1 DEF TypeOK, SetIncommingDataCallback, cbVars, sockVars, histVars
  <2>2. ASSUME NEW n \in 0 .. MaxBytes, WriteData(n) PROVE TypeOK'
    <3>1. queue' \in Seq(IoRecord)
      <4>1. accepted \in Nat /\ n \in Nat /\ queue \in Seq(IoRecord)
        BY DEF TypeOK
      <4>2. NewRecord(accepted, n) \in IoRecord
        BY <4>1 DEF NewRecord, IoRecord
      <4>3. QED
        BY <2>2, <4>1, <4>2, QueueTypes DEF WriteData
    <3>2. QED
      BY <2>2, <3>1 DEF TypeOK, WriteData, cbVars, sockVars, READ, WRITE, Events
  <2>3. CASE AppDestroys
    BY <2>3, EmptyQueue DEF TypeOK, AppDestroys, Destroy, cbVars, sockVars, histVars
  <2>4. QED
    BY <1>1, <2>1, <2>2, <2>3 DEF App
<1>2. CASE Environment
  <2>1. ASSUME NEW n \in 1 .. MaxIn, PeerSends(n) PROVE TypeOK'
    BY <2>1 DEF TypeOK, PeerSends, objVars, cbVars, histVars
  <2>2. CASE PeerFinishes
    BY <2>2 DEF TypeOK, PeerFinishes, objVars, cbVars, histVars
  <2>3. CASE PeerResets
    BY <2>3 DEF TypeOK, PeerResets, objVars, cbVars, histVars
  <2>4. CASE PeerDrains
    BY <2>4 DEF TypeOK, PeerDrains, objVars, cbVars, histVars
  <2>5. QED
    BY <1>2, <2>1, <2>2, <2>3, <2>4 DEF Environment
<1>3. CASE Loop
  <2>1. \A events \in SUBSET interest : Dispatch(events) => TypeOK'
    BY DEF TypeOK, Dispatch, objVars, sockVars, histVars, Places
  <2>2. CASE PollReady
    BY <2>1, <2>2 DEF PollReady, Ready
  <2>3. CASE PollSpurious
    BY <2>1, <2>3 DEF PollSpurious
  <2>4. CASE PollError
    BY <2>4 DEF TypeOK, PollError, cbVars, sockVars, histVars
  <2>5. QED
    BY <1>3, <2>2, <2>3, <2>4 DEF Loop
<1>4. CASE Recv
  <2>1. CASE RecvData
    BY <2>1 DEF TypeOK, RecvData, objVars, histVars, Places
  <2>2. CASE RecvNoCallback
    BY <2>2 DEF TypeOK, RecvNoCallback, Throw, objVars, histVars
  <2>3. CASE RecvEof
    BY <2>3, EmptyQueue DEF TypeOK, RecvEof, Destroy, sockVars, histVars, Places
  <2>4. CASE RecvFails
    BY <2>4 DEF TypeOK, RecvFails, Throw, objVars, sockVars, histVars
  <2>5. QED
    BY <1>4, <2>1, <2>2, <2>3, <2>4 DEF Recv
<1>5. CASE CallbackReturns
  BY <1>5 DEF TypeOK, CallbackReturns, ToWritePart, objVars, sockVars, histVars, Places
<1>6. CASE PushWriteQueue
  <2>1. CASE PushNothing
    BY <2>1 DEF TypeOK, PushNothing, sockVars, histVars, Places, Events, READ
  <2>2. CASE PushBytes
    <3>1. PICK n \in 1 .. space :
            /\ n <= Size(Popped(queue))
            /\ space' = space - n
            /\ wire' = wire \o [k \in 1 .. n |-> Ptr(Popped(queue)) + k]
            /\ queue' = PushFront(AfterPop(queue), Advance(Popped(queue), n))
      BY <2>2 DEF PushBytes
    <3>2. n \in Nat /\ space' \in 0 .. SndBuf
      BY <3>1 DEF TypeOK
    <3>3. Popped(queue) \in IoRecord /\ AfterPop(queue) \in Seq(IoRecord)
      BY QueueTypes, EmptyQueue DEF TypeOK
    <3>4. queue' \in Seq(IoRecord)
      BY <3>1, <3>2, <3>3, QueueTypes
    <3>5. [k \in 1 .. n |-> Ptr(Popped(queue)) + k] \in Seq(Nat)
      BY <3>2, <3>3 DEF Ptr, IoRecord
    <3>6. wire' \in Seq(Nat)
      BY <3>1, <3>5, ConcatProperties DEF TypeOK
    <3>7. QED
      BY <2>2, <3>2, <3>4, <3>6 DEF TypeOK, PushBytes, Places
  <2>3. CASE PushAgain
    <3>1. queue' \in Seq(IoRecord)
      BY <2>3, QueueTypes, EmptyQueue DEF TypeOK, PushAgain
    <3>2. QED
      BY <2>3, <3>1 DEF TypeOK, PushAgain, sockVars, histVars, Places
  <2>4. CASE PushFails
    BY <2>4 DEF TypeOK, PushFails, AfterPop, Throw, sockVars, histVars
  <2>5. QED
    BY <1>6, <2>1, <2>2, <2>3, <2>4 DEF PushWriteQueue
<1>7. CASE Rearm
  BY <1>7 DEF TypeOK, Rearm, sockVars, histVars, Places, Events, READ, WRITE
<1>8. CASE TouchFreed
  BY <1>8 DEF TypeOK, TouchFreed, objVars, sockVars, histVars
<1>9. CASE UNCHANGED vars
  BY <1>9 DEF TypeOK, vars, objVars, cbVars, sockVars, histVars
<1>10. QED
  BY <1>1, <1>2, <1>3, <1>4, <1>5, <1>6, <1>7, <1>8, <1>9 DEF Next, CbEv

\* Every reachable state is well typed; in particular no record is advanced
\* past its end and the kernel never takes more than it has room for.
THEOREM TypeCorrect == Spec => []TypeOK
BY InitTypes, TypeStep, PTL DEF Spec

----------------------------------------------------------------------------
(* The output queue and the wire.                                          *)

\* A destroyed client holds no bytes.
DeadIsEmpty == life = "dead" => queue = <<>>

\* QueueCoversUnsent alone is not inductive: it says nothing of a destroyed
\* client, from which a step of push_write_queue must not send anything.
IInv == QueueCoversUnsent /\ WireInOrder /\ DeadIsEmpty

\* A step that leaves the queue, the wire and the accepted bytes alone.
LEMMA FrameStep ==
    ASSUME IInv, UNCHANGED <<queue, accepted, wire>>, life' = life,
           outcome' = "running" => outcome = "running"
    PROVE  IInv'
BY DEF IInv, QueueCoversUnsent, WireInOrder, DeadIsEmpty, Up, Running

\* A step that destroys the client.
LEMMA DestroyStep ==
    ASSUME IInv, Destroy, UNCHANGED <<accepted, wire>>
    PROVE  IInv'
BY DEF IInv, QueueCoversUnsent, WireInOrder, DeadIsEmpty, Up, Destroy

\* write_data appends the accepted bytes behind the others.
LEMMA WriteDataStep ==
    ASSUME TypeOK, IInv, NEW n \in Nat, WriteData(n)
    PROVE  IInv'
<1>1. /\ accepted \in Nat /\ Len(wire) \in Nat /\ queue \in Seq(IoRecord)
      /\ wire \in Seq(Nat)
  BY DEF TypeOK
<1>2. Up /\ Covers(queue, Len(wire), accepted) /\ Len(wire) <= accepted
  BY DEF WriteData, AppMayCall, IInv, QueueCoversUnsent, WireInOrder, Up
<1>3. /\ queue' = PushBack(queue, NewRecord(accepted, n))
      /\ accepted' = accepted + n /\ wire' = wire
  BY DEF WriteData
<1>4. Covers(queue', Len(wire'), accepted')
  BY <1>1, <1>2, <1>3, CoversPushBack
<1>5. WireInOrder'
  BY <1>1, <1>2, <1>3 DEF IInv, WireInOrder
<1>6. DeadIsEmpty'
  BY DEF WriteData, AppMayCall, DeadIsEmpty
<1>7. QED
  BY <1>4, <1>5, <1>6 DEF IInv, QueueCoversUnsent

\* What a successful write does: the next n bytes move from the queue to the
\* wire.
LEMMA PushBytesStep ==
    ASSUME TypeOK, IInv, PushBytes
    PROVE  /\ IInv'
           /\ Up /\ Up'
           /\ accepted' = accepted
           /\ \E n \in 1 .. accepted - Len(wire) :
                 wire' = wire \o [k \in 1 .. n |-> Len(wire) + k]
<1>1. /\ accepted \in Nat /\ Len(wire) \in Nat /\ queue \in Seq(IoRecord)
      /\ wire \in Seq(Nat) /\ space \in Nat
  BY DEF TypeOK
<1>2. queue # <<>>
  BY DEF PushBytes
<1>3. Up /\ Up' /\ life' = "alive" /\ accepted' = accepted
  BY <1>2 DEF PushBytes, At, Running, Up, IInv, DeadIsEmpty, TypeOK
<1>4. Covers(queue, Len(wire), accepted)
  BY <1>3 DEF IInv, QueueCoversUnsent
<1>5. PICK n \in 1 .. space :
        /\ n <= Size(Head(queue))
        /\ wire' = wire \o [k \in 1 .. n |-> Ptr(Head(queue)) + k]
        /\ queue' = PushFront(Tail(queue), Advance(Head(queue), n))
  BY <1>2 DEF PushBytes, Popped, AfterPop
<1>6. n \in Nat /\ n > 0
  BY <1>1
<1>7. /\ Len(wire) + n <= accepted
      /\ Ptr(Head(queue)) = Len(wire)
      /\ Covers(queue', Len(wire) + n, accepted)
  BY <1>1, <1>2, <1>4, <1>5, <1>6, CoversPushFront
<1> DEFINE chunk == [k \in 1 .. n |-> Len(wire) + k]
<1>8. wire' = wire \o chunk
  BY <1>5, <1>7
<1>9. chunk \in Seq(Nat) /\ Len(chunk) = n
  BY <1>1, <1>6
<1>10. /\ Len(wire') = Len(wire) + n
       /\ \A i \in 1 .. Len(wire) + n :
             wire'[i] = IF i <= Len(wire) THEN wire[i] ELSE chunk[i - Len(wire)]
  <2> HIDE DEF chunk
  <2>1. QED
    BY <1>1, <1>8, <1>9, ConcatProperties
<1>11. QueueCoversUnsent'
  BY <1>3, <1>7, <1>10 DEF QueueCoversUnsent
<1>12. WireInOrder'
  <2>1. \A i \in 1 .. Len(wire) + n : wire'[i] = i
    <3> SUFFICES ASSUME NEW i \in 1 .. Len(wire) + n PROVE wire'[i] = i
      OBVIOUS
    <3>1. CASE i <= Len(wire)
      <4>1. i \in 1 .. Len(wire)
        BY <1>1, <1>6, <3>1
      <4>2. wire[i] = i
        BY <4>1 DEF IInv, WireInOrder
      <4>3. QED
        BY <1>10, <3>1, <4>2
    <3>2. CASE i > Len(wire)
      <4>1. i - Len(wire) \in 1 .. n
        BY <1>1, <1>6, <3>2
      <4>2. chunk[i - Len(wire)] = i
        BY <1>1, <4>1
      <4>3. QED
        BY <1>1, <1>10, <3>2, <4>2
    <3>3. QED
      BY <1>1, <1>6, <3>1, <3>2
  <2>2. QED
    BY <1>3, <1>7, <1>10, <2>1 DEF WireInOrder
<1>13. DeadIsEmpty'
  BY <1>3 DEF DeadIsEmpty
<1>14. n \in 1 .. accepted - Len(wire)
  BY <1>1, <1>6, <1>7
<1>15. QED
  BY <1>3, <1>8, <1>11, <1>12, <1>13, <1>14 DEF IInv

\* After EAGAIN the queue is what it was.
LEMMA PushAgainStep ==
    ASSUME TypeOK, IInv, PushAgain
    PROVE  IInv' /\ UNCHANGED <<accepted, wire>> /\ Up /\ Up'
<1>1. /\ queue # <<>> /\ queue \in Seq(IoRecord) /\ accepted \in Nat
      /\ Len(wire) \in Nat
  BY DEF PushAgain, TypeOK
<1>2. Up /\ Up' /\ life' = "alive" /\ UNCHANGED <<accepted, wire>>
  BY <1>1 DEF PushAgain, At, Running, Up, IInv, DeadIsEmpty, TypeOK, histVars
<1>3. Covers(queue, Len(wire), accepted)
  BY <1>2 DEF IInv, QueueCoversUnsent
<1>4. Ptr(Head(queue)) < End(Head(queue))
  BY <1>1, <1>3 DEF Covers
<1>5. Head(queue) \in [at : Nat, len : Nat, offset : Nat]
  BY <1>1 DEF IoRecord
<1>6. Size(Head(queue)) # 0
  BY <1>4, <1>5 DEF Ptr, End, Size
<1>7. queue' = <<Head(queue)>> \o Tail(queue)
  BY <1>1, <1>6 DEF PushAgain, PushFront, Popped, AfterPop, IsEmpty
<1>8. queue' = queue
  BY <1>1, <1>7, HeadTailProperties
<1>9. QED
  BY <1>2, <1>8 DEF IInv, QueueCoversUnsent, WireInOrder, DeadIsEmpty

\* A failing write takes the process down with it.
LEMMA PushFailsStep ==
    ASSUME IInv, PushFails
    PROVE  IInv' /\ UNCHANGED <<accepted, wire>> /\ ~Up'
<1>1. UNCHANGED <<life, accepted, wire>> /\ outcome' = "threw" /\ queue # <<>>
  BY DEF PushFails, Throw, histVars
<1>2. QED
  BY <1>1 DEF IInv, QueueCoversUnsent, WireInOrder, DeadIsEmpty, Up, Running

\* Every step preserves the invariant and is a step of the byte stream: only
\* write_data accepts, only a successful write delivers, and an exception, a
\* destruction or an abort fails for good.
LEMMA Step ==
    ASSUME TypeOK, IInv, [Next]_vars
    PROVE  IInv' /\ [Stream!Next]_(Stream!vars)
<1> USE BoundsAssumption DEF BoundsAssumption
<1>1. ASSUME UNCHANGED <<queue, accepted, wire, life, outcome>>
      PROVE  IInv' /\ [Stream!Next]_(Stream!vars)
  BY <1>1, FrameStep DEF Stream!vars, Up, Running
<1>2. ASSUME UNCHANGED <<accepted, wire>>, Up' => Up
      PROVE  [Stream!Next]_(Stream!vars)
  BY <1>2 DEF Stream!Next, Stream!Fail, Stream!vars, Up, Running
<1>3. CASE App
  <2>1. CASE SetIncommingDataCallback
    BY <1>1, <2>1 DEF SetIncommingDataCallback, cbVars, histVars
  <2>2. ASSUME NEW n \in 0 .. MaxBytes, WriteData(n)
        PROVE  IInv' /\ [Stream!Next]_(Stream!vars)
    <3>1. IInv'
      BY <2>2, WriteDataStep
    <3>2. Stream!Accept
      BY <2>2 DEF TypeOK, WriteData, AppMayCall, cbVars, Stream!Accept, Up, Running
    <3>3. QED
      BY <3>1, <3>2 DEF Stream!Next
  <2>3. CASE AppDestroys
    <3>1. Destroy /\ UNCHANGED <<accepted, wire>> /\ ~Up'
      BY <2>3 DEF AppDestroys, Destroy, histVars, Up
    <3>2. QED
      BY <1>2, <3>1, DestroyStep
  <2>4. QED
    BY <1>3, <2>1, <2>2, <2>3 DEF App
<1>4. CASE Environment
  BY <1>1, <1>4 DEF Environment, PeerSends, PeerFinishes, PeerResets, PeerDrains,
                    objVars, cbVars, histVars
<1>5. CASE Loop
  BY <1>1, <1>5 DEF Loop, PollReady, PollSpurious, PollError, Dispatch,
                    objVars, cbVars, histVars
<1>6. CASE Recv
  <2>1. CASE RecvData
    BY <1>1, <2>1 DEF RecvData, objVars, histVars
  <2>2. CASE RecvEof
    <3>1. Destroy /\ UNCHANGED <<accepted, wire>> /\ ~Up'
      BY <2>2 DEF RecvEof, Destroy, histVars, Up
    <3>2. QED
      BY <1>2, <3>1, DestroyStep
  <2>3. CASE RecvNoCallback \/ RecvFails
    <3>1. UNCHANGED <<queue, life, accepted, wire>> /\ outcome' = "threw"
      BY <2>3 DEF RecvNoCallback, RecvFails, Throw, objVars, histVars
    <3>2. QED
      BY <1>2, <3>1, FrameStep DEF Up, Running
  <2>4. QED
    BY <1>6, <2>1, <2>2, <2>3 DEF Recv
<1>7. CASE CallbackReturns
  BY <1>1, <1>7 DEF CallbackReturns, ToWritePart, objVars, histVars
<1>8. CASE PushWriteQueue
  <2>1. CASE PushNothing
    BY <1>1, <2>1 DEF PushNothing, histVars
  <2>2. CASE PushBytes
    <3>1. Stream!Deliver
      BY <2>2, PushBytesStep DEF Stream!Deliver
    <3>2. QED
      BY <2>2, <3>1, PushBytesStep DEF Stream!Next
  <2>3. CASE PushAgain
    BY <1>2, <2>3, PushAgainStep
  <2>4. CASE PushFails
    BY <1>2, <2>4, PushFailsStep
  <2>5. QED
    BY <1>8, <2>1, <2>2, <2>3, <2>4 DEF PushWriteQueue
<1>9. CASE Rearm
  BY <1>1, <1>9 DEF Rearm, histVars
<1>10. CASE TouchFreed
  <2>1. UNCHANGED <<queue, life, accepted, wire>> /\ outcome' = "aborted"
    BY <1>10 DEF TouchFreed, objVars, histVars
  <2>2. QED
    BY <1>2, <2>1, FrameStep DEF Up, Running
<1>11. CASE UNCHANGED vars
  BY <1>1, <1>11 DEF vars, objVars, cbVars, histVars
<1>12. QED
  BY <1>3, <1>4, <1>5, <1>6, <1>7, <1>8, <1>9, <1>10, <1>11 DEF Next, CbEv

\* The initial queue covers nothing.
LEMMA InitIInv == Init => IInv /\ Stream!Init
BY DEF Init, IInv, QueueCoversUnsent, WireInOrder, DeadIsEmpty, Covers,
       Stream!Init, Up, Running

\* The queue of a live client holds exactly the accepted bytes that the kernel
\* has not taken, whatever push_write_queue, write_data and the callback do.
THEOREM QueueIsUnsent == Spec => []QueueCoversUnsent
<1>1. TypeOK /\ IInv /\ [Next]_vars => IInv'
  BY Step
<1>2. IInv => QueueCoversUnsent
  BY DEF IInv
<1>3. QED
  BY <1>1, <1>2, InitIInv, TypeCorrect, PTL DEF Spec

\* Accepted bytes reach the wire in order, none twice and none left out.
THEOREM WireIsOrdered == Spec => []WireInOrder
<1>1. TypeOK /\ IInv /\ [Next]_vars => IInv'
  BY Step
<1>2. IInv => WireInOrder
  BY DEF IInv
<1>3. QED
  BY <1>1, <1>2, InitIInv, TypeCorrect, PTL DEF Spec

\* tcp_client implements the reliable byte stream that connection_client
\* announces, up to the first failure.
THEOREM ByteStreamRefined == Spec => ImplementsByteStream
<1>1. TypeOK /\ IInv /\ [Next]_vars => IInv' /\ [Stream!Next]_(Stream!vars)
  BY Step
<1>2. QED
  BY <1>1, InitIInv, TypeCorrect, PTL DEF Spec, ImplementsByteStream, Stream!Spec

----------------------------------------------------------------------------
(* The watcher.                                                            *)

LEMMA NoStallStep ==
    ASSUME TypeOK, NoStall, [Next]_vars
    PROVE  NoStall'
<1> SUFFICES ASSUME Up', pc' = "loop"
             PROVE  READ \in interest' /\ (queue' # <<>> => WRITE \in interest')
  BY DEF NoStall
<1>1. CASE App
  BY <1>1 DEF App, NoStall, SetIncommingDataCallback, WriteData, AppDestroys,
              Destroy, cbVars, Up, Running, READ, WRITE
<1>2. CASE Environment \/ Loop
  BY <1>2 DEF Environment, Loop, NoStall, PeerSends, PeerFinishes, PeerResets,
              PeerDrains, PollReady, PollSpurious, PollError, Dispatch,
              objVars, cbVars, Up, Running
<1>3. CASE Recv \/ CallbackReturns \/ TouchFreed
  BY <1>3 DEF Recv, RecvData, RecvNoCallback, RecvEof, RecvFails, CallbackReturns,
              TouchFreed, ToWritePart, Throw, At, Up, Running
<1>4. CASE PushWriteQueue
  BY <1>4 DEF PushWriteQueue, PushNothing, PushBytes, PushAgain, PushFails, Throw,
              Up, Running
<1>5. CASE Rearm
  BY <1>5 DEF Rearm
<1>6. CASE UNCHANGED vars
  BY <1>6 DEF NoStall, vars, objVars, cbVars, Up, Running
<1>7. QED
  BY <1>1, <1>2, <1>3, <1>4, <1>5, <1>6 DEF Next, CbEv

\* Whenever the loop polls a live client, READ is armed, and so is WRITE if
\* bytes are waiting: no interleaving of write_data with cb_ev loses it.
THEOREM NeverStalls == Spec => []NoStall
<1>1. Init => NoStall
  BY DEF Init, NoStall
<1>2. QED
  BY <1>1, NoStallStep, TypeCorrect, PTL DEF Spec
============================================================================
