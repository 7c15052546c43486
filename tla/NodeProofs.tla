----------------------------- MODULE NodeProofs -----------------------------
(***************************************************************************)
(* Proofs about Node, for any number of messages of any length.            *)
(***************************************************************************)
EXTENDS Node, TLAPS

Msgs == 1 .. MaxPush
\* The first n messages.
Count(n) == [i \in 1 .. n |-> i]

-----------------------------------------------------------------------------
(* Sequences *)

\* A message that is pushed comes last.
LEMMA PushLast ==
    ASSUME NEW s \in Seq(Msgs), NEW w \in Seq(Msgs), NEW p \in Seq(Msgs), NEW n \in Nat,
           s \o w \o p = Count(n)
    PROVE  s \o w \o Append(p, n + 1) = Count(n + 1)
  <1> DEFINE l == s \o w
  <1>1. l \in Seq(Msgs) /\ l \o p = Count(n)
    OBVIOUS
  <1> HIDE DEF l
  <1>2. l \o Append(p, n + 1) = Append(l \o p, n + 1)
    BY <1>1
  <1>3. Append(Count(n), n + 1) = Count(n + 1)
    BY DEF Count
  <1> QED
    BY <1>1, <1>2, <1>3 DEF l

\* Concatenation is associative.
LEMMA Associative ==
    \A s, t, u \in Seq(Msgs) : s \o t \o u = s \o (t \o u)
  OBVIOUS

\* Moving a message from the front of one queue to the end of the one before it
\* leaves their concatenation alone.
LEMMA MoveFront ==
    ASSUME NEW s \in Seq(Msgs), NEW w \in Seq(Msgs), w # <<>>
    PROVE  Append(s, Head(w)) \o Tail(w) = s \o w
  OBVIOUS
-----------------------------------------------------------------------------
(* The inductive invariant *)

\* While the node is being opened it is in the cache or closed, and there is
\* room for the header that is being read.
Support ==
    /\ opener # "new" /\ ~inCache => isDisconnect
    /\ reading = "header" => HEADER_SIZE <= dataSize

IInv == TypeOK /\ SentInOrder /\ WriterRuns /\ DeadlineWatched /\ BodyFits /\ Support

Queues == SentInOrder /\ WriterRuns
Others == DeadlineWatched /\ BodyFits /\ Support

\* PushMessage and the handler that it posts keep the order.
LEMMA PushKeepsOrder ==
    ASSUME TypeOK, Queues, PushMessage, isDisconnect' = isDisconnect
    PROVE  Queues'
  <1>1. /\ posted \in Seq(Msgs) /\ writeNetMessages \in Seq(Msgs) /\ sent \in Seq(Msgs)
        /\ pushed \in Nat
    BY DEF TypeOK, Msgs
  <1>2. sent \o writeNetMessages \o Append(posted, pushed + 1) = Count(pushed + 1)
    <2>1. sent \o writeNetMessages \o posted = Count(pushed)
      BY DEF Queues, SentInOrder, Count
    <2> QED
      BY <1>1, <2>1, PushLast
  <1> QED
    BY <1>2 DEF Queues, SentInOrder, WriterRuns, PushMessage, Count

LEMMA QueueKeepsOrder ==
    ASSUME TypeOK, Queues, QueueMessage
    PROVE  Queues'
  <1>1. posted \in Seq(Msgs) /\ writeNetMessages \in Seq(Msgs) /\ sent \in Seq(Msgs)
    BY DEF TypeOK, Msgs
  <1>2. Append(writeNetMessages, Head(posted)) \o Tail(posted) = writeNetMessages \o posted
    BY <1>1, MoveFront DEF QueueMessage
  <1>3. writeNetMessages' \in Seq(Msgs) /\ posted' \in Seq(Msgs) /\ writeNetMessages' # <<>>
    BY <1>1 DEF QueueMessage
  <1>4. sent \o writeNetMessages' \o posted' = sent \o (writeNetMessages' \o posted')
    BY <1>1, <1>3, Associative, Zenon
  <1>5. sent \o writeNetMessages \o posted = sent \o (writeNetMessages \o posted)
    BY <1>1
  <1>6. SentInOrder'
    BY <1>2, <1>4, <1>5 DEF Queues, SentInOrder, QueueMessage
  <1>7. WriterRuns'
    BY <1>3 DEF Queues, WriterRuns, QueueMessage, nodeVars
  <1> QED
    BY <1>6, <1>7 DEF Queues

LEMMA WriteKeepsOrder ==
    ASSUME TypeOK, Queues, Written
    PROVE  Queues'
  <1>1. posted \in Seq(Msgs) /\ writeNetMessages \in Seq(Msgs) /\ sent \in Seq(Msgs)
    BY DEF TypeOK, Msgs
  <1>2. writeNetMessages # <<>>
    BY DEF Written, Queues, WriterRuns
  <1>3. Append(sent, Head(writeNetMessages)) \o Tail(writeNetMessages)
            = sent \o writeNetMessages
    BY <1>1, <1>2, MoveFront
  <1>4. SentInOrder'
    BY <1>3 DEF Queues, SentInOrder, Written
  <1>5. WriterRuns'
    BY DEF Queues, WriterRuns, Written, nodeVars
  <1> QED
    BY <1>4, <1>5 DEF Queues

\* Steps that leave the queues alone.
LEMMA ClosingKeepsOrder ==
    ASSUME Queues, UNCHANGED <<posted, writeNetMessages, sent, pushed>>,
           writing' = writing \/ (isDisconnect' /\ ~writing'),
           isDisconnect => isDisconnect'
    PROVE  Queues'
  BY DEF Queues, SentInOrder, WriterRuns

LEMMA QueuesStep == TypeOK /\ Queues /\ Next => Queues'
  <1> SUFFICES ASSUME TypeOK, Queues, Next PROVE Queues'
    OBVIOUS
  <1>1. CASE Connected \/ Reply \/ Broadcast
    BY <1>1, PushKeepsOrder DEF Connected, Reply, Broadcast, nodeVars
  <1>2. CASE QueueMessage
    BY <1>2, QueueKeepsOrder
  <1>3. CASE Written
    BY <1>3, WriteKeepsOrder
  <1>4. CASE WriteFails
    BY <1>4, ClosingKeepsOrder DEF WriteFails, Disconnect
  <1>5. CASE OpenStep \/ CheckDeadline \/ ReadStep
    BY <1>5, ClosingKeepsOrder
    DEF OpenStep, OpenNode, OpenConnectFails, OpenConnect, CheckDeadline, ReadStep,
        ReadEmpty, ReadHeader, ReadTooLong, ReadBody, ReadLate, ReadFails, Disconnect,
        nodeVars, writeVars
  <1>6. CASE ConnectFails \/ TakeMessage \/ DisconnectTest \/ DisconnectSet \/ Release
             \/ Stop \/ Expire
    BY <1>6, ClosingKeepsOrder
    DEF ConnectFails, TakeMessage, DisconnectTest, DisconnectSet, Release, Stop, Expire,
        Disconnect, nodeVars, writeVars
  <1> QED
    BY <1>1, <1>2, <1>3, <1>4, <1>5, <1>6
    DEF Next, ConnectStep, WriteStep, MessageStep
-----------------------------------------------------------------------------
(* Types *)

LEMMA PushType ==
    ASSUME TypeOK, PushMessage
    PROVE  /\ posted' \in Seq(Msgs) /\ writeNetMessages' \in Seq(Msgs) /\ sent' \in Seq(Msgs)
           /\ writing' = writing /\ pushed' \in 0 .. MaxPush
  <1>1. pushed + 1 \in Msgs
    BY NodeAssumption DEF TypeOK, PushMessage, Msgs
  <1>2. posted \in Seq(Msgs) /\ writeNetMessages \in Seq(Msgs) /\ sent \in Seq(Msgs)
    BY DEF TypeOK, Msgs
  <1>3. pushed' \in 0 .. MaxPush
    BY <1>1 DEF PushMessage, Msgs
  <1> QED
    BY <1>1, <1>2, <1>3 DEF PushMessage

LEMMA DoReadHeaderType ==
    ASSUME TypeOK, DoReadHeader
    PROVE  /\ reading' \in {"none", "header"} /\ dataSize' \in Nat
           /\ bodySize' = bodySize /\ waiting' = waiting
           /\ woken' \in BOOLEAN /\ expired' \in BOOLEAN
  <1>1. dataSize \in Nat /\ woken \in BOOLEAN /\ expired \in BOOLEAN
    BY DEF TypeOK
  <1>2. CASE isDisconnect
    BY <1>1, <1>2 DEF DoReadHeader, timeVars
  <1>3. CASE ~isDisconnect
    <2>1. dataSize' = Resize(HEADER_SIZE) /\ dataSize' \in Nat
      BY <1>1, <1>3 DEF DoReadHeader, Resize, HEADER_SIZE
    <2> QED
      BY <1>3, <2>1 DEF DoReadHeader, ExpiresFromNow
  <1> QED
    BY <1>2, <1>3

LEMMA ProcessType ==
    ASSUME TypeOK, ProcessMessages
    PROVE  inbox' \in Seq(Kinds) /\ handler' = handler /\ received' \in 0 .. MaxReceived
  <1>1. inbox' \in Seq(Kinds)
    <2>1. inbox \in Seq(Kinds)
      BY DEF TypeOK
    <2>2. CASE inCache
      <3>1. PICK k \in Kinds : inbox' = Append(inbox, k)
        BY <2>2 DEF ProcessMessages
      <3> QED
        BY <2>1, <3>1
    <2>3. CASE ~inCache
      BY <2>1, <2>3 DEF ProcessMessages
    <2> QED
      BY <2>2, <2>3
  <1>2. received' \in 0 .. MaxReceived
    BY NodeAssumption DEF TypeOK, ProcessMessages
  <1> QED
    BY <1>1, <1>2 DEF ProcessMessages

LEMMA DisconnectType ==
    ASSUME TypeOK, NEW r \in BOOLEAN, Disconnect(r)
    PROVE  isDisconnect' \in BOOLEAN /\ inCache' \in BOOLEAN
  BY DEF TypeOK, Disconnect

LEMMA TypeStep == TypeOK /\ WriterRuns /\ Next => TypeOK'
  <1> SUFFICES ASSUME TypeOK, WriterRuns, Next PROVE TypeOK'
    OBVIOUS
  <1> USE DEF linkVars, nodeVars, readVars, timeVars, writeVars, msgVars
  <1>1. CASE OpenStep
    BY <1>1 DEF TypeOK, OpenStep, OpenNode, OpenConnectFails, OpenConnect, ExpiresFromNow
  <1>2. CASE Connected
    BY <1>2, PushType, DoReadHeaderType DEF Connected, TypeOK, Msgs
  <1>3. CASE ConnectFails
    BY <1>3, DisconnectType DEF ConnectFails, TypeOK
  <1>4. CASE CheckDeadline
    BY <1>4, DisconnectType DEF CheckDeadline, TypeOK
  <1>5. CASE ReadEmpty \/ ReadBody
    BY <1>5, ProcessType, DoReadHeaderType DEF ReadEmpty, ReadBody, TypeOK
  <1>6. CASE ReadHeader
    <2>1. bodySize' \in 0 .. MaxLength /\ dataSize' \in Nat
      BY <1>6, NodeAssumption DEF ReadHeader, AcceptedSizes, Grow, Resize, TypeOK
    <2> QED
      BY <1>6, <2>1 DEF ReadHeader, TypeOK
  <1>7. CASE ReadTooLong \/ ReadFails \/ ReadLate
    BY <1>7, DisconnectType DEF ReadTooLong, ReadFails, ReadLate, TypeOK
  <1>8. CASE QueueMessage
    <2>1. posted \in Seq(Msgs) /\ writeNetMessages \in Seq(Msgs) /\ posted # <<>>
      BY <1>8 DEF QueueMessage, TypeOK, Msgs
    <2>2. Tail(posted) \in Seq(Msgs) /\ Append(writeNetMessages, Head(posted)) \in Seq(Msgs)
      BY <2>1
    <2> QED
      BY <1>8, <2>2 DEF QueueMessage, TypeOK, Msgs
  <1>9. CASE Written
    <2>1. /\ sent \in Seq(Msgs) /\ writeNetMessages \in Seq(Msgs)
          /\ writeNetMessages # <<>>
      BY <1>9 DEF Written, TypeOK, Msgs, WriterRuns
    <2>2. /\ Append(sent, Head(writeNetMessages)) \in Seq(Msgs)
          /\ Tail(writeNetMessages) \in Seq(Msgs)
      BY <2>1
    <2> QED
      BY <1>9, <2>2 DEF Written, TypeOK, Msgs
  <1>10. CASE WriteFails
    BY <1>10, DisconnectType DEF WriteFails, TypeOK
  <1>11. CASE TakeMessage
    <2>1. inbox' \in Seq(Kinds) /\ Head(inbox) \in Kinds
      BY <1>11 DEF TakeMessage, TypeOK
    <2> QED
      BY <1>11, <2>1 DEF TakeMessage, TypeOK
  <1>12. CASE Reply
    BY <1>12, PushType DEF Reply, TypeOK, Msgs, Kinds
  <1>13. CASE DisconnectTest \/ DisconnectSet \/ Release
    BY <1>13 DEF DisconnectTest, DisconnectSet, Release, TypeOK, Kinds
  <1>14. CASE Broadcast
    BY <1>14, PushType DEF Broadcast, TypeOK, Msgs
  <1>15. CASE Stop \/ Expire
    BY <1>15, DisconnectType DEF Stop, Expire, TypeOK
  <1> QED
    BY <1>1, <1>2, <1>3, <1>4, <1>5, <1>6, <1>7, <1>8, <1>9, <1>10, <1>11, <1>12, <1>13,
       <1>14, <1>15
    DEF Next, ConnectStep, ReadStep, WriteStep, MessageStep
-----------------------------------------------------------------------------
(* Deadline, buffer and cache *)

LEMMA OthersStep == TypeOK /\ Others /\ Next => Others'
  <1> SUFFICES ASSUME TypeOK, Others, Next PROVE Others'
    OBVIOUS
  <1> USE DEF linkVars, nodeVars, readVars, timeVars, Others
  <1>1. DeadlineWatched'
    <2>1. CASE OpenStep \/ ConnectStep \/ CheckDeadline
      BY <2>1
      DEF DeadlineWatched, OpenStep, OpenNode, OpenConnectFails, OpenConnect, ConnectStep,
          Connected, ConnectFails, CheckDeadline, DoReadHeader, Disconnect
    <2>2. CASE ReadStep
      BY <2>2
      DEF DeadlineWatched, ReadStep, ReadEmpty, ReadHeader, ReadTooLong, ReadBody, ReadLate,
          ReadFails, DoReadHeader, Disconnect
    <2>3. CASE QueueMessage \/ WriteStep \/ MessageStep \/ Broadcast \/ Stop \/ Expire
      BY <2>3
      DEF DeadlineWatched, QueueMessage, WriteStep, Written, WriteFails, MessageStep,
          TakeMessage, Reply, DisconnectTest, DisconnectSet, Release, Broadcast, Stop,
          Expire, Disconnect
    <2> QED
      BY <2>1, <2>2, <2>3 DEF Next
  <1>2. BodyFits' /\ (reading' = "header" => HEADER_SIZE <= dataSize')
    <2>1. CASE ReadHeader
      <3>1. PICK n \in AcceptedSizes : bodySize' = n /\ dataSize' = Grow(n)
        BY <2>1 DEF ReadHeader
      <3>2. HEADER_SIZE <= dataSize /\ dataSize \in Nat /\ n \in Nat
        BY <2>1, NodeAssumption DEF ReadHeader, Support, TypeOK, AcceptedSizes
      <3>3. dataSize' = dataSize + n
        BY <2>1, <3>1, <3>2 DEF Grow, Resize
      <3> QED
        BY <2>1, <3>1, <3>2, <3>3 DEF ReadHeader, BodyFits, HEADER_SIZE
    <2>2. CASE DoReadHeader
      <3>1. dataSize \in Nat
        BY DEF TypeOK
      <3> QED
        BY <2>2, <3>1 DEF DoReadHeader, Resize, HEADER_SIZE, BodyFits
    <2>3. CASE ReadTooLong \/ ReadLate \/ ReadFails
      BY <2>3 DEF ReadTooLong, ReadLate, ReadFails, BodyFits
    <2>4. CASE UNCHANGED readVars
      BY <2>4 DEF BodyFits, Support
    <2> QED
      BY <2>1, <2>2, <2>3, <2>4
      DEF Next, OpenStep, OpenNode, OpenConnectFails, OpenConnect, ConnectStep, Connected,
          ConnectFails, CheckDeadline, ReadStep, ReadEmpty, ReadBody, QueueMessage,
          WriteStep, Written, WriteFails, MessageStep, TakeMessage, Reply, DisconnectTest,
          DisconnectSet, Release, Broadcast, Stop, Expire
  <1>3. opener' # "new" /\ ~inCache' => isDisconnect'
    <2>1. CASE OpenStep \/ ConnectStep \/ CheckDeadline
      BY <2>1
      DEF Support, OpenStep, OpenNode, OpenConnectFails, OpenConnect, ConnectStep,
          Connected, ConnectFails, CheckDeadline, Disconnect
    <2>2. CASE ReadStep
      BY <2>2
      DEF Support, ReadStep, ReadEmpty, ReadHeader, ReadTooLong, ReadBody, ReadLate,
          ReadFails, Disconnect
    <2>3. CASE QueueMessage \/ WriteStep \/ MessageStep \/ Broadcast \/ Stop \/ Expire
      BY <2>3
      DEF Support, QueueMessage, WriteStep, Written, WriteFails, MessageStep, TakeMessage,
          Reply, DisconnectTest, DisconnectSet, Release, Broadcast, Stop, Expire, Disconnect
    <2> QED
      BY <2>1, <2>2, <2>3 DEF Next
  <1> QED
    BY <1>1, <1>2, <1>3 DEF Support
-----------------------------------------------------------------------------
(* The theorems *)

\* The inductive invariant holds in every reachable state.
THEOREM Invariance == Spec => []IInv
  <1>1. Init => IInv
    <2> SUFFICES ASSUME Init PROVE IInv
      OBVIOUS
    <2>1. TypeOK
      <3>1. {posted, writeNetMessages, sent} \subseteq Seq(1 .. MaxPush) /\ inbox \in Seq(Kinds)
        BY DEF Init
      <3>2. /\ dataSize \in Nat /\ bodySize \in 0 .. MaxLength
            /\ pushed \in 0 .. MaxPush /\ received \in 0 .. MaxReceived
        BY NodeAssumption DEF Init
      <3> QED
        BY <3>1, <3>2 DEF Init, TypeOK
    <2>2. SentInOrder
      BY DEF Init, SentInOrder
    <2>3. WriterRuns /\ DeadlineWatched /\ BodyFits /\ Support
      BY DEF Init, WriterRuns, DeadlineWatched, BodyFits, Support
    <2> QED
      BY <2>1, <2>2, <2>3 DEF IInv
  <1>2. IInv /\ [Next]_vars => IInv'
    <2>1. IInv /\ Next => IInv'
      BY TypeStep, QueuesStep, OthersStep DEF IInv, Queues, Others
    <2>2. IInv /\ UNCHANGED vars => IInv'
      BY DEF vars, linkVars, nodeVars, readVars, timeVars, writeVars, msgVars, IInv, TypeOK,
         SentInOrder, WriterRuns, DeadlineWatched, BodyFits, Support
    <2> QED
      BY <2>1, <2>2
  <1> QED
    BY <1>1, <1>2, PTL DEF Spec

\* No message to the peer is lost, repeated or overtaken, at every moment the right
\* number of writes is outstanding, and a body is read into the buffer.
THEOREM TrafficCorrect == Spec => []TrafficSound
  BY Invariance, PTL DEF IInv, TrafficSound

\* The deadline is watched as long as the connection lasts, and a node that leaves the
\* cache is closed.
THEOREM ClosingCorrect == Spec => []ClosingSound
  <1>1. IInv => ClosingSound
    BY DEF IInv, Support, RemovedIsClosed, ClosingSound
  <1> QED
    BY <1>1, Invariance, PTL
=============================================================================
