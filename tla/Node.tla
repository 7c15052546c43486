-------------------------------- MODULE Node --------------------------------
(***************************************************************************)
(* A connection to a peer (Node), its entry in NodeCache, and the threads  *)
(* that use it: the one that opens it (NetMan::OpenNode), the one that     *)
(* runs every completion handler (_sockerAsioWorker), the one that handles *)
(* messages (PeerLogicMan), the miner that broadcasts, and NetMan::Stop.   *)
(*                                                                         *)
(* A handler is one step: it looks at _isDisconnect once, and an operation *)
(* that it starts on a socket closed in between completes with an error,   *)
(* as one that was outstanding does.  An outstanding operation of a closed *)
(* socket may also still succeed, if it had completed before the close.    *)
(*                                                                         *)
(* Messages to the peer are numbers, in the order of PushMessage.  Sizes   *)
(* are counted in units of a header.                                       *)
(***************************************************************************)
EXTENDS Integers, Sequences

CONSTANTS
    MaxLength,      \* MAX_PROTOCOL_MESSAGE_LENGTH
    MaxPush,        \* bound on messages pushed
    MaxReceived     \* bound on messages received

ASSUME NodeAssumption ==
    /\ MaxLength \in Nat \ {0}
    /\ MaxPush \in Nat
    /\ MaxReceived \in Nat

HEADER_SIZE == 1

\* What the handling of a received message does to the node.
Kinds == {"quiet", "reply", "oversize"}

VARIABLES
    opener,             \* the call of OpenNode: "new", "made" or "done"
    conn,               \* "none", "connecting" (async_connect outstanding), "open"
    isDisconnect,       \* _isDisconnect
    inCache,            \* whether NodeCache holds the node
    reading,            \* the async_read outstanding: "none", "header", "body"
    dataSize,           \* size of _readCacheNetMessage
    bodySize,           \* size of the body being read
    waiting,            \* whether the deadline's async_wait is outstanding
    woken,              \* whether its handler is due since the deadline was moved
    expired,            \* whether the deadline has passed
    posted,             \* messages posted to the socket thread
    writeNetMessages,   \* _writeNetMessages
    writing,            \* whether an async_write is outstanding
    sent,               \* messages written
    pushed,             \* messages pushed
    inbox,              \* messages posted to the message thread
    handler,            \* what the message thread is about to do
    received,           \* messages received
    stopped             \* whether NetMan::Stop was called

linkVars  == <<opener, conn>>
nodeVars  == <<isDisconnect, inCache>>
readVars  == <<reading, dataSize, bodySize>>
timeVars  == <<waiting, woken, expired>>
writeVars == <<posted, writeNetMessages, writing, sent, pushed>>
msgVars   == <<inbox, handler, received>>
vars      == <<linkVars, nodeVars, readVars, timeVars, writeVars, msgVars, stopped>>

Init ==
    /\ opener = "new" /\ conn = "none"
    /\ isDisconnect = FALSE /\ inCache = FALSE
    /\ reading = "none" /\ dataSize = 0 /\ bodySize = 0
    /\ waiting = FALSE /\ woken = FALSE /\ expired = FALSE
    /\ posted = <<>> /\ writeNetMessages = <<>> /\ writing = FALSE
    /\ sent = <<>> /\ pushed = 0
    /\ inbox = <<>> /\ handler = "idle" /\ received = 0
    /\ stopped = FALSE
-----------------------------------------------------------------------------
(* The parts of handlers *)

\* The cache, the call of OpenNode and the message thread share the node; all
\* handlers have a plain pointer to it.
Alive == opener = "made" \/ inCache \/ handler # "idle"

\* Mutated form: the flag is not set.
DisconnectUnset(removeNode) ==
    /\ isDisconnect' = isDisconnect
    /\ inCache' = (inCache /\ (isDisconnect \/ ~removeNode))

\* Disconnect: closes once; completions follow in steps of their own.
Disconnect(removeNode) ==
    /\ isDisconnect' = TRUE
    /\ inCache' = (inCache /\ (isDisconnect \/ ~removeNode))

\* expires_from_now: the outstanding wait completes.
ExpiresFromNow ==
    /\ woken' = TRUE
    /\ expired' = FALSE

Resize(n) == IF dataSize < n THEN n ELSE dataSize

\* DoReadHeader
DoReadHeader ==
    IF isDisconnect
    THEN /\ reading' = "none"
         /\ UNCHANGED <<dataSize, bodySize, timeVars>>
    ELSE /\ reading' = "header"
         /\ dataSize' = Resize(HEADER_SIZE)
         /\ ExpiresFromNow
         /\ UNCHANGED <<bodySize, waiting>>

\* PushMessage, from any thread.
PushMessage ==
    /\ pushed < MaxPush
    /\ pushed' = pushed + 1
    /\ posted' = Append(posted, pushed + 1)
    /\ UNCHANGED <<writeNetMessages, writing, sent>>

\* ProcessMessages: a copy of the message goes to the message thread, unless
\* the node has left the cache.
ProcessMessages ==
    /\ received < MaxReceived
    /\ received' = received + 1
    /\ IF inCache THEN \E k \in Kinds : inbox' = Append(inbox, k) ELSE UNCHANGED inbox
    /\ UNCHANGED handler
-----------------------------------------------------------------------------
(* The thread that opens connections *)

\* MakeNode and PushNode
OpenNode ==
    /\ opener = "new"
    /\ opener' = "made"
    /\ inCache' = TRUE
    /\ UNCHANGED <<conn, isDisconnect, readVars, timeVars, writeVars, msgVars, stopped>>

\* OpenConnect, when the name is not resolved.
OpenConnectFails ==
    /\ opener = "made"
    /\ opener' = "done"
    /\ waiting' = TRUE
    /\ UNCHANGED <<conn, nodeVars, readVars, woken, expired, writeVars, msgVars, stopped>>

OpenConnect ==
    /\ opener = "made"
    /\ opener' = "done"
    /\ conn' = "connecting"
    /\ waiting' = TRUE
    /\ ExpiresFromNow
    /\ UNCHANGED <<nodeVars, readVars, writeVars, msgVars, stopped>>
-----------------------------------------------------------------------------
(* The socket thread *)

\* async_connect succeeds: the first read, and Initialize pushes VERSION.
Connected ==
    /\ Alive
    /\ conn = "connecting"
    /\ conn' = "open"
    /\ DoReadHeader
    /\ PushMessage
    /\ UNCHANGED <<opener, nodeVars, msgVars, stopped>>

\* async_connect fails; after a cancellation nothing is left to do.
ConnectFails ==
    /\ Alive
    /\ conn = "connecting"
    /\ conn' = "none"
    /\ IF isDisconnect THEN UNCHANGED nodeVars ELSE Disconnect(TRUE)
    /\ UNCHANGED <<opener, readVars, timeVars, writeVars, msgVars, stopped>>

\* Mutated form: the deadline is waited for once.
CheckDeadlineOnce ==
    /\ Alive
    /\ waiting
    /\ woken \/ expired \/ isDisconnect
    /\ woken' = FALSE
    /\ waiting' = FALSE
    /\ IF ~isDisconnect /\ expired THEN Disconnect(TRUE) ELSE UNCHANGED nodeVars
    /\ UNCHANGED <<linkVars, readVars, expired, writeVars, msgVars, stopped>>

\* CheckDeadline: the wait has completed, because the deadline passed, was
\* moved, or was cancelled by Disconnect.
CheckDeadline ==
    /\ Alive
    /\ waiting
    /\ woken \/ expired \/ isDisconnect
    /\ woken' = FALSE
    /\ waiting' = (~isDisconnect /\ ~expired)
    /\ IF ~isDisconnect /\ expired THEN Disconnect(TRUE) ELSE UNCHANGED nodeVars
    /\ UNCHANGED <<linkVars, readVars, expired, writeVars, msgVars, stopped>>

\* A header without a body is a message.
ReadEmpty ==
    /\ Alive
    /\ reading = "header"
    /\ ~isDisconnect
    /\ ProcessMessages
    /\ DoReadHeader
    /\ UNCHANGED <<linkVars, nodeVars, writeVars, stopped>>

\* Room for a body of n is added to what the buffer has.
Grow(n) == Resize(dataSize + n)

\* The sizes that DoReadBody lets pass.
AcceptedSizes == 1 .. MaxLength

\* A header announces a body: DoReadBody.
ReadHeader ==
    /\ Alive
    /\ reading = "header"
    /\ ~isDisconnect
    /\ \E n \in AcceptedSizes :
          /\ bodySize' = n
          /\ dataSize' = Grow(n)
    /\ reading' = "body"
    /\ UNCHANGED <<linkVars, nodeVars, timeVars, writeVars, msgVars, stopped>>

\* DoReadBody refuses the size.
ReadTooLong ==
    /\ Alive
    /\ reading = "header"
    /\ ~isDisconnect
    /\ reading' = "none"
    /\ Disconnect(TRUE)
    /\ UNCHANGED <<linkVars, dataSize, bodySize, timeVars, writeVars, msgVars, stopped>>

ReadBody ==
    /\ Alive
    /\ reading = "body"
    /\ ~isDisconnect
    /\ ProcessMessages
    /\ DoReadHeader
    /\ UNCHANGED <<linkVars, nodeVars, writeVars, stopped>>

\* A read completes after Disconnect.
ReadLate ==
    /\ Alive
    /\ reading # "none"
    /\ isDisconnect
    /\ reading' = "none"
    /\ UNCHANGED <<linkVars, nodeVars, dataSize, bodySize, timeVars, writeVars, msgVars,
                   stopped>>

ReadFails ==
    /\ Alive
    /\ reading # "none"
    /\ reading' = "none"
    /\ Disconnect(TRUE)
    /\ UNCHANGED <<linkVars, dataSize, bodySize, timeVars, writeVars, msgVars, stopped>>

\* Mutated form: the message goes to the front of the queue.
QueueMessageFront ==
    /\ Alive
    /\ posted # <<>>
    /\ posted' = Tail(posted)
    /\ writeNetMessages' = <<Head(posted)>> \o writeNetMessages
    /\ writing' = (writing \/ (writeNetMessages = <<>> /\ ~isDisconnect))
    /\ UNCHANGED <<sent, pushed, linkVars, nodeVars, readVars, timeVars, msgVars, stopped>>

\* Mutated form: the test for an idle queue comes after the push, and fails.
QueueMessageLate ==
    /\ Alive
    /\ posted # <<>>
    /\ posted' = Tail(posted)
    /\ writeNetMessages' = Append(writeNetMessages, Head(posted))
    /\ UNCHANGED <<writing, sent, pushed, linkVars, nodeVars, readVars, timeVars, msgVars,
                   stopped>>

\* The handler that PushMessage posts; the first in the queue starts a write.
QueueMessage ==
    /\ Alive
    /\ posted # <<>>
    /\ posted' = Tail(posted)
    /\ writeNetMessages' = Append(writeNetMessages, Head(posted))
    /\ writing' = (writing \/ (writeNetMessages = <<>> /\ ~isDisconnect))
    /\ UNCHANGED <<sent, pushed, linkVars, nodeVars, readVars, timeVars, msgVars, stopped>>

\* The handler of DoWrite; the next in the queue starts a write.
Written ==
    /\ Alive
    /\ writing
    /\ sent' = Append(sent, Head(writeNetMessages))
    /\ writeNetMessages' = Tail(writeNetMessages)
    /\ writing' = (Tail(writeNetMessages) # <<>> /\ ~isDisconnect)
    /\ UNCHANGED <<posted, pushed, linkVars, nodeVars, readVars, timeVars, msgVars, stopped>>

WriteFails ==
    /\ Alive
    /\ writing
    /\ writing' = FALSE
    /\ Disconnect(TRUE)
    /\ UNCHANGED <<posted, writeNetMessages, sent, pushed, linkVars, readVars, timeVars,
                   msgVars, stopped>>
-----------------------------------------------------------------------------
(* The message thread *)

\* ProcessMessageHandler looks the node up, and holds it until it returns.
TakeMessage ==
    /\ handler = "idle"
    /\ inbox # <<>>
    /\ inbox' = Tail(inbox)
    /\ handler' = IF inCache THEN Head(inbox) ELSE "idle"
    /\ UNCHANGED <<linkVars, nodeVars, readVars, timeVars, writeVars, received, stopped>>

Reply ==
    /\ handler = "reply"
    /\ handler' = "quiet"
    /\ PushMessage
    /\ UNCHANGED <<linkVars, nodeVars, readVars, timeVars, inbox, received, stopped>>

\* Disconnect after an INV that is too long: the test of _isDisconnect ...
DisconnectTest ==
    /\ handler = "oversize"
    /\ handler' = IF isDisconnect THEN "quiet" ELSE "closing"
    /\ UNCHANGED <<linkVars, nodeVars, readVars, timeVars, writeVars, inbox, received,
                   stopped>>

\* ... and what follows it, whatever the socket thread did in between.
DisconnectSet ==
    /\ handler = "closing"
    /\ handler' = "quiet"
    /\ isDisconnect' = TRUE
    /\ inCache' = FALSE
    /\ UNCHANGED <<linkVars, readVars, timeVars, writeVars, inbox, received, stopped>>

Release ==
    /\ handler = "quiet"
    /\ handler' = "idle"
    /\ UNCHANGED <<linkVars, nodeVars, readVars, timeVars, writeVars, inbox, received,
                   stopped>>
-----------------------------------------------------------------------------
(* The others *)

\* The miner sends its block to the nodes in the cache; it is started by a
\* message of the peer.
Broadcast ==
    /\ inCache
    /\ received > 0
    /\ PushMessage
    /\ UNCHANGED <<linkVars, nodeVars, readVars, timeVars, msgVars, stopped>>

\* NetMan::Stop
Stop ==
    /\ ~stopped
    /\ stopped' = TRUE
    /\ IF inCache THEN Disconnect(FALSE) ELSE UNCHANGED nodeVars
    /\ UNCHANGED <<linkVars, readVars, timeVars, writeVars, msgVars>>

\* Time passes the deadline.
Expire ==
    /\ conn # "none"
    /\ ~expired
    /\ expired' = TRUE
    /\ UNCHANGED <<linkVars, nodeVars, readVars, waiting, woken, writeVars, msgVars,
                   stopped>>
-----------------------------------------------------------------------------
OpenStep    == OpenNode \/ OpenConnectFails \/ OpenConnect
ConnectStep == Connected \/ ConnectFails
ReadStep    == ReadEmpty \/ ReadHeader \/ ReadTooLong \/ ReadBody \/ ReadLate \/ ReadFails
WriteStep   == Written \/ WriteFails
MessageStep == TakeMessage \/ Reply \/ DisconnectTest \/ DisconnectSet \/ Release

Next ==
    \/ OpenStep
    \/ ConnectStep
    \/ CheckDeadline
    \/ ReadStep
    \/ QueueMessage
    \/ WriteStep
    \/ MessageStep
    \/ Broadcast
    \/ Stop
    \/ Expire

Spec == Init /\ [][Next]_vars

\* The socket thread takes its handlers in turn, and the message thread runs.
\* The peer need not answer, and time need not pass.
FairSpec ==
    /\ Spec
    /\ WF_vars(CheckDeadline)
    /\ WF_vars(QueueMessage)
    /\ WF_vars(WriteStep)
    /\ WF_vars(MessageStep)
-----------------------------------------------------------------------------
(* Properties *)

\* Every variable keeps its type.
TypeOK ==
    /\ opener \in {"new", "made", "done"}
    /\ conn \in {"none", "connecting", "open"}
    /\ {isDisconnect, inCache, waiting, woken, expired, writing, stopped} \subseteq BOOLEAN
    /\ reading \in {"none", "header", "body"}
    /\ dataSize \in Nat
    /\ bodySize \in 0 .. MaxLength
    /\ {posted, writeNetMessages, sent} \subseteq Seq(1 .. MaxPush)
    /\ pushed \in 0 .. MaxPush
    /\ inbox \in Seq(Kinds)
    /\ handler \in Kinds \cup {"idle", "closing"}
    /\ received \in 0 .. MaxReceived

\* What was written, what waits to be written and what is posted are together
\* what was pushed, in that order: none is lost, repeated or overtaken.
SentInOrder == sent \o writeNetMessages \o posted = [i \in 1 .. pushed |-> i]

\* A write is outstanding only for the front of the queue, and while connected
\* it always is when the queue has one: DoWrite is started neither twice nor
\* not at all.
WriterRuns ==
    /\ writing => writeNetMessages # <<>>
    /\ writeNetMessages # <<>> /\ ~isDisconnect => writing

\* From the start of the connection to its end somebody waits for the deadline:
\* moving it never loses the wait.
DeadlineWatched == (conn # "none" /\ ~isDisconnect) => waiting

\* A body is read into the buffer.
BodyFits == reading = "body" => HEADER_SIZE + bodySize <= dataSize

\* Whatever threads call Disconnect, a node that leaves the cache is closed.
RemovedIsClosed == (opener = "done" /\ ~inCache) => isDisconnect

\* A message that was pushed is written, unless the connection is closed.
PushedIsSent ==
    \A m \in 1 .. MaxPush : (pushed >= m) ~> (isDisconnect \/ \E i \in DOMAIN sent : sent[i] = m)

\* A deadline that passes closes the connection, unless a message comes in.
SilenceCloses == (expired /\ conn # "none") ~> (isDisconnect \/ ~expired)

\* The two loops of a connection are sound: the variables keep their types, messages
\* go out once and in order by one writer, and what is read fits the buffer.
TrafficSound == TypeOK /\ SentInOrder /\ WriterRuns /\ BodyFits

\* A connection that is to end does: the deadline is watched to the end, and a node
\* that is out of the cache is closed.
ClosingSound == DeadlineWatched /\ RemovedIsClosed
=============================================================================
