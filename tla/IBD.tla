-------------------------------- MODULE IBD --------------------------------
(***************************************************************************)
(* The initial block download (InitialBlockDownloadManager) as the message *)
(* thread runs it (PeerLogicMan::ProcessMessageHandler), the one peer that *)
(* the program connects to, and the two streams of messages between them.  *)
(*                                                                         *)
(* The peer has one chain and a block is its height there; the node's      *)
(* chain is a prefix of it, so that one number says what is indexed.       *)
(***************************************************************************)
EXTENDS Integers, Sequences, SequencesExt

CONSTANTS
    HeadersMax,     \* headers in one message, 2000
    GetDataMax,     \* blocks asked for at once, 16
    BaseHeights,    \* heights the peer's chain may have at the start
    MaxHeight,      \* bound on the height it reaches
    MayDrop         \* whether the connection may be lost

ASSUME IBDAssumption ==
    /\ HeadersMax \in Nat \ {0}
    /\ GetDataMax \in Nat \ {0}
    /\ MaxHeight \in Nat
    /\ BaseHeights \subseteq 0 .. MaxHeight
    /\ MayDrop \in BOOLEAN

Hash == 1 .. MaxHeight

VARIABLES
    isFinish,           \* _isFinish
    isGetHeaders,       \* _isGetHeaders
    isFirstHeaders,     \* _isFirstHeaders
    hashIBDBlocks,      \* _hashIBDBlocks
    hashSendingGetData, \* _hashSendingGetData
    hashDownloading,    \* _hashDownloadingBlock
    mining,             \* the callback was called: the miner is started
    tip,                \* height of the active tip
    orphans,            \* BlockChain::_orphanBlocks
    toPeer,             \* messages on their way to the peer
    fromPeer,           \* messages received or on their way from it
    peerHeight,         \* height of the peer's chain
    base,               \* what it was when the two met
    connected           \* whether the node is in NodeCache

ibdVars  == <<isFinish, isGetHeaders, isFirstHeaders, hashIBDBlocks,
              hashSendingGetData, hashDownloading, mining>>
peerVars == <<peerHeight, base, connected>>
vars     == <<ibdVars, tip, orphans, toPeer, fromPeer, peerVars>>

GetHeaders(h)   == [type |-> "getheaders", from |-> h]
GetData(hs)     == [type |-> "getdata", hashes |-> hs]
Headers(lo, hi) == [type |-> "headers", from |-> lo, to |-> hi]
Block(h)        == [type |-> "block", hash |-> h]
Inv(h)          == [type |-> "inv", hash |-> h]
Verack          == [type |-> "verack"]

Init ==
    /\ isFinish           = FALSE
    /\ isGetHeaders       = FALSE
    /\ isFirstHeaders     = TRUE
    /\ hashIBDBlocks      = {}
    /\ hashSendingGetData = <<>>
    /\ hashDownloading    = {}
    /\ mining             = FALSE
    /\ base \in BaseHeights
    /\ peerHeight = base
    /\ tip \in 0 .. base
    /\ orphans   = {}
    /\ toPeer    = <<>>
    /\ fromPeer  = <<Verack>>
    /\ connected = TRUE
-----------------------------------------------------------------------------
(* The message thread *)

Receive(type) ==
    /\ fromPeer # <<>>
    /\ Head(fromPeer).type = type
    /\ fromPeer' = Tail(fromPeer)

\* PushGetHeadersMessage: from the active tip on.
PushGetHeaders == <<GetHeaders(tip)>>

\* PushGetDataMessage takes a batch off the queue.
Batch(queue) ==
    SubSeq(queue, 1, IF Len(queue) < GetDataMax THEN Len(queue) ELSE GetDataMax)

\* Mutated form: one element too many is popped.
RemainderSkips(queue) == SubSeq(queue, Len(Batch(queue)) + 2, Len(queue))

Remainder(queue) == SubSeq(queue, Len(Batch(queue)) + 1, Len(queue))

PushGetData(queue) ==
    /\ hashSendingGetData' = Remainder(queue)
    /\ hashDownloading' = hashDownloading \cup ToSet(Batch(queue))

\* Run
HandleVerack ==
    /\ Receive("verack")
    /\ toPeer' = toPeer \o PushGetHeaders
    /\ UNCHANGED <<ibdVars, tip, orphans, peerVars>>

\* Headers, after the download or for an empty message, which ends the download
\* if it is the first.
HeadersNone ==
    /\ Receive("headers")
    /\ isFinish \/ Head(fromPeer).from = Head(fromPeer).to
    /\ isGetHeaders' = (isGetHeaders \/ ~isFinish)
    /\ isFinish' = (isFinish \/ isFirstHeaders)
    /\ mining' = (mining \/ (isFirstHeaders /\ ~isFinish))
    /\ UNCHANGED <<isFirstHeaders, hashIBDBlocks, hashSendingGetData, hashDownloading,
                   tip, orphans, toPeer, peerVars>>

\* Mutated form: the hashes are taken from the other end.
HashesReversed(m) == [i \in 1 .. m.to - m.from |-> m.to + 1 - i]

\* The hashes of a headers message, in its order.
HashesOf(m) == [i \in 1 .. m.to - m.from |-> m.from + i]

\* Headers, with a batch asked for and, after a full message, more headers.
HeadersSome ==
    /\ Receive("headers")
    /\ ~isFinish
    /\ LET m     == Head(fromPeer)
           queue == hashSendingGetData \o HashesOf(m)
           full  == m.to - m.from >= HeadersMax
       IN /\ m.from # m.to
          /\ hashIBDBlocks' = hashIBDBlocks \cup ToSet(HashesOf(m))
          /\ PushGetData(queue)
          /\ toPeer' = toPeer \o <<GetData(Batch(queue))>>
                              \o (IF full THEN PushGetHeaders ELSE <<>>)
          /\ isGetHeaders' = (isGetHeaders \/ ~full)
    /\ isFirstHeaders' = FALSE
    /\ UNCHANGED <<isFinish, mining, tip, orphans, peerVars>>

\* Blocks, for one that is not wanted or that AcceptBlock knows already.
BlockRefused ==
    /\ Receive("block")
    /\ ~isFinish
    /\ LET h == Head(fromPeer).hash IN h \notin hashIBDBlocks \/ h <= tip
    /\ UNCHANGED <<ibdVars, tip, orphans, toPeer, peerVars>>

\* AcceptBlock of a new block: on the tip it extends the chain, otherwise it is
\* an orphan; both are a success.
AcceptBlock(h) ==
    IF h = tip + 1 THEN tip' = h /\ UNCHANGED orphans
                   ELSE orphans' = orphans \cup {h} /\ UNCHANGED tip

\* Mutated form: the last block of a batch ends the download.
CompletesBatch(h) == isGetHeaders /\ hashDownloading = {h}

\* Whether the block is the last one.
Completes(h) == isGetHeaders /\ hashIBDBlocks = {h}

\* Blocks: the last one ends the download, the last of a batch asks for the
\* next batch.
BlockTaken ==
    /\ Receive("block")
    /\ ~isFinish
    /\ LET h     == Head(fromPeer).hash
           done  == Completes(h)
           batch == Batch(hashSendingGetData)
       IN /\ h \in hashIBDBlocks
          /\ h > tip
          /\ AcceptBlock(h)
          /\ hashIBDBlocks' = hashIBDBlocks \ {h}
          /\ isFinish' = done
          /\ mining' = done
          /\ IF ~done /\ hashDownloading \subseteq {h} /\ batch # <<>>
             THEN /\ hashSendingGetData' = Remainder(hashSendingGetData)
                  /\ hashDownloading' = ToSet(batch)
                  /\ toPeer' = Append(toPeer, GetData(batch))
             ELSE /\ hashDownloading' = hashDownloading \ {h}
                  /\ UNCHANGED <<hashSendingGetData, toPeer>>
    /\ UNCHANGED <<isGetHeaders, isFirstHeaders, peerVars>>

\* The case BLOCK after the download.
BlockAfter ==
    /\ Receive("block")
    /\ isFinish
    /\ LET h == Head(fromPeer).hash IN
          IF h <= tip THEN UNCHANGED <<tip, orphans>> ELSE AcceptBlock(h)
    /\ UNCHANGED <<ibdVars, toPeer, peerVars>>

\* Mutated form: the test of the end of the download is inverted.
HandleInvEarly ==
    /\ Receive("inv")
    /\ toPeer' = IF isFinish THEN toPeer
                             ELSE Append(toPeer, GetData(<<Head(fromPeer).hash>>))
    /\ UNCHANGED <<ibdVars, tip, orphans, peerVars>>

\* The case INV: ignored during the download, answered by GETDATA after it.
HandleInv ==
    /\ Receive("inv")
    /\ toPeer' = IF isFinish THEN Append(toPeer, GetData(<<Head(fromPeer).hash>>))
                             ELSE toPeer
    /\ UNCHANGED <<ibdVars, tip, orphans, peerVars>>
-----------------------------------------------------------------------------
(* The peer *)

Min2(a, b) == IF a < b THEN a ELSE b

PeerHeaders ==
    /\ toPeer # <<>>
    /\ Head(toPeer).type = "getheaders"
    /\ LET h == Head(toPeer).from IN
          fromPeer' = Append(fromPeer, Headers(h, Min2(h + HeadersMax, peerHeight)))
    /\ toPeer' = Tail(toPeer)
    /\ UNCHANGED <<ibdVars, tip, orphans, peerVars>>

PeerBlocks ==
    /\ toPeer # <<>>
    /\ Head(toPeer).type = "getdata"
    /\ LET hs == Head(toPeer).hashes IN
          fromPeer' = fromPeer \o [i \in 1 .. Len(hs) |-> Block(hs[i])]
    /\ toPeer' = Tail(toPeer)
    /\ UNCHANGED <<ibdVars, tip, orphans, peerVars>>

\* The peer's chain grows, and the peer announces the block.
PeerGrows ==
    /\ connected
    /\ peerHeight < MaxHeight
    /\ peerHeight' = peerHeight + 1
    /\ fromPeer' = Append(fromPeer, Inv(peerHeight + 1))
    /\ UNCHANGED <<ibdVars, tip, orphans, toPeer, base, connected>>

\* Node::Disconnect removes the node: what is on its way is not handled.
Drop ==
    /\ MayDrop
    /\ connected
    /\ connected' = FALSE
    /\ toPeer' = <<>>
    /\ fromPeer' = <<>>
    /\ UNCHANGED <<ibdVars, tip, orphans, peerHeight, base>>
-----------------------------------------------------------------------------
HandleMessage ==
    \/ HandleVerack
    \/ HeadersNone
    \/ HeadersSome
    \/ BlockRefused
    \/ BlockTaken
    \/ BlockAfter
    \/ HandleInv

PeerAnswers == PeerHeaders \/ PeerBlocks

Next == HandleMessage \/ PeerAnswers \/ PeerGrows \/ Drop

Spec == Init /\ [][Next]_vars

\* The message thread runs, and the peer answers what it is asked.
FairSpec == Spec /\ WF_vars(HandleMessage) /\ WF_vars(PeerAnswers)
-----------------------------------------------------------------------------
(* Properties *)

Messages ==
    [type : {"getheaders"}, from : Hash \cup {0}]
        \cup [type : {"getdata"}, hashes : Seq(Hash)]
Answers ==
    {Verack} \cup [type : {"headers"}, from : Hash \cup {0}, to : Hash \cup {0}]
             \cup [type : {"block", "inv"}, hash : Hash]

\* Every variable keeps its type.
TypeOK ==
    /\ {isFinish, isGetHeaders, isFirstHeaders, mining, connected} \subseteq BOOLEAN
    /\ hashIBDBlocks \subseteq Hash
    /\ hashSendingGetData \in Seq(Hash)
    /\ hashDownloading \subseteq Hash
    /\ orphans \subseteq Hash
    /\ {tip, peerHeight, base} \subseteq Hash \cup {0}
    /\ toPeer \in Seq(Messages)
    /\ fromPeer \in Seq(Answers)

InFlight ==
    {fromPeer[i].hash : i \in {j \in DOMAIN fromPeer : fromPeer[j].type = "block"}}
        \cup UNION {ToSet(toPeer[i].hashes) :
                        i \in {j \in DOMAIN toPeer : toPeer[j].type = "getdata"}}

\* While connected, a block that is wanted and not there yet is in the queue of
\* requests or on its way, and if any is queued some answer will trigger the
\* next batch: no request is lost between Headers and Blocks.
WantedIsComing ==
    connected => \A h \in hashIBDBlocks :
        \/ h <= tip
        \/ h \in ToSet(hashSendingGetData) /\ hashDownloading # {}
        \/ h \in hashDownloading \cap InFlight

\* During the download blocks arrive in the order of the chain, so that none is
\* an orphan (the comment at the call of AcceptBlock in Blocks).
DownloadedInOrder == ~isFinish => orphans = {}

\* AcceptBlock is never given a block whose child waits among the orphans, in
\* which case it would call itself with its lock held.
NoChildWaiting ==
    (fromPeer # <<>> /\ Head(fromPeer) = Block(tip + 1)) => tip + 2 \notin orphans

\* The download implements its promise: the chain grows block by block, and
\* mining starts once, with all that the peer had when the two met.
Promise == INSTANCE BlockDownload
KeepsPromise == Promise!Spec

FullHeaders ==
    \E m \in ToSet(fromPeer) : m.type = "headers" /\ m.to - m.from = HeadersMax

\* The download comes to its end, and mining starts, unless the connection is
\* lost or a headers message was full.
MiningStarts == <>(mining \/ ~connected \/ FullHeaders)

\* After the download, the announcement of a block on the tip gets the block.
AnnouncedIsFetched ==
    \A h \in Hash :
        (isFinish /\ tip = h - 1 /\ Inv(h) \in ToSet(fromPeer)) ~> (tip >= h \/ ~connected)

\* While the connection lasts the download comes to its end (the comments in
\* Headers: an empty or a short message means that all was fetched).
DownloadEnds == <>(mining \/ ~connected)

\* The download loses nothing and disorders nothing: the variables keep their types,
\* what is wanted is on its way, and blocks come in the order of the chain.
DownloadSound == TypeOK /\ WantedIsComing /\ DownloadedInOrder /\ NoChildWaiting
=============================================================================
