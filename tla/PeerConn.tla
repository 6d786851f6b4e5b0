------------------------------- MODULE PeerConn -------------------------------
(***************************************************************************)
(* The request half of the peer protocol (peerconn.go, peer.go,            *)
(* requesting.go): a client downloads one piece over several connections   *)
(* from remote peers that run the same code and have the piece.            *)
(*                                                                         *)
(* local[c] is the client's PeerConn, remote[c] the PeerConn at the other  *)
(* end; the out of each is its write buffer and the stream it is flushed   *)
(* to.  A handler runs under its client's lock and is one action.  Only    *)
(* applyRequestState is taken apart, one request at a time; nothing else   *)
(* happens meanwhile (a remote peer's steps commute with it).              *)
(***************************************************************************)
EXTENDS Integers, Sequences, SequencesExt, FiniteSets, FiniteSetsExt

CONSTANTS
    Conn,               \* connections
    Fast,               \* those with the fast extension
    Chunk,              \* the chunks of the piece
    Nil,                \* no chunk, and no connection
    PeerMaxRequests,    \* requests a remote peer takes (its localClientReqq)
    MaxReady,           \* chunks that MaxAllocPeerRequestDataPerConn has room for
    MaxChokes,          \* how often remote peers choke or fail to read
    MaxFailedChecks,    \* how often the piece's check fails
    Faults              \* the failures that happen

ASSUME PeerAssumption ==
    /\ Fast \subseteq Conn
    /\ IsFiniteSet(Chunk)
    /\ Nil \notin Conn \cup Chunk
    /\ {PeerMaxRequests, MaxReady} \subseteq Nat \ {0}
    /\ {MaxChokes, MaxFailedChecks} \subseteq Nat
    /\ Faults \subseteq {"read", "write", "close"}

VARIABLES
    local,          \* PeerConn: the state of each connection here ...
    remote,         \* ... and at its other end
    requester,      \* Torrent.requestState: whom each chunk was requested from
    later,          \* pairs ordered by lastUsefulChunkReceived
    dirty,          \* chunks received since the last check
    piece,          \* the piece: wanted, being checked, or complete
    disallowed,     \* dataDownloadDisallowed
    updating,       \* how far applyRequestState is
    broken,         \* connections ended by a protocol error (history)
    chokes,         \* chokes and failed reads so far (bound)
    failedChecks    \* failed checks so far (bound)

pieceVars == <<dirty, piece, disallowed, failedChecks>>
vars == <<local, remote, requester, later, pieceVars, updating, broken, chokes>>

Message == {"request", "cancel", "piece", "reject"} \X Chunk
              \cup {"choke", "unchoke"} \X {Nil}

(* expected: validReceiveChunks; need: the reason in needRequestUpdate;    *)
(* peak: peakRequests; writing: the chunk that receiveChunk is writing.    *)
LocalState ==
    [status : {"open", "closed", "gone"}, requests : SUBSET Chunk,
     cancelled : SUBSET Chunk, expected : [Chunk -> Nat], peerChoking : BOOLEAN,
     need : {"none", "cancel", "reject", "other"}, peak : Int,
     writing : Chunk \cup {Nil}, out : Seq(Message)]

(* step and chunk: where peerRequestServer is, and with which request (it  *)
(* sleeps until room is made, was woken, or reads); has: havePiece.        *)
RemoteState ==
    [choking : BOOLEAN, unread : SUBSET Chunk, ready : SUBSET Chunk, has : BOOLEAN,
     step : {"idle", "alloc", "woken", "reading"}, chunk : Chunk \cup {Nil},
     out : Seq(Message)]

NoUpdate == [conn |-> Nil, left |-> {}, before |-> 0]

TypeOK ==
    /\ local \in [Conn -> LocalState]
    /\ remote \in [Conn -> RemoteState]
    /\ requester \in [Chunk -> Conn \cup {Nil}]
    /\ later \subseteq Conn \X Conn
    /\ dirty \subseteq Chunk
    /\ piece \in {"wanted", "checking", "complete"}
    /\ disallowed \in BOOLEAN
    /\ updating = NoUpdate \/ updating \in [conn : Conn, left : SUBSET Chunk, before : Nat]
    /\ broken \subseteq Conn
    /\ chokes \in 0..MaxChokes
    /\ failedChecks \in 0..MaxFailedChecks

Init ==
    /\ local = [c \in Conn |->
            [status |-> "open", requests |-> {}, cancelled |-> {},
             expected |-> [r \in Chunk |-> 0], peerChoking |-> TRUE, need |-> "other",
             peak |-> 0, writing |-> Nil, out |-> <<>>]]
    /\ remote = [c \in Conn |->
            [choking |-> TRUE, unread |-> {}, ready |-> {}, has |-> TRUE,
             step |-> "idle", chunk |-> Nil, out |-> <<>>]]
    /\ requester = [r \in Chunk |-> Nil]
    /\ later = {}
    /\ dirty = {} /\ piece = "wanted" /\ disallowed = FALSE
    /\ updating = NoUpdate
    /\ broken = {} /\ chokes = 0 /\ failedChecks = 0

-----------------------------------------------------------------------------
(* A PeerConn's methods, as functions of its state.                        *)

Send(d, type, r) == [d EXCEPT !.out = Append(@, <<type, r>>)]

IsLowOnRequests(d) == d.requests = {} /\ d.cancelled = {}

OnNeedUpdateRequests(d, reason) == IF d.need = "none" THEN [d EXCEPT !.need = reason] ELSE d

AskIfLow(d, reason) == IF IsLowOnRequests(d) THEN OnNeedUpdateRequests(d, reason) ELSE d

NominalMaxRequests(d) == Max({1, Min({PeerMaxRequests, 2 * d.peak})})

Request(d, r) ==
    [Send(d, "request", r) EXCEPT !.requests = @ \cup {r}, !.expected[r] = @ + 1]

(* With the fast extension the remote peer answers a cancelled request too. *)
HandleCancel(c, d, r) ==
    [Send(d, "cancel", r) EXCEPT !.cancelled = IF c \in Fast THEN @ \cup {r} ELSE @]

Cancel(c, d, r) ==
    AskIfLow(HandleCancel(c, [d EXCEPT !.requests = @ \ {r}, !.peak = @ - 1], r), "cancel")

(* cancelAllRequests: Cancel of each request in turn, of which only the     *)
(* last can leave the connection low on requests.                          *)
CancelAllRequests(c, d) ==
    IF d.requests = {} THEN d
    ELSE AskIfLow([d EXCEPT !.requests = {}, !.peak = @ - Cardinality(d.requests),
                            !.cancelled = IF c \in Fast THEN @ \cup d.requests ELSE @,
                            !.out = @ \o SetToSeq({"cancel"} \X d.requests)],
                  "cancel")

(* deletePeerRequest, which signals that a buffered chunk is gone, and     *)
(* reject, which calls it.                                                 *)
DeletePeerRequest(u, r) ==
    [u EXCEPT !.unread = @ \ {r}, !.ready = @ \ {r},
              !.step = IF @ = "alloc" /\ r \in u.ready THEN "woken" ELSE @]
Reject(u, r) == Send(DeletePeerRequest(u, r), "reject", r)

HavePeerRequest(u, r) == r \in u.unread \cup u.ready

(* Choking a peer without the fast extension drops its requests; nothing   *)
(* is signalled.                                                           *)
Choke(c, u) ==
    IF u.choking THEN u
    ELSE [Send(u, "choke", Nil) EXCEPT
            !.choking = TRUE,
            !.unread = IF c \in Fast THEN @ ELSE {},
            !.ready = IF c \in Fast THEN @ ELSE {}]

UseBestReject(c, u, r) == IF c \in Fast THEN Reject(u, r) ELSE Choke(c, u)

(* No request is taken while choking or with a full queue.                 *)
Refuses(u) == u.choking \/ Cardinality(u.unread) + Cardinality(u.ready) >= PeerMaxRequests

(* A request that ends the connection: a duplicate with the fast extension, *)
(* or one for the piece when it is gone.                                   *)
Kicks(c, u, r) == IF HavePeerRequest(u, r) THEN c \in Fast ELSE ~Refuses(u) /\ ~u.has

HasRoom(u) == Cardinality(u.ready) < MaxReady

-----------------------------------------------------------------------------
(* Choosing requests: getDesiredRequestState and applyRequestState.        *)

Conns == {c \in Conn : local[c].status # "gone"}

Wanted == IF piece = "wanted" /\ ~disallowed THEN Chunk \ dirty ELSE {}

DesiredRequests(c) ==
    {r \in Wanted : /\ ~local[c].peerChoking \/ r \in local[c].requests
                    /\ r \notin local[c].cancelled}

UpdateRequests(c) ==
    /\ updating = NoUpdate
    /\ local[c].status = "open"
    /\ local[c].need # "none"
    /\ updating' = [conn |-> c, left |-> DesiredRequests(c),
                    before |-> Cardinality(local[c].requests)]
    /\ UNCHANGED <<local, remote, requester, later, pieceVars, broken, chokes>>

(* lessByValue: its own requests, then those nobody has, then the rest.    *)
LessByValue(c, r) ==
    CASE requester[r] = c -> 1 [] requester[r] = Nil -> 2 [] OTHER -> 3

(* Don't steal from the poor, nor on a cancel, nor make requests on a      *)
(* reject.                                                                 *)
MayRequest(c, r) ==
    LET holder == requester[r]
        diff == Cardinality(local[c].requests) + 1
                    - (Cardinality(local[holder].requests) - 1)
    IN
    /\ local[c].need # "reject"
    /\ holder \in {Nil, c} \/ /\ local[c].need # "cancel"
                              /\ diff < 1 \/ (diff = 1 /\ <<c, holder>> \in later)

(* Mutant: a request is taken over without cancelling it.                  *)
StealUncancelled(c, holder, r) == [local EXCEPT ![c] = Request(@, r)]

Steal(c, holder, r) ==
    [local EXCEPT ![holder] = Cancel(holder, @, r), ![c] = Request(@, r)]

ApplyRequestState ==
    LET c == updating.conn
        full == Cardinality(local[c].requests) + Cardinality(local[c].cancelled)
                    >= NominalMaxRequests(local[c])
    IN
    /\ updating # NoUpdate
    /\ \/ /\ updating.left = {} \/ full
          /\ updating' = NoUpdate
          /\ local' = [local EXCEPT ![c].need = "none",
                            ![c].peak = Cardinality(local[c].requests) - updating.before]
          /\ UNCHANGED requester
       \/ /\ ~full
          /\ \E r \in updating.left :
             /\ \A s \in updating.left : LessByValue(c, r) <= LessByValue(c, s)
             /\ updating' = [updating EXCEPT !.left = @ \ {r}]
             /\ IF MayRequest(c, r) /\ requester[r] # c
                THEN /\ requester' = [requester EXCEPT ![r] = c]
                     /\ local' = IF requester[r] = Nil
                                 THEN [local EXCEPT ![c] = Request(@, r)]
                                 ELSE Steal(c, requester[r], r)
                ELSE UNCHANGED <<local, requester>>
    /\ UNCHANGED <<remote, later, pieceVars, broken, chokes>>

-----------------------------------------------------------------------------
(* mainReadLoop of the client: what its remote peers send.                 *)

Reads(c, type) ==
    /\ updating = NoUpdate
    /\ local[c].status = "open"
    /\ local[c].writing = Nil
    /\ remote[c].out # <<>>
    /\ Head(remote[c].out)[1] = type
    /\ remote' = [remote EXCEPT ![c].out = Tail(@)]

Received(c) == Head(remote[c].out)[2]

(* The read loop returns an error, which ends the connection.              *)
Breaks(c) ==
    /\ local' = [local EXCEPT ![c].status = "closed"]
    /\ broken' = broken \cup {c}

Unrequest(S) == [r \in Chunk |-> IF r \in S THEN Nil ELSE requester[r]]

(* Mutant: nobody is told that there are requests to make again.           *)
DeleteAllRequestsSilent(c, next) == next

(* deleteAllRequests wakes every connection that is low on requests.       *)
DeleteAllRequests(c, next) ==
    IF local[c].requests = {} THEN next
    ELSE [e \in Conn |-> IF next[e].status = "gone" THEN next[e]
                         ELSE AskIfLow(next[e], "other")]

ReadChoke(c) ==
    /\ Reads(c, "choke")
    /\ \/ /\ local[c].peerChoking
          /\ UNCHANGED <<local, requester>>
       \/ /\ ~local[c].peerChoking /\ c \in Fast
          /\ local' = [local EXCEPT ![c].peerChoking = TRUE]
          /\ UNCHANGED requester
       \/ /\ ~local[c].peerChoking /\ c \notin Fast
          /\ local' = DeleteAllRequests(c,
                        [local EXCEPT ![c].peerChoking = TRUE, ![c].requests = {}])
          /\ requester' = Unrequest(local[c].requests)
    /\ UNCHANGED <<later, pieceVars, updating, broken, chokes>>

ReadUnchoke(c) ==
    /\ Reads(c, "unchoke")
    /\ local' = IF ~local[c].peerChoking THEN local
                ELSE [local EXCEPT ![c] =
                        LET d == [@ EXCEPT !.peerChoking = FALSE] IN
                        IF piece = "wanted" /\ ~disallowed
                        THEN OnNeedUpdateRequests(d, "other") ELSE d]
    /\ UNCHANGED <<requester, later, pieceVars, updating, broken, chokes>>

(* remoteRejectedRequest                                                   *)
ReadReject(c) ==
    LET r == Received(c)
        d == local[c]
    IN
    /\ Reads(c, "reject")
    /\ \/ /\ r \in d.requests \cup d.cancelled
          /\ local' = [local EXCEPT ![c] =
                AskIfLow([d EXCEPT !.requests = @ \ {r},
                                   !.peak = IF r \in d.requests THEN @ - 1 ELSE @,
                                   !.cancelled = IF r \in d.requests THEN @ ELSE @ \ {r},
                                   !.expected[r] = @ - 1],
                         "reject")]
          /\ requester' = IF r \in d.requests THEN Unrequest({r}) ELSE requester
          /\ UNCHANGED broken
       \/ /\ r \notin d.requests \cup d.cancelled
          /\ Breaks(c)
          /\ UNCHANGED requester
    /\ UNCHANGED <<later, pieceVars, updating, chokes>>

(* checkReceivedChunk: what the connection knows once r has come.          *)
CheckReceivedChunk(d, r) ==
    LET e == [d EXCEPT !.expected[r] = @ - 1, !.requests = @ \ {r},
                       !.cancelled = IF r \in d.requests THEN @ ELSE @ \ {r}]
    IN IF r \in d.requests \cup d.cancelled THEN AskIfLow(e, "other") ELSE e

HaveChunk(r) == piece = "complete" \/ r \in dirty

(* A chunk that came is no longer requested from anybody else.             *)
CancelOthers(c, r, next) ==
    LET holder == requester[r] IN
    IF holder \in {c, Nil} THEN next
    ELSE [next EXCEPT ![holder] = Cancel(holder, @, r)]

(* receiveChunk up to the write, for which it releases the lock.           *)
ReceiveChunk(c) ==
    LET r == Received(c) IN
    /\ Reads(c, "piece")
    /\ \/ /\ local[c].expected[r] = 0
          /\ Breaks(c)
          /\ UNCHANGED <<requester, later, dirty>>
       \/ /\ local[c].expected[r] > 0 /\ HaveChunk(r)
          /\ local' = [local EXCEPT ![c] = CheckReceivedChunk(@, r)]
          /\ requester' = IF r \in local[c].requests THEN Unrequest({r}) ELSE requester
          /\ UNCHANGED <<later, dirty, broken>>
       \/ /\ local[c].expected[r] > 0 /\ ~HaveChunk(r)
          /\ local' = CancelOthers(c, r,
                [local EXCEPT ![c] = [CheckReceivedChunk(@, r) EXCEPT !.writing = r]])
          /\ requester' = Unrequest({r})
          /\ later' = (later \ (Conn \X {c})) \cup ({c} \X (Conn \ {c}))
          /\ dirty' = dirty \cup {r}
          /\ UNCHANGED broken
    /\ UNCHANGED <<piece, disallowed, failedChecks, updating, chokes>>

(* The chunk is written, and the last one to be queues the check.          *)
ChunkWritten(c) ==
    /\ updating = NoUpdate
    /\ local[c].writing # Nil
    /\ local' = [local EXCEPT ![c].writing = Nil]
    /\ piece' = IF dirty = Chunk /\ \A e \in Conn \ {c} : local[e].writing = Nil
                THEN "checking" ELSE piece
    /\ UNCHANGED <<remote, requester, later, dirty, disallowed, failedChecks, updating,
                   broken, chokes>>

(* onWriteChunkErr: the torrent downloads no more.                         *)
WriteFails(c) ==
    /\ "write" \in Faults
    /\ updating = NoUpdate
    /\ local[c].writing # Nil
    /\ dirty' = dirty \ {local[c].writing}
    /\ disallowed' = TRUE
    /\ local' = [e \in Conn |->
            LET d == IF e = c THEN [local[e] EXCEPT !.writing = Nil] ELSE local[e] IN
            IF d.status = "gone" THEN d
            ELSE CancelAllRequests(e, OnNeedUpdateRequests(d, "other"))]
    /\ requester' = [r \in Chunk |-> Nil]
    /\ UNCHANGED <<remote, later, piece, failedChecks, updating, broken, chokes>>

(* The hasher's verdict.  onPieceCompleted cancels what is still requested; *)
CheckPasses ==
    /\ updating = NoUpdate
    /\ piece = "checking"
    /\ piece' = "complete"
    /\ dirty' = {}
    /\ local' = [c \in Conn |-> IF local[c].status = "gone" THEN local[c]
                                ELSE CancelAllRequests(c, local[c])]
    /\ requester' = [r \in Chunk |-> Nil]
    /\ UNCHANGED <<remote, later, disallowed, failedChecks, updating, broken, chokes>>

(* a piece that failed becomes pending again at the end of finishHash, and *)
(* the connections that are low on requests and not choked are asked.      *)
UpdatePeerRequestsForPiece ==
    [c \in Conn |-> IF c \in Conns /\ ~disallowed /\ ~local[c].peerChoking
                    THEN AskIfLow(local[c], "other") ELSE local[c]]

CheckFails ==
    /\ updating = NoUpdate
    /\ piece = "checking"
    /\ failedChecks < MaxFailedChecks
    /\ failedChecks' = failedChecks + 1
    /\ piece' = "wanted"
    /\ dirty' = {}
    /\ local' = UpdatePeerRequestsForPiece
    /\ UNCHANGED <<remote, requester, later, disallowed, updating, broken, chokes>>

(* The connection is closed; its read loop notices and it is dropped.      *)
CloseConn(c) ==
    /\ "close" \in Faults
    /\ updating = NoUpdate
    /\ local[c].status = "open"
    /\ local' = [local EXCEPT ![c].status = "closed"]
    /\ UNCHANGED <<remote, requester, later, pieceVars, updating, broken, chokes>>

DropConnection(c) ==
    /\ updating = NoUpdate
    /\ local[c].status = "closed" /\ local[c].writing = Nil
    /\ local' = DeleteAllRequests(c,
                    [local EXCEPT ![c].status = "gone", ![c].requests = {}])
    /\ requester' = Unrequest(local[c].requests)
    /\ UNCHANGED <<remote, later, pieceVars, updating, broken, chokes>>

-----------------------------------------------------------------------------
(* The remote peer: reading requests, serving them, and uploading.         *)

RemoteRuns(c) == updating = NoUpdate /\ local[c].status = "open"

RemoteReads(c, type) ==
    /\ RemoteRuns(c)
    /\ local[c].out # <<>>
    /\ Head(local[c].out)[1] = type

Asked(c) == Head(local[c].out)[2]

(* onReadRequest.  Requests are for chunks of the piece and of their size.  *)
OnReadRequest(c) ==
    LET r == Asked(c)
        u == remote[c]
        next == [local EXCEPT ![c].out = Tail(@)]
    IN
    /\ RemoteReads(c, "request")
    /\ IF Kicks(c, u, r)
       THEN /\ local' = [next EXCEPT ![c].status = "closed"]
            /\ broken' = broken \cup {c}
            /\ UNCHANGED remote
       ELSE /\ local' = next
            /\ remote' = [remote EXCEPT ![c] =
                    CASE HavePeerRequest(u, r) -> u
                      [] ~HavePeerRequest(u, r) /\ Refuses(u) ->
                            IF c \in Fast THEN Reject(u, r) ELSE u
                      [] OTHER -> [u EXCEPT !.unread = @ \cup {r}]]
            /\ UNCHANGED broken
    /\ UNCHANGED <<requester, later, pieceVars, updating, chokes>>

(* Mutant: a cancel is acknowledged although the chunk is on its way.      *)
OnPeerSentCancelKeeps(c) ==
    LET r == Asked(c) IN
    /\ RemoteReads(c, "cancel")
    /\ local' = [local EXCEPT ![c].out = Tail(@)]
    /\ remote' = [remote EXCEPT ![c] = IF c \in Fast THEN Reject(@, r)
                                       ELSE DeletePeerRequest(@, r)]
    /\ UNCHANGED <<requester, later, pieceVars, updating, broken, chokes>>

OnPeerSentCancel(c) ==
    LET r == Asked(c) IN
    /\ RemoteReads(c, "cancel")
    /\ local' = [local EXCEPT ![c].out = Tail(@)]
    /\ remote' = [remote EXCEPT ![c] =
            CASE ~HavePeerRequest(@, r) -> @
              [] HavePeerRequest(@, r) /\ c \in Fast -> Reject(@, r)
              [] OTHER -> DeletePeerRequest(@, r)]
    /\ UNCHANGED <<requester, later, pieceVars, updating, broken, chokes>>

(* peerRequestServer: it takes a request, waits for room, reads without    *)
(* the lock, and looks whether the data is still wanted.                   *)
RemoteSteps(c, u) ==
    /\ RemoteRuns(c)
    /\ remote' = [remote EXCEPT ![c] = u]
    /\ UNCHANGED <<local, requester, later, pieceVars, updating, broken, chokes>>

ServePeerRequest(c) ==
    \E r \in remote[c].unread :
        /\ remote[c].step = "idle"
        /\ RemoteSteps(c, [remote[c] EXCEPT
                !.step = IF HasRoom(remote[c]) THEN "reading" ELSE "alloc", !.chunk = r])

(* waitForDataAlloc looks again once peerRequestDataAllocDecreased was     *)
(* signalled.                                                              *)
WaitForDataAlloc(c) ==
    /\ remote[c].step = "woken"
    /\ RemoteSteps(c, [remote[c] EXCEPT
            !.step = IF HasRoom(remote[c]) THEN "reading" ELSE "alloc"])

(* Mutant: nobody looks whether the request was withdrawn meanwhile.       *)
PeerRequestDataReadUnchecked(c) ==
    LET u == remote[c] IN
    /\ u.step = "reading"
    /\ RemoteSteps(c, [u EXCEPT !.step = "idle", !.chunk = Nil,
                                !.unread = @ \ {u.chunk}, !.ready = @ \cup {u.chunk}])

(* Mutant: the request is reset before its data is buffered.               *)
PeerRequestDataReadReset(c) ==
    LET u == [remote[c] EXCEPT !.step = "idle", !.chunk = Nil] IN
    /\ remote[c].step = "reading"
    /\ RemoteSteps(c, [u EXCEPT !.unread = @ \ {remote[c].chunk}, !.ready = @ \cup {u.chunk}])

PeerRequestDataRead(c) ==
    LET u == remote[c] IN
    /\ u.step = "reading"
    /\ RemoteSteps(c, [u EXCEPT !.step = "idle", !.chunk = Nil,
                                !.unread = @ \ {u.chunk},
                                !.ready = IF u.chunk \in u.unread THEN @ \cup {u.chunk} ELSE @])

(* updatePieceCompletion may learn that the piece is gone.                 *)
PeerRequestDataReadFailed(c) ==
    LET u == remote[c] IN
    /\ "read" \in Faults
    /\ RemoteRuns(c)
    /\ u.step = "reading"
    /\ chokes < MaxChokes
    /\ chokes' = chokes + 1
    /\ \E has \in {u.has, FALSE} :
            remote' = [remote EXCEPT ![c] =
                UseBestReject(c, [u EXCEPT !.step = "idle", !.chunk = Nil, !.has = has], u.chunk)]
    /\ UNCHANGED <<local, requester, later, pieceVars, updating, broken>>

(* upload: its loop may stop after any message, when the buffer is full.   *)
UploadUnchoke(c) ==
    /\ remote[c].choking
    /\ RemoteSteps(c, [Send(remote[c], "unchoke", Nil) EXCEPT !.choking = FALSE])

SendChunk(c) ==
    \E r \in remote[c].ready :
        /\ ~remote[c].choking
        /\ RemoteSteps(c, Send(DeletePeerRequest(remote[c], r), "piece", r))

UploadChoke(c) ==
    /\ RemoteRuns(c)
    /\ ~remote[c].choking
    /\ chokes < MaxChokes
    /\ chokes' = chokes + 1
    /\ remote' = [remote EXCEPT ![c] = Choke(c, @)]
    /\ UNCHANGED <<local, requester, later, pieceVars, updating, broken>>

-----------------------------------------------------------------------------

LocalStep(c) ==
    \/ ReadChoke(c) \/ ReadUnchoke(c) \/ ReadReject(c) \/ ReceiveChunk(c)
    \/ ChunkWritten(c) \/ DropConnection(c)

RemoteStep(c) ==
    \/ OnReadRequest(c) \/ OnPeerSentCancel(c) \/ ServePeerRequest(c)
    \/ WaitForDataAlloc(c) \/ PeerRequestDataRead(c) \/ SendChunk(c)

Next ==
    \/ \E c \in Conn : \/ LocalStep(c) \/ RemoteStep(c) \/ UpdateRequests(c)
                       \/ WriteFails(c) \/ CloseConn(c) \/ PeerRequestDataReadFailed(c)
                       \/ UploadUnchoke(c) \/ UploadChoke(c)
    \/ ApplyRequestState
    \/ CheckPasses \/ CheckFails

Spec == Init /\ [][Next]_vars

(* Both ends' goroutines are scheduled and the stream delivers.  Nothing   *)
(* makes a remote peer unchoke.                                            *)
Fairness ==
    /\ \A c \in Conn : /\ WF_vars(LocalStep(c))
                       /\ WF_vars(RemoteStep(c))
                       /\ WF_vars(UpdateRequests(c))
    /\ WF_vars(ApplyRequestState)
    /\ WF_vars(CheckPasses \/ CheckFails)

FairSpec == Spec /\ Fairness

-----------------------------------------------------------------------------
(* Properties.                                                             *)

(* "Only one peer should have a given request at a time" (deleteRequest    *)
(* panics otherwise): the torrent's requestState and the connections' own  *)
(* requests agree, through steals, chokes, rejects and dropped connections. *)
OneRequester ==
    updating = NoUpdate =>
        \A r \in Chunk, c \in Conn : requester[r] = c <=> r \in local[c].requests

Count(s, m) == Cardinality({i \in 1..Len(s) : s[i] = m})

(* With the fast extension every request is answered once, by a chunk or a *)
(* reject: each that the client still waits for, cancelled or not, is on   *)
(* its way to the remote peer, held there, or answered on the way back,    *)
(* and it is all that the client will accept.                              *)
AnsweredOnce ==
    \A c \in Fast, r \in Chunk :
        LET waiting == local[c].requests \cup local[c].cancelled
            owed == Count(local[c].out, <<"request", r>>)
                        + (IF HavePeerRequest(remote[c], r) THEN 1 ELSE 0)
                        + Count(remote[c].out, <<"piece", r>>)
                        + Count(remote[c].out, <<"reject", r>>)
        IN local[c].status = "open" =>
            /\ owed = (IF r \in waiting THEN 1 ELSE 0)
            /\ local[c].expected[r] = owed

(* Two clients that run this code never end a connection because of what   *)
(* the other sent: no chunk is unexpected, no reject invalid and no        *)
(* request a duplicate.                                                    *)
NoProtocolError == broken = {}

(* While a connected peer that does not choke us has chunks we want, some  *)
(* chunk is asked for again and again.                                     *)
Stalled(c) ==
    /\ Wanted # {}
    /\ local[c].status = "open" /\ ~local[c].peerChoking
    /\ \A r \in Chunk : requester[r] = Nil

NeverStalls == \A c \in Conn : []<>~Stalled(c)

(* "Handles an outstanding peer request. It's either rejected, or buffered *)
(* for the writer": a request that a remote peer took does not stay unread *)
(* for ever.                                                               *)
RequestIsHandled ==
    \A c \in Conn, r \in Chunk :
        r \in remote[c].unread ~> r \notin remote[c].unread \/ local[c].status # "open"
=============================================================================
