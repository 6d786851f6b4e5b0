----------------------------- MODULE PieceHashing -----------------------------
(***************************************************************************)
(* How one torrent's pieces get from peers to disk and are believed in:    *)
(* chunks received and written (peer.go), pieces queued, hashed and marked *)
(* by the piece hashers (torrent.go), peers banned for bad data, and the   *)
(* engine's verification, drop and removal around them.                    *)
(*                                                                         *)
(* Hashers and peers' goroutines release the client's lock to read, write  *)
(* and mark, so each of their lock's holding periods, file accesses and    *)
(* store accesses is an action.  Drop is the one call that waits while it  *)
(* holds the lock.  A goroutine of a torrent object that was dropped is    *)
(* "old": it finishes its file accesses and changes nothing of the object  *)
(* the client tracks now.                                                  *)
(***************************************************************************)
EXTENDS FileStorage

CONSTANTS
    Peer,           \* remote peers, by address
    Hasher,         \* piece hasher goroutines
    Reverify,       \* whether a torrent is verified again while it downloads
    Preexisting,    \* whether files are found under their final names at first
    LateWork,       \* whether files are removed and the torrent added again
                    \* while goroutines of the dropped object are at work
    MaxBad,         \* bad chunks that peers send
    Faults          \* the failures that happen

ASSUME HashingAssumption ==
    /\ IsFiniteSet(Peer)
    /\ {Reverify, Preexisting, LateWork} \subseteq BOOLEAN
    /\ MaxBad \in Nat
    /\ Faults \subseteq {"database", "disk", "read", "crash"}

VARIABLES
    open,           \* the client tracks the torrent, with metadata
    dropping,       \* Drop holds the client's lock and waits for the storage
    downloading,    \* DownloadAll was called
    disallowed,     \* dataDownloadDisallowed
    cached,         \* Piece.completion
    dirty,          \* Torrent.dirtyChunks
    dirtiers,       \* Piece.dirtiers
    queued,         \* piecesQueuedForHash
    hasher,         \* where each piece hasher is
    peer,           \* where each peer's read loop is
    verify,         \* how far VerifyDataContext is
    blocks,         \* smartban.Cache.blocks
    banned,         \* Client.badPeerIPs
    guilty,         \* peers that sent bad chunks (history)
    sentBad,        \* how many (bound)
    clobbered       \* a rename replaced a file (history)

objectVars == <<open, downloading, disallowed, cached, dirty, dirtiers, queued, verify>>
banVars == <<blocks, banned, guilty, sentBad>>
vars == <<storageVars, objectVars, dropping, hasher, peer, banVars, clobbered>>

(* ioErr: the piece could not be read; files: what is left of the loop over *)
(* its files; bad: peers whose recorded blocks differ from those hashed.   *)
HasherState ==
    [step : {"idle", "hashing", "hashed", "set", "files", "rename", "marked"},
     piece : Piece, passed : BOOLEAN, ioErr : BOOLEAN, files : SUBSET File,
     bad : SUBSET Peer, old : BOOLEAN]
PeerState ==
    [step : {"none", "asked", "writing", "written", "failed"},
     block : Block, data : Data, old : BOOLEAN]

Idle == [step |-> "idle", piece |-> 1, passed |-> FALSE, ioErr |-> FALSE, files |-> {},
         bad |-> {}, old |-> FALSE]
Unasked == [step |-> "none", block |-> <<1, 1>>, data |-> "hole", old |-> FALSE]

(* VerifyDataContext waits until piece was hashed left more times; it has  *)
(* not queued it yet when left is 0, and is not running when piece is 0.   *)
VerifyState == [piece : 0..NumPieces + 1, left : 0..2]
NotVerifying == [piece |-> 0, left |-> 0]

TypeOK ==
    /\ StorageTypeOK
    /\ {open, dropping, downloading, disallowed, clobbered} \subseteq BOOLEAN
    /\ cached \in [Piece -> Completion]
    /\ dirty \subseteq Block
    /\ dirtiers \in [Piece -> SUBSET Peer]
    /\ queued \subseteq Piece
    /\ hasher \in [Hasher -> HasherState]
    /\ peer \in [Peer -> PeerState]
    /\ verify \in VerifyState
    /\ blocks \subseteq Peer \X Block \X Data
    /\ banned \subseteq Peer
    /\ guilty \subseteq Peer
    /\ sentBad \in 0..MaxBad

Init ==
    /\ open = FALSE /\ downloading = FALSE /\ disallowed = FALSE
    /\ cached = [p \in Piece |-> "unknown"]
    /\ dirty = {} /\ queued = {} /\ blocks = {}
    /\ dirtiers = [p \in Piece |-> {}]
    /\ verify = NotVerifying
    /\ part = [f \in File |-> NoFile]
    /\ IF Preexisting
       THEN final \in {c \in [File -> UNION {Contents(f) : f \in File}] :
                           \A f \in File : c[f] \in Contents(f)}
       ELSE final = [f \in File |-> NoFile]
    /\ store = [p \in Piece |-> "unknown"]
    /\ dropping = FALSE
    /\ hasher = [w \in Hasher |-> Idle]
    /\ peer = [c \in Peer |-> Unasked]
    /\ banned = {} /\ guilty = {} /\ sentBad = 0
    /\ clobbered = FALSE

(* The torrent's object goes away with everything it knew.                 *)
Closed ==
    /\ open' = FALSE /\ downloading' = FALSE /\ disallowed' = FALSE
    /\ cached' = [p \in Piece |-> "unknown"]
    /\ dirty' = {} /\ queued' = {} /\ blocks' = {}
    /\ dirtiers' = [p \in Piece |-> {}]
    /\ verify' = NotVerifying

-----------------------------------------------------------------------------
(* The state of a piece, as Piece's methods compute it.                    *)

IsHashing(p) == \E w \in Hasher : /\ hasher[w].step \in {"hashing", "hashed"}
                                  /\ hasher[w].piece = p /\ ~hasher[w].old
IsMarking(p) == \E w \in Hasher : /\ hasher[w].step \in {"set", "files", "rename", "marked"}
                                  /\ hasher[w].piece = p /\ ~hasher[w].old

Writing(c) == peer[c].step \in {"writing", "written", "failed"}
PendingWrites(p) == {c \in Peer : Writing(c) /\ peer[c].block[1] = p /\ ~peer[c].old}

AllDirty(p) == BlocksOf(p) \subseteq dirty

(* Mutant: the chunks of a completed piece are no longer dirty, so they    *)
(* count as missing.                                                       *)
HaveChunkIfDirty(b) == b \in dirty

HaveChunk(b) == cached[b[1]] = "complete" \/ b \in dirty

IgnoreForRequests(p) ==
    \/ cached[p] # "incomplete"
    \/ IsHashing(p) \/ IsMarking(p)
    \/ disallowed
    \/ p \in queued

-----------------------------------------------------------------------------
(* The torrent's object: adding, verifying, dropping.                      *)

AtWork == (\E w \in Hasher : hasher[w].step # "idle") \/ (\E c \in Peer : Writing(c))

(* setInfo opens the storage; onSetInfo takes over the completion of every *)
(* piece and queues a check of those where it is unknown.                  *)
OnSetInfo ==
    /\ ~open
    /\ LateWork \/ ~AtWork
    /\ open' = TRUE
    /\ store' = CompletionFromPartFiles
    /\ cached' = store'
    /\ queued' = {p \in Piece : store'[p] = "unknown"}
    /\ UNCHANGED <<part, final, downloading, disallowed, dirty, dirtiers, verify, dropping,
                   hasher, peer, banVars, clobbered>>

(* Torrent.VerifyDataContext, called by the engine's AddMagnet and AddFile, *)
(* on a torrent that already downloads when it is added again.             *)
VerifyData ==
    /\ open /\ ~dropping
    /\ verify = NotVerifying
    /\ Reverify \/ ~downloading
    /\ verify' = [piece |-> 1, left |-> 0]
    /\ UNCHANGED <<storageVars, open, downloading, disallowed, cached, dirty, dirtiers, queued,
                   dropping, hasher, peer, banVars, clobbered>>

(* Piece.VerifyDataContext: nextNovelHashCount is one more hash, or two    *)
(* when the piece is being hashed.                                         *)
VerifyPiece ==
    /\ ~dropping
    /\ verify.piece \in Piece /\ verify.left = 0
    /\ queued' = queued \cup {verify.piece}
    /\ verify' = [verify EXCEPT !.left = IF IsHashing(@) THEN 2 ELSE 1]
    /\ UNCHANGED <<storageVars, open, downloading, disallowed, cached, dirty, dirtiers,
                   dropping, hasher, peer, banVars, clobbered>>

DownloadAll ==
    /\ ~dropping
    /\ verify.piece = NumPieces + 1
    /\ verify' = NotVerifying
    /\ downloading' = TRUE
    /\ UNCHANGED <<storageVars, open, disallowed, cached, dirty, dirtiers, queued,
                   dropping, hasher, peer, banVars, clobbered>>

(* Torrent.Drop locks the client and waits until no hasher holds the       *)
(* storage lock ...                                                        *)
Drop ==
    /\ open /\ ~dropping
    /\ dropping' = TRUE
    /\ UNCHANGED <<storageVars, objectVars, hasher, peer, banVars, clobbered>>

(* ... and then leaves what is at work to itself.                          *)
DropReturns ==
    /\ dropping
    /\ \A w \in Hasher : hasher[w].old \/ hasher[w].step # "hashing"
    /\ dropping' = FALSE
    /\ Closed
    /\ hasher' = [w \in Hasher |->
                    IF hasher[w].step = "idle" THEN Idle ELSE [hasher[w] EXCEPT !.old = TRUE]]
    /\ peer' = [c \in Peer |->
                    IF Writing(c) THEN [peer[c] EXCEPT !.old = TRUE] ELSE Unasked]
    /\ UNCHANGED <<storageVars, banned, guilty, sentBad, clobbered>>

(* engine.Remove erases the content once Drop returned; Forget the marks.  *)
Remove ==
    /\ ~open /\ ~dropping
    /\ LateWork \/ ~AtWork
    /\ RemoveFiles
    /\ store' = [p \in Piece |-> "unknown"]
    /\ UNCHANGED <<objectVars, dropping, hasher, peer, banVars, clobbered>>

-----------------------------------------------------------------------------
(* Piece hashers.                                                          *)

(* getPieceToHash and startHash: the first queued piece that is neither    *)
(* being hashed nor marked; the storage lock is taken.                     *)
StartHash(w) ==
    LET ready == {p \in queued : ~IsHashing(p) /\ ~IsMarking(p)} IN
    /\ open /\ ~dropping
    /\ hasher[w].step = "idle"
    /\ ready # {}
    /\ hasher' = [hasher EXCEPT ![w] = [Idle EXCEPT !.step = "hashing", !.piece = Min(ready)]]
    /\ queued' = queued \ {Min(ready)}
    /\ UNCHANGED <<storageVars, open, downloading, disallowed, cached, dirty, dirtiers, verify,
                   dropping, peer, banVars, clobbered>>

(* hashPiece waits until no write of the piece is pending, reads it, and   *)
(* compares its blocks with those recorded for smart banning.  A read that *)
(* fails gives a wrong hash, and nobody is suspected.                      *)
HashPiece(w) ==
    LET p == hasher[w].piece IN
    /\ hasher[w].step = "hashing"
    /\ PendingWrites(p) = {}
    /\ \/ hasher' = [hasher EXCEPT ![w].step = "hashed", ![w].passed = ReadsGood(p),
                    ![w].bad = {r[1] : r \in {q \in blocks : q[2][1] = p /\ q[3] # ReadAt(q[2])}}]
       \/ /\ "read" \in Faults
          /\ hasher' = [hasher EXCEPT ![w].step = "hashed", ![w].ioErr = TRUE]
    /\ UNCHANGED <<storageVars, objectVars, dropping, peer, banVars, clobbered>>

(* Mutant: a hash that nobody waits for yet is counted too.                *)
VerifiedUnasked(p) ==
    verify' = IF verify.piece = p
              THEN IF verify.left = 1 THEN [piece |-> p + 1, left |-> 0]
                                      ELSE [verify EXCEPT !.left = @ - 1]
              ELSE verify

(* pieceHashed counts the hash for whoever verifies the piece.             *)
Verified(p) ==
    verify' = IF verify.piece = p /\ verify.left > 0
              THEN IF verify.left = 1 THEN [piece |-> p + 1, left |-> 0]
                                      ELSE [verify EXCEPT !.left = 1]
              ELSE verify

(* Mutant: all of several dirtiers are banned.                          *)
BlamedAny(p) == IF AllDirty(p) THEN dirtiers[p] ELSE {}

(* A failed piece that could be read is blamed on its dirtiers if they     *)
(* wrote all of it: a single one is banned, of several none.               *)
Blamed(p) == IF AllDirty(p) /\ Cardinality(dirtiers[p]) = 1 THEN dirtiers[p] ELSE {}

(* finishHash and pieceHashed, up to releasing the lock.                   *)
FinishHash(w) ==
    LET p == hasher[w].piece
        passed == hasher[w].passed
        ioErr == hasher[w].ioErr
        ban == (IF passed THEN hasher[w].bad ELSE {}) \cup
               (IF passed \/ ioErr \/ hasher[w].old THEN {} ELSE Blamed(p))
    IN
    /\ ~dropping
    /\ hasher[w].step = "hashed"
    /\ banned' = banned \cup ban
    /\ peer' = [c \in Peer |-> IF c \in ban /\ peer[c].step = "asked" THEN Unasked ELSE peer[c]]
    /\ IF hasher[w].old
       THEN /\ hasher' = [hasher EXCEPT ![w] = Idle]
            /\ UNCHANGED <<dirtiers, verify, blocks>>
       ELSE /\ hasher' = [hasher EXCEPT ![w].step = "set"]
            /\ dirtiers' = IF passed \/ (AllDirty(p) /\ ~ioErr)
                           THEN [dirtiers EXCEPT ![p] = {}] ELSE dirtiers
            /\ blocks' = IF passed THEN {r \in blocks : r[2][1] # p} ELSE blocks
            /\ Verified(p)
    /\ UNCHANGED <<storageVars, open, downloading, disallowed, cached, dirty, queued,
                   dropping, guilty, sentBad, clobbered>>

(* MarkComplete and MarkNotComplete: the store first; when it fails the    *)
(* files are left alone.                                                   *)
MarkSet(w) ==
    /\ hasher[w].step = "set"
    /\ \/ /\ store' = [store EXCEPT ![hasher[w].piece] =
                            IF hasher[w].passed THEN "complete" ELSE "incomplete"]
          /\ hasher' = [hasher EXCEPT ![w].step = "files", ![w].files = PieceFiles(hasher[w].piece)]
       \/ /\ "database" \in Faults
          /\ hasher' = [hasher EXCEPT ![w].step = "marked"]
          /\ UNCHANGED store
    /\ UNCHANGED <<part, final, objectVars, dropping, peer, banVars, clobbered>>

(* Mutant: a file is promoted whatever its other pieces are.               *)
MarkFileUnasked(w) ==
    LET files == hasher[w].files IN
    /\ hasher[w].step = "files"
    /\ hasher' = [hasher EXCEPT ![w].step = IF files = {} THEN "marked" ELSE "rename"]
    /\ UNCHANGED <<storageVars, objectVars, dropping, peer, banVars, clobbered>>

(* The next file of the loop; a piece that passed asks the store about the *)
(* file's other pieces before it goes on to promote it.                    *)
MarkFile(w) ==
    LET files == hasher[w].files IN
    /\ hasher[w].step = "files"
    /\ \/ /\ files = {}
          /\ hasher' = [hasher EXCEPT ![w].step = "marked"]
       \/ /\ files # {}
          /\ IF ~hasher[w].passed \/ AllFilePiecesComplete(Min(files))
             THEN hasher' = [hasher EXCEPT ![w].step = "rename"]
             ELSE hasher' = [hasher EXCEPT ![w].files = files \ {Min(files)}]
    /\ UNCHANGED <<storageVars, objectVars, dropping, peer, banVars, clobbered>>

Rename(w) ==
    LET f == Min(hasher[w].files) IN
    /\ hasher[w].step = "rename"
    /\ IF hasher[w].passed THEN PromotePartFile(f) ELSE OnFileNotComplete(f)
    /\ clobbered' = (clobbered \/ (part[f] # NoFile /\ final[f] # NoFile))
    /\ hasher' = [hasher EXCEPT ![w].step = "files", ![w].files = @ \ {f}]
    /\ UNCHANGED <<store, objectVars, dropping, peer, banVars>>

(* The end of pieceHashed, with the lock held again: the verdict stands    *)
(* even when marking failed.                                               *)
PieceMarked(w) ==
    LET p == hasher[w].piece IN
    /\ ~dropping
    /\ hasher[w].step = "marked"
    /\ hasher' = [hasher EXCEPT ![w] = Idle]
    /\ IF hasher[w].old
       THEN UNCHANGED <<dirty, cached>>
       ELSE /\ dirty' = IF hasher[w].passed \/ AllDirty(p) THEN dirty \ BlocksOf(p) ELSE dirty
            /\ cached' = [cached EXCEPT ![p] = IF hasher[w].passed THEN "complete" ELSE "incomplete"]
    /\ UNCHANGED <<storageVars, open, downloading, disallowed, dirtiers, queued, verify, dropping,
                   peer, banVars, clobbered>>

-----------------------------------------------------------------------------
(* Peers.                                                                  *)

(* A chunk of a wanted piece is asked for.  One that was asked for earlier *)
(* from another peer may still come.                                       *)
Ask(c, b) ==
    /\ open /\ ~dropping /\ downloading
    /\ c \notin banned
    /\ peer[c].step = "none"
    /\ ~IgnoreForRequests(b[1])
    /\ b \notin dirty
    /\ peer' = [peer EXCEPT ![c] = [Unasked EXCEPT !.step = "asked", !.block = b]]
    /\ UNCHANGED <<storageVars, objectVars, dropping, hasher, banVars, clobbered>>

(* receiveChunk up to releasing the lock.                                  *)
ReceiveChunk(c, data) ==
    LET b == peer[c].block IN
    /\ ~dropping
    /\ peer[c].step = "asked"
    /\ data = "bad" => sentBad < MaxBad
    /\ sentBad' = IF data = "bad" THEN sentBad + 1 ELSE sentBad
    /\ guilty' = IF data = "bad" THEN guilty \cup {c} ELSE guilty
    /\ blocks' = blocks \cup {<<c, b, data>>}
    /\ IF HaveChunk(b)
       THEN /\ peer' = [peer EXCEPT ![c] = Unasked]
            /\ UNCHANGED dirty
       ELSE /\ peer' = [peer EXCEPT ![c].step = "writing", ![c].data = data]
            /\ dirty' = dirty \cup {b}
    /\ UNCHANGED <<storageVars, open, downloading, disallowed, cached, dirtiers, queued, verify,
                   dropping, hasher, banned, clobbered>>

(* writeChunk, without a lock.                                             *)
WriteChunk(c) ==
    /\ peer[c].step = "writing"
    /\ \/ /\ WriteAt(peer[c].block, peer[c].data)
          /\ peer' = [peer EXCEPT ![c].step = "written"]
       \/ /\ "disk" \in Faults
          /\ peer' = [peer EXCEPT ![c].step = "failed"]
          /\ UNCHANGED part
    /\ UNCHANGED <<final, store, objectVars, dropping, hasher, banVars, clobbered>>

(* Mutant: any writer queues a check of a piece whose chunks all came in.  *)
CheckDueEarly(c) == AllDirty(peer[c].block[1])

(* Mutant: the writer still counts its own write as pending.               *)
CheckDueNever(c) == AllDirty(peer[c].block[1]) /\ PendingWrites(peer[c].block[1]) = {}

(* The last writer of a piece whose chunks all came in queues its check.   *)
CheckDue(c) == AllDirty(peer[c].block[1]) /\ PendingWrites(peer[c].block[1]) = {c}

(* The rest of receiveChunk, with the lock held again.  A failed write     *)
(* stops the torrent's download.                                           *)
ChunkWritten(c) ==
    LET p == peer[c].block[1] IN
    /\ ~dropping
    /\ peer[c].step \in {"written", "failed"}
    /\ peer' = [peer EXCEPT ![c] = Unasked]
    /\ IF peer[c].old
       THEN UNCHANGED <<dirty, dirtiers, queued, disallowed>>
       ELSE \/ /\ peer[c].step = "failed"
               /\ dirty' = dirty \ {peer[c].block}
               /\ disallowed' = TRUE
               /\ UNCHANGED <<dirtiers, queued>>
            \/ /\ peer[c].step = "written"
               /\ dirtiers' = [dirtiers EXCEPT ![p] = @ \cup {c}]
               /\ queued' = IF CheckDue(c) THEN queued \cup {p} ELSE queued
               /\ UNCHANGED <<dirty, disallowed>>
    /\ UNCHANGED <<storageVars, open, downloading, cached, verify, dropping, hasher, banVars, clobbered>>

-----------------------------------------------------------------------------

(* The process dies and is started again: files and store remain.          *)
Crash ==
    /\ "crash" \in Faults
    /\ Closed
    /\ dropping' = FALSE
    /\ hasher' = [w \in Hasher |-> Idle]
    /\ peer' = [c \in Peer |-> Unasked]
    /\ banned' = {}
    /\ UNCHANGED <<storageVars, guilty, sentBad, clobbered>>

HasherStep(w) ==
    StartHash(w) \/ HashPiece(w) \/ FinishHash(w) \/ MarkSet(w) \/ MarkFile(w)
    \/ Rename(w) \/ PieceMarked(w)

WriterStep(c) == WriteChunk(c) \/ ChunkWritten(c)

EngineStep == VerifyPiece \/ DownloadAll \/ DropReturns

Next ==
    \/ OnSetInfo \/ VerifyData \/ Drop \/ Remove \/ EngineStep
    \/ \E w \in Hasher : HasherStep(w)
    \/ \E c \in Peer :
        \/ \E b \in Block : Ask(c, b)
        \/ \E data \in {"good", "bad"} : ReceiveChunk(c, data)
        \/ WriterStep(c)
    \/ Crash

Spec == Init /\ [][Next]_vars

(* Goroutines that are under way are scheduled; nothing is assumed of      *)
(* peers, nor that anybody drops or verifies a torrent.                    *)
Fairness ==
    /\ \A w \in Hasher : WF_vars(HasherStep(w))
    /\ \A c \in Peer : WF_vars(WriterStep(c))
    /\ WF_vars(EngineStep)

FairSpec == Spec /\ Fairness

-----------------------------------------------------------------------------
(* Properties.                                                             *)

(* What the client believes complete and offers to peers reads back as     *)
(* good, through every promotion and demotion of the files around it, from *)
(* when the torrent downloads.                                             *)
BelievedIsGood ==
    open /\ downloading => \A p \in Piece : cached[p] = "complete" => ReadsGood(p)

(* A peer is banned only for a bad chunk it sent, never for what another   *)
(* peer wrote into the same piece or for data that was there before.       *)
NoneBannedWrongly == banned \subseteq guilty

(* exclRenameIfExists: "Rename from if exists, and if so, to must not      *)
(* exist": no rename replaces a file.                                      *)
RenameIsExclusive == ~clobbered

(* A chunk that was received and not yet proved belongs to a piece whose   *)
(* check is coming: nothing all of whose chunks were written is forgotten. *)
FullPieceIsChecked ==
    \A p \in Piece :
        open /\ AllDirty(p) /\ PendingWrites(p) = {}
            => p \in queued \/ IsHashing(p) \/ IsMarking(p)

(* While Drop waits with the client's lock, no hasher it waits for waits   *)
(* for a writer in turn: the writer could not report its write.            *)
DropIsUnblocked ==
    dropping => \A w \in Hasher :
                    hasher[w].step = "hashing" => PendingWrites(hasher[w].piece) = {}

(* "Drop the torrent from the client, and close it. It's always safe to do *)
(* this": it returns.                                                      *)
DropEnds == dropping ~> ~dropping
=============================================================================
