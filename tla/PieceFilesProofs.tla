--------------------------- MODULE PieceFilesProofs ---------------------------
(***************************************************************************)
(* Proofs about what PieceHashing has on disk, for torrents that were not  *)
(* there before (no Preexisting files), are not verified while they        *)
(* download (no Reverify) and whose goroutines end before they are added   *)
(* again or erased (no LateWork), and whose files can be read; failures of *)
(* the database and of writes, and crashes, included.                      *)
(***************************************************************************)
EXTENDS PieceHashingProofs

Undisturbed == ~Reverify /\ ~Preexisting /\ ~LateWork /\ "read" \notin Faults

-----------------------------------------------------------------------------
(* All goroutines, those of a dropped torrent's object included.           *)

(* Old goroutines are those at work while no torrent is tracked.  No two   *)
(* hashers have the same piece, no two peers write the same block, and no  *)
(* peer writes to a piece that has a hasher.                               *)
Owned == /\ \A c \in Peer : peer[c].old => Writing(c)
         /\ open => /\ \A w \in Hasher : ~hasher[w].old
                    /\ \A c \in Peer : ~peer[c].old

Disjoint ==
    /\ \A v, w \in Hasher : Working(v) /\ Working(w) /\ hasher[v].piece = hasher[w].piece => v = w
    /\ \A c, d \in Peer : Writing(c) /\ Writing(d) /\ peer[c].block = peer[d].block => c = d
    /\ \A w \in Hasher, c \in Peer :
          Working(w) /\ Writing(c) => hasher[w].piece # peer[c].block[1]

LEMMA OwnedHasher ==
    ASSUME TypeInv, Alive, Owned, NEW w \in Hasher, HasherStep(w)
    PROVE  Owned'
<1>1. hasher \in [Hasher -> HasherState]
    BY DEF TypeInv, WorkType
<1>2. /\ Begins(w) \/ Keeps(w) \/ Ends(w)
      /\ open' = open
    BY HasherEffect
<1>3. \A c \in Peer : peer'[c] = peer[c] \/ peer'[c] = Unasked
    BY DEF HasherStep, StartHash, HashPiece, FinishHash, MarkSet, MarkFile, Rename, PieceMarked
<1>4. \A c \in Peer : /\ peer'[c].old => Writing(c)'
                      /\ peer'[c].old => peer[c].old
    BY <1>3 DEF Owned, Writing, Unasked
<1>5. \A v \in Hasher : hasher'[v].old => hasher[v].old
    <2>1. CASE Begins(w)
        <3>1. PICK p \in queued :
                  hasher' = [hasher EXCEPT ![w] = [Idle EXCEPT !.step = "hashing", !.piece = p]]
            BY <2>1 DEF Begins
        <3> QED
            BY <1>1, <3>1 DEF Idle
    <2>2. CASE Keeps(w)
        BY <1>1, <2>2 DEF Keeps
    <2>3. CASE Ends(w)
        BY <1>1, <2>3 DEF Ends, Idle
    <2> QED
        BY <1>2, <2>1, <2>2, <2>3
<1> QED
    BY <1>2, <1>4, <1>5 DEF Owned

LEMMA OwnedPeer ==
    ASSUME TypeInv, Alive, Owned, NEW c \in Peer, PeerStep(c)
    PROVE  Owned'
<1>1. /\ UNCHANGED <<open, hasher>>
      /\ \A d \in Peer \ {c} : peer'[d] = peer[d]
      /\ peer[c] \in PeerState /\ peer \in [Peer -> PeerState]
    BY PeerEffect
<1>2. (peer'[c].old => Writing(c)') /\ (peer'[c].old => peer[c].old)
    <2>1. ASSUME NEW b \in Block, Ask(c, b) PROVE ~peer'[c].old
        BY <1>1, <2>1 DEF Ask, Unasked
    <2>2. ASSUME NEW data \in {"good", "bad"}, ReceiveChunk(c, data) PROVE ~peer'[c].old
        BY <1>1, <2>2 DEF ReceiveChunk, Unasked, Alive, PeerState
    <2>3. CASE WriteChunk(c)
        BY <1>1, <2>3 DEF WriteChunk, Writing, PeerState
    <2>4. CASE ChunkWritten(c)
        BY <1>1, <2>4 DEF ChunkWritten, Unasked
    <2> QED
        BY <2>1, <2>2, <2>3, <2>4 DEF PeerStep, WriterStep
<1> QED
    BY <1>1, <1>2 DEF Owned, Writing

LEMMA OwnedEngine ==
    ASSUME ~LateWork, TypeInv, Alive, Owned,
           OnSetInfo \/ VerifyData \/ Drop \/ Remove \/ EngineStep \/ Crash
    PROVE  Owned'
<1>1. CASE OnSetInfo
    <2>1. UNCHANGED <<hasher, peer>> /\ ~AtWork
        BY <1>1 DEF OnSetInfo
    <2> QED
        BY <2>1 DEF Owned, Alive, AtWork, Writing
<1>2. CASE VerifyData \/ VerifyPiece \/ DownloadAll \/ Drop \/ Remove
    <2>1. UNCHANGED <<hasher, peer, open>>
        BY <1>2 DEF VerifyData, VerifyPiece, DownloadAll, Drop, Remove, objectVars
    <2> QED
        BY <2>1 DEF Owned, Writing
<1>3. CASE DropReturns \/ Crash
    <2>1. ASSUME NEW c \in Peer PROVE peer'[c].old => Writing(c)'
        <3>1. peer[c] \in PeerState
            BY DEF TypeInv, WorkType
        <3>2. peer'[c] = Unasked \/ (Writing(c) /\ peer'[c] = [peer[c] EXCEPT !.old = TRUE])
            BY <1>3, DropEffect
        <3> QED
            BY <3>1, <3>2 DEF Writing, Unasked, PeerState
    <2>2. open' = FALSE
        BY <1>3, DropEffect
    <2> QED
        BY <2>1, <2>2 DEF Owned
<1> QED
    BY <1>1, <1>2, <1>3 DEF EngineStep

(* Without a tracked torrent, goroutines only end.                         *)
LEMMA OnlyEnds ==
    ASSUME TypeInv, Alive, [Next]_vars, ~open'
    PROVE  /\ \A w \in Hasher : Working(w)' => Working(w) /\ hasher'[w].piece = hasher[w].piece
           /\ \A c \in Peer : Writing(c)' => Writing(c) /\ peer'[c].block = peer[c].block
<1> DEFINE Hs == \A w \in Hasher : Working(w)' => Working(w) /\ hasher'[w].piece = hasher[w].piece
           Ps == \A c \in Peer : Writing(c)' => Writing(c) /\ peer'[c].block = peer[c].block
<1>0. hasher \in [Hasher -> HasherState] /\ peer \in [Peer -> PeerState]
    BY DEF TypeInv, WorkType
<1>1. ASSUME UNCHANGED <<hasher, peer>> PROVE Hs /\ Ps
    BY <1>1 DEF Working, Writing
<1>2. CASE UNCHANGED vars
    BY <1>1, <1>2 DEF vars
<1>3. CASE OnSetInfo \/ VerifyData \/ Drop \/ Remove \/ VerifyPiece \/ DownloadAll
    BY <1>1, <1>3 DEF OnSetInfo, VerifyData, Drop, Remove, VerifyPiece, DownloadAll
<1>4. CASE DropReturns \/ Crash
    <2>1. ASSUME NEW w \in Hasher, Working(w)'
          PROVE  Working(w) /\ hasher'[w].piece = hasher[w].piece
        <3>1. hasher'[w] # Idle
            BY <2>1 DEF Working, Idle
        <3>2. Working(w) /\ hasher'[w] = [hasher[w] EXCEPT !.old = TRUE]
            BY <1>4, <3>1, DropEffect
        <3>3. hasher[w] \in HasherState
            BY <1>0
        <3> QED
            BY <3>2, <3>3 DEF HasherState
    <2>2. ASSUME NEW c \in Peer, Writing(c)'
          PROVE  Writing(c) /\ peer'[c].block = peer[c].block
        <3>1. peer'[c] # Unasked
            BY <2>2 DEF Writing, Unasked
        <3>2. Writing(c) /\ peer'[c] = [peer[c] EXCEPT !.old = TRUE]
            BY <1>4, <3>1, DropEffect
        <3>3. peer[c] \in PeerState
            BY <1>0
        <3> QED
            BY <3>2, <3>3 DEF PeerState
    <2> QED
        BY <2>1, <2>2
<1>5. ASSUME NEW w \in Hasher, HasherStep(w) PROVE Hs /\ Ps
    <2>1. (Begins(w) \/ Keeps(w) \/ Ends(w)) /\ open' = open
        BY <1>5, HasherEffect
    <2>2. Keeps(w) \/ Ends(w)
        BY <2>1 DEF Begins
    <2>3. Hs
        BY <1>0, <2>2 DEF Keeps, Ends, Working, Idle
    <2>4. \A c \in Peer : peer'[c] = peer[c] \/ peer'[c] = Unasked
        BY <1>5
        DEF HasherStep, StartHash, HashPiece, FinishHash, MarkSet, MarkFile, Rename, PieceMarked
    <2>5. Ps
        BY <2>4 DEF Writing, Unasked
    <2> QED
        BY <2>3, <2>5
<1>6. ASSUME NEW c \in Peer, PeerStep(c) PROVE Hs /\ Ps
    <2>1. /\ UNCHANGED <<open, hasher>>
          /\ \A d \in Peer \ {c} : peer'[d] = peer[d]
          /\ peer[c] \in PeerState
        BY <1>6, PeerEffect
    <2>2. ~open /\ peer[c].step # "asked"
        BY <2>1 DEF Alive
    <2>3. WriterStep(c)
        BY <1>6, <2>2 DEF PeerStep, Ask, ReceiveChunk
    <2>4. Writing(c) /\ (Writing(c)' => peer'[c].block = peer[c].block)
        BY <1>0, <2>1, <2>3 DEF WriterStep, WriteChunk, ChunkWritten, Writing, Unasked, PeerState
    <2> QED
        BY <2>1, <2>4 DEF Working, Writing
<1> QED
    BY <1>2, <1>3, <1>4, <1>5, <1>6 DEF Next, EngineStep, PeerStep

LEMMA DisjointStep ==
    ASSUME TypeInv, Alive, Apart, Disjoint, [Next]_vars,
           TypeInv', Alive', Apart', Owned'
    PROVE  Disjoint'
<1>1. CASE ~open'
    BY <1>1, OnlyEnds DEF Disjoint
<1>2. CASE open'
    <2>1. \A w \in Hasher : Working(w)' => On(w, hasher[w].piece)'
        BY <1>2 DEF Owned, On
    <2>2. \A c \in Peer : Writing(c)' => Writes(c, peer[c].block)' /\ peer'[c].block \in Block
        BY <1>2 DEF Owned, Writes, TypeInv, WorkType, PeerState
    <2>3. \A v, w \in Hasher :
              Working(v)' /\ Working(w)' /\ hasher'[v].piece = hasher'[w].piece => v = w
        BY <2>1 DEF Alive, On
    <2>4. \A c, d \in Peer :
              Writing(c)' /\ Writing(d)' /\ peer'[c].block = peer'[d].block => c = d
        BY <2>2 DEF Apart, Writes
    <2>5. ASSUME NEW w \in Hasher, NEW c \in Peer, Working(w)', Writing(c)'
          PROVE  hasher'[w].piece # peer'[c].block[1]
        <3>1. PICK b \in Block : b = peer'[c].block
            BY <2>2, <2>5
        <3>2. Writes(c, b)'
            BY <2>2, <2>5, <3>1 DEF Writes
        <3>3. ~Busy(b[1])'
            BY <3>2 DEF Apart
        <3> QED
            BY <2>1, <2>5, <3>1, <3>3 DEF Busy, HasherOn, On
    <2> QED
        BY <2>3, <2>4, <2>5 DEF Disjoint
<1> QED
    BY <1>1, <1>2

-----------------------------------------------------------------------------
(* Reading what was written and renamed.                                   *)

(* No file has both names, and one with its final name is part of no piece *)
(* that reads bad.                                                         *)
FinalGood == \A f \in File : final[f] # NoFile =>
                 part[f] = NoFile /\ \A p \in FilePieces(f) : ReadsGood(p)

LEMMA SameReads ==
    ASSUME UNCHANGED <<part, final>>
    PROVE  /\ \A b \in Block : ReadAt(b)' = ReadAt(b)
           /\ \A p \in Piece : ReadsGood(p)' <=> ReadsGood(p)
BY DEF ReadsGood, ReadAt, Opened

(* Renaming a file changes nothing of what is read from it.                *)
LEMMA PromoteReads ==
    ASSUME TypeInv, FinalGood, NEW f \in File, PromotePartFile(f)
    PROVE  /\ \A b \in Block : ReadAt(b)' = ReadAt(b)
           /\ \A p \in Piece : ReadsGood(p)' <=> ReadsGood(p)
           /\ \A g \in File \ {f} : part'[g] = part[g] /\ final'[g] = final[g]
           /\ final'[f] # NoFile => part'[f] = NoFile
<1>1. CASE part[f] = NoFile
    <2>1. UNCHANGED <<part, final>>
        BY <1>1 DEF PromotePartFile
    <2> QED
        BY <1>1, <2>1, SameReads
<1>2. CASE part[f] # NoFile
    <2>1. \A g \in File : /\ part'[g] = IF g = f THEN NoFile ELSE part[g]
                          /\ final'[g] = IF g = f THEN part[f] ELSE final[g]
        BY <1>2 DEF PromotePartFile, TypeInv, FilesType
    <2>2. \A g \in File : Opened(g)' = Opened(g)
        BY <1>2, <2>1 DEF Opened
    <2>3. \A b \in Block : ReadAt(b)' = ReadAt(b)
        BY <2>2, BlockFacts DEF ReadAt
    <2>4. \A p \in Piece : ReadsGood(p)' <=> ReadsGood(p)
        BY <2>3, BlockFacts DEF ReadsGood
    <2> QED
        BY <2>1, <2>3, <2>4
<1> QED
    BY <1>1, <1>2

(* A block that is written to a file without its final name is read back,  *)
(* and no other is disturbed.                                              *)
LEMMA WriteReads ==
    ASSUME TypeInv, NEW b \in Block, NEW data \in Data, WriteAt(b, data),
           final[Place[b]] = NoFile, final' = final
    PROVE  /\ ReadAt(b)' = data
           /\ \A e \in Block \ {b} : ReadAt(e)' = ReadAt(e)
           /\ \A p \in Piece \ {b[1]} : ReadsGood(p)' <=> ReadsGood(p)
           /\ \A g \in File \ {Place[b]} : part'[g] = part[g]
<1> DEFINE f == Place[b]
           old == IF part[f] = NoFile THEN [c \in FileBlocks(f) |-> "hole"] ELSE part[f]
           new == [old EXCEPT ![b] = data]
<1>1. f \in File /\ b \in FileBlocks(f)
    BY BlockFacts
<1>2. old \in Contents(f)
    BY <1>1 DEF TypeInv, FilesType, StorageTypeOK, Contents, Data
<1>3. part' = [part EXCEPT ![f] = new]
    BY DEF WriteAt
<1>4. new \in Contents(f) /\ new[b] = data /\ \A e \in FileBlocks(f) \ {b} : new[e] = old[e]
    <2> HIDE DEF old, f
    <2> QED
        BY <1>1, <1>2 DEF Contents
<1>5. new # NoFile
    <2> HIDE DEF new, f
    <2> QED
        BY <1>1, <1>4, NoFileAssumption
<1>6. \A e \in FileBlocks(f) : old[e] = IF Opened(f) = NoFile THEN "hole" ELSE Opened(f)[e]
    BY DEF Opened
<1> HIDE DEF old, new
<1>7. \A g \in File : part'[g] = IF g = f THEN new ELSE part[g]
    BY <1>1, <1>3 DEF TypeInv, FilesType
<1>8. Opened(f)' = new /\ \A g \in File \ {f} : Opened(g)' = Opened(g)
    BY <1>1, <1>5, <1>7 DEF Opened
<1>9. ReadAt(b)' = data
    BY <1>1, <1>4, <1>5, <1>8 DEF ReadAt
<1>10. ASSUME NEW e \in Block \ {b} PROVE ReadAt(e)' = ReadAt(e)
    <2>1. Place[e] \in File /\ e \in FileBlocks(Place[e])
        BY BlockFacts
    <2>2. CASE Place[e] = f
        <3>1. ReadAt(e)' = new[e]
            BY <1>5, <1>8, <2>2 DEF ReadAt
        <3>2. ReadAt(e) = old[e]
            BY <1>6, <2>1, <2>2 DEF ReadAt
        <3> QED
            BY <1>4, <2>1, <2>2, <3>1, <3>2
    <2>3. CASE Place[e] # f
        BY <1>8, <2>1, <2>3 DEF ReadAt
    <2> QED
        BY <2>2, <2>3
<1>11. \A p \in Piece \ {b[1]} : ReadsGood(p)' <=> ReadsGood(p)
    <2>1. \A p \in Piece \ {b[1]} : \A e \in BlocksOf(p) : e \in Block \ {b}
        BY DEF BlocksOf
    <2> QED
        BY <1>10, <2>1 DEF ReadsGood
<1> QED
    BY <1>7, <1>9, <1>10, <1>11

-----------------------------------------------------------------------------
(* What is believed, recorded and promoted.                                *)

Marking(w) == hasher[w].step \in {"set", "files", "rename", "marked"}

(* A hasher is recording that the piece is good.                           *)
Proved(p) == \E w \in Hasher : Marking(w) /\ hasher[w].piece = p /\ hasher[w].passed

(* What the client or the store has complete reads good, and without a     *)
(* tracked torrent the client has nothing.                                 *)
MarkedGood == /\ \A p \in Piece : cached[p] = "complete" \/ store[p] = "complete" => ReadsGood(p)
              /\ ~open => \A p \in Piece : cached[p] = "unknown"

(* A hasher's verdict is still true when it is recorded.                   *)
VerdictHolds ==
    \A w \in Hasher : hasher[w].step = "hashed" \/ Marking(w) =>
        (hasher[w].passed <=> ReadsGood(hasher[w].piece))

(* The loop over the files; one that is about to be promoted is complete.  *)
LoopFiles ==
    \A w \in Hasher :
        /\ hasher[w].step \in {"files", "rename"} =>
              hasher[w].files \subseteq PieceFiles(hasher[w].piece)
        /\ hasher[w].step = "rename" =>
              /\ hasher[w].files # {}
              /\ hasher[w].passed => AllFilePiecesComplete(Min(hasher[w].files))

(* Nothing that is written to is believed, recorded or promoted.           *)
WritersFree ==
    \A c \in Peer, p \in Piece : Writing(c) /\ peer[c].block[1] = p =>
        /\ cached[p] # "complete" /\ store[p] # "complete"
        /\ \A f \in PieceFiles(p) : final[f] = NoFile

(* The client believes what the store has, or is about to.                 *)
Recorded == open => \A p \in Piece : store[p] = "complete" => cached[p] = "complete" \/ Proved(p)

(* And in the files that were promoted, once they were verified.           *)
Trusted ==
    open => \A p \in Piece, f \in File :
        /\ downloading \/ p < verify.piece
        /\ f \in PieceFiles(p) /\ final[f] # NoFile
        => cached[p] = "complete" \/ Proved(p)

FilesInv ==
    FinalGood /\ MarkedGood /\ VerdictHolds /\ LoopFiles /\ WritersFree /\ Recorded /\ Trusted
        /\ RenameIsExclusive

LEMMA FilesInit == ASSUME ~Preexisting PROVE Init => FilesInv
<1> SUFFICES ASSUME Init PROVE FilesInv
    OBVIOUS
<1>1. (\A f \in File : final[f] = NoFile) /\ open = FALSE /\ clobbered = FALSE
    BY DEF Init
<1>2. \A p \in Piece : cached[p] = "unknown" /\ store[p] = "unknown"
    BY DEF Init
<1>3. \A w \in Hasher : hasher[w].step = "idle"
    BY DEF Init, Idle
<1>4. \A c \in Peer : ~Writing(c)
    BY DEF Init, Writing, Unasked
<1> QED
    BY <1>1, <1>2, <1>3, <1>4
    DEF FilesInv, FinalGood, MarkedGood, VerdictHolds, LoopFiles, WritersFree, Recorded, Trusted,
        RenameIsExclusive, Marking

(* A step that touches neither files nor beliefs.                          *)
LEMMA FilesSame ==
    ASSUME FilesInv,
           UNCHANGED <<part, final, store, cached, hasher, verify, open, downloading, clobbered>>
    PROVE  /\ FinalGood' /\ MarkedGood' /\ VerdictHolds' /\ LoopFiles' /\ Recorded' /\ Trusted'
           /\ RenameIsExclusive'
<1> USE DEF FilesInv
<1>1. FinalGood'
    BY DEF FinalGood, ReadsGood, ReadAt, Opened
<1>2. MarkedGood'
    BY DEF MarkedGood, ReadsGood, ReadAt, Opened
<1>3. VerdictHolds'
    BY DEF VerdictHolds, Marking, ReadsGood, ReadAt, Opened
<1>4. LoopFiles'
    BY DEF LoopFiles, AllFilePiecesComplete
<1>5. Recorded' /\ Trusted' /\ RenameIsExclusive'
    BY DEF Recorded, Trusted, RenameIsExclusive, Proved, Marking
<1> QED
    BY <1>1, <1>2, <1>3, <1>4, <1>5

LEMMA FilesPeer ==
    ASSUME TypeInv, Alive, Apart, Owned, Disjoint, FilesInv, NEW c \in Peer, PeerStep(c)
    PROVE  FilesInv'
<1>1. /\ UNCHANGED <<open, downloading, cached, verify, hasher, final, store>>
      /\ \A d \in Peer \ {c} : peer'[d] = peer[d]
      /\ peer[c] \in PeerState /\ peer \in [Peer -> PeerState]
    BY PeerEffect
<1>2. clobbered' = clobbered
    BY DEF PeerStep, WriterStep, Ask, ReceiveChunk, WriteChunk, ChunkWritten
<1>3. PICK b \in Block : b = peer[c].block
    BY <1>1 DEF PeerState
<1>4. b[1] \in Piece /\ Place[b] \in PieceFiles(b[1]) /\ Place[b] \in File
    BY BlockFacts DEF PieceFiles
<1>5. ASSUME \A p \in Piece : Writing(c)' /\ peer'[c].block[1] = p =>
                /\ cached[p] # "complete" /\ store[p] # "complete"
                /\ \A f \in PieceFiles(p) : final[f] = NoFile
      PROVE  WritersFree'
    BY <1>1, <1>5 DEF WritersFree, FilesInv, Writing
<1>6. ASSUME NEW a \in Block, Ask(c, a)
      PROVE  FilesInv'
    <2>1. ~Writing(c)' /\ part' = part
        BY <1>1, <1>6 DEF Ask, Writing, Unasked, storageVars
    <2> QED
        BY <1>1, <1>2, <1>5, <2>1, FilesSame DEF FilesInv
<1>7. ASSUME NEW data \in {"good", "bad"}, ReceiveChunk(c, data)
      PROVE  FilesInv'
    <2>1. part' = part
        BY <1>7 DEF ReceiveChunk, storageVars
    <2>2. CASE HaveChunk(b)
        <3>1. ~Writing(c)'
            BY <1>1, <1>3, <1>7, <2>2 DEF ReceiveChunk, Writing, Unasked
        <3> QED
            BY <1>1, <1>2, <1>5, <2>1, <3>1, FilesSame DEF FilesInv
    <2>3. CASE ~HaveChunk(b)
        <3>1. peer'[c].block = b
            BY <1>1, <1>3, <1>7, <2>3 DEF ReceiveChunk, PeerState
        <3>2. Asked(c, b[1]) /\ downloading /\ open
            BY <1>3, <1>7 DEF ReceiveChunk, Asked, Alive
        <3>3. ~Busy(b[1])
            BY <1>4, <2>3, <3>2, BlockFacts DEF Apart, AllDirty, HaveChunk
        <3>4. ~Proved(b[1])
            <4> SUFFICES ASSUME NEW w \in Hasher, Marking(w), hasher[w].piece = b[1]
                         PROVE  FALSE
                BY DEF Proved
            <4>1. On(w, b[1])
                BY <3>2 DEF On, Working, Marking, Owned
            <4> QED
                BY <3>3, <4>1 DEF Busy, HasherOn
        <3>5. cached[b[1]] # "complete"
            BY <2>3 DEF HaveChunk
        <3>6. store[b[1]] # "complete" /\ \A f \in PieceFiles(b[1]) : final[f] = NoFile
            BY <1>4, <3>2, <3>4, <3>5, BlockFacts DEF FilesInv, Recorded, Trusted
        <3> QED
            BY <1>1, <1>2, <1>5, <2>1, <3>1, <3>5, <3>6, FilesSame DEF FilesInv
    <2> QED
        BY <2>2, <2>3
<1>8. CASE WriteChunk(c) /\ part' # part
    <2>1. WriteAt(b, peer[c].data) /\ Writing(c) /\ peer[c].data \in Data
        BY <1>1, <1>3, <1>8 DEF WriteChunk, Writing, PeerState
    <2>2. /\ cached[b[1]] # "complete" /\ store[b[1]] # "complete"
          /\ \A f \in PieceFiles(b[1]) : final[f] = NoFile
        BY <1>3, <1>4, <2>1 DEF FilesInv, WritersFree
    <2>3. /\ \A p \in Piece \ {b[1]} : ReadsGood(p)' <=> ReadsGood(p)
          /\ \A g \in File \ {Place[b]} : part'[g] = part[g]
        BY <1>1, <1>4, <2>1, <2>2, WriteReads
    <2>4. \A w \in Hasher : Working(w) => hasher[w].piece # b[1] /\ hasher[w].piece \in Piece
        BY <1>3, <2>1 DEF Disjoint, TypeInv, WorkType, HasherState
    <2>5. FinalGood'
        <3> SUFFICES ASSUME NEW f \in File, final[f] # NoFile
                     PROVE  part'[f] = NoFile /\ \A p \in FilePieces(f) : ReadsGood(p)'
            BY <1>1 DEF FinalGood
        <3>1. f \notin PieceFiles(b[1])
            BY <2>2
        <3>2. b[1] \notin FilePieces(f) /\ f # Place[b]
            BY <1>4, <3>1 DEF FilePieces, FileBlocks, PieceFiles, BlocksOf
        <3>3. FilePieces(f) \subseteq Piece
            BY BlockFacts
        <3> QED
            BY <2>3, <3>2, <3>3 DEF FilesInv, FinalGood
    <2>6. MarkedGood'
        BY <1>1, <2>2, <2>3 DEF FilesInv, MarkedGood
    <2>7. VerdictHolds'
        BY <1>1, <2>3, <2>4 DEF FilesInv, VerdictHolds, Marking, Working
    <2>8. LoopFiles' /\ Recorded' /\ Trusted' /\ RenameIsExclusive'
        BY <1>1, <1>2 DEF FilesInv, LoopFiles, AllFilePiecesComplete, Recorded, Trusted, Proved,
                          Marking, RenameIsExclusive
    <2>9. peer'[c].block = b
        BY <1>1, <1>3, <1>8 DEF WriteChunk, PeerState
    <2> QED
        BY <1>5, <2>2, <2>5, <2>6, <2>7, <2>8, <2>9 DEF FilesInv
<1>9. CASE WriterStep(c) /\ part' = part
    <2>1. Writing(c)' => Writing(c) /\ peer'[c].block = b
        BY <1>1, <1>3, <1>9 DEF WriterStep, WriteChunk, ChunkWritten, Writing, Unasked, PeerState
    <2>2. WritersFree'
        BY <1>3, <1>5, <2>1 DEF FilesInv, WritersFree
    <2> QED
        BY <1>1, <1>2, <1>9, <2>2, FilesSame DEF FilesInv
<1>10. ChunkWritten(c) => part' = part
    BY DEF ChunkWritten, storageVars
<1> QED
    BY <1>6, <1>7, <1>8, <1>9, <1>10 DEF PeerStep, WriterStep

(* Hashers' steps.  What one of them tells of itself afterwards.           *)
Told(w) ==
    /\ hasher[w].step = "hashed" \/ Marking(w) =>
          (hasher[w].passed <=> ReadsGood(hasher[w].piece))
    /\ hasher[w].step \in {"files", "rename"} =>
          hasher[w].files \subseteq PieceFiles(hasher[w].piece)
    /\ hasher[w].step = "rename" =>
          /\ hasher[w].files # {}
          /\ hasher[w].passed => AllFilePiecesComplete(Min(hasher[w].files))

LEMMA ToldIs == VerdictHolds /\ LoopFiles <=> \A w \in Hasher : Told(w)
BY DEF VerdictHolds, LoopFiles, Told

LEMMA HasherWriters ==
    ASSUME NEW w \in Hasher, HasherStep(w)
    PROVE  \A c \in Peer : Writing(c)' => Writing(c) /\ peer'[c] = peer[c]
<1>1. \A c \in Peer : peer'[c] = peer[c] \/ peer'[c] = Unasked
    BY DEF HasherStep, StartHash, HashPiece, FinishHash, MarkSet, MarkFile, Rename, PieceMarked
<1> QED
    BY <1>1 DEF Writing, Unasked

(* The others are left to what they told when nothing was renamed and the  *)
(* store lost nothing that is complete.                                    *)
LEMMA OthersTold ==
    ASSUME TypeInv, FilesInv, NEW w \in Hasher, Told(w)',
           \A v \in Hasher \ {w} : hasher'[v] = hasher[v],
           \A p \in Piece : ReadsGood(p)' <=> ReadsGood(p),
           \A p \in Piece : store[p] = "complete" => store'[p] = "complete"
    PROVE  VerdictHolds' /\ LoopFiles'
<1>1. ASSUME NEW v \in Hasher PROVE Told(v)'
    <2>1. CASE v = w
        BY <2>1
    <2>2. CASE v # w
        <3>1. hasher'[v] = hasher[v] /\ hasher[v] \in HasherState
            BY <2>2 DEF TypeInv, WorkType
        <3>2. PICK p \in Piece : p = hasher[v].piece
            BY <3>1 DEF HasherState
        <3>3. Told(v)
            BY ToldIs DEF FilesInv
        <3>4. hasher'[v].step = "hashed" \/ Marking(v)' => (hasher'[v].passed <=> ReadsGood(p)')
            BY <3>1, <3>2, <3>3 DEF Told, Marking
        <3>5. hasher[v].step = "rename" => Min(hasher[v].files) \in File
            BY <3>1, <3>3, FileMin DEF Told, HasherState
        <3>6. hasher[v].step = "rename" /\ hasher[v].passed =>
                  \A q \in FilePieces(Min(hasher[v].files)) : store'[q] = "complete"
            BY <3>3, <3>5, BlockFacts DEF Told, AllFilePiecesComplete
        <3>7. ReadsGood(p)' <=> ReadsGood(hasher[v].piece)'
            BY <3>1, <3>2 DEF ReadsGood, BlocksOf
        <3> QED
            BY <3>1, <3>2, <3>3, <3>4, <3>6, <3>7 DEF Told, AllFilePiecesComplete
    <2> QED
        BY <2>1, <2>2
<1> QED
    BY <1>1, ToldIs DEF VerdictHolds, LoopFiles, Told

(* A step that only the hasher itself knows of.                            *)
LEMMA FilesQuiet ==
    ASSUME TypeInv, FilesInv, NEW w \in Hasher, HasherStep(w), Told(w)',
           UNCHANGED <<part, final, store, cached, open, downloading, verify, clobbered>>,
           \A v \in Hasher \ {w} : hasher'[v] = hasher[v],
           Marking(w) /\ hasher[w].passed =>
               Marking(w)' /\ hasher'[w].passed /\ hasher'[w].piece = hasher[w].piece
    PROVE  FilesInv'
<1>1. \A p \in Piece : ReadsGood(p)' <=> ReadsGood(p)
    BY SameReads
<1>2. VerdictHolds' /\ LoopFiles'
    BY <1>1, OthersTold
<1>3. \A p \in Piece : Proved(p) => Proved(p)'
    BY DEF Proved, Marking
<1>4. Recorded' /\ Trusted'
    BY <1>3 DEF FilesInv, Recorded, Trusted
<1>5. FinalGood' /\ MarkedGood' /\ RenameIsExclusive'
    BY <1>1, BlockFacts DEF FilesInv, FinalGood, MarkedGood, RenameIsExclusive
<1>6. WritersFree'
    BY HasherWriters DEF FilesInv, WritersFree
<1> QED
    BY <1>2, <1>4, <1>5, <1>6 DEF FilesInv

LEMMA FilesHashes ==
    ASSUME "read" \notin Faults, TypeInv, Alive, FilesInv, NEW w \in Hasher,
           StartHash(w) \/ HashPiece(w) \/ MarkFile(w)
    PROVE  FilesInv'
<1>0. hasher \in [Hasher -> HasherState] /\ hasher[w] \in HasherState
    BY DEF TypeInv, WorkType
<1>1. HasherStep(w)
    BY DEF HasherStep
<1>2. /\ UNCHANGED <<part, final, store, cached, open, downloading, verify, clobbered>>
      /\ \A v \in Hasher \ {w} : hasher'[v] = hasher[v]
    BY <1>0 DEF StartHash, HashPiece, MarkFile, storageVars, objectVars
<1>3. Told(w)
    BY ToldIs DEF FilesInv
<1>4. PICK p \in Piece : p = hasher[w].piece
    BY <1>0 DEF HasherState
<1>5. CASE StartHash(w)
    <2>1. hasher'[w].step = "hashing" /\ hasher[w].step = "idle"
        BY <1>0, <1>5 DEF StartHash, Idle
    <2>2. Told(w)' /\ ~Marking(w)
        BY <2>1 DEF Told, Marking
    <2> QED
        BY <1>1, <1>2, <2>2, FilesQuiet
<1>6. CASE HashPiece(w)
    <2>1. hasher'[w].step = "hashed" /\ hasher'[w].piece = p /\ hasher[w].step = "hashing"
        BY <1>0, <1>4, <1>6 DEF HashPiece, HasherState
    <2>2. hasher'[w].passed = ReadsGood(p)
        BY <1>0, <1>4, <1>6 DEF HashPiece, HasherState
    <2>3. ReadsGood(hasher[w].piece)' <=> ReadsGood(p)
        BY <1>2, <2>1, SameReads DEF ReadsGood, ReadAt, Opened
    <2>4. hasher'[w].passed <=> ReadsGood(hasher[w].piece)'
        BY <2>2, <2>3
    <2>5. Told(w)' /\ ~Marking(w)
        BY <2>1, <2>4 DEF Told, Marking
    <2> QED
        BY <1>1, <1>2, <2>5, FilesQuiet
<1>7. CASE MarkFile(w)
    <2>1. /\ hasher'[w].piece = p /\ hasher'[w].passed = hasher[w].passed
          /\ hasher'[w].step \in {"files", "rename", "marked"} /\ hasher[w].step = "files"
          /\ hasher'[w].files \subseteq hasher[w].files
          /\ hasher'[w].step = "rename" =>
                /\ hasher'[w].files = hasher[w].files /\ hasher[w].files # {}
                /\ ~hasher[w].passed \/ AllFilePiecesComplete(Min(hasher[w].files))
        BY <1>0, <1>4, <1>7 DEF MarkFile, HasherState
    <2>2. ReadsGood(hasher[w].piece)' <=> ReadsGood(p)
        BY <1>2, <2>1 DEF ReadsGood, ReadAt, Opened
    <2>3. hasher[w].passed <=> ReadsGood(p)
        BY <1>3, <1>4, <2>1 DEF Told, Marking
    <2>4. hasher'[w].files \subseteq PieceFiles(p)
        BY <1>3, <1>4, <2>1 DEF Told
    <2>5. hasher'[w].step = "rename" /\ hasher'[w].passed =>
              AllFilePiecesComplete(Min(hasher[w].files))'
        BY <1>2, <2>1 DEF AllFilePiecesComplete
    <2>6. Told(w)'
        BY <2>1, <2>2, <2>3, <2>4, <2>5 DEF Told
    <2>7. Marking(w)' /\ hasher'[w].passed = hasher[w].passed /\ hasher'[w].piece = hasher[w].piece
        BY <1>4, <2>1 DEF Marking
    <2> QED
        BY <1>1, <1>2, <2>6, <2>7, FilesQuiet
<1> QED
    BY <1>5, <1>6, <1>7

LEMMA FilesFinish ==
    ASSUME TypeInv, Alive, FilesInv, NEW w \in Hasher, FinishHash(w)
    PROVE  FilesInv'
<1>0. hasher \in [Hasher -> HasherState] /\ hasher[w] \in HasherState
    BY DEF TypeInv, WorkType
<1>1. HasherStep(w)
    BY DEF HasherStep
<1>2. /\ UNCHANGED <<part, final, store, cached, open, downloading, clobbered>>
      /\ \A v \in Hasher \ {w} : hasher'[v] = hasher[v]
      /\ hasher[w].step = "hashed"
    BY <1>0 DEF FinishHash, storageVars
<1>3. Told(w) /\ ~Marking(w)
    BY <1>2, ToldIs DEF FilesInv, Marking
<1>4. PICK p \in Piece : p = hasher[w].piece
    BY <1>0 DEF HasherState
<1>5. CASE hasher[w].old
    <2>1. hasher'[w] = Idle /\ verify' = verify
        BY <1>0, <1>5 DEF FinishHash
    <2>2. Told(w)'
        BY <2>1 DEF Told, Marking, Idle
    <2> QED
        BY <1>1, <1>2, <1>3, <2>1, <2>2, FilesQuiet
<1>6. CASE ~hasher[w].old
    <2>1. hasher'[w].step = "set" /\ hasher'[w].piece = p /\ hasher'[w].passed = hasher[w].passed
        BY <1>0, <1>4, <1>6 DEF FinishHash, HasherState
    <2>2. \A q \in Piece : ReadsGood(q)' <=> ReadsGood(q)
        BY <1>2, SameReads
    <2>3. hasher[w].passed <=> ReadsGood(p)
        BY <1>2, <1>3, <1>4 DEF Told
    <2>4. ReadsGood(hasher[w].piece)' <=> ReadsGood(p)
        BY <1>2, <2>1 DEF ReadsGood, ReadAt, Opened
    <2>5. Told(w)'
        BY <2>1, <2>3, <2>4 DEF Told
    <2>6. VerdictHolds' /\ LoopFiles'
        BY <1>2, <2>2, <2>5, OthersTold
    <2>7. FinalGood' /\ MarkedGood' /\ RenameIsExclusive'
        BY <1>2, <2>2, BlockFacts DEF FilesInv, FinalGood, MarkedGood, RenameIsExclusive
    <2>8. WritersFree'
        BY <1>1, <1>2, HasherWriters DEF FilesInv, WritersFree
    <2>9. \A q \in Piece : Proved(q) => Proved(q)'
        BY <1>2, <1>3 DEF Proved, Marking
    <2>10. ReadsGood(p) => Proved(p)'
        BY <2>1, <2>3 DEF Proved, Marking
    <2>11. Recorded'
        BY <1>2, <2>9 DEF FilesInv, Recorded
    <2>12. \A q \in Piece : q < verify'.piece => q = p \/ q < verify.piece
        <3>1. Verified(p)
            BY <1>4, <1>6 DEF FinishHash
        <3>2. p \in Nat /\ Piece \subseteq Nat
            BY DEF Piece
        <3>3. verify'.piece = verify.piece \/ (verify.piece = p /\ verify'.piece = p + 1)
            BY <3>1 DEF Verified, TypeInv, ObjectType, VerifyState
        <3> QED
            BY <3>2, <3>3
    <2>13. Trusted'
        <3> SUFFICES ASSUME open, NEW q \in Piece, NEW f \in File,
                            downloading \/ q < verify'.piece,
                            f \in PieceFiles(q), final[f] # NoFile
                     PROVE  cached[q] = "complete" \/ Proved(q)'
            BY <1>2 DEF Trusted
        <3>1. ReadsGood(q)
            BY BlockFacts DEF FilesInv, FinalGood
        <3>2. CASE q = p
            BY <2>10, <3>1, <3>2
        <3>3. CASE q # p
            <4>1. downloading \/ q < verify.piece
                BY <2>12, <3>3
            <4>2. cached[q] = "complete" \/ Proved(q)
                BY <4>1 DEF FilesInv, Trusted
            <4> QED
                BY <2>9, <4>2
        <3> QED
            BY <3>2, <3>3
    <2> QED
        BY <2>6, <2>7, <2>8, <2>11, <2>13 DEF FilesInv
<1> QED
    BY <1>5, <1>6

LEMMA FilesMark ==
    ASSUME TypeInv, Alive, Disjoint, FilesInv, NEW w \in Hasher, MarkSet(w)
    PROVE  FilesInv'
<1>0. hasher \in [Hasher -> HasherState] /\ hasher[w] \in HasherState
    BY DEF TypeInv, WorkType
<1>1. HasherStep(w)
    BY DEF HasherStep
<1>2. /\ UNCHANGED <<part, final, cached, open, downloading, verify, clobbered>>
      /\ \A v \in Hasher \ {w} : hasher'[v] = hasher[v]
      /\ hasher[w].step = "set"
    BY <1>0 DEF MarkSet, objectVars
<1>3. PICK p \in Piece : p = hasher[w].piece
    BY <1>0 DEF HasherState
<1>4. hasher[w].passed <=> ReadsGood(p)
    BY <1>2, <1>3 DEF FilesInv, VerdictHolds, Marking
<1>5. /\ hasher'[w].piece = p /\ hasher'[w].passed = hasher[w].passed
      /\ hasher'[w].step \in {"files", "marked"}
      /\ hasher'[w].step = "files" => hasher'[w].files = PieceFiles(p)
    BY <1>0, <1>3 DEF MarkSet, HasherState
<1>6. \A q \in Piece : ReadsGood(q)' <=> ReadsGood(q)
    BY <1>2, SameReads
<1>7. ReadsGood(hasher[w].piece)' <=> ReadsGood(p)
    BY <1>2, <1>5 DEF ReadsGood, ReadAt, Opened
<1>8. Told(w)'
    BY <1>4, <1>5, <1>7 DEF Told, Marking
<1>9. Marking(w) /\ Marking(w)'
    BY <1>2, <1>5 DEF Marking
<1>10. CASE store' = store
    <2>1. hasher'[w].passed = hasher[w].passed /\ hasher'[w].piece = hasher[w].piece
        BY <1>3, <1>5
    <2> QED
        BY <1>1, <1>2, <1>8, <1>9, <1>10, <2>1, FilesQuiet
<1>11. CASE store' = [store EXCEPT ![p] = IF hasher[w].passed THEN "complete" ELSE "incomplete"]
    <2>1. \A q \in Piece : store'[q] =
              IF q = p THEN IF hasher[w].passed THEN "complete" ELSE "incomplete" ELSE store[q]
        BY <1>11 DEF TypeInv, FilesType, StorageTypeOK
    <2>2. store[p] = "complete" => hasher[w].passed
        BY <1>4 DEF FilesInv, MarkedGood
    <2>3. \A q \in Piece : store[q] = "complete" => store'[q] = "complete"
        BY <2>1, <2>2
    <2>4. VerdictHolds' /\ LoopFiles'
        BY <1>2, <1>6, <1>8, <2>3, OthersTold
    <2>5. FinalGood' /\ RenameIsExclusive'
        BY <1>2, <1>6, BlockFacts DEF FilesInv, FinalGood, RenameIsExclusive
    <2>6. MarkedGood'
        BY <1>2, <1>4, <1>6, <2>1 DEF FilesInv, MarkedGood
    <2>7. \A q \in Piece : Proved(q) => Proved(q)'
        BY <1>2, <1>3, <1>5, <1>9 DEF Proved, Marking
    <2>8. hasher[w].passed => Proved(p)'
        BY <1>5, <1>9 DEF Proved
    <2>9. Recorded'
        BY <1>2, <2>1, <2>7, <2>8 DEF FilesInv, Recorded
    <2>10. Trusted'
        BY <1>2, <2>7 DEF FilesInv, Trusted
    <2>11. \A c \in Peer : Writing(c) => peer[c].block[1] # p
        BY <1>2, <1>3 DEF Disjoint, Working
    <2>12. WritersFree'
        BY <1>1, <1>2, <2>1, <2>11, HasherWriters DEF FilesInv, WritersFree
    <2> QED
        BY <2>4, <2>5, <2>6, <2>9, <2>10, <2>12 DEF FilesInv
<1> QED
    BY <1>3, <1>10, <1>11 DEF MarkSet

(* Only a file of a piece that passed is renamed.                          *)
LEMMA RenameIs ==
    ASSUME TypeInv, FilesInv, NEW w \in Hasher, Rename(w)
    PROVE  LET f == Min(hasher[w].files) IN
           /\ f \in File
           /\ hasher[w].passed => PromotePartFile(f) /\ AllFilePiecesComplete(f)
           /\ ~hasher[w].passed => UNCHANGED <<part, final>>
<1>0. hasher[w] \in HasherState /\ hasher[w].step = "rename"
    BY DEF TypeInv, WorkType, Rename
<1>1. PICK p \in Piece : p = hasher[w].piece
    BY <1>0 DEF HasherState
<1>2. Told(w) /\ hasher[w].files # {} /\ hasher[w].files \subseteq PieceFiles(p)
    BY <1>0, <1>1, ToldIs DEF FilesInv, Told
<1>3. PICK f \in File : f = Min(hasher[w].files) /\ f \in PieceFiles(p)
    BY <1>0, <1>2, FileMin DEF HasherState
<1>4. hasher[w].passed <=> ReadsGood(p)
    BY <1>0, <1>1, <1>2 DEF Told, Marking
<1>5. ~hasher[w].passed => UNCHANGED <<part, final>>
    <2> SUFFICES ASSUME ~hasher[w].passed PROVE UNCHANGED <<part, final>>
        OBVIOUS
    <2>1. final[f] = NoFile
        BY <1>3, <1>4, BlockFacts DEF FilesInv, FinalGood
    <2>2. OnFileNotComplete(f)
        BY <1>3 DEF Rename
    <2> QED
        BY <2>1, <2>2 DEF OnFileNotComplete
<1>6. hasher[w].passed => PromotePartFile(f) /\ AllFilePiecesComplete(f)
    BY <1>0, <1>2, <1>3 DEF Rename, Told
<1> QED
    BY <1>3, <1>5, <1>6

LEMMA FilesRename ==
    ASSUME TypeInv, Alive, Disjoint, FilesInv, NEW w \in Hasher, Rename(w)
    PROVE  FilesInv'
<1>0. hasher \in [Hasher -> HasherState] /\ hasher[w] \in HasherState
    BY DEF TypeInv, WorkType
<1>1. HasherStep(w)
    BY DEF HasherStep
<1>2. /\ UNCHANGED <<store, cached, open, downloading, verify>>
      /\ \A v \in Hasher \ {w} : hasher'[v] = hasher[v]
      /\ hasher[w].step = "rename"
    BY <1>0 DEF Rename, objectVars
<1>3. PICK p \in Piece : p = hasher[w].piece
    BY <1>0 DEF HasherState
<1>4. Told(w) /\ hasher[w].files # {} /\ hasher[w].files \subseteq PieceFiles(p)
    BY <1>2, <1>3, ToldIs DEF FilesInv, Told
<1>5. PICK f \in File : f = Min(hasher[w].files) /\ f \in PieceFiles(p)
    BY <1>0, <1>4, FileMin DEF HasherState
<1>6. hasher[w].passed <=> ReadsGood(p)
    BY <1>2, <1>3, <1>4 DEF Told, Marking
<1>7. /\ hasher'[w].piece = p /\ hasher'[w].passed = hasher[w].passed
      /\ hasher'[w].step = "files" /\ hasher'[w].files \subseteq hasher[w].files
    BY <1>0, <1>3 DEF Rename, HasherState
<1>8. ~hasher[w].passed => UNCHANGED <<part, final>>
    BY RenameIs
<1>9. hasher[w].passed => PromotePartFile(f) /\ AllFilePiecesComplete(f)
    BY <1>5, RenameIs
<1>10. \A q \in Piece : ReadsGood(q)' <=> ReadsGood(q)
    BY <1>8, <1>9, SameReads, PromoteReads DEF FilesInv
<1>11. /\ \A g \in File \ {f} : part'[g] = part[g] /\ final'[g] = final[g]
       /\ final'[f] # NoFile => part'[f] = NoFile
       /\ final'[f] # final[f] => AllFilePiecesComplete(f)
    BY <1>8, <1>9, PromoteReads DEF FilesInv, FinalGood
<1>12. ReadsGood(hasher[w].piece)' <=> ReadsGood(p)'
    BY <1>7 DEF ReadsGood, BlocksOf
<1>13. Told(w)'
    BY <1>4, <1>6, <1>7, <1>10, <1>12 DEF Told
<1>14. VerdictHolds' /\ LoopFiles'
    BY <1>2, <1>10, <1>13, OthersTold
<1>15. FilePieces(f) \subseteq Piece
    BY BlockFacts
<1>16. FinalGood'
    <2>1. AllFilePiecesComplete(f) => \A q \in FilePieces(f) : ReadsGood(q)
        BY <1>15 DEF AllFilePiecesComplete, FilesInv, MarkedGood
    <2>2. final'[f] # NoFile => \A q \in FilePieces(f) : ReadsGood(q)
        BY <1>11, <2>1 DEF FilesInv, FinalGood
    <2> QED
        BY <1>10, <1>11, <2>2, BlockFacts DEF FilesInv, FinalGood
<1>17. MarkedGood'
    BY <1>2, <1>10 DEF FilesInv, MarkedGood
<1>18. \A q \in Piece : Proved(q) => Proved(q)'
    BY <1>2, <1>3, <1>7 DEF Proved, Marking
<1>19. Recorded'
    BY <1>2, <1>18 DEF FilesInv, Recorded
<1>20. Trusted'
    <2> SUFFICES ASSUME open, NEW q \in Piece, NEW g \in File, downloading \/ q < verify.piece,
                        g \in PieceFiles(q), final'[g] # NoFile
                 PROVE  cached[q] = "complete" \/ Proved(q)'
        BY <1>2 DEF Trusted
    <2>1. CASE final'[g] = final[g]
        <3>1. cached[q] = "complete" \/ Proved(q)
            BY <2>1 DEF FilesInv, Trusted
        <3> QED
            BY <1>18, <3>1
    <2>2. CASE final'[g] # final[g]
        <3>1. store[q] = "complete"
            BY <1>11, <2>2, BlockFacts DEF AllFilePiecesComplete
        <3> QED
            BY <1>18, <3>1 DEF FilesInv, Recorded
    <2> QED
        BY <2>1, <2>2
<1>21. WritersFree'
    <2>1. ASSUME NEW c \in Peer, NEW q \in Piece, Writing(c), peer[c].block[1] = q,
                 NEW g \in PieceFiles(q)
          PROVE  final'[g] = NoFile
        <3>1. g \in File /\ q \in FilePieces(g) /\ store[q] # "complete" /\ final[g] = NoFile
            BY <2>1, BlockFacts DEF FilesInv, WritersFree
        <3>2. g = f => ~AllFilePiecesComplete(f)
            BY <3>1 DEF AllFilePiecesComplete
        <3> QED
            BY <1>11, <3>1, <3>2
    <2> QED
        BY <1>1, <1>2, <2>1, HasherWriters DEF FilesInv, WritersFree
<1>22. RenameIsExclusive'
    <2>1. clobbered' = (clobbered \/ (part[f] # NoFile /\ final[f] # NoFile))
        BY <1>5 DEF Rename
    <2> QED
        BY <2>1 DEF FilesInv, FinalGood, RenameIsExclusive
<1> QED
    BY <1>14, <1>16, <1>17, <1>19, <1>20, <1>21, <1>22 DEF FilesInv

LEMMA FilesMarked ==
    ASSUME TypeInv, Alive, Owned, Disjoint, FilesInv, NEW w \in Hasher, PieceMarked(w)
    PROVE  FilesInv'
<1>0. hasher \in [Hasher -> HasherState] /\ hasher[w] \in HasherState
    BY DEF TypeInv, WorkType
<1>1. HasherStep(w)
    BY DEF HasherStep
<1>2. /\ UNCHANGED <<part, final, store, open, downloading, verify, clobbered>>
      /\ \A v \in Hasher \ {w} : hasher'[v] = hasher[v]
      /\ hasher[w].step = "marked" /\ hasher'[w] = Idle
    BY <1>0 DEF PieceMarked, storageVars
<1>3. PICK p \in Piece : p = hasher[w].piece
    BY <1>0 DEF HasherState
<1>4. hasher[w].passed <=> ReadsGood(p)
    BY <1>2, <1>3 DEF FilesInv, VerdictHolds, Marking
<1>5. \A q \in Piece : ReadsGood(q)' <=> ReadsGood(q)
    BY <1>2, SameReads
<1>6. Told(w)'
    BY <1>2 DEF Told, Marking, Idle
<1>7. VerdictHolds' /\ LoopFiles'
    BY <1>2, <1>5, <1>6, OthersTold
<1>8. FinalGood' /\ RenameIsExclusive'
    BY <1>2, <1>5, BlockFacts DEF FilesInv, FinalGood, RenameIsExclusive
<1>9. \A q \in Piece : Proved(q) => q = p \/ Proved(q)'
    BY <1>2, <1>3 DEF Proved, Marking
<1>10. CASE hasher[w].old
    <2>1. cached' = cached /\ ~open
        BY <1>10 DEF PieceMarked, Owned
    <2>2. MarkedGood' /\ Recorded' /\ Trusted'
        BY <1>2, <1>5, <2>1 DEF FilesInv, MarkedGood, Recorded, Trusted
    <2>3. WritersFree'
        BY <1>1, <1>2, <2>1, HasherWriters DEF FilesInv, WritersFree
    <2> QED
        BY <1>7, <1>8, <2>2, <2>3 DEF FilesInv
<1>11. CASE ~hasher[w].old
    <2>1. \A q \in Piece : cached'[q] =
              IF q = p THEN IF hasher[w].passed THEN "complete" ELSE "incomplete" ELSE cached[q]
        BY <1>3, <1>11 DEF PieceMarked, TypeInv, ObjectType
    <2>2. open
        BY <1>2, <1>11 DEF Alive, Working
    <2>3. MarkedGood'
        BY <1>2, <1>4, <1>5, <2>1, <2>2 DEF FilesInv, MarkedGood
    <2>4. ReadsGood(p) => cached'[p] = "complete"
        BY <1>4, <2>1
    <2>5. Recorded'
        <3> SUFFICES ASSUME NEW q \in Piece, store[q] = "complete"
                     PROVE  cached'[q] = "complete" \/ Proved(q)'
            BY <1>2 DEF Recorded
        <3>1. CASE q = p
            BY <2>4, <3>1 DEF FilesInv, MarkedGood
        <3>2. CASE q # p
            BY <1>9, <2>1, <2>2, <3>2 DEF FilesInv, Recorded
        <3> QED
            BY <3>1, <3>2
    <2>6. Trusted'
        <3> SUFFICES ASSUME NEW q \in Piece, NEW f \in File, downloading \/ q < verify.piece,
                            f \in PieceFiles(q), final[f] # NoFile
                     PROVE  cached'[q] = "complete" \/ Proved(q)'
            BY <1>2 DEF Trusted
        <3>1. CASE q = p
            BY <2>4, <3>1, BlockFacts DEF FilesInv, FinalGood
        <3>2. CASE q # p
            BY <1>9, <2>1, <2>2, <3>2 DEF FilesInv, Trusted
        <3> QED
            BY <3>1, <3>2
    <2>7. \A c \in Peer : Writing(c) => peer[c].block[1] # p
        BY <1>2, <1>3 DEF Disjoint, Working
    <2>8. WritersFree'
        BY <1>1, <1>2, <2>1, <2>7, HasherWriters DEF FilesInv, WritersFree
    <2> QED
        BY <1>7, <1>8, <2>3, <2>5, <2>6, <2>8 DEF FilesInv
<1> QED
    BY <1>10, <1>11

LEMMA FilesEngine ==
    ASSUME ~LateWork, TypeInv, Alive, Disjoint, FilesInv,
           OnSetInfo \/ VerifyData \/ Drop \/ Remove \/ EngineStep \/ Crash
    PROVE  FilesInv'
<1>1. CASE OnSetInfo
    <2>1. /\ UNCHANGED <<part, final, hasher, peer, downloading, verify, clobbered>>
          /\ ~open /\ open' = TRUE /\ ~AtWork
          /\ store' = CompletionFromPartFiles /\ cached' = store'
        BY <1>1 DEF OnSetInfo
    <2>2. (\A w \in Hasher : hasher'[w].step = "idle") /\ \A c \in Peer : ~Writing(c)'
        BY <2>1 DEF AtWork, Writing
    <2>3. \A p \in Piece : ReadsGood(p)' <=> ReadsGood(p)
        BY <2>1, SameReads
    <2>4. ASSUME NEW p \in Piece, store'[p] = "complete" PROVE ReadsGood(p)
        <3>1. PieceFiles(p) \subseteq {f \in File : final[f] # NoFile}
            BY <2>1, <2>4 DEF CompletionFromPartFiles
        <3>2. PICK f \in PieceFiles(p) : f \in File /\ final[f] # NoFile /\ p \in FilePieces(f)
            BY <3>1, BlockFacts
        <3> QED
            BY <3>2 DEF FilesInv, FinalGood
    <2>5. FinalGood' /\ RenameIsExclusive'
        BY <2>1, <2>3, BlockFacts DEF FilesInv, FinalGood, RenameIsExclusive
    <2>6. MarkedGood'
        BY <2>1, <2>3, <2>4 DEF MarkedGood
    <2>7. VerdictHolds' /\ LoopFiles' /\ WritersFree'
        BY <2>2 DEF VerdictHolds, LoopFiles, WritersFree, Marking
    <2>8. Recorded'
        BY <2>1 DEF Recorded
    <2>9. Trusted'
        <3>1. ~downloading' /\ verify' = NotVerifying
            BY <2>1 DEF Alive
        <3>2. \A p \in Piece : ~(p < verify'.piece)
            BY <3>1 DEF Piece, NotVerifying
        <3> QED
            BY <3>1, <3>2 DEF Trusted
    <2> QED
        BY <2>5, <2>6, <2>7, <2>8, <2>9 DEF FilesInv
<1>2. ASSUME UNCHANGED <<part, final, store, cached, hasher, peer, open, clobbered>>,
             downloading' = downloading \/ verify.piece = NumPieces + 1,
             downloading' \/ verify'.piece \in {1, verify.piece}
      PROVE  FilesInv'
    <2>1. \A p \in Piece : ReadsGood(p)' <=> ReadsGood(p)
        BY <1>2, SameReads
    <2>2. FinalGood' /\ MarkedGood' /\ RenameIsExclusive'
        BY <1>2, <2>1, BlockFacts DEF FilesInv, FinalGood, MarkedGood, RenameIsExclusive
    <2>3. VerdictHolds'
        BY <1>2 DEF FilesInv, VerdictHolds, Marking, ReadsGood, ReadAt, Opened
    <2>4. LoopFiles'
        BY <1>2 DEF FilesInv, LoopFiles, AllFilePiecesComplete
    <2>5. WritersFree' /\ Recorded'
        BY <1>2 DEF FilesInv, WritersFree, Writing, Recorded, Proved, Marking
    <2>6. \A p \in Piece : downloading' \/ p < verify'.piece => downloading \/ p < verify.piece
        <3>1. \A p \in Piece : p \in Nat /\ p < NumPieces + 1 /\ ~(p < 1)
            BY StorageAssumption DEF Piece
        <3> QED
            BY <1>2, <3>1
    <2>7. Trusted'
        BY <1>2, <2>6 DEF FilesInv, Trusted, Proved, Marking
    <2> QED
        BY <2>2, <2>3, <2>4, <2>5, <2>7 DEF FilesInv
<1>3. CASE VerifyData
    BY <1>2, <1>3 DEF VerifyData, storageVars
<1>4. CASE VerifyPiece
    <2>1. verify'.piece = verify.piece
        BY <1>4 DEF VerifyPiece, TypeInv, ObjectType, VerifyState
    <2> QED
        BY <1>2, <1>4, <2>1 DEF VerifyPiece, storageVars
<1>5. CASE DownloadAll
    BY <1>2, <1>5 DEF DownloadAll, storageVars
<1>6. CASE Drop
    BY <1>2, <1>6 DEF Drop, storageVars, objectVars
<1>7. CASE Remove
    <2>1. /\ UNCHANGED <<cached, hasher, peer, open, clobbered>> /\ ~open /\ ~AtWork
          /\ \A f \in File : final'[f] = NoFile
          /\ \A p \in Piece : store'[p] = "unknown"
        BY <1>7 DEF Remove, RemoveFiles, objectVars
    <2>2. (\A w \in Hasher : hasher'[w].step = "idle") /\ \A c \in Peer : ~Writing(c)'
        BY <2>1 DEF AtWork, Writing
    <2>3. \A p \in Piece : cached'[p] = "unknown"
        BY <2>1 DEF FilesInv, MarkedGood
    <2> QED
        BY <2>1, <2>2, <2>3
        DEF FilesInv, FinalGood, MarkedGood, VerdictHolds, LoopFiles, WritersFree, Recorded,
            Trusted, RenameIsExclusive, Marking
<1>8. CASE DropReturns \/ Crash
    <2>1. open' = FALSE /\ \A p \in Piece : cached'[p] = "unknown"
        BY <1>8, DropEffect
    <2>2. UNCHANGED <<part, final, store, clobbered>>
        BY <1>8 DEF DropReturns, Crash, storageVars
    <2>3. \A p \in Piece : ReadsGood(p)' <=> ReadsGood(p)
        BY <2>2, SameReads
    <2>4. FinalGood' /\ RenameIsExclusive'
        BY <2>2, <2>3, BlockFacts DEF FilesInv, FinalGood, RenameIsExclusive
    <2>5. MarkedGood' /\ Recorded' /\ Trusted'
        BY <2>1, <2>2, <2>3 DEF FilesInv, MarkedGood, Recorded, Trusted
    <2>6. ASSUME NEW w \in Hasher PROVE Told(w)'
        <3>1. hasher[w] \in HasherState
            BY DEF TypeInv, WorkType
        <3>2. CASE hasher'[w] = Idle
            BY <3>2 DEF Told, Marking, Idle
        <3>3. CASE hasher'[w] = [hasher[w] EXCEPT !.old = TRUE]
            <4>1. /\ hasher'[w].step = hasher[w].step /\ hasher'[w].piece = hasher[w].piece
                  /\ hasher'[w].passed = hasher[w].passed /\ hasher'[w].files = hasher[w].files
                BY <3>1, <3>3 DEF HasherState
            <4>2. Told(w)
                BY ToldIs DEF FilesInv
            <4> QED
                BY <2>2, <4>1, <4>2
                DEF Told, Marking, AllFilePiecesComplete, ReadsGood, ReadAt, Opened
        <3> QED
            BY <1>8, <3>2, <3>3, DropEffect
    <2>7. VerdictHolds' /\ LoopFiles'
        BY <2>6 DEF VerdictHolds, LoopFiles, Told
    <2>8. \A c \in Peer : Writing(c)' => Writing(c) /\ peer'[c].block = peer[c].block
        <3> SUFFICES ASSUME NEW c \in Peer, Writing(c)'
                     PROVE  Writing(c) /\ peer'[c].block = peer[c].block
            OBVIOUS
        <3>1. peer'[c] # Unasked
            BY DEF Writing, Unasked
        <3>2. Writing(c) /\ peer'[c] = [peer[c] EXCEPT !.old = TRUE]
            BY <1>8, <3>1, DropEffect
        <3>3. peer[c] \in PeerState
            BY DEF TypeInv, WorkType
        <3> QED
            BY <3>2, <3>3 DEF PeerState
    <2>9. WritersFree'
        BY <2>1, <2>2, <2>8 DEF FilesInv, WritersFree
    <2> QED
        BY <2>4, <2>5, <2>7, <2>9 DEF FilesInv
<1> QED
    BY <1>1, <1>3, <1>4, <1>5, <1>6, <1>7, <1>8 DEF EngineStep

-----------------------------------------------------------------------------
(* Everything that holds of an undisturbed torrent.                        *)

DiskInv == TypeInv /\ Alive /\ Apart /\ Owned /\ Disjoint /\ FilesInv

LEMMA DiskInit == ASSUME Undisturbed PROVE Init => DiskInv
<1> SUFFICES ASSUME Init PROVE DiskInv
    OBVIOUS
<1>1. TypeInv /\ Alive /\ Apart /\ FilesInv
    BY TypeInit, AliveInit, ApartInit, FilesInit DEF Undisturbed
<1>2. Owned /\ Disjoint
    BY DEF Init, Owned, Disjoint, Working, Writing, Idle, Unasked
<1> QED
    BY <1>1, <1>2 DEF DiskInv

LEMMA FilesStep ==
    ASSUME ~LateWork, "read" \notin Faults, DiskInv, [Next]_vars
    PROVE  FilesInv'
<1> USE DEF DiskInv
<1>1. CASE UNCHANGED vars
    <2>1. UNCHANGED <<part, final, store, cached, hasher, peer, verify, open, downloading, clobbered>>
        BY <1>1 DEF vars, storageVars, objectVars
    <2>2. WritersFree'
        BY <2>1 DEF FilesInv, WritersFree, Writing
    <2> QED
        BY <2>1, <2>2, FilesSame DEF FilesInv
<1>2. CASE OnSetInfo \/ VerifyData \/ Drop \/ Remove \/ EngineStep \/ Crash
    BY <1>2, FilesEngine
<1>3. ASSUME NEW w \in Hasher, HasherStep(w) PROVE FilesInv'
    BY <1>3, FilesHashes, FilesFinish, FilesMark, FilesRename, FilesMarked DEF HasherStep
<1>4. ASSUME NEW c \in Peer, PeerStep(c) PROVE FilesInv'
    BY <1>4, FilesPeer
<1> QED
    BY <1>1, <1>2, <1>3, <1>4 DEF Next, PeerStep

LEMMA DiskStep == ASSUME Undisturbed PROVE DiskInv /\ [Next]_vars => DiskInv'
<1> SUFFICES ASSUME DiskInv, [Next]_vars PROVE DiskInv'
    OBVIOUS
<1> USE DEF DiskInv
<1>1. TypeInv' /\ Alive' /\ Apart'
    BY TypeStep, AliveStep, ApartStep DEF Undisturbed
<1>2. Owned'
    <2>1. CASE UNCHANGED vars
        BY <2>1 DEF vars, objectVars, Owned, Writing
    <2>2. CASE Next
        BY <2>2, OwnedHasher, OwnedPeer, OwnedEngine DEF Next, PeerStep, Undisturbed
    <2> QED
        BY <2>1, <2>2
<1>3. Disjoint'
    BY <1>1, <1>2, DisjointStep
<1>4. FilesInv'
    BY FilesStep DEF Undisturbed
<1> QED
    BY <1>1, <1>2, <1>3, <1>4

(* What the client believes complete and offers to peers reads back as     *)
(* good, for any layout of pieces, chunks and files, any number of peers   *)
(* and hashers, and with failures of the database, of writes and of the    *)
(* process at any point.                                                   *)
THEOREM BelievedGood == ASSUME Undisturbed PROVE Spec => []BelievedIsGood
<1>1. Init => DiskInv
    BY DiskInit
<1>2. DiskInv /\ [Next]_vars => DiskInv'
    BY DiskStep
<1>3. DiskInv => BelievedIsGood
    BY DEF DiskInv, FilesInv, MarkedGood, BelievedIsGood
<1> QED
    BY <1>1, <1>2, <1>3, PTL DEF Spec

(* exclRenameIfExists renames without asking for the destination.  It does *)
(* not need to: no promotion or demotion ever replaces a file, because no  *)
(* file has both names when a hasher is done with it.                      *)
THEOREM RenameExclusive == ASSUME Undisturbed PROVE Spec => []RenameIsExclusive
<1>1. Init => DiskInv
    BY DiskInit
<1>2. DiskInv /\ [Next]_vars => DiskInv'
    BY DiskStep
<1>3. DiskInv => RenameIsExclusive
    BY DEF DiskInv, FilesInv
<1> QED
    BY <1>1, <1>2, <1>3, PTL DEF Spec

-----------------------------------------------------------------------------
(* Who is blamed.                                                          *)

(* What is bad and was received comes from a guilty peer: what is being    *)
(* written, what was written and not reported yet, ...                     *)
Honest ==
    \A c \in Peer : peer[c].step \in {"writing", "written"} =>
        peer[c].data \in {"good", "bad"} /\ (peer[c].data = "bad" => c \in guilty)

Stands ==
    \A c \in Peer, b \in Block : peer[c].step = "written" /\ peer[c].block = b =>
        ReadAt(b) = peer[c].data

(* ... what is recorded for smart banning, what a hasher found to differ,  *)
Noted == \A r \in blocks : r[3] # "good" => r[1] \in guilty

Suspected ==
    \A w \in Hasher : hasher[w].step = "hashed" /\ hasher[w].passed => hasher[w].bad \subseteq guilty

(* ... and the chunks that are dirty, unless the writer is not through yet *)
(* or the verdict on their piece was given.                                *)
Settled(w, p) == Marking(w) /\ hasher[w].piece = p /\ (hasher[w].passed \/ AllDirty(p))

Explained(b) ==
    \/ \E c \in Peer : Writing(c) /\ peer[c].block = b
    \/ \E w \in Hasher : Settled(w, b[1])
    \/ ReadAt(b) = "good"
    \/ dirtiers[b[1]] \cap guilty # {}

Blame == Honest /\ Stands /\ Noted /\ Suspected /\ (\A b \in dirty : Explained(b))
             /\ NoneBannedWrongly

LEMMA BlamePeer ==
    ASSUME DiskInv, Blame, NEW c \in Peer, PeerStep(c)
    PROVE  Blame'
<1> USE DEF DiskInv
<1>1. /\ UNCHANGED <<hasher, final>>
      /\ \A d \in Peer \ {c} : peer'[d] = peer[d]
      /\ peer[c] \in PeerState /\ peer \in [Peer -> PeerState]
    BY PeerEffect
<1>2. banned' = banned /\ guilty \subseteq guilty'
    BY DEF PeerStep, WriterStep, Ask, ReceiveChunk, WriteChunk, ChunkWritten, banVars
<1>3. PICK b \in Block : b = peer[c].block
    BY <1>1 DEF PeerState
<1>4. b[1] \in Piece /\ dirty \subseteq Block /\ dirtiers \in [Piece -> SUBSET Peer]
    BY BlockFacts DEF TypeInv, ObjectType
<1>5. Suspected' /\ NoneBannedWrongly'
    BY <1>1, <1>2 DEF Blame, Suspected, NoneBannedWrongly
<1>6. \A e \in Block, d \in Peer \ {c} :
          Writing(d) /\ peer[d].block = e => Writing(d)' /\ peer'[d].block = e
    BY <1>1 DEF Writing
<1>7. ASSUME NEW a \in Block, Ask(c, a) PROVE Blame'
    <2>1. /\ UNCHANGED <<part, dirty, dirtiers, blocks, guilty>>
          /\ peer[c].step = "none" /\ peer'[c].step = "asked"
        BY <1>1, <1>7 DEF Ask, Unasked, objectVars, storageVars, banVars
    <2>2. \A e \in Block : ReadAt(e)' = ReadAt(e)
        BY <1>1, <2>1, SameReads
    <2>3. Honest' /\ Stands' /\ Noted'
        BY <1>1, <2>1, <2>2 DEF Blame, Honest, Stands, Noted
    <2>4. ~Writing(c)
        BY <2>1 DEF Writing
    <2>5. \A e \in dirty : Explained(e)'
        BY <1>1, <1>4, <1>6, <2>1, <2>2, <2>4 DEF Blame, Explained, Settled, Marking, AllDirty
    <2> QED
        BY <1>5, <2>1, <2>3, <2>5 DEF Blame
<1>8. ASSUME NEW data \in {"good", "bad"}, ReceiveChunk(c, data) PROVE Blame'
    <2>1. /\ UNCHANGED <<part, dirtiers>> /\ peer[c].step = "asked"
          /\ blocks' = blocks \cup {<<c, b, data>>}
          /\ data = "bad" => c \in guilty'
        BY <1>3, <1>8 DEF ReceiveChunk, storageVars
    <2>2. \/ peer'[c] = Unasked /\ dirty' = dirty
          \/ /\ peer'[c].step = "writing" /\ peer'[c].data = data /\ peer'[c].block = b
             /\ dirty' = dirty \cup {b}
        BY <1>1, <1>3, <1>8 DEF ReceiveChunk, PeerState
    <2>3. \A e \in Block : ReadAt(e)' = ReadAt(e)
        BY <1>1, <2>1, SameReads
    <2>4. Honest'
        BY <1>1, <1>2, <2>1, <2>2 DEF Blame, Honest, Unasked
    <2>5. Stands'
        BY <1>1, <2>2, <2>3 DEF Blame, Stands, Unasked
    <2>6. Noted'
        BY <1>2, <2>1 DEF Blame, Noted
    <2>7. ~Writing(c)
        BY <2>1 DEF Writing
    <2>8. \A p \in Piece : AllDirty(p) => AllDirty(p)'
        BY <2>2 DEF AllDirty
    <2>9. \A w \in Hasher, e \in Block : Settled(w, e[1]) => Settled(w, e[1])'
        BY <1>1, <2>8, BlockFacts DEF Settled, Marking
    <2>10. \A e \in dirty : Explained(e)'
        BY <1>2, <1>4, <1>6, <2>1, <2>3, <2>7, <2>9 DEF Blame, Explained
    <2>11. b \in dirty' /\ b \notin dirty => Explained(b)'
        BY <2>2 DEF Explained, Writing
    <2>12. \A e \in dirty' : Explained(e)'
        BY <2>2, <2>10, <2>11
    <2> QED
        BY <1>5, <2>4, <2>5, <2>6, <2>12 DEF Blame
<1>9. CASE WriteChunk(c)
    <2>1. /\ UNCHANGED <<dirty, dirtiers, blocks, guilty>> /\ peer[c].step = "writing"
          /\ peer'[c].block = b /\ peer'[c].data = peer[c].data
          /\ peer'[c].step \in {"written", "failed"}
        BY <1>1, <1>3, <1>9 DEF WriteChunk, objectVars, banVars, PeerState
    <2>2. Writing(c) /\ Writing(c)' /\ peer[c].data \in Data
        BY <1>1, <2>1 DEF Writing, PeerState
    <2>3. final[Place[b]] = NoFile
        BY <1>3, <1>4, <2>2, BlockFacts DEF FilesInv, WritersFree, PieceFiles
    <2>4. WriteAt(b, peer[c].data) \/ (part' = part /\ peer'[c].step = "failed")
        BY <1>1, <1>3, <1>9 DEF WriteChunk, PeerState
    <2>5. /\ \A e \in Block \ {b} : ReadAt(e)' = ReadAt(e)
          /\ peer'[c].step = "written" => ReadAt(b)' = peer[c].data
        BY <1>1, <2>2, <2>3, <2>4, WriteReads, SameReads
    <2>6. \A d \in Peer \ {c} : Writing(d) => peer[d].block # b
        BY <1>3, <2>2 DEF Disjoint
    <2>7. Honest' /\ Noted'
        BY <1>1, <2>1 DEF Blame, Honest, Noted
    <2>8. Stands'
        <3> SUFFICES ASSUME NEW d \in Peer, NEW e \in Block, peer'[d].step = "written",
                            peer'[d].block = e
                     PROVE  ReadAt(e)' = peer'[d].data
            BY DEF Stands
        <3>1. CASE d = c
            BY <2>1, <2>5, <3>1
        <3>2. CASE d # c
            <4>1. peer[d].step = "written" /\ peer[d].block = e /\ peer'[d].data = peer[d].data
                BY <1>1, <3>2
            <4>2. e # b
                BY <2>6, <3>2, <4>1 DEF Writing
            <4> QED
                BY <2>5, <4>1, <4>2 DEF Blame, Stands
        <3> QED
            BY <3>1, <3>2
    <2>9. Explained(b)'
        BY <2>1, <2>2 DEF Explained
    <2>10. \A e \in dirty \ {b} : Explained(e)'
        <3> SUFFICES ASSUME NEW e \in dirty \ {b} PROVE Explained(e)'
            OBVIOUS
        <3>1. Explained(e) /\ e \in Block /\ ReadAt(e)' = ReadAt(e)
            BY <1>4, <2>5 DEF Blame
        <3>2. \A w \in Hasher : Settled(w, e[1]) => Settled(w, e[1])'
            BY <1>1, <2>1 DEF Settled, Marking, AllDirty
        <3> QED
            BY <1>3, <1>6, <2>1, <3>1, <3>2 DEF Explained
    <2> QED
        BY <1>5, <2>1, <2>7, <2>8, <2>9, <2>10 DEF Blame
<1>10. CASE ChunkWritten(c)
    <2>1. /\ UNCHANGED <<part, blocks, guilty>> /\ peer'[c] = Unasked
          /\ peer[c].step \in {"written", "failed"} /\ Writing(c)
        BY <1>1, <1>10 DEF ChunkWritten, storageVars, banVars, Writing
    <2>2. \A e \in Block : ReadAt(e)' = ReadAt(e)
        BY <1>1, <2>1, SameReads
    <2>3. Honest' /\ Stands' /\ Noted'
        BY <1>1, <2>1, <2>2 DEF Blame, Honest, Stands, Noted, Unasked
    <2>4. ASSUME NEW e \in dirty', e # b, e \in dirty,
                 dirtiers[e[1]] \subseteq dirtiers'[e[1]]
          PROVE  Explained(e)'
        <3>1. Explained(e) /\ e \in Block /\ ReadAt(e)' = ReadAt(e)
            BY <1>4, <2>2, <2>4 DEF Blame
        <3>2. ASSUME NEW w \in Hasher, Settled(w, e[1]) PROVE Settled(w, e[1])'
            <4>1. e[1] # b[1]
                BY <1>3, <2>1, <3>2 DEF Settled, Marking, Working, Disjoint
            <4>2. dirty \ {b} \subseteq dirty'
                BY <1>3, <1>10 DEF ChunkWritten
            <4>3. AllDirty(e[1]) => AllDirty(e[1])'
                BY <4>1, <4>2 DEF AllDirty, BlocksOf
            <4> QED
                BY <1>1, <3>2, <4>3 DEF Settled, Marking
        <3> QED
            BY <1>3, <1>6, <2>1, <2>4, <3>1, <3>2 DEF Explained
    <2>5. \A e \in dirty' : Explained(e)'
        <3>1. CASE peer[c].old
            BY <1>10, <3>1 DEF ChunkWritten, Owned, Alive
        <3>2. CASE ~peer[c].old /\ peer[c].step = "failed"
            <4>1. dirty' = dirty \ {b} /\ dirtiers' = dirtiers
                BY <1>3, <1>10, <3>2 DEF ChunkWritten
            <4> QED
                BY <2>4, <4>1
        <3>3. CASE ~peer[c].old /\ peer[c].step = "written"
            <4>1. dirty' = dirty /\ dirtiers' = [dirtiers EXCEPT ![b[1]] = @ \cup {c}]
                BY <1>3, <1>10, <3>3 DEF ChunkWritten
            <4>2. c \in dirtiers'[b[1]] /\ \A p \in Piece : dirtiers[p] \subseteq dirtiers'[p]
                BY <1>4, <4>1
            <4>3. ReadAt(b) = peer[c].data /\ (ReadAt(b) = "good" \/ c \in guilty)
                BY <1>3, <3>3 DEF Blame, Honest, Stands
            <4>4. Explained(b)'
                BY <2>1, <2>2, <4>2, <4>3 DEF Explained
            <4> QED
                BY <1>4, <2>4, <4>1, <4>2, <4>4, BlockFacts
        <3> QED
            BY <2>1, <3>1, <3>2, <3>3
    <2> QED
        BY <1>5, <2>3, <2>5 DEF Blame
<1> QED
    BY <1>7, <1>8, <1>9, <1>10 DEF PeerStep, WriterStep

(* A failed piece that its dirtiers wrote all of has a bad block that one  *)
(* of them is guilty of.                                                   *)
LEMMA BlamedGuilty ==
    ASSUME DiskInv, Blame, NEW w \in Hasher, hasher[w].step = "hashed", ~hasher[w].passed
    PROVE  Blamed(hasher[w].piece) \subseteq guilty
<1> USE DEF DiskInv
<1>1. PICK p \in Piece : p = hasher[w].piece
    BY DEF TypeInv, WorkType, HasherState
<1> SUFFICES ASSUME AllDirty(p), Cardinality(dirtiers[p]) = 1
             PROVE  dirtiers[p] \subseteq guilty
    BY <1>1 DEF Blamed
<1>2. ~ReadsGood(p)
    BY <1>1 DEF FilesInv, VerdictHolds
<1>3. PICK b \in BlocksOf(p) : b \in dirty /\ ReadAt(b) # "good" /\ b[1] = p
    BY <1>2 DEF ReadsGood, AllDirty, BlocksOf
<1>4. ~\E c \in Peer : Writing(c) /\ peer[c].block = b
    BY <1>1, <1>3 DEF Disjoint, Working
<1>5. ~\E v \in Hasher : Settled(v, b[1])
    BY <1>1, <1>3 DEF Disjoint, Working, Settled, Marking
<1>6. PICK c \in dirtiers[p] : c \in guilty
    BY <1>3, <1>4, <1>5 DEF Blame, Explained
<1>7. dirtiers[p] \subseteq Peer
    BY DEF TypeInv, ObjectType
<1>8. IsFiniteSet(dirtiers[p])
    BY <1>7, HashingAssumption, FS_Subset
<1>9. dirtiers[p] = {c}
    BY <1>6, <1>8, FS_Singleton
<1> QED
    BY <1>6, <1>9

LEMMA BlameHasher ==
    ASSUME "read" \notin Faults, DiskInv, Blame, NEW w \in Hasher, HasherStep(w)
    PROVE  Blame'
<1> USE DEF DiskInv
<1>0. hasher \in [Hasher -> HasherState] /\ hasher[w] \in HasherState
    BY DEF TypeInv, WorkType
<1>1. PICK p \in Piece : p = hasher[w].piece
    BY <1>0 DEF HasherState
<1>2. guilty' = guilty /\ blocks' \subseteq blocks /\ dirty' \subseteq dirty
    BY DEF HasherStep, StartHash, HashPiece, FinishHash, MarkSet, MarkFile, Rename, PieceMarked,
           objectVars, banVars
<1>3. \A v \in Hasher \ {w} : hasher'[v] = hasher[v]
    BY <1>0, HasherEffect DEF Begins, Keeps, Ends
<1>4. \A c \in Peer : peer'[c] = peer[c] \/ (peer'[c] = Unasked /\ ~Writing(c))
    BY DEF HasherStep, StartHash, HashPiece, FinishHash, MarkSet, MarkFile, Rename, PieceMarked,
           Writing
<1>5. \A b \in Block : ReadAt(b)' = ReadAt(b)
    <2>1. CASE Rename(w)
        BY <2>1, RenameIs, SameReads, PromoteReads DEF FilesInv
    <2>2. CASE ~Rename(w)
        <3>1. UNCHANGED <<part, final>>
            BY <2>2 DEF HasherStep, StartHash, HashPiece, FinishHash, MarkSet, MarkFile,
                        PieceMarked, storageVars
        <3> QED
            BY <3>1, SameReads
    <2> QED
        BY <2>1, <2>2
<1>6. dirty \subseteq Block /\ dirtiers \in [Piece -> SUBSET Peer]
    BY DEF TypeInv, ObjectType
<1>7. Honest' /\ Noted'
    BY <1>2, <1>4 DEF Blame, Honest, Noted, Unasked
<1>8. Stands'
    BY <1>4, <1>5 DEF Blame, Stands, Unasked
<1>9. Suspected'
    <2>1. \A v \in Hasher \ {w} : hasher'[v].step = "hashed" /\ hasher'[v].passed =>
              hasher'[v].bad \subseteq guilty
        BY <1>3 DEF Blame, Suspected
    <2>2. CASE HashPiece(w)
        <3> DEFINE bad == {r[1] : r \in {q \in blocks : q[2][1] = p /\ q[3] # ReadAt(q[2])}}
        <3>1. hasher'[w].passed = ReadsGood(p) /\ hasher'[w].bad = bad
            BY <1>0, <1>1, <2>2 DEF HashPiece, HasherState
        <3>2. ASSUME ReadsGood(p), NEW q \in blocks, q[2][1] = p, q[3] # ReadAt(q[2])
              PROVE  q[1] \in guilty
            <4>1. q[2] \in BlocksOf(p)
                BY <3>2 DEF BlocksOf, TypeInv, BanType
            <4> QED
                BY <3>2, <4>1 DEF ReadsGood, Blame, Noted
        <3>3. ReadsGood(p) => bad \subseteq guilty
            BY <3>2
        <3> QED
            BY <1>2, <2>1, <3>1, <3>3 DEF Suspected
    <2>3. CASE ~HashPiece(w)
        <3>1. hasher'[w].step # "hashed"
            <4>0. CASE StartHash(w)
                <5>1. PICK q : hasher' = [hasher EXCEPT ![w] =
                                            [Idle EXCEPT !.step = "hashing", !.piece = q]]
                    BY <4>0 DEF StartHash
                <5> QED
                    BY <1>0, <5>1 DEF Idle
            <4>1. CASE PieceMarked(w)
                BY <1>0, <4>1 DEF PieceMarked, Idle
            <4>2. CASE FinishHash(w)
                BY <1>0, <4>2 DEF FinishHash, Idle, HasherState
            <4>3. CASE MarkSet(w) \/ Rename(w)
                BY <1>0, <4>3 DEF MarkSet, Rename, HasherState
            <4>4. CASE MarkFile(w)
                BY <1>0, <4>4 DEF MarkFile, HasherState
            <4> QED
                BY <2>3, <4>0, <4>1, <4>2, <4>3, <4>4 DEF HasherStep
        <3> QED
            BY <1>2, <2>1, <3>1 DEF Suspected
    <2> QED
        BY <2>2, <2>3
<1>10. NoneBannedWrongly'
    <2>1. CASE FinishHash(w)
        <3>1. banned' = banned \cup ((IF hasher[w].passed THEN hasher[w].bad ELSE {}) \cup
                  (IF hasher[w].passed \/ hasher[w].ioErr \/ hasher[w].old
                   THEN {} ELSE Blamed(hasher[w].piece)))
            BY <2>1 DEF FinishHash
        <3>2. hasher[w].step = "hashed"
            BY <2>1 DEF FinishHash
        <3>3. hasher[w].passed => hasher[w].bad \subseteq guilty
            BY <3>2 DEF Blame, Suspected
        <3>4. ~hasher[w].passed => Blamed(hasher[w].piece) \subseteq guilty
            BY <3>2, BlamedGuilty
        <3> QED
            BY <1>2, <3>1, <3>3, <3>4 DEF Blame, NoneBannedWrongly
    <2>2. CASE ~FinishHash(w)
        <3>1. banned' = banned
            BY <2>2 DEF HasherStep, StartHash, HashPiece, MarkSet, MarkFile, Rename, PieceMarked,
                        banVars
        <3> QED
            BY <1>2, <3>1 DEF Blame, NoneBannedWrongly
    <2> QED
        BY <2>1, <2>2
<1>11. \A b \in Block : (\E c \in Peer : Writing(c) /\ peer[c].block = b) =>
                            \E c \in Peer : Writing(c)' /\ peer'[c].block = b
    BY <1>4 DEF Writing
<1>12. ASSUME dirty' = dirty, dirtiers' = dirtiers,
              Marking(w) => Marking(w)' /\ hasher'[w].piece = p /\ hasher'[w].passed = hasher[w].passed
       PROVE  \A b \in dirty' : Explained(b)'
    <2> SUFFICES ASSUME NEW b \in dirty PROVE Explained(b)'
        BY <1>12
    <2>1. \A v \in Hasher : Settled(v, b[1]) => Settled(v, b[1])'
        BY <1>1, <1>3, <1>12 DEF Settled, Marking, AllDirty
    <2>2. Explained(b) /\ b \in Block
        BY <1>6 DEF Blame
    <2> QED
        BY <1>2, <1>5, <1>11, <1>12, <2>1, <2>2 DEF Explained
<1>13. CASE StartHash(w) \/ HashPiece(w)
    <2>1. ~Marking(w) /\ UNCHANGED <<dirty, dirtiers>>
        BY <1>13 DEF StartHash, HashPiece, Marking, objectVars
    <2>2. \A b \in dirty' : Explained(b)'
        BY <1>12, <2>1
    <2> QED
        BY <1>7, <1>8, <1>9, <1>10, <2>2 DEF Blame
<1>14. CASE MarkSet(w) \/ MarkFile(w) \/ Rename(w)
    <2>1. /\ Marking(w)' /\ hasher'[w].piece = p /\ hasher'[w].passed = hasher[w].passed
          /\ UNCHANGED <<dirty, dirtiers>>
        BY <1>0, <1>1, <1>14 DEF MarkSet, MarkFile, Rename, Marking, objectVars, HasherState
    <2>2. \A b \in dirty' : Explained(b)'
        BY <1>12, <2>1
    <2> QED
        BY <1>7, <1>8, <1>9, <1>10, <2>2 DEF Blame
<1>15. CASE FinishHash(w)
    <2>1. ~Marking(w) /\ dirty' = dirty
        BY <1>15 DEF FinishHash, Marking
    <2>2. CASE dirtiers' = dirtiers
        BY <1>7, <1>8, <1>9, <1>10, <1>12, <2>1, <2>2 DEF Blame
    <2>3. CASE dirtiers' # dirtiers
        <3>1. /\ ~hasher[w].old /\ (hasher[w].passed \/ AllDirty(p))
              /\ dirtiers' = [dirtiers EXCEPT ![p] = {}]
            BY <1>1, <1>15, <2>3 DEF FinishHash
        <3>2. hasher'[w].step = "set" /\ hasher'[w].piece = p /\ hasher'[w].passed = hasher[w].passed
            BY <1>0, <1>1, <1>15, <3>1 DEF FinishHash, HasherState
        <3>3. Settled(w, p)'
            BY <2>1, <3>1, <3>2 DEF Settled, Marking, AllDirty
        <3>4. ASSUME NEW b \in dirty PROVE Explained(b)'
            <4>1. Explained(b) /\ b \in Block /\ b[1] \in Piece
                BY <1>6, BlockFacts DEF Blame
            <4>2. CASE b[1] = p
                BY <3>3, <4>2 DEF Explained
            <4>3. CASE b[1] # p
                <5>1. dirtiers'[b[1]] = dirtiers[b[1]]
                    BY <1>6, <3>1, <4>1, <4>3
                <5>2. \A v \in Hasher : Settled(v, b[1]) => Settled(v, b[1])'
                    BY <1>3, <2>1 DEF Settled, Marking, AllDirty
                <5> QED
                    BY <1>2, <1>5, <1>11, <4>1, <5>1, <5>2 DEF Explained
            <4> QED
                BY <4>2, <4>3
        <3> QED
            BY <1>7, <1>8, <1>9, <1>10, <2>1, <3>4 DEF Blame
    <2> QED
        BY <2>2, <2>3
<1>16. CASE PieceMarked(w)
    <2>1. dirtiers' = dirtiers /\ Marking(w)
        BY <1>16 DEF PieceMarked, Marking
    <2>2. ASSUME NEW b \in dirty' PROVE Explained(b)'
        <3>1. Explained(b) /\ b \in Block /\ b[1] \in Piece /\ b \in dirty
            BY <1>2, <1>6, <2>2, BlockFacts DEF Blame
        <3>2. open /\ ~hasher[w].old
            BY <3>1 DEF Alive, Owned
        <3>3. dirty' = IF hasher[w].passed \/ AllDirty(p) THEN dirty \ BlocksOf(p) ELSE dirty
            BY <1>1, <1>16, <3>2 DEF PieceMarked
        <3>4. ~Settled(w, b[1])
            BY <1>1, <2>2, <3>1, <3>3, BlockFacts DEF Settled
        <3>5. ASSUME NEW v \in Hasher, Settled(v, b[1]) PROVE Settled(v, b[1])'
            <4>1. v # w /\ hasher'[v] = hasher[v]
                BY <1>3, <3>4, <3>5
            <4>2. b[1] # p
                BY <1>1, <2>1, <3>5, <4>1 DEF Settled, Marking, Working, Disjoint
            <4>3. AllDirty(b[1]) => AllDirty(b[1])'
                BY <3>3, <4>2 DEF AllDirty, BlocksOf
            <4> QED
                BY <3>5, <4>1, <4>3 DEF Settled, Marking
        <3> QED
            BY <1>2, <1>5, <1>11, <2>1, <3>1, <3>5 DEF Explained
    <2> QED
        BY <1>7, <1>8, <1>9, <1>10, <2>2 DEF Blame
<1> QED
    BY <1>13, <1>14, <1>15, <1>16 DEF HasherStep

LEMMA BlameEngine ==
    ASSUME ~LateWork, DiskInv, Blame,
           OnSetInfo \/ VerifyData \/ Drop \/ Remove \/ EngineStep \/ Crash
    PROVE  Blame'
<1> USE DEF DiskInv
<1>1. ASSUME UNCHANGED <<part, final, dirty, dirtiers, hasher, peer, banVars>>
      PROVE  Blame'
    <2>1. \A b \in Block : ReadAt(b)' = ReadAt(b)
        BY <1>1, SameReads
    <2>2. Honest' /\ Stands' /\ Noted' /\ Suspected' /\ NoneBannedWrongly'
        BY <1>1, <2>1 DEF Blame, Honest, Stands, Noted, Suspected, NoneBannedWrongly, banVars
    <2>3. dirty \subseteq Block
        BY DEF TypeInv, ObjectType
    <2>4. \A b \in dirty : Explained(b)'
        BY <1>1, <2>1, <2>3
        DEF Blame, Explained, Settled, Marking, AllDirty, Writing, banVars
    <2> QED
        BY <1>1, <2>2, <2>4 DEF Blame
<1>2. CASE OnSetInfo \/ VerifyData \/ Drop \/ VerifyPiece \/ DownloadAll
    BY <1>1, <1>2 DEF OnSetInfo, VerifyData, Drop, VerifyPiece, DownloadAll, storageVars, objectVars
<1>3. CASE Remove
    <2>1. UNCHANGED <<open, dirty, hasher, peer, banVars>> /\ ~open /\ ~AtWork
        BY <1>3 DEF Remove, objectVars
    <2>2. dirty' = {} /\ (\A c \in Peer : ~Writing(c)') /\ \A w \in Hasher : hasher'[w].step = "idle"
        BY <2>1 DEF Alive, AtWork, Writing
    <2> QED
        BY <2>1, <2>2
        DEF Blame, Honest, Stands, Noted, Suspected, NoneBannedWrongly, banVars, Writing
<1>4. CASE DropReturns \/ Crash
    <2>1. /\ dirty' = {} /\ blocks' = {} /\ guilty' = guilty /\ banned' \subseteq banned
          /\ UNCHANGED <<part, final>>
        BY <1>4, DropEffect DEF DropReturns, Crash, Closed, storageVars
    <2>2. \A b \in Block : ReadAt(b)' = ReadAt(b)
        BY <2>1, SameReads
    <2>3. \A c \in Peer : peer'[c] = Unasked \/
              (/\ peer'[c].step = peer[c].step /\ peer'[c].block = peer[c].block
               /\ peer'[c].data = peer[c].data)
        <3> SUFFICES ASSUME NEW c \in Peer, peer'[c] # Unasked
                     PROVE  /\ peer'[c].step = peer[c].step /\ peer'[c].block = peer[c].block
                            /\ peer'[c].data = peer[c].data
            OBVIOUS
        <3>1. peer[c] \in PeerState
            BY DEF TypeInv, WorkType
        <3>2. peer'[c] = [peer[c] EXCEPT !.old = TRUE]
            BY <1>4, DropEffect
        <3> QED
            BY <3>1, <3>2 DEF PeerState
    <2>4. \A w \in Hasher : hasher'[w] = Idle \/
              (/\ hasher'[w].step = hasher[w].step /\ hasher'[w].passed = hasher[w].passed
               /\ hasher'[w].bad = hasher[w].bad)
        <3> SUFFICES ASSUME NEW w \in Hasher, hasher'[w] # Idle
                     PROVE  /\ hasher'[w].step = hasher[w].step
                            /\ hasher'[w].passed = hasher[w].passed
                            /\ hasher'[w].bad = hasher[w].bad
            OBVIOUS
        <3>1. hasher[w] \in HasherState
            BY DEF TypeInv, WorkType
        <3>2. hasher'[w] = [hasher[w] EXCEPT !.old = TRUE]
            BY <1>4, DropEffect
        <3> QED
            BY <3>1, <3>2 DEF HasherState
    <2>5. Honest' /\ Stands'
        BY <2>1, <2>2, <2>3 DEF Blame, Honest, Stands, Unasked
    <2>6. Suspected'
        BY <2>1, <2>4 DEF Blame, Suspected, Idle
    <2>7. Noted' /\ NoneBannedWrongly' /\ \A b \in dirty' : Explained(b)'
        BY <2>1 DEF Blame, Noted, NoneBannedWrongly
    <2> QED
        BY <2>5, <2>6, <2>7 DEF Blame
<1> QED
    BY <1>2, <1>3, <1>4 DEF EngineStep

LEMMA BlameStep == ASSUME Undisturbed PROVE DiskInv /\ Blame /\ [Next]_vars => Blame'
<1> SUFFICES ASSUME DiskInv, Blame, [Next]_vars PROVE Blame'
    OBVIOUS
<1>1. CASE UNCHANGED vars
    <2>1. UNCHANGED <<part, final, dirty, dirtiers, hasher, peer, blocks, guilty, banned>>
        BY <1>1 DEF vars, storageVars, objectVars, banVars
    <2>2. \A b \in Block : ReadAt(b)' = ReadAt(b)
        BY <2>1, SameReads
    <2>3. Honest' /\ Stands' /\ Noted' /\ Suspected' /\ NoneBannedWrongly'
        BY <2>1, <2>2 DEF Blame, Honest, Stands, Noted, Suspected, NoneBannedWrongly
    <2>4. dirty \subseteq Block
        BY DEF DiskInv, TypeInv, ObjectType
    <2>5. \A b \in dirty : Explained(b)'
        BY <2>1, <2>2, <2>4 DEF Blame, Explained, Settled, Marking, AllDirty, Writing
    <2> QED
        BY <2>1, <2>3, <2>5 DEF Blame
<1>2. CASE Next
    BY <1>2, BlameEngine, BlameHasher, BlamePeer DEF Next, PeerStep, Undisturbed
<1> QED
    BY <1>1, <1>2

(* A peer is banned only for a bad chunk it sent: neither smart banning    *)
(* nor the rule that a failed piece is blamed on its only dirtier ever     *)
(* hits one that sent nothing bad, however writes, checks, failures and    *)
(* drops of the torrent interleave.                                        *)
THEOREM NoneBanned == ASSUME Undisturbed PROVE Spec => []NoneBannedWrongly
<1>1. Init => DiskInv
    BY DiskInit
<1>2. Init => Blame
    BY DEF Init, Blame, Honest, Stands, Noted, Suspected, NoneBannedWrongly, Idle, Unasked
<1>3. DiskInv /\ [Next]_vars => DiskInv'
    BY DiskStep
<1>4. DiskInv /\ Blame /\ [Next]_vars => Blame'
    BY BlameStep
<1>5. Blame => NoneBannedWrongly
    BY DEF Blame
<1> QED
    BY <1>1, <1>2, <1>3, <1>4, <1>5, PTL DEF Spec
=============================================================================
