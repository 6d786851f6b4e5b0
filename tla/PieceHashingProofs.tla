-------------------------- MODULE PieceHashingProofs --------------------------
(***************************************************************************)
(* Proofs about PieceHashing that need little of its environment: types,   *)
(* that a piece whose chunks all came in is checked, and that Drop is not  *)
(* held up by writers.  For any pieces, chunks, files, peers and hashers.  *)
(* What is on disk is the subject of module PieceFilesProofs.              *)
(***************************************************************************)
EXTENDS PieceHashing, FiniteSetTheorems, TLAPS

-----------------------------------------------------------------------------
(* Pieces, blocks and files.                                               *)

(* Min is the least element: the intervals up to the elements are finite   *)
(* sets, and one of them is least.                                         *)
LEMMA MinIs ==
    ASSUME NEW S \in SUBSET Nat, S # {}
    PROVE  Min(S) \in S
<1> DEFINE T == {1..x : x \in S}
<1>1. T \subseteq FiniteSubsetsOf(Nat)
    <2> SUFFICES ASSUME NEW x \in S PROVE 1..x \in FiniteSubsetsOf(Nat)
        OBVIOUS
    <2>1. IsFiniteSet(1..x)
        BY FS_Interval
    <2>2. 1..x \subseteq Nat
        OBVIOUS
    <2> QED
        BY <2>1, <2>2 DEF FiniteSubsetsOf
<1>2. T # {}
    OBVIOUS
<1>3. PICK m \in T : \A t \in T : ~ (<<t, m>> \in StrictSubsetOrdering(Nat))
    BY <1>1, <1>2, FS_StrictSubsetOrderingWellFounded, WFMin
<1>4. PICK x \in S : m = 1..x
    OBVIOUS
<1>5. ASSUME NEW y \in S PROVE x <= y
    <2>1. SUFFICES ASSUME y < x PROVE FALSE
        OBVIOUS
    <2>2. 1..y \subseteq 1..x /\ x \in 1..x /\ x \notin 1..y
        BY <2>1
    <2>3. <<1..y, 1..x>> \in StrictSubsetOrdering(Nat)
        BY <2>2 DEF StrictSubsetOrdering
    <2> QED
        BY <1>3, <1>4, <2>3
<1> QED
    BY <1>5 DEF Min

LEMMA PieceMin ==
    ASSUME NEW S \in SUBSET Piece, S # {}
    PROVE  Min(S) \in S
BY MinIs, StorageAssumption DEF Piece

LEMMA FileMin ==
    ASSUME NEW S \in SUBSET File, S # {}
    PROVE  Min(S) \in S
BY MinIs, StorageAssumption DEF File

(* A block lies in its piece and in its file; a piece has blocks.          *)
LEMMA BlockFacts ==
    /\ \A b \in Block : b[1] \in Piece /\ b \in BlocksOf(b[1])
    /\ \A b \in Block : Place[b] \in File /\ b \in FileBlocks(Place[b])
    /\ \A p, q \in Piece : \A b \in BlocksOf(p) : b \in Block /\ (b \in BlocksOf(q) => p = q)
    /\ \A p \in Piece : BlocksOf(p) # {} /\ PieceFiles(p) # {} /\ PieceFiles(p) \subseteq File
    /\ \A p \in Piece : \A f \in PieceFiles(p) : p \in FilePieces(f)
    /\ \A f \in File : FilePieces(f) \subseteq Piece
    /\ <<1, 1>> \in Block /\ 1 \in Piece
<1>1. \A b \in Block : b[1] \in Piece /\ b \in BlocksOf(b[1])
    BY DEF Block, BlocksOf
<1>2. \A b \in Block : Place[b] \in File /\ b \in FileBlocks(Place[b])
    BY StorageAssumption DEF FileBlocks
<1>3. \A p, q \in Piece : \A b \in BlocksOf(p) : b \in Block /\ (b \in BlocksOf(q) => p = q)
    BY DEF BlocksOf
<1>4. ASSUME NEW p \in Piece PROVE <<p, 1>> \in BlocksOf(p)
    BY StorageAssumption DEF Block, BlocksOf, Chunk, Piece
<1>5. ASSUME NEW p \in Piece
      PROVE  BlocksOf(p) # {} /\ PieceFiles(p) # {} /\ PieceFiles(p) \subseteq File
    <2>1. Place[<<p, 1>>] \in PieceFiles(p)
        BY <1>4 DEF PieceFiles
    <2>2. PieceFiles(p) \subseteq File
        BY <1>2, <1>3 DEF PieceFiles
    <2> QED
        BY <1>4, <2>1, <2>2
<1>6. ASSUME NEW p \in Piece, NEW f \in PieceFiles(p) PROVE p \in FilePieces(f)
    BY <1>2, <1>3 DEF PieceFiles, FilePieces, BlocksOf, FileBlocks
<1>7. \A f \in File : FilePieces(f) \subseteq Piece
    BY <1>1 DEF FilePieces, FileBlocks
<1>8. 1 \in Piece
    BY StorageAssumption DEF Piece
<1> QED
    BY <1>1, <1>2, <1>3, <1>4, <1>5, <1>6, <1>7, <1>8

-----------------------------------------------------------------------------
(* Types.                                                                  *)

Held == {NoFile} \cup UNION {Contents(f) : f \in File}

(* TypeOK by parts, with the domains of the files.                         *)
FilesType == /\ part \in [File -> Held] /\ final \in [File -> Held]
             /\ StorageTypeOK

ObjectType ==
    /\ open \in BOOLEAN /\ downloading \in BOOLEAN /\ disallowed \in BOOLEAN
    /\ cached \in [Piece -> Completion]
    /\ dirty \subseteq Block
    /\ dirtiers \in [Piece -> SUBSET Peer]
    /\ queued \subseteq Piece
    /\ verify \in VerifyState

WorkType ==
    /\ dropping \in BOOLEAN /\ clobbered \in BOOLEAN
    /\ hasher \in [Hasher -> HasherState]
    /\ peer \in [Peer -> PeerState]

BanType ==
    /\ blocks \subseteq Peer \X Block \X Data
    /\ banned \subseteq Peer
    /\ guilty \subseteq Peer
    /\ sentBad \in 0..MaxBad

TypeInv == FilesType /\ ObjectType /\ WorkType /\ BanType

LEMMA TypeParts == TypeInv => TypeOK
BY DEF TypeInv, FilesType, ObjectType, WorkType, BanType, TypeOK

LEMMA IdleType == Idle \in HasherState /\ Unasked \in PeerState /\ NotVerifying \in VerifyState
<1>1. Idle \in HasherState
    BY BlockFacts DEF Idle, HasherState
<1>2. Unasked \in PeerState
    BY BlockFacts DEF Unasked, PeerState, Data
<1>3. NotVerifying \in VerifyState
    BY StorageAssumption DEF NotVerifying, VerifyState
<1> QED
    BY <1>1, <1>2, <1>3

LEMMA HeldFacts ==
    /\ NoFile \in Held
    /\ \A f \in File : Contents(f) \subseteq Held
<1>1. ASSUME NEW f \in File PROVE Contents(f) \subseteq Held
    BY DEF Held
<1>2. NoFile \in Held
    BY DEF Held
<1> QED
    BY <1>1, <1>2

LEMMA WriteType ==
    ASSUME FilesType, NEW b \in Block, NEW data \in Data, WriteAt(b, data)
    PROVE  part' \in [File -> Held] /\ \A f \in File : part'[f] \in Contents(f) \cup {NoFile}
<1> DEFINE f == Place[b]
           old == IF part[f] = NoFile THEN [c \in FileBlocks(f) |-> "hole"] ELSE part[f]
           new == [old EXCEPT ![b] = data]
<1>1. f \in File /\ b \in FileBlocks(f)
    BY BlockFacts
<1>2. old \in Contents(f)
    BY <1>1 DEF FilesType, StorageTypeOK, Contents, Data
<1>3. part' = [part EXCEPT ![f] = new]
    BY DEF WriteAt
<1> HIDE DEF old, f
<1>4. new \in Contents(f)
    BY <1>2 DEF Contents
<1> HIDE DEF new
<1>5. part' \in [File -> Held]
    BY <1>1, <1>3, <1>4, HeldFacts DEF FilesType
<1>6. \A g \in File : part'[g] = IF g = f THEN new ELSE part[g]
    BY <1>1, <1>3 DEF FilesType
<1> QED
    BY <1>4, <1>5, <1>6 DEF FilesType, StorageTypeOK

LEMMA RenameType ==
    ASSUME FilesType, NEW f \in File, PromotePartFile(f) \/ OnFileNotComplete(f), store' = store
    PROVE  FilesType'
<1>1. CASE UNCHANGED <<part, final>>
    BY <1>1 DEF FilesType, StorageTypeOK
<1>2. CASE /\ part[f] # NoFile
           /\ final' = [final EXCEPT ![f] = part[f]]
           /\ part' = [part EXCEPT ![f] = NoFile]
    BY <1>2, HeldFacts DEF FilesType, StorageTypeOK
<1>3. CASE /\ final[f] # NoFile
           /\ part' = [part EXCEPT ![f] = final[f]]
           /\ final' = [final EXCEPT ![f] = NoFile]
    BY <1>3, HeldFacts DEF FilesType, StorageTypeOK
<1> QED
    BY <1>1, <1>2, <1>3 DEF PromotePartFile, OnFileNotComplete

LEMMA TypeInit == Init => TypeInv
<1> SUFFICES ASSUME Init PROVE TypeInv
    OBVIOUS
<1>1. ASSUME NEW f \in File PROVE final[f] \in Contents(f) \cup {NoFile}
    BY DEF Init
<1>2. final \in [File -> Held]
    <2>1. CASE Preexisting
        <3>1. final \in [File -> UNION {Contents(f) : f \in File}]
            BY <2>1 DEF Init
        <3> QED
            BY <3>1 DEF Held
    <2>2. CASE ~Preexisting
        BY <2>2, HeldFacts DEF Init
    <2> QED
        BY <2>1, <2>2
<1>3. part \in [File -> Held] /\ \A f \in File : part[f] = NoFile
    BY HeldFacts DEF Init
<1>4. FilesType
    <2>1. store \in [Piece -> Completion]
        BY DEF Init, Completion
    <2> QED
        BY <1>1, <1>2, <1>3, <2>1 DEF FilesType, StorageTypeOK
<1>5. ObjectType
    BY IdleType DEF Init, ObjectType, Completion
<1>6. WorkType
    BY IdleType DEF Init, WorkType
<1>7. BanType
    BY HashingAssumption DEF Init, BanType
<1> QED
    BY <1>4, <1>5, <1>6, <1>7 DEF TypeInv

LEMMA ClosedType == Closed => ObjectType' /\ blocks' = {}
BY IdleType DEF Closed, ObjectType, Completion

(* The calls that open, verify, drop and remove the torrent.               *)
LEMMA EngineType ==
    ASSUME TypeInv, OnSetInfo \/ VerifyData \/ Drop \/ Remove \/ EngineStep \/ Crash
    PROVE  TypeInv'
<1> USE DEF TypeInv
<1>1. CASE OnSetInfo
    <2>1. CompletionFromPartFiles \in [Piece -> Completion]
        BY DEF CompletionFromPartFiles, FilesType, StorageTypeOK, Completion
    <2>2. FilesType'
        BY <1>1, <2>1 DEF OnSetInfo, FilesType, StorageTypeOK
    <2>3. ObjectType'
        BY <1>1, <2>1 DEF OnSetInfo, ObjectType
    <2>4. WorkType' /\ BanType'
        BY <1>1 DEF OnSetInfo, WorkType, BanType, banVars
    <2> QED
        BY <2>2, <2>3, <2>4
<1>2. CASE VerifyData
    <2>1. [piece |-> 1, left |-> 0] \in VerifyState
        BY StorageAssumption DEF VerifyState
    <2>2. ObjectType'
        BY <1>2, <2>1 DEF VerifyData, ObjectType
    <2>3. FilesType' /\ WorkType' /\ BanType'
        BY <1>2 DEF VerifyData, FilesType, StorageTypeOK, storageVars, WorkType, BanType, banVars
    <2> QED
        BY <2>2, <2>3
<1>3. CASE VerifyPiece
    <2>1. verify' \in VerifyState
        BY <1>3 DEF VerifyPiece, ObjectType, VerifyState
    <2>2. ObjectType'
        BY <1>3, <2>1 DEF VerifyPiece, ObjectType
    <2>3. FilesType' /\ WorkType' /\ BanType'
        BY <1>3 DEF VerifyPiece, FilesType, StorageTypeOK, storageVars, WorkType, BanType, banVars
    <2> QED
        BY <2>2, <2>3
<1>4. CASE DownloadAll
    <2>1. ObjectType'
        BY <1>4, IdleType DEF DownloadAll, ObjectType
    <2>2. FilesType' /\ WorkType' /\ BanType'
        BY <1>4 DEF DownloadAll, FilesType, StorageTypeOK, storageVars, WorkType, BanType, banVars
    <2> QED
        BY <2>1, <2>2
<1>5. CASE Drop
    BY <1>5 DEF Drop, FilesType, StorageTypeOK, storageVars, ObjectType, objectVars, WorkType,
                BanType, banVars
<1>6. CASE DropReturns
    <2>1. ObjectType' /\ blocks' = {}
        BY <1>6, ClosedType DEF DropReturns
    <2>2. FilesType' /\ BanType'
        BY <1>6, <2>1 DEF DropReturns, FilesType, StorageTypeOK, storageVars, BanType
    <2>3. hasher' \in [Hasher -> HasherState]
        BY <1>6, IdleType DEF DropReturns, WorkType, HasherState
    <2>4. peer' \in [Peer -> PeerState]
        BY <1>6, IdleType DEF DropReturns, WorkType, PeerState
    <2>5. WorkType'
        BY <1>6, <2>3, <2>4 DEF DropReturns, WorkType
    <2> QED
        BY <2>1, <2>2, <2>5
<1>7. CASE Remove
    <2>1. /\ part' = [f \in File |-> NoFile] /\ final' = [f \in File |-> NoFile]
          /\ store' = [p \in Piece |-> "unknown"]
        BY <1>7 DEF Remove, RemoveFiles
    <2>2. FilesType'
        BY <2>1, HeldFacts DEF FilesType, StorageTypeOK, Completion
    <2>3. ObjectType' /\ WorkType' /\ BanType'
        BY <1>7 DEF Remove, ObjectType, objectVars, WorkType, BanType, banVars
    <2> QED
        BY <2>2, <2>3
<1>8. CASE Crash
    <2>1. ObjectType' /\ blocks' = {}
        BY <1>8, ClosedType DEF Crash
    <2>2. FilesType' /\ BanType'
        BY <1>8, <2>1 DEF Crash, FilesType, StorageTypeOK, storageVars, BanType
    <2>3. WorkType'
        BY <1>8, IdleType DEF Crash, WorkType
    <2> QED
        BY <2>1, <2>2, <2>3
<1> QED
    BY <1>1, <1>2, <1>3, <1>4, <1>5, <1>6, <1>7, <1>8 DEF EngineStep

LEMMA HasherType ==
    ASSUME TypeInv, NEW w \in Hasher, HasherStep(w)
    PROVE  TypeInv'
<1> USE DEF TypeInv
<1> DEFINE Rest == FilesType' /\ ObjectType' /\ BanType'
<1>0. hasher[w] \in HasherState
    BY DEF WorkType
<1>1. CASE StartHash(w)
    <2> DEFINE ready == {p \in queued : ~IsHashing(p) /\ ~IsMarking(p)}
    <2>1. Min(ready) \in Piece
        BY <1>1, PieceMin DEF StartHash, ObjectType
    <2>2. [Idle EXCEPT !.step = "hashing", !.piece = Min(ready)] \in HasherState
        BY <2>1, IdleType DEF HasherState
    <2>3. hasher' \in [Hasher -> HasherState]
        BY <1>1, <2>2 DEF StartHash, WorkType
    <2>4. WorkType'
        BY <1>1, <2>3 DEF StartHash, WorkType
    <2>5. Rest
        BY <1>1 DEF StartHash, FilesType, StorageTypeOK, storageVars, ObjectType, BanType, banVars
    <2> QED
        BY <2>4, <2>5
<1>2. CASE HashPiece(w)
    <2> DEFINE p == hasher[w].piece
               bad == {r[1] : r \in {q \in blocks : q[2][1] = p /\ q[3] # ReadAt(q[2])}}
               good == ReadsGood(p)
    <2>1. bad \in SUBSET Peer
        BY DEF BanType
    <2>2. good \in BOOLEAN
        BY DEF ReadsGood
    <2> DEFINE new == [hasher[w] EXCEPT !.step = "hashed", !.passed = good, !.bad = bad]
               unread == [hasher[w] EXCEPT !.step = "hashed", !.ioErr = TRUE]
    <2>3. hasher' = [hasher EXCEPT ![w] = new] \/ hasher' = [hasher EXCEPT ![w] = unread]
        BY <1>2 DEF HashPiece, WorkType
    <2> HIDE DEF bad, good
    <2>4. new \in HasherState /\ unread \in HasherState
        BY <1>0, <2>1, <2>2 DEF HasherState
    <2> HIDE DEF new, unread
    <2>5. hasher' \in [Hasher -> HasherState]
        BY <2>3, <2>4 DEF WorkType
    <2>6. WorkType' /\ Rest
        BY <1>2, <2>5 DEF HashPiece, WorkType, FilesType, StorageTypeOK, storageVars, ObjectType,
                          objectVars, BanType, banVars
    <2> QED
        BY <2>6
<1>3. CASE FinishHash(w)
    <2> DEFINE p == hasher[w].piece
               ban == (IF hasher[w].passed THEN hasher[w].bad ELSE {}) \cup
                      (IF hasher[w].passed \/ hasher[w].ioErr \/ hasher[w].old
                       THEN {} ELSE Blamed(p))
    <2>1. p \in Piece /\ ban \subseteq Peer
        BY <1>0 DEF HasherState, Blamed, ObjectType
    <2>2. /\ banned' = banned \cup ban
          /\ peer' = [c \in Peer |->
                        IF c \in ban /\ peer[c].step = "asked" THEN Unasked ELSE peer[c]]
        BY <1>3 DEF FinishHash
    <2>3. hasher' \in [Hasher -> HasherState]
        BY <1>3, IdleType DEF FinishHash, WorkType, HasherState
    <2>4. dirtiers' \in [Piece -> SUBSET Peer] /\ blocks' \subseteq blocks
        BY <1>3, <2>1 DEF FinishHash, ObjectType
    <2>5. verify' \in VerifyState
        <3>1. CASE hasher[w].old
            BY <1>3, <3>1 DEF FinishHash, ObjectType
        <3>2. CASE ~hasher[w].old
            <4>1. Verified(p)
                BY <1>3, <3>2 DEF FinishHash
            <4>2. [piece |-> p + 1, left |-> 0] \in VerifyState
                BY <2>1, StorageAssumption DEF VerifyState, Piece
            <4>3. [verify EXCEPT !.left = 1] \in VerifyState
                BY DEF ObjectType, VerifyState
            <4> QED
                BY <4>1, <4>2, <4>3 DEF Verified, ObjectType
        <3> QED
            BY <3>1, <3>2
    <2> HIDE DEF ban
    <2>6. WorkType'
        BY <1>3, <2>2, <2>3, IdleType DEF FinishHash, WorkType
    <2>7. ObjectType'
        BY <1>3, <2>4, <2>5 DEF FinishHash, ObjectType
    <2>8. BanType' /\ FilesType'
        BY <1>3, <2>1, <2>2, <2>4 DEF FinishHash, BanType, FilesType, StorageTypeOK, storageVars
    <2> QED
        BY <2>6, <2>7, <2>8
<1>4. CASE MarkSet(w)
    <2>1. PieceFiles(hasher[w].piece) \in SUBSET File
        BY <1>0, BlockFacts DEF HasherState
    <2>2. hasher' \in [Hasher -> HasherState]
        BY <1>4, <2>1 DEF MarkSet, WorkType, HasherState
    <2>3. store' \in [Piece -> Completion]
        BY <1>4 DEF MarkSet, FilesType, StorageTypeOK, Completion
    <2> QED
        BY <1>4, <2>2, <2>3 DEF MarkSet, WorkType, FilesType, StorageTypeOK, ObjectType, objectVars,
                                BanType, banVars
<1>5. CASE MarkFile(w)
    <2>1. hasher[w].files \ {Min(hasher[w].files)} \in SUBSET File
        BY <1>0 DEF HasherState
    <2>2. hasher' \in [Hasher -> HasherState]
        BY <1>5, <2>1 DEF MarkFile, WorkType, HasherState
    <2> QED
        BY <1>5, <2>2 DEF MarkFile, WorkType, FilesType, StorageTypeOK, storageVars, ObjectType,
                          objectVars, BanType, banVars
<1>6. CASE Rename(w)
    <2> DEFINE f == Min(hasher[w].files)
    <2>1. hasher' = [hasher EXCEPT ![w].step = "files", ![w].files = @ \ {f}]
        BY <1>6 DEF Rename
    <2>2. hasher' \in [Hasher -> HasherState]
        BY <1>0, <2>1 DEF WorkType, HasherState
    <2>3. PromotePartFile(f) \/ OnFileNotComplete(f)
        BY <1>6 DEF Rename
    <2>4. clobbered' \in BOOLEAN
        BY <1>6 DEF Rename
    <2>5. WorkType'
        BY <1>6, <2>2, <2>4 DEF Rename, WorkType
    <2>6. ObjectType' /\ BanType' /\ store' = store
        BY <1>6 DEF Rename, ObjectType, objectVars, BanType, banVars
    <2>7. f \in File => FilesType'
        BY <2>3, <2>6, RenameType
    <2>8. f \notin File => FilesType'
        <3> SUFFICES ASSUME f \notin File PROVE FilesType'
            OBVIOUS
        <3>1. \A v : [part EXCEPT ![f] = v] = part /\ [final EXCEPT ![f] = v] = final
            BY DEF FilesType
        <3>2. part' = part /\ final' = final
            BY <2>3, <3>1 DEF PromotePartFile, OnFileNotComplete
        <3> QED
            BY <2>6, <3>2 DEF FilesType, StorageTypeOK
    <2> QED
        BY <2>5, <2>6, <2>7, <2>8
<1>7. CASE PieceMarked(w)
    <2>1. hasher' \in [Hasher -> HasherState]
        BY <1>7, IdleType DEF PieceMarked, WorkType
    <2>2. cached' \in [Piece -> Completion] /\ dirty' \subseteq dirty
        BY <1>7 DEF PieceMarked, ObjectType, Completion
    <2> QED
        BY <1>7, <2>1, <2>2 DEF PieceMarked, WorkType, FilesType, StorageTypeOK, storageVars,
                                ObjectType, BanType, banVars
<1> QED
    BY <1>1, <1>2, <1>3, <1>4, <1>5, <1>6, <1>7 DEF HasherStep

LEMMA PeerType ==
    ASSUME TypeInv, NEW c \in Peer,
           \/ \E b \in Block : Ask(c, b)
           \/ \E data \in {"good", "bad"} : ReceiveChunk(c, data)
           \/ WriterStep(c)
    PROVE  TypeInv'
<1> USE DEF TypeInv
<1>0. peer[c] \in PeerState
    BY DEF WorkType
<1>1. ASSUME NEW b \in Block, Ask(c, b)
      PROVE  TypeInv'
    <2>1. [Unasked EXCEPT !.step = "asked", !.block = b] \in PeerState
        BY IdleType DEF PeerState
    <2>2. peer' \in [Peer -> PeerState]
        BY <1>1, <2>1 DEF Ask, WorkType
    <2> QED
        BY <1>1, <2>2 DEF Ask, WorkType, FilesType, StorageTypeOK, storageVars, ObjectType,
                          objectVars, BanType, banVars
<1>2. ASSUME NEW data \in {"good", "bad"}, ReceiveChunk(c, data)
      PROVE  TypeInv'
    <2>1. peer[c].block \in Block /\ data \in Data
        BY <1>0 DEF PeerState, Data
    <2>2. peer' \in [Peer -> PeerState]
        BY <1>2, <2>1, IdleType DEF ReceiveChunk, WorkType, PeerState
    <2>3. dirty' \subseteq Block
        BY <1>2, <2>1 DEF ReceiveChunk, ObjectType
    <2>4. sentBad' \in 0..MaxBad
        BY <1>2, HashingAssumption DEF ReceiveChunk, BanType
    <2>5. blocks' \subseteq Peer \X Block \X Data /\ guilty' \subseteq Peer
        BY <1>2, <2>1 DEF ReceiveChunk, BanType
    <2> QED
        BY <1>2, <2>2, <2>3, <2>4, <2>5
        DEF ReceiveChunk, WorkType, FilesType, StorageTypeOK, storageVars, ObjectType, BanType
<1>3. CASE WriteChunk(c)
    <2>1. peer[c].block \in Block /\ peer[c].data \in Data
        BY <1>0 DEF PeerState
    <2>2. peer' \in [Peer -> PeerState]
        BY <1>3 DEF WriteChunk, WorkType, PeerState
    <2>3. part' \in [File -> Held] /\ \A f \in File : part'[f] \in Contents(f) \cup {NoFile}
        BY <1>3, <2>1, WriteType DEF WriteChunk, FilesType, StorageTypeOK
    <2> QED
        BY <1>3, <2>2, <2>3 DEF WriteChunk, WorkType, FilesType, StorageTypeOK, ObjectType,
                                objectVars, BanType, banVars
<1>4. CASE ChunkWritten(c)
    <2>1. peer[c].block[1] \in Piece
        BY <1>0, BlockFacts DEF PeerState
    <2>2. peer' \in [Peer -> PeerState]
        BY <1>4, IdleType DEF ChunkWritten, WorkType
    <2>3. dirty' \subseteq dirty /\ disallowed' \in BOOLEAN
        BY <1>4 DEF ChunkWritten, ObjectType
    <2>4. dirtiers' \in [Piece -> SUBSET Peer] /\ queued' \subseteq Piece
        BY <1>4, <2>1 DEF ChunkWritten, ObjectType
    <2> QED
        BY <1>4, <2>2, <2>3, <2>4 DEF ChunkWritten, WorkType, FilesType, StorageTypeOK, storageVars,
                                      ObjectType, BanType, banVars
<1> QED
    BY <1>1, <1>2, <1>3, <1>4 DEF WriterStep

LEMMA TypeStep == TypeInv /\ [Next]_vars => TypeInv'
<1> SUFFICES ASSUME TypeInv, [Next]_vars PROVE TypeInv'
    OBVIOUS
<1>1. CASE UNCHANGED vars
    BY <1>1 DEF vars, storageVars, objectVars, banVars, TypeInv, FilesType, StorageTypeOK,
                ObjectType, WorkType, BanType
<1>2. CASE Next
    BY <1>2, EngineType, HasherType, PeerType DEF Next
<1> QED
    BY <1>1, <1>2

(* Types, in any environment: every goroutine of the hashers and peers is  *)
(* about a piece, block and files that the torrent has, a file holds its   *)
(* own blocks under either name, and VerifyDataContext does not run past   *)
(* the last piece.                                                         *)
THEOREM TypeCorrect == Spec => []TypeOK
BY TypeInit, TypeStep, TypeParts, PTL DEF Spec

-----------------------------------------------------------------------------
(* The goroutines of the tracked torrent.                                  *)

Working(w) == hasher[w].step # "idle"

(* The piece has a hasher; it is queued or has one.                        *)
On(w, p) == Working(w) /\ ~hasher[w].old /\ hasher[w].piece = p
HasherOn(p) == \E w \in Hasher : On(w, p)
Busy(p) == p \in queued \/ HasherOn(p)

LEMMA HasherOnIs ==
    ASSUME TypeInv
    PROVE  \A p : IsHashing(p) \/ IsMarking(p) <=> HasherOn(p)
<1>1. \A w \in Hasher : hasher[w] \in HasherState
    BY DEF TypeInv, WorkType
<1>2. \A w \in Hasher : Working(w) <=> hasher[w].step \in {"hashing", "hashed"} \cup
                                          {"set", "files", "rename", "marked"}
    BY <1>1 DEF Working, HasherState
<1> QED
    BY <1>2 DEF IsHashing, IsMarking, HasherOn, On

(* A hasher's step begins with a queued piece, keeps its piece, or ends.   *)
Begins(w) ==
    /\ ~Working(w) /\ open
    /\ \E p \in queued :
          /\ ~HasherOn(p)
          /\ hasher' = [hasher EXCEPT ![w] = [Idle EXCEPT !.step = "hashing", !.piece = p]]
          /\ queued' = queued \ {p}
    /\ UNCHANGED <<dirty, peer>>

Keeps(w) ==
    /\ Working(w) /\ hasher'[w].step \notin {"idle", "hashing"}
    /\ hasher'[w].piece = hasher[w].piece /\ hasher'[w].old = hasher[w].old
    /\ hasher' = [hasher EXCEPT ![w] = hasher'[w]]
    /\ UNCHANGED <<queued, dirty>>

Ends(w) ==
    /\ Working(w)
    /\ hasher' = [hasher EXCEPT ![w] = Idle]
    /\ queued' = queued
    /\ dirty' = IF ~hasher[w].old /\ (hasher[w].passed \/ AllDirty(hasher[w].piece))
                THEN dirty \ BlocksOf(hasher[w].piece) ELSE dirty

LEMMA HasherEffect ==
    ASSUME TypeInv, NEW w \in Hasher, HasherStep(w)
    PROVE  /\ Begins(w) \/ Keeps(w) \/ Ends(w)
           /\ open' = open /\ downloading' = downloading
<1>0. hasher[w] \in HasherState /\ hasher \in [Hasher -> HasherState]
    BY DEF TypeInv, WorkType
<1>1. CASE StartHash(w)
    <2> DEFINE ready == {p \in queued : ~IsHashing(p) /\ ~IsMarking(p)}
               m == Min(ready)
    <2>1. m \in ready
        BY <1>1, PieceMin DEF StartHash, TypeInv, ObjectType
    <2>2. m \in queued /\ ~HasherOn(m)
        BY <2>1, HasherOnIs
    <2>3. /\ hasher' = [hasher EXCEPT ![w] = [Idle EXCEPT !.step = "hashing", !.piece = m]]
          /\ queued' = queued \ {m}
        BY <1>1 DEF StartHash
    <2> HIDE DEF m
    <2>4. ~Working(w) /\ open /\ UNCHANGED <<dirty, peer, open, downloading>>
        BY <1>1 DEF StartHash, Working
    <2> QED
        BY <2>2, <2>3, <2>4 DEF Begins
<1>2. CASE HashPiece(w)
    <2>1. Keeps(w)
        BY <1>0, <1>2 DEF HashPiece, Keeps, Working, objectVars, HasherState
    <2> QED
        BY <1>2, <2>1 DEF HashPiece, objectVars
<1>3. CASE FinishHash(w)
    <2>1. CASE hasher[w].old
        BY <1>3, <2>1 DEF FinishHash, Ends, Working
    <2>2. CASE ~hasher[w].old
        <3>1. Keeps(w)
            BY <1>0, <1>3, <2>2 DEF FinishHash, Keeps, Working, HasherState
        <3> QED
            BY <1>3, <3>1 DEF FinishHash
    <2> QED
        BY <2>1, <2>2
<1>4. CASE MarkSet(w)
    <2>1. Keeps(w)
        BY <1>0, <1>4 DEF MarkSet, Keeps, Working, objectVars, HasherState
    <2> QED
        BY <1>4, <2>1 DEF MarkSet, objectVars
<1>5. CASE MarkFile(w)
    <2>1. Keeps(w)
        BY <1>0, <1>5 DEF MarkFile, Keeps, Working, objectVars, HasherState
    <2> QED
        BY <1>5, <2>1 DEF MarkFile, objectVars
<1>6. CASE Rename(w)
    <2>1. Keeps(w)
        BY <1>0, <1>6 DEF Rename, Keeps, Working, objectVars, HasherState
    <2> QED
        BY <1>6, <2>1 DEF Rename, objectVars
<1>7. CASE PieceMarked(w)
    BY <1>7 DEF PieceMarked, Ends, Working
<1> QED
    BY <1>1, <1>2, <1>3, <1>4, <1>5, <1>6, <1>7 DEF HasherStep

(* What the tracked torrent's object knows goes with it.  Its requests and *)
(* writes are those of a download, an old hasher is past hashing, and no   *)
(* two hashers have the same piece.                                        *)
Alive ==
    /\ ~open => dirty = {} /\ queued = {} /\ verify = NotVerifying /\ ~downloading
    /\ \A c \in Peer : peer[c].step = "asked" => downloading /\ ~peer[c].old
    /\ \A c \in Peer : Writing(c) /\ ~peer[c].old => downloading
    /\ \A w \in Hasher : Working(w) /\ ~hasher[w].old => open
    /\ \A w \in Hasher : hasher[w].old => hasher[w].step \notin {"idle", "hashing"}
    /\ \A v, w \in Hasher : \A p : On(v, p) /\ On(w, p) => v = w

LEMMA AliveInit == Init => Alive
BY DEF Init, Alive, Working, On, Writing, Idle, Unasked

LEMMA AliveHasher ==
    ASSUME TypeInv, Alive, NEW w \in Hasher, HasherStep(w)
    PROVE  Alive'
<1>1. hasher \in [Hasher -> HasherState]
    BY DEF TypeInv, WorkType
<1>2. /\ Begins(w) \/ Keeps(w) \/ Ends(w)
      /\ open' = open /\ downloading' = downloading
    BY HasherEffect
<1>3. ~open => Working(w) /\ hasher[w].old
    BY <1>2 DEF Alive, Begins, Keeps, Ends
<1>4. ~open => dirty' = {} /\ queued' = {} /\ verify' = NotVerifying
    <2> SUFFICES ASSUME ~open PROVE dirty' = {} /\ queued' = {} /\ verify' = NotVerifying
        OBVIOUS
    <2>1. dirty' = {} /\ queued' = {}
        BY <1>2 DEF Alive, Begins, Keeps, Ends
    <2>2. verify' = verify
        BY <1>3 DEF HasherStep, StartHash, HashPiece, FinishHash, MarkSet, MarkFile, Rename,
                    PieceMarked, objectVars
    <2> QED
        BY <2>1, <2>2 DEF Alive
<1>5. \A c \in Peer : peer'[c] = peer[c] \/ peer'[c] = Unasked
    BY DEF HasherStep, StartHash, HashPiece, FinishHash, MarkSet, MarkFile, Rename, PieceMarked
<1>6. \A c \in Peer : peer'[c].step = "asked" => downloading' /\ ~peer'[c].old
    BY <1>2, <1>5 DEF Alive, Unasked
<1>7. \A c \in Peer : Writing(c)' /\ ~peer'[c].old => downloading'
    BY <1>2, <1>5 DEF Alive, Unasked, Writing
<1>8. CASE Begins(w)
    <2>1. PICK p \in queued :
              /\ ~HasherOn(p)
              /\ hasher' = [hasher EXCEPT ![w] = [Idle EXCEPT !.step = "hashing", !.piece = p]]
        BY <1>8 DEF Begins
    <2>2. /\ hasher'[w].piece = p /\ hasher'[w].old = FALSE
          /\ \A v \in Hasher \ {w} : hasher'[v] = hasher[v]
        BY <1>1, <2>1 DEF Idle
    <2>3. \A v \in Hasher : Working(v)' /\ ~hasher'[v].old => open'
        BY <1>2, <1>8, <2>2 DEF Alive, Working, Begins
    <2>4. \A v \in Hasher : hasher'[v].old => hasher'[v].step \notin {"idle", "hashing"}
        BY <2>2 DEF Alive
    <2>5. \A u, v \in Hasher : \A q : On(u, q)' /\ On(v, q)' => u = v
        BY <2>1, <2>2 DEF Alive, On, HasherOn, Working
    <2> QED
        BY <1>2, <1>4, <1>6, <1>7, <2>3, <2>4, <2>5 DEF Alive
<1>9. CASE Keeps(w)
    <2>1. /\ hasher'[w].piece = hasher[w].piece /\ hasher'[w].old = hasher[w].old
          /\ hasher'[w].step \notin {"idle", "hashing"} /\ Working(w)
          /\ \A v \in Hasher \ {w} : hasher'[v] = hasher[v]
        BY <1>1, <1>9 DEF Keeps
    <2>2. \A v \in Hasher : Working(v)' /\ ~hasher'[v].old => open'
        BY <1>2, <2>1 DEF Alive, Working
    <2>3. \A v \in Hasher : hasher'[v].old => hasher'[v].step \notin {"idle", "hashing"}
        BY <2>1 DEF Alive
    <2>4. \A u, v \in Hasher : \A q : On(u, q)' /\ On(v, q)' => u = v
        BY <2>1 DEF Alive, On, Working
    <2> QED
        BY <1>2, <1>4, <1>6, <1>7, <2>2, <2>3, <2>4 DEF Alive
<1>10. CASE Ends(w)
    <2>1. hasher'[w] = Idle /\ \A v \in Hasher \ {w} : hasher'[v] = hasher[v]
        BY <1>1, <1>10 DEF Ends
    <2>2. \A v \in Hasher : Working(v)' /\ ~hasher'[v].old => open'
        BY <1>2, <2>1 DEF Alive, Working, Idle
    <2>3. \A v \in Hasher : hasher'[v].old => hasher'[v].step \notin {"idle", "hashing"}
        BY <2>1 DEF Alive, Idle
    <2>4. \A u, v \in Hasher : \A q : On(u, q)' /\ On(v, q)' => u = v
        BY <2>1 DEF Alive, On, Working, Idle
    <2> QED
        BY <1>2, <1>4, <1>6, <1>7, <2>2, <2>3, <2>4 DEF Alive
<1> QED
    BY <1>2, <1>8, <1>9, <1>10

(* What a peer's step leaves alone.                                        *)
PeerStep(c) ==
    \/ \E b \in Block : Ask(c, b)
    \/ \E data \in {"good", "bad"} : ReceiveChunk(c, data)
    \/ WriterStep(c)

LEMMA PeerEffect ==
    ASSUME TypeInv, NEW c \in Peer, PeerStep(c)
    PROVE  /\ UNCHANGED <<open, downloading, cached, verify, dropping, hasher, final, store>>
           /\ \A d \in Peer \ {c} : peer'[d] = peer[d]
           /\ peer[c] \in PeerState
           /\ peer \in [Peer -> PeerState]
BY DEF TypeInv, WorkType, PeerStep, WriterStep, Ask, ReceiveChunk, WriteChunk, ChunkWritten,
       objectVars, storageVars

LEMMA AlivePeer ==
    ASSUME TypeInv, Alive, NEW c \in Peer, PeerStep(c)
    PROVE  Alive'
<1>1. /\ UNCHANGED <<open, downloading, verify, hasher>>
      /\ \A d \in Peer \ {c} : peer'[d] = peer[d]
      /\ peer[c] \in PeerState /\ peer \in [Peer -> PeerState]
    BY PeerEffect
<1>2. \A v, w \in Hasher : \A p : On(v, p)' /\ On(w, p)' => v = w
    BY <1>1 DEF Alive, On, Working
<1>3. \A w \in Hasher : /\ Working(w)' /\ ~hasher'[w].old => open'
                        /\ hasher'[w].old => hasher'[w].step \notin {"idle", "hashing"}
    BY <1>1 DEF Alive, Working
<1> SUFFICES /\ ~open => dirty' = {} /\ queued' = {}
             /\ peer'[c].step = "asked" => downloading' /\ ~peer'[c].old
             /\ Writing(c)' /\ ~peer'[c].old => downloading'
    BY <1>1, <1>2, <1>3 DEF Alive, Writing
<1>4. ASSUME NEW b \in Block, Ask(c, b)
      PROVE  /\ ~open => dirty' = {} /\ queued' = {}
             /\ peer'[c].step = "asked" => downloading' /\ ~peer'[c].old
             /\ Writing(c)' /\ ~peer'[c].old => downloading'
    BY <1>1, <1>4 DEF Alive, Ask, Writing, objectVars, Unasked
<1>5. ASSUME NEW data \in {"good", "bad"}, ReceiveChunk(c, data)
      PROVE  /\ ~open => dirty' = {} /\ queued' = {}
             /\ peer'[c].step = "asked" => downloading' /\ ~peer'[c].old
             /\ Writing(c)' /\ ~peer'[c].old => downloading'
    <2>1. downloading /\ open
        BY <1>5 DEF ReceiveChunk, Alive
    <2>2. peer'[c].step # "asked"
        BY <1>1, <1>5 DEF ReceiveChunk, Unasked, PeerState
    <2> QED
        BY <1>1, <2>1, <2>2
<1>6. CASE WriteChunk(c)
    <2>1. peer'[c].old = peer[c].old /\ peer'[c].step # "asked" /\ Writing(c)
        BY <1>1, <1>6 DEF WriteChunk, PeerState, Writing
    <2> QED
        BY <1>1, <1>6, <2>1 DEF Alive, WriteChunk, objectVars
<1>7. CASE ChunkWritten(c)
    <2>1. peer'[c] = Unasked
        BY <1>1, <1>7 DEF ChunkWritten
    <2>2. ~open => dirty' = {} /\ queued' = {}
        BY <1>7 DEF ChunkWritten, Alive, Writing
    <2> QED
        BY <2>1, <2>2 DEF Writing, Unasked
<1> QED
    BY <1>4, <1>5, <1>6, <1>7 DEF PeerStep, WriterStep

(* What is left of goroutines whose torrent went away.                     *)
LEMMA DropEffect ==
    ASSUME TypeInv, Alive, DropReturns \/ Crash
    PROVE  /\ open' = FALSE /\ downloading' = FALSE /\ dirty' = {} /\ queued' = {}
           /\ verify' = NotVerifying /\ dropping' = FALSE
           /\ \A p \in Piece : cached'[p] = "unknown"
           /\ \A w \in Hasher : hasher'[w] = Idle \/
                  (/\ Working(w) /\ hasher'[w] = [hasher[w] EXCEPT !.old = TRUE]
                   /\ hasher[w].step # "hashing")
           /\ \A c \in Peer : peer'[c] = Unasked \/
                  (Writing(c) /\ peer'[c] = [peer[c] EXCEPT !.old = TRUE])
<1>1. CASE DropReturns
    <2>1. \A w \in Hasher : hasher[w].old => hasher[w].step # "hashing"
        BY DEF Alive
    <2>2. Closed
        BY <1>1 DEF DropReturns
    <2> QED
        BY <1>1, <2>1, <2>2 DEF DropReturns, Closed, Working
<1>2. CASE Crash
    <2>1. Closed
        BY <1>2 DEF Crash
    <2> QED
        BY <1>2, <2>1 DEF Crash, Closed
<1> QED
    BY <1>1, <1>2

LEMMA AliveEngine ==
    ASSUME TypeInv, Alive, OnSetInfo \/ VerifyData \/ Drop \/ Remove \/ EngineStep \/ Crash
    PROVE  Alive'
<1>1. ASSUME UNCHANGED <<dirty, hasher, peer, downloading>>, open' = TRUE \/ open' = open,
             ~open' => queued' = queued /\ verify' = verify
      PROVE  Alive'
    BY <1>1 DEF Alive, Writing, Working, On
<1>2. CASE OnSetInfo
    BY <1>1, <1>2 DEF OnSetInfo
<1>3. CASE VerifyData
    BY <1>1, <1>3 DEF VerifyData
<1>4. CASE VerifyPiece
    <2>1. open
        <3>1. 0 \notin Piece
            BY DEF Piece
        <3> QED
            BY <1>4, <3>1 DEF VerifyPiece, Alive, NotVerifying
    <2> QED
        BY <1>1, <1>4, <2>1 DEF VerifyPiece
<1>5. CASE DownloadAll
    <2>1. open
        BY <1>5, StorageAssumption DEF DownloadAll, Alive, NotVerifying
    <2>2. downloading' = TRUE /\ open' = open /\ UNCHANGED <<dirty, hasher, peer>>
        BY <1>5 DEF DownloadAll
    <2> QED
        BY <2>1, <2>2 DEF Alive, Writing, Working, On
<1>6. CASE Drop
    BY <1>1, <1>6 DEF Drop, objectVars
<1>7. CASE Remove
    BY <1>1, <1>7 DEF Remove, objectVars
<1>8. CASE DropReturns \/ Crash
    <2>1. hasher \in [Hasher -> HasherState] /\ peer \in [Peer -> PeerState]
        BY DEF TypeInv, WorkType
    <2>2. \A w \in Hasher : hasher'[w] = Idle \/
              (/\ Working(w) /\ hasher'[w].old = TRUE /\ hasher'[w].step = hasher[w].step
               /\ hasher[w].step # "hashing")
        <3> SUFFICES ASSUME NEW w \in Hasher, hasher'[w] # Idle
                     PROVE  /\ Working(w) /\ hasher'[w].old = TRUE
                            /\ hasher'[w].step = hasher[w].step /\ hasher[w].step # "hashing"
            OBVIOUS
        <3>1. hasher[w] \in HasherState
            BY <2>1
        <3>2. /\ Working(w) /\ hasher'[w] = [hasher[w] EXCEPT !.old = TRUE]
              /\ hasher[w].step # "hashing"
            BY <1>8, DropEffect
        <3> QED
            BY <3>1, <3>2 DEF HasherState
    <2>3. \A c \in Peer : peer'[c] = Unasked \/
              (Writing(c) /\ peer'[c].old = TRUE /\ peer'[c].step = peer[c].step)
        <3> SUFFICES ASSUME NEW c \in Peer, peer'[c] # Unasked
                     PROVE  Writing(c) /\ peer'[c].old = TRUE /\ peer'[c].step = peer[c].step
            OBVIOUS
        <3>1. peer[c] \in PeerState
            BY <2>1
        <3>2. Writing(c) /\ peer'[c] = [peer[c] EXCEPT !.old = TRUE]
            BY <1>8, DropEffect
        <3> QED
            BY <3>1, <3>2 DEF PeerState
    <2>4. /\ open' = FALSE /\ downloading' = FALSE /\ dirty' = {} /\ queued' = {}
          /\ verify' = NotVerifying
        BY <1>8, DropEffect
    <2> QED
        BY <2>2, <2>3, <2>4 DEF Alive, Writing, Working, On, Idle, Unasked
<1> QED
    BY <1>2, <1>3, <1>4, <1>5, <1>6, <1>7, <1>8 DEF EngineStep

LEMMA AliveStep == TypeInv /\ Alive /\ [Next]_vars => Alive'
<1> SUFFICES ASSUME TypeInv, Alive, [Next]_vars PROVE Alive'
    OBVIOUS
<1>1. CASE UNCHANGED vars
    BY <1>1 DEF vars, objectVars, Alive, Writing, Working, On
<1>2. CASE Next
    BY <1>2, AliveEngine, AliveHasher, AlivePeer DEF Next, PeerStep
<1> QED
    BY <1>1, <1>2

-----------------------------------------------------------------------------
(* Pieces whose chunks all came in.                                        *)

(* Who writes to a piece changes only by the peer's own steps; whoever is  *)
(* banned was not writing.                                                 *)
LEMMA FullHasher ==
    ASSUME TypeInv, Alive, FullPieceIsChecked, NEW w \in Hasher, HasherStep(w)
    PROVE  FullPieceIsChecked'
<1> SUFFICES ASSUME NEW p \in Piece, open', AllDirty(p)', PendingWrites(p)' = {}
             PROVE  p \in queued' \/ HasherOn(p)'
    <2>1. TypeInv'
        BY HasherType
    <2>2. \A v \in Hasher : Working(v)' <=>
              hasher'[v].step \in {"hashing", "hashed"} \cup {"set", "files", "rename", "marked"}
        BY <2>1 DEF TypeInv, WorkType, Working, HasherState
    <2>3. \A p : HasherOn(p)' => IsHashing(p)' \/ IsMarking(p)'
        BY <2>2 DEF IsHashing, IsMarking, HasherOn, On
    <2> QED
        BY <2>3 DEF FullPieceIsChecked
<1>1. hasher \in [Hasher -> HasherState] /\ hasher[w] \in HasherState
    BY DEF TypeInv, WorkType
<1>2. /\ Begins(w) \/ Keeps(w) \/ Ends(w)
      /\ open' = open
    BY HasherEffect
<1>3. \A c \in Peer : Writing(c) => peer'[c] = peer[c]
    BY DEF HasherStep, StartHash, HashPiece, FinishHash, MarkSet, MarkFile, Rename, PieceMarked,
           Writing
<1>4. PendingWrites(p) = {}
    BY <1>3 DEF PendingWrites, Writing
<1>5. AllDirty(p) => Busy(p)
    BY <1>2, <1>4, HasherOnIs DEF FullPieceIsChecked, Busy
<1>6. CASE Begins(w)
    <2>1. PICK q \in queued :
              /\ hasher' = [hasher EXCEPT ![w] = [Idle EXCEPT !.step = "hashing", !.piece = q]]
              /\ queued' = queued \ {q}
        BY <1>6 DEF Begins
    <2>2. /\ hasher'[w].piece = q /\ hasher'[w].old = FALSE /\ hasher'[w].step = "hashing"
          /\ \A v \in Hasher \ {w} : hasher'[v] = hasher[v]
        BY <1>1, <2>1 DEF Idle
    <2>3. On(w, q)' /\ \A v \in Hasher : On(v, p) => On(v, p)'
        BY <1>6, <2>2 DEF On, Working, Begins
    <2>4. AllDirty(p)
        BY <1>6 DEF Begins, AllDirty
    <2> QED
        BY <1>5, <2>1, <2>3, <2>4 DEF Busy, HasherOn
<1>7. CASE Keeps(w)
    <2>1. /\ hasher'[w].piece = hasher[w].piece /\ hasher'[w].old = hasher[w].old
          /\ hasher'[w].step # "idle"
          /\ \A v \in Hasher \ {w} : hasher'[v] = hasher[v]
        BY <1>1, <1>7 DEF Keeps
    <2>2. \A v \in Hasher : On(v, p) => On(v, p)'
        BY <2>1 DEF On, Working
    <2>3. AllDirty(p) /\ queued' = queued
        BY <1>7 DEF Keeps, AllDirty
    <2> QED
        BY <1>5, <2>2, <2>3 DEF Busy, HasherOn
<1>8. CASE Ends(w)
    <2>1. \A v \in Hasher \ {w} : hasher'[v] = hasher[v]
        BY <1>1, <1>8 DEF Ends
    <2>2. dirty' \subseteq dirty /\ queued' = queued
        BY <1>8 DEF Ends
    <2>3. AllDirty(p)
        BY <2>2 DEF AllDirty
    <2>4. ~On(w, p)
        <3> SUFFICES ASSUME On(w, p) PROVE FALSE
            OBVIOUS
        <3>1. dirty' = dirty \ BlocksOf(p)
            BY <1>8, <2>3 DEF On, Ends
        <3>2. PICK b : b \in BlocksOf(p)
            BY BlockFacts
        <3> QED
            BY <3>1, <3>2 DEF AllDirty
    <2>5. \A v \in Hasher : On(v, p) => On(v, p)'
        BY <2>1, <2>4 DEF On, Working
    <2> QED
        BY <1>5, <2>2, <2>3, <2>5 DEF Busy, HasherOn
<1> QED
    BY <1>2, <1>6, <1>7, <1>8

LEMMA FullPeer ==
    ASSUME TypeInv, Alive, FullPieceIsChecked, NEW c \in Peer, PeerStep(c)
    PROVE  FullPieceIsChecked'
<1>1. /\ UNCHANGED <<open, hasher>>
      /\ \A d \in Peer \ {c} : peer'[d] = peer[d]
      /\ peer[c] \in PeerState /\ peer \in [Peer -> PeerState]
    BY PeerEffect
<1>2. \A p : (IsHashing(p)' <=> IsHashing(p)) /\ (IsMarking(p)' <=> IsMarking(p))
    BY <1>1 DEF IsHashing, IsMarking
<1> SUFFICES ASSUME NEW p \in Piece, open, AllDirty(p)', PendingWrites(p)' = {},
                    ~IsHashing(p), ~IsMarking(p)
             PROVE  p \in queued'
    BY <1>1, <1>2 DEF FullPieceIsChecked
<1>3. AllDirty(p) /\ PendingWrites(p) = {} => p \in queued
    BY DEF FullPieceIsChecked
<1>4. ASSUME NEW b \in Block, Ask(c, b)
      PROVE  p \in queued'
    <2>1. ~Writing(c)
        BY <1>4 DEF Ask, Writing
    <2>2. PendingWrites(p) = {}
        BY <1>1, <2>1 DEF PendingWrites, Writing
    <2>3. AllDirty(p) /\ queued' = queued
        BY <1>4 DEF Ask, AllDirty, objectVars
    <2> QED
        BY <1>3, <2>2, <2>3
<1>5. ASSUME NEW data \in {"good", "bad"}, ReceiveChunk(c, data)
      PROVE  p \in queued'
    <2>1. ~Writing(c) /\ ~peer[c].old /\ peer[c].block \in Block
        BY <1>1, <1>5 DEF ReceiveChunk, Writing, Alive, PeerState
    <2>2. PendingWrites(p) = {}
        BY <1>1, <2>1 DEF PendingWrites, Writing
    <2>3. queued' = queued
        BY <1>5 DEF ReceiveChunk
    <2>4. CASE HaveChunk(peer[c].block)
        BY <1>3, <1>5, <2>2, <2>3, <2>4 DEF ReceiveChunk, AllDirty
    <2>5. CASE ~HaveChunk(peer[c].block)
        <3>1. /\ peer' = [peer EXCEPT ![c].step = "writing", ![c].data = data]
              /\ dirty' = dirty \cup {peer[c].block}
            BY <1>5, <2>5 DEF ReceiveChunk
        <3>2. Writing(c)' /\ peer'[c].block = peer[c].block /\ ~peer'[c].old
            BY <1>1, <2>1, <3>1 DEF Writing, PeerState
        <3>3. peer[c].block[1] # p
            BY <3>2 DEF PendingWrites
        <3>4. AllDirty(p)
            BY <3>1, <3>3 DEF AllDirty, BlocksOf
        <3> QED
            BY <1>3, <2>2, <2>3, <3>4
    <2> QED
        BY <2>4, <2>5
<1>6. CASE WriteChunk(c)
    <2>1. Writing(c)' /\ peer'[c].block = peer[c].block /\ peer'[c].old = peer[c].old
        BY <1>1, <1>6 DEF WriteChunk, Writing, PeerState
    <2>2. PendingWrites(p) = {}
        BY <1>1, <2>1 DEF PendingWrites, Writing
    <2>3. AllDirty(p) /\ queued' = queued
        BY <1>6 DEF WriteChunk, AllDirty, objectVars
    <2> QED
        BY <1>3, <2>2, <2>3
<1>7. CASE ChunkWritten(c)
    <2>1. dirty' \subseteq dirty /\ queued \subseteq queued'
        BY <1>7 DEF ChunkWritten
    <2>2. AllDirty(p)
        BY <2>1 DEF AllDirty
    <2>3. PendingWrites(p) \subseteq {c}
        BY <1>1 DEF PendingWrites, Writing
    <2>4. CASE PendingWrites(p) = {}
        BY <1>3, <2>1, <2>2, <2>4
    <2>5. CASE c \in PendingWrites(p)
        <3>1. peer[c].block[1] = p /\ ~peer[c].old /\ PendingWrites(p) = {c}
            BY <2>3, <2>5 DEF PendingWrites
        <3>2. peer[c].block \in BlocksOf(p)
            BY <1>1, <3>1 DEF PeerState, BlocksOf
        <3>3. peer[c].step = "written"
            BY <1>7, <3>1, <3>2 DEF ChunkWritten, AllDirty
        <3> QED
            BY <1>7, <2>2, <3>1, <3>3 DEF ChunkWritten, CheckDue
    <2> QED
        BY <2>3, <2>4, <2>5
<1> QED
    BY <1>4, <1>5, <1>6, <1>7 DEF PeerStep, WriterStep

LEMMA FullEngine ==
    ASSUME TypeInv, Alive, FullPieceIsChecked,
           OnSetInfo \/ VerifyData \/ Drop \/ Remove \/ EngineStep \/ Crash
    PROVE  FullPieceIsChecked'
<1>1. ASSUME UNCHANGED <<dirty, hasher, peer, open>>, queued \subseteq queued'
      PROVE  FullPieceIsChecked'
    BY <1>1 DEF FullPieceIsChecked, AllDirty, PendingWrites, Writing, IsHashing, IsMarking
<1>2. CASE OnSetInfo
    <2>1. dirty' = {}
        BY <1>2 DEF OnSetInfo, Alive
    <2> QED
        BY <2>1, BlockFacts DEF FullPieceIsChecked, AllDirty
<1>3. CASE VerifyData \/ VerifyPiece \/ DownloadAll \/ Drop \/ Remove
    BY <1>1, <1>3 DEF VerifyData, VerifyPiece, DownloadAll, Drop, Remove, objectVars
<1>4. CASE DropReturns \/ Crash
    BY <1>4, DropEffect DEF FullPieceIsChecked
<1> QED
    BY <1>2, <1>3, <1>4 DEF EngineStep

(* No piece is forgotten, in any environment: when all its chunks came in  *)
(* and were written, it is queued, being hashed or being marked, whichever *)
(* writer was last, whatever failed, and however often it was verified,    *)
(* dropped and added in between.                                           *)
THEOREM FullPieceChecked == Spec => []FullPieceIsChecked
<1>1. Init => FullPieceIsChecked
    BY DEF Init, FullPieceIsChecked
<1>2. TypeInv /\ Alive /\ FullPieceIsChecked /\ [Next]_vars => FullPieceIsChecked'
    <2> SUFFICES ASSUME TypeInv, Alive, FullPieceIsChecked, [Next]_vars
                 PROVE  FullPieceIsChecked'
        OBVIOUS
    <2>1. CASE UNCHANGED vars
        BY <2>1 DEF vars, objectVars, FullPieceIsChecked, AllDirty, PendingWrites, Writing,
                    IsHashing, IsMarking
    <2>2. CASE Next
        BY <2>2, FullEngine, FullHasher, FullPeer DEF Next, PeerStep
    <2> QED
        BY <2>1, <2>2
<1> QED
    BY <1>1, <1>2, TypeInit, TypeStep, AliveInit, AliveStep, PTL DEF Spec

-----------------------------------------------------------------------------
(* Hashing and writing, unless a torrent is verified while it downloads.   *)

Writes(c, b) == Writing(c) /\ ~peer[c].old /\ peer[c].block = b
Asked(c, p) == peer[c].step = "asked" /\ peer[c].block[1] = p

(* Nobody writes to a piece that is queued or hashed, nobody writes a      *)
(* block that another peer writes, and an answer that is still to come for *)
(* such a piece will find its chunk there.                                 *)
Apart ==
    /\ verify # NotVerifying => ~downloading
    /\ \A c \in Peer, b \in Block : Writes(c, b) => ~Busy(b[1]) /\ b \in dirty
    /\ \A c, d \in Peer, b \in Block : Writes(c, b) /\ Writes(d, b) => c = d
    /\ \A c \in Peer, p \in Piece :
          Asked(c, p) /\ Busy(p) => AllDirty(p) /\ ~(p \in queued /\ HasherOn(p))

LEMMA ApartHasher ==
    ASSUME TypeInv, Alive, Apart, NEW w \in Hasher, HasherStep(w)
    PROVE  Apart'
<1>1. hasher \in [Hasher -> HasherState] /\ hasher[w] \in HasherState
    BY DEF TypeInv, WorkType
<1>2. /\ Begins(w) \/ Keeps(w) \/ Ends(w)
      /\ open' = open /\ downloading' = downloading
    BY HasherEffect
<1>3. \A c \in Peer : peer'[c] = peer[c] \/ peer'[c] = Unasked
    BY DEF HasherStep, StartHash, HashPiece, FinishHash, MarkSet, MarkFile, Rename, PieceMarked
<1>4. \A c \in Peer, b \in Block : Writes(c, b)' => Writes(c, b)
    BY <1>3 DEF Writes, Writing, Unasked
<1>5. \A c \in Peer, p \in Piece : Asked(c, p)' => Asked(c, p)
    BY <1>3 DEF Asked, Unasked
<1>6. verify' # NotVerifying => verify # NotVerifying
    <2>1. hasher[w].piece # 0
        BY <1>1 DEF HasherState, Piece
    <2>2. CASE FinishHash(w) /\ ~hasher[w].old
        <3>1. Verified(hasher[w].piece)
            BY <2>2 DEF FinishHash
        <3> QED
            BY <2>1, <3>1 DEF Verified, NotVerifying
    <2>3. CASE ~(FinishHash(w) /\ ~hasher[w].old)
        <3>1. verify' = verify
            BY <2>3 DEF HasherStep, StartHash, HashPiece, FinishHash, MarkSet, MarkFile, Rename,
                        PieceMarked, objectVars
        <3> QED
            BY <3>1
    <2> QED
        BY <2>2, <2>3
<1>7. ASSUME \A q \in Piece : Busy(q)' => Busy(q),
             \A b \in Block : b \in dirty /\ ~Busy(b[1]) => b \in dirty',
             ASSUME NEW q \in Piece, Busy(q)', AllDirty(q), ~(q \in queued /\ HasherOn(q))
             PROVE  AllDirty(q)' /\ ~(q \in queued' /\ HasherOn(q)')
      PROVE  Apart'
    <2>1. verify' # NotVerifying => ~downloading'
        BY <1>2, <1>6 DEF Apart
    <2>2. \A c \in Peer, b \in Block : Writes(c, b)' => ~Busy(b[1])' /\ b \in dirty'
        BY <1>4, <1>7, BlockFacts DEF Apart
    <2>3. \A c, d \in Peer, b \in Block : Writes(c, b)' /\ Writes(d, b)' => c = d
        BY <1>4 DEF Apart
    <2>4. ASSUME NEW c \in Peer, NEW p \in Piece, Asked(c, p)', Busy(p)'
          PROVE  AllDirty(p)' /\ ~(p \in queued' /\ HasherOn(p)')
        <3>1. AllDirty(p) /\ ~(p \in queued /\ HasherOn(p))
            BY <1>5, <1>7, <2>4 DEF Apart
        <3> QED
            BY <1>7, <2>4, <3>1
    <2> QED
        BY <2>1, <2>2, <2>3, <2>4 DEF Apart
<1>8. CASE Begins(w)
    <2>1. PICK p \in queued :
              /\ hasher' = [hasher EXCEPT ![w] = [Idle EXCEPT !.step = "hashing", !.piece = p]]
              /\ queued' = queued \ {p}
        BY <1>8 DEF Begins
    <2>2. /\ hasher'[w].piece = p
          /\ \A v \in Hasher \ {w} : hasher'[v] = hasher[v]
        BY <1>1, <2>1 DEF Idle
    <2>3. dirty' = dirty
        BY <1>8 DEF Begins
    <2>4. \A q : q # p => (HasherOn(q)' => HasherOn(q))
        BY <2>2 DEF HasherOn, On, Working
    <2>5. \A q \in Piece : Busy(q)' => Busy(q)
        BY <2>1, <2>4 DEF Busy
    <2>6. ASSUME NEW q \in Piece, AllDirty(q), ~(q \in queued /\ HasherOn(q))
          PROVE  AllDirty(q)' /\ ~(q \in queued' /\ HasherOn(q)')
        BY <2>1, <2>3, <2>4, <2>6 DEF AllDirty
    <2> QED
        BY <1>7, <2>3, <2>5, <2>6
<1>9. CASE Keeps(w)
    <2>1. /\ hasher'[w].piece = hasher[w].piece /\ hasher'[w].old = hasher[w].old
          /\ Working(w)
          /\ \A v \in Hasher \ {w} : hasher'[v] = hasher[v]
        BY <1>1, <1>9 DEF Keeps
    <2>2. \A q : HasherOn(q)' => HasherOn(q)
        BY <2>1 DEF HasherOn, On, Working
    <2>3. dirty' = dirty /\ queued' = queued
        BY <1>9 DEF Keeps
    <2>4. \A q \in Piece : Busy(q)' => Busy(q)
        BY <2>2, <2>3 DEF Busy
    <2>5. ASSUME NEW q \in Piece, AllDirty(q), ~(q \in queued /\ HasherOn(q))
          PROVE  AllDirty(q)' /\ ~(q \in queued' /\ HasherOn(q)')
        BY <2>2, <2>3, <2>5 DEF AllDirty
    <2> QED
        BY <1>7, <2>3, <2>4, <2>5
<1>10. CASE Ends(w)
    <2>1. hasher'[w] = Idle /\ \A v \in Hasher \ {w} : hasher'[v] = hasher[v]
        BY <1>1, <1>10 DEF Ends
    <2>2. \A v \in Hasher : \A q : On(v, q)' => v # w /\ On(v, q)
        BY <2>1 DEF On, Working, Idle
    <2>3. queued' = queued
        BY <1>10 DEF Ends
    <2>4. \A q \in Piece : Busy(q)' => Busy(q)
        BY <2>2, <2>3 DEF Busy, HasherOn
    <2>5. PICK p \in Piece : p = hasher[w].piece
        BY <1>1 DEF HasherState
    <2>6. dirty' = dirty \/ (On(w, p) /\ dirty' = dirty \ BlocksOf(p))
        BY <1>10, <2>5 DEF Ends, On
    <2>7. \A b \in Block : b \in dirty /\ ~Busy(b[1]) => b \in dirty'
        BY <2>6 DEF Busy, HasherOn, BlocksOf
    <2>8. ASSUME NEW q \in Piece, Busy(q)', AllDirty(q), ~(q \in queued /\ HasherOn(q))
          PROVE  AllDirty(q)' /\ ~(q \in queued' /\ HasherOn(q)')
        <3>1. ~On(w, q)
            <4> SUFFICES ASSUME On(w, q) PROVE FALSE
                OBVIOUS
            <4>1. HasherOn(q)'
                BY <2>3, <2>8 DEF Busy, HasherOn
            <4>2. PICK v \in Hasher : On(v, q)'
                BY <4>1 DEF HasherOn
            <4> QED
                BY <2>2, <4>2 DEF Alive
        <3>2. AllDirty(q)'
            <4>1. dirty' = dirty \/ p # q
                BY <2>6, <3>1
            <4> QED
                BY <2>6, <2>8, <4>1, BlockFacts DEF AllDirty
        <3> QED
            BY <2>2, <2>3, <2>8, <3>2 DEF HasherOn
    <2> QED
        BY <1>7, <2>4, <2>7, <2>8
<1> QED
    BY <1>2, <1>8, <1>9, <1>10

LEMMA ApartPeer ==
    ASSUME TypeInv, Alive, Apart, NEW c \in Peer, PeerStep(c)
    PROVE  Apart'
<1>1. /\ UNCHANGED <<open, downloading, verify, hasher>>
      /\ \A d \in Peer \ {c} : peer'[d] = peer[d]
      /\ peer[c] \in PeerState /\ peer \in [Peer -> PeerState]
    BY PeerEffect
<1>2. \A p : HasherOn(p)' <=> HasherOn(p)
    BY <1>1 DEF HasherOn, On, Working
<1>3. \A d \in Peer \ {c} : /\ \A b \in Block : Writes(d, b)' <=> Writes(d, b)
                            /\ \A p \in Piece : Asked(d, p)' <=> Asked(d, p)
    BY <1>1 DEF Writes, Writing, Asked
<1>4. PICK b \in Block : b = peer[c].block
    BY <1>1 DEF PeerState
<1>5. b[1] \in Piece
    BY BlockFacts
<1>6. ASSUME NEW a \in Block, Ask(c, a)
      PROVE  Apart'
    <2>1. ~Busy(a[1])
        BY <1>6, HasherOnIs DEF Ask, IgnoreForRequests, Busy
    <2>2. queued' = queued /\ dirty' = dirty
        BY <1>6 DEF Ask, objectVars
    <2>3. peer'[c].step = "asked" /\ peer'[c].block = a
        BY <1>1, <1>6 DEF Ask, Unasked
    <2>4. \A e \in Block : ~Writes(c, e)'
        BY <2>3 DEF Writes, Writing
    <2>5. \A p \in Piece : Asked(c, p)' => ~Busy(p)
        BY <2>1, <2>3 DEF Asked
    <2>6. \A p : (Busy(p)' <=> Busy(p)) /\ (AllDirty(p)' <=> AllDirty(p))
        BY <1>2, <2>2 DEF Busy, AllDirty
    <2> QED
        BY <1>1, <1>2, <1>3, <2>2, <2>4, <2>5, <2>6 DEF Apart
<1>7. ASSUME NEW data \in {"good", "bad"}, ReceiveChunk(c, data)
      PROVE  Apart'
    <2>1. queued' = queued /\ dirty \subseteq dirty' /\ Asked(c, b[1])
        BY <1>4, <1>7 DEF ReceiveChunk, Asked
    <2>2. \A p : (Busy(p)' <=> Busy(p)) /\ (AllDirty(p) => AllDirty(p)')
        BY <1>2, <2>1 DEF Busy, AllDirty
    <2>3. \A p \in Piece : ~Asked(c, p)'
        BY <1>1, <1>7 DEF ReceiveChunk, Asked, PeerState, Unasked
    <2>4. CASE HaveChunk(b)
        <3>1. \A e \in Block : ~Writes(c, e)'
            BY <1>1, <1>4, <1>7, <2>4 DEF ReceiveChunk, Writes, Writing, Unasked
        <3> QED
            BY <1>1, <1>2, <1>3, <2>1, <2>2, <2>3, <3>1 DEF Apart
    <2>5. CASE ~HaveChunk(b)
        <3>1. b \notin dirty
            BY <2>5 DEF HaveChunk
        <3>2. ~Busy(b[1])
            BY <1>5, <2>1, <3>1, BlockFacts DEF Apart, AllDirty
        <3>3. b \in dirty'
            BY <1>4, <1>7, <2>5 DEF ReceiveChunk
        <3>4. \A e \in Block : Writes(c, e)' => e = b
            BY <1>1, <1>4, <1>7, <2>5 DEF ReceiveChunk, Writes, PeerState
        <3>5. \A d \in Peer \ {c} : ~Writes(d, b)
            BY <3>1 DEF Apart
        <3> QED
            BY <1>1, <1>2, <1>3, <2>1, <2>2, <2>3, <3>2, <3>3, <3>4, <3>5 DEF Apart
    <2> QED
        BY <2>4, <2>5
<1>8. CASE WriteChunk(c)
    <2>1. queued' = queued /\ dirty' = dirty
        BY <1>8 DEF WriteChunk, objectVars
    <2>2. /\ \A e \in Block : Writes(c, e)' => Writes(c, e)
          /\ \A p \in Piece : ~Asked(c, p)'
        BY <1>1, <1>8 DEF WriteChunk, Writes, Writing, Asked, PeerState
    <2>3. \A p : (Busy(p)' <=> Busy(p)) /\ (AllDirty(p)' <=> AllDirty(p))
        BY <1>2, <2>1 DEF Busy, AllDirty
    <2> QED
        BY <1>1, <1>2, <1>3, <2>1, <2>2, <2>3 DEF Apart
<1>9. CASE ChunkWritten(c)
    <2>1. /\ \A e \in Block : ~Writes(c, e)'
          /\ \A p \in Piece : ~Asked(c, p)'
        BY <1>1, <1>9 DEF ChunkWritten, Writes, Writing, Asked, Unasked
    <2>2. CASE queued' = queued /\ dirty' = dirty
        <3>1. \A p : (Busy(p)' <=> Busy(p)) /\ (AllDirty(p)' <=> AllDirty(p))
            BY <1>2, <2>2 DEF Busy, AllDirty
        <3> QED
            BY <1>1, <1>2, <1>3, <2>1, <2>2, <3>1 DEF Apart
    <2>3. CASE ~peer[c].old
        <3>1. Writes(c, b)
            BY <1>4, <1>9, <2>3 DEF ChunkWritten, Writes, Writing
        <3>2. ~Busy(b[1]) /\ \A d \in Peer \ {c} : ~Writes(d, b)
            BY <3>1 DEF Apart
        <3>3. CASE dirty' = dirty \ {b} /\ queued' = queued
            <4>1. \A p : Busy(p)' <=> Busy(p)
                BY <1>2, <3>3 DEF Busy
            <4>2. \A p \in Piece : Busy(p) /\ AllDirty(p) => AllDirty(p)'
                BY <3>2, <3>3 DEF AllDirty, BlocksOf
            <4>3. \A d \in Peer \ {c} : \A e \in Block : Writes(d, e) => e \in dirty'
                BY <3>2, <3>3 DEF Apart
            <4> QED
                BY <1>1, <1>2, <1>3, <2>1, <3>3, <4>1, <4>2, <4>3 DEF Apart
        <3>4. CASE dirty' = dirty /\ CheckDue(c) /\ queued' = queued \cup {b[1]}
            <4>1. AllDirty(b[1]) /\ PendingWrites(b[1]) = {c}
                BY <1>4, <3>4 DEF CheckDue
            <4>2. \A d \in Peer \ {c} : \A e \in Block : Writes(d, e) => e[1] # b[1]
                BY <4>1 DEF PendingWrites, Writes
            <4>3. \A p : /\ p # b[1] => (Busy(p)' <=> Busy(p)) /\ (p \in queued' <=> p \in queued)
                         /\ AllDirty(p)' <=> AllDirty(p)
                BY <1>2, <3>4 DEF Busy, AllDirty
            <4>4. ~HasherOn(b[1])
                BY <3>2 DEF Busy
            <4> QED
                BY <1>1, <1>2, <1>3, <2>1, <3>4, <4>1, <4>2, <4>3, <4>4 DEF Apart
        <3> QED
            BY <1>4, <1>9, <2>2, <2>3, <3>3, <3>4 DEF ChunkWritten
    <2> QED
        BY <1>9, <2>2, <2>3 DEF ChunkWritten
<1> QED
    BY <1>6, <1>7, <1>8, <1>9 DEF PeerStep, WriterStep

LEMMA ApartEngine ==
    ASSUME ~Reverify, TypeInv, Alive, Apart,
           OnSetInfo \/ VerifyData \/ Drop \/ Remove \/ EngineStep \/ Crash
    PROVE  Apart'
<1>1. ASSUME UNCHANGED <<dirty, hasher, peer, queued>>, verify' # NotVerifying => ~downloading'
      PROVE  Apart'
    BY <1>1 DEF Apart, Writes, Writing, Asked, Busy, HasherOn, On, Working, AllDirty
<1>2. ASSUME ~downloading, UNCHANGED <<peer, downloading>>
      PROVE  Apart'
    BY <1>2 DEF Alive, Apart, Writes, Writing, Asked
<1>3. CASE OnSetInfo
    BY <1>2, <1>3 DEF OnSetInfo, Alive
<1>4. CASE VerifyData
    BY <1>2, <1>4 DEF VerifyData
<1>5. CASE VerifyPiece
    <2>1. ~downloading
        <3>1. 0 \notin Piece
            BY DEF Piece
        <3> QED
            BY <1>5, <3>1 DEF VerifyPiece, Apart, NotVerifying
    <2> QED
        BY <1>2, <1>5, <2>1 DEF VerifyPiece
<1>6. CASE DownloadAll
    BY <1>1, <1>6 DEF DownloadAll
<1>7. CASE Drop \/ Remove
    BY <1>1, <1>7 DEF Drop, Remove, objectVars, Apart
<1>8. CASE DropReturns \/ Crash
    <2>1. peer \in [Peer -> PeerState]
        BY DEF TypeInv, WorkType
    <2>2. ASSUME NEW c \in Peer
          PROVE  peer'[c] = Unasked \/
                     (Writing(c) /\ peer'[c].old = TRUE /\ peer'[c].step = peer[c].step)
        <3>1. peer[c] \in PeerState
            BY <2>1
        <3>2. peer'[c] = Unasked \/ (Writing(c) /\ peer'[c] = [peer[c] EXCEPT !.old = TRUE])
            BY <1>8, DropEffect
        <3> QED
            BY <3>1, <3>2 DEF PeerState
    <2>3. verify' = NotVerifying
        BY <1>8, DropEffect
    <2>4. ASSUME NEW c \in Peer
          PROVE  (\A b \in Block : ~Writes(c, b)') /\ \A p \in Piece : ~Asked(c, p)'
        <3>1. CASE peer'[c] = Unasked
            BY <3>1 DEF Writes, Writing, Asked, Unasked
        <3>2. CASE Writing(c) /\ peer'[c].old = TRUE /\ peer'[c].step = peer[c].step
            BY <3>2 DEF Writes, Writing, Asked
        <3> QED
            BY <2>2, <3>1, <3>2
    <2> QED
        BY <2>3, <2>4 DEF Apart
<1> QED
    BY <1>3, <1>4, <1>5, <1>6, <1>7, <1>8 DEF EngineStep

LEMMA ApartInit == Init => Apart
BY DEF Init, Apart, Writes, Writing, Asked, Unasked

LEMMA ApartStep ==
    ASSUME ~Reverify
    PROVE  TypeInv /\ Alive /\ Apart /\ [Next]_vars => Apart'
<1> SUFFICES ASSUME TypeInv, Alive, Apart, [Next]_vars PROVE Apart'
    OBVIOUS
<1>1. CASE UNCHANGED vars
    BY <1>1 DEF vars, objectVars, Apart, Writes, Writing, Asked, Busy, HasherOn, On, Working, AllDirty
<1>2. CASE Next
    BY <1>2, ApartEngine, ApartHasher, ApartPeer DEF Next, PeerStep
<1> QED
    BY <1>1, <1>2

(* Unless a torrent is verified again while it downloads, Drop never waits *)
(* for a hasher that waits for a writer, which the client's lock would     *)
(* keep from reporting: hashers and writers are never at the same piece.   *)
THEOREM DropUnblocked == ASSUME ~Reverify PROVE Spec => []DropIsUnblocked
<1>1. Alive /\ Apart /\ TypeInv => DropIsUnblocked
    <2> SUFFICES ASSUME Alive, Apart, TypeInv, NEW w \in Hasher, hasher[w].step = "hashing",
                        NEW c \in PendingWrites(hasher[w].piece)
                 PROVE  FALSE
        BY DEF DropIsUnblocked
    <2>1. On(w, hasher[w].piece)
        BY DEF Alive, On, Working
    <2>2. c \in Peer /\ Writes(c, peer[c].block) /\ peer[c].block[1] = hasher[w].piece
        BY DEF PendingWrites, Writes
    <2>3. peer[c].block \in Block
        BY <2>2 DEF TypeInv, WorkType, PeerState
    <2> QED
        BY <2>1, <2>2, <2>3 DEF Apart, Busy, HasherOn
<1>2. TypeInv /\ Alive /\ Apart /\ [Next]_vars => Apart'
    BY ApartStep
<1> QED
    BY <1>1, <1>2, TypeInit, TypeStep, AliveInit, AliveStep, ApartInit, PTL DEF Spec
=============================================================================
