------------------------------ MODULE FileStorage ------------------------------
(***************************************************************************)
(* The client's file storage of one torrent (storage/file-*.go of          *)
(* licenses/github.com/anacrolix/torrent) and the piece completion store.  *)
(*                                                                         *)
(* Every file has two names: blocks are written under the part name and    *)
(* read from it when it exists, or else from the final name.  A file is    *)
(* renamed to its final name ("promoted") when the store has all its       *)
(* pieces complete, and back ("demoted") when one of them is found bad.    *)
(*                                                                         *)
(* Of a block only its worth is kept: a hole was never written, a good     *)
(* block is what the metadata promises.  The completion store is atomic    *)
(* here (see modules CompletionStore and PieceRepository).                 *)
(***************************************************************************)
EXTENDS Naturals, FiniteSets, FiniteSetsExt

CONSTANTS
    NumPieces,  \* pieces of the torrent
    NumChunks,  \* blocks of every piece but the last
    LastChunks, \* blocks of the last piece
    NumFiles,   \* files of the torrent
    Place,      \* the file each block lies in
    NoFile      \* the absence of a file

Piece == 1..NumPieces
Chunk == 1..NumChunks
File == 1..NumFiles
Block == {b \in Piece \X Chunk : b[1] = NumPieces => b[2] <= LastChunks}

ASSUME StorageAssumption ==
    /\ {NumPieces, NumChunks, NumFiles} \subseteq Nat \ {0}
    /\ LastChunks \in Chunk
    /\ Place \in [Block -> File]

Data == {"hole", "good", "bad"}
Completion == {"unknown", "complete", "incomplete"}

BlocksOf(p) == {b \in Block : b[1] = p}
FileBlocks(f) == {b \in Block : Place[b] = f}
(* file.beginPieceIndex to endPieceIndex, and filePieceImpl.pieceFiles.     *)
FilePieces(f) == {b[1] : b \in FileBlocks(f)}
PieceFiles(p) == {Place[b] : b \in BlocksOf(p)}

Contents(f) == [FileBlocks(f) -> Data]

ASSUME NoFileAssumption == \A f \in File : NoFile \notin Contents(f)

VARIABLES
    part,       \* the files under their part names
    final,      \* the files under their final names
    store       \* the piece completion store

storageVars == <<part, final, store>>

StorageTypeOK ==
    /\ \A f \in File : part[f] \in Contents(f) \cup {NoFile}
    /\ \A f \in File : final[f] \in Contents(f) \cup {NoFile}
    /\ store \in [Piece -> Completion]

-----------------------------------------------------------------------------
(* Reading and writing blocks.                                             *)

(* openSharedFile: the part name first.                                    *)
Opened(f) == IF part[f] # NoFile THEN part[f] ELSE final[f]

(* readFileAt and ReadAt: a missing file reads as a hole.                  *)
ReadAt(b) == IF Opened(Place[b]) = NoFile THEN "hole" ELSE Opened(Place[b])[b]

(* WriteAt: openForWrite creates the part file if it is not there, at its  *)
(* full length.                                                            *)
WriteAt(b, data) ==
    LET f == Place[b]
        old == IF part[f] = NoFile THEN [c \in FileBlocks(f) |-> "hole"] ELSE part[f]
    IN part' = [part EXCEPT ![f] = [old EXCEPT ![b] = data]]

(* Whether hashing what is on disk gives the piece's hash.                 *)
ReadsGood(p) == \A b \in BlocksOf(p) : ReadAt(b) = "good"

-----------------------------------------------------------------------------
(* Completion.                                                             *)

(* setCompletionFromPartFiles: a piece counts as complete when all its     *)
(* files are there under their final names (and of full size, as all files *)
(* here are), and no longer as complete when not.  Nothing is hashed.      *)
CompletionFromPartFiles ==
    LET whole == {f \in File : final[f] # NoFile} IN
    [p \in Piece |->
        IF PieceFiles(p) \subseteq whole THEN "complete"
        ELSE IF store[p] = "complete" THEN "incomplete" ELSE store[p]]

AllFilePiecesComplete(f) == \A p \in FilePieces(f) : store[p] = "complete"

-----------------------------------------------------------------------------
(* Renaming.  os.Rename does nothing when the source is missing and        *)
(* replaces the destination when it is not.                                *)

PromotePartFile(f) ==
    IF part[f] = NoFile
    THEN UNCHANGED <<part, final>>
    ELSE /\ final' = [final EXCEPT ![f] = part[f]]
         /\ part' = [part EXCEPT ![f] = NoFile]

OnFileNotComplete(f) ==
    IF final[f] = NoFile
    THEN UNCHANGED <<part, final>>
    ELSE /\ part' = [part EXCEPT ![f] = final[f]]
         /\ final' = [final EXCEPT ![f] = NoFile]

(* What os.RemoveAll of the content's paths leaves.                        *)
RemoveFiles ==
    /\ part' = [f \in File |-> NoFile]
    /\ final' = [f \in File |-> NoFile]
=============================================================================
