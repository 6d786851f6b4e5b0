---------------------------- MODULE MCPieceHashing ----------------------------
(* PieceHashing for TLC.  The last block is alone in the last file, so a     *)
(* last piece of several blocks straddles two files.                       *)
EXTENDS PieceHashing, TLC

Straddling == [b \in Block |-> IF b = <<NumPieces, LastChunks>> THEN NumFiles ELSE 1]

Symmetry == Permutations(Hasher) \cup Permutations(Peer)
=============================================================================
