--------------------------- MODULE MCPieceRepository ---------------------------
(* PieceRepository for TLC.  Hashers and piece indexes are interchangeable. *)
EXTENDS PieceRepository, TLC

Symmetry == Permutations(Hasher) \cup Permutations(Index)
=============================================================================
