--------------------------- MODULE MCTorrentService ---------------------------
(* TorrentService for TLC.  Requests are interchangeable, and so are hashes. *)
EXTENDS TorrentService, TLC

Symmetry == Permutations(Hash) \cup Permutations(Req)
=============================================================================
