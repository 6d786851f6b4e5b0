------------------------------ MODULE MCPeerConn ------------------------------
(* PeerConn for TLC.  Chunks are interchangeable.                          *)
EXTENDS PeerConn, TLC

Symmetry == Permutations(Chunk)
=============================================================================
