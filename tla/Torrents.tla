------------------------------- MODULE Torrents -------------------------------
(* What every part of the server agrees on: the torrents, their content and *)
(* the goroutines that work on them.                                        *)
EXTENDS Naturals

CONSTANTS
    Hash,       \* info hashes
    Length,     \* the length of every torrent's content, in pieces
    Req         \* goroutines that serve an HTTP request

ASSUME LengthAssumption == Length \in Nat \ {0}
ASSUME ReqAssumption == Req \cap Hash = {}

(* The goroutine that Restore starts for a row is named by the row's hash. *)
Proc == Req \cup Hash
=============================================================================
