--------------------------- MODULE TorrentRepository ---------------------------
(***************************************************************************)
(* The torrent table of internal/server/database: one row per managed      *)
(* torrent, keyed by info hash.  Every statement the repository runs is a  *)
(* single SQLite statement, so each operator below is one atomic update.   *)
(*                                                                         *)
(* Kept of a row: the paused flag, whether the magnet URI carries a dn     *)
(* parameter, and the length and bytes_completed columns, in pieces.       *)
(* length = 0 stands for metadata that was never persisted.  label,        *)
(* target_dir, name and the timestamps are written and displayed but never *)
(* read by a decision of the service, and are left out.                    *)
(***************************************************************************)
EXTENDS Torrents

CONSTANT NoRow      \* the absence of a row

Magnet == {"named", "bare"}    \* with and without a dn parameter

Row == [paused : BOOLEAN, magnet : Magnet, length : {0, Length}, bytes : 0..Length]

ASSUME NoRowAssumption == NoRow \notin Row

VARIABLE table

RepositoryTypeOK == table \in [Hash -> Row \cup {NoRow}]

RepositoryInit == table = [h \in Hash |-> NoRow]

Managed(h) == table[h] # NoRow
Paused(h) == Managed(h) /\ table[h].paused
Unpaused(h) == Managed(h) /\ ~table[h].paused

-----------------------------------------------------------------------------
(* Each operator is the statement's effect when it matches a row (when it  *)
(* matches none, for Create).  The caller has the other outcomes:          *)
(* ErrTorrentNotFound, ErrTorrentAlreadyExists and a failed statement.     *)

Create(h, magnet) ==
    /\ ~Managed(h)
    /\ table' = [table EXCEPT ![h] =
                    [paused |-> FALSE, magnet |-> magnet, length |-> 0, bytes |-> 0]]

Delete(h) ==
    /\ Managed(h)
    /\ table' = [table EXCEPT ![h] = NoRow]

SetMetadata(h, length) ==
    /\ Managed(h)
    /\ table' = [table EXCEPT ![h] = [@ EXCEPT !.length = length]]

SetBytesCompleted(h, bytes) ==
    /\ Managed(h)
    /\ table' = [table EXCEPT ![h] = [@ EXCEPT !.bytes = bytes]]

SetPaused(h, paused) ==
    /\ Managed(h)
    /\ table' = [table EXCEPT ![h] = [@ EXCEPT !.paused = paused]]
=============================================================================
