-------------------------------- MODULE Engine --------------------------------
(***************************************************************************)
(* The torrent engine (internal/server/torrent) over the embedded client   *)
(* library (licenses/github.com/anacrolix/torrent), and the content on     *)
(* disk.                                                                   *)
(*                                                                         *)
(* The client tracks at most one open torrent object per info hash.  A     *)
(* goroutine that got an object keeps its handle while others may drop the *)
(* torrent and add it again, so a handle is either on the tracked object   *)
(* ("open") or on one that was closed under it, before ("closed") or after *)
(* ("closedinfo") its metadata arrived.                                    *)
(*                                                                         *)
(* Content is counted in pieces: disk[h] pieces of h are on disk, and the  *)
(* tracked object believes in have[h] of them.                             *)
(***************************************************************************)
EXTENDS Torrents

CONSTANT Nil        \* no torrent

ASSUME NilAssumption == Nil \notin Hash

VARIABLES
    tracked,      \* hashes in the client's torrentsByShortHash map
    named,        \* tracked torrents with a display name from a magnet's dn
    info,         \* tracked torrents whose metadata is known
    downloading,  \* tracked torrents on which DownloadAll was called
    have,         \* pieces the tracked object has marked complete
    disk,         \* pieces of content on disk
    target,       \* the torrent a goroutine's call is about
    handle,       \* the goroutine's torrent object
    leaked        \* the client's lock was left locked by a returned call

clientVars == <<tracked, named, info, downloading, have>>
engineVars == <<clientVars, disk, target, handle, leaked>>

HandleState == {"nil", "open", "closed", "closedinfo"}

EngineTypeOK ==
    /\ tracked \subseteq Hash
    /\ named \subseteq Hash
    /\ info \subseteq Hash
    /\ downloading \subseteq Hash
    /\ have \in [Hash -> 0..Length]
    /\ disk \in [Hash -> 0..Length]
    /\ target \in [Proc -> Hash \cup {Nil}]
    /\ handle \in [Proc -> HandleState]
    /\ leaked \in BOOLEAN

(* A new process: nothing is tracked, nothing is locked, no call is under  *)
(* way.  Used by Init and after a crash.                                   *)
EngineStart ==
    /\ tracked' = {} /\ named' = {} /\ info' = {} /\ downloading' = {}
    /\ have' = [h \in Hash |-> 0]
    /\ handle' = [p \in Proc |-> "nil"]
    /\ leaked' = FALSE

EngineInit ==
    /\ tracked = {} /\ named = {} /\ info = {} /\ downloading = {}
    /\ have = [h \in Hash |-> 0]
    /\ disk = [h \in Hash |-> 0]
    /\ target = [p \in Proc |-> Nil]
    /\ handle = [p \in Proc |-> "nil"]
    /\ leaked = FALSE

-----------------------------------------------------------------------------
(* Reads.  Each takes the client's lock for reading, so none returns once  *)
(* the lock is leaked.                                                     *)

(* What the engine's Snapshot may return.  Without metadata both counters  *)
(* are zero.  BytesCompleted adds the received chunks of unfinished pieces *)
(* to the pieces that are complete; peers change how many those are at any *)
(* moment while the torrent downloads, and they fall when a check fails.   *)
Snapshot(h) ==
    [length : {IF h \in info THEN Length ELSE 0},
     bytes  : IF h \notin info THEN {0}
              ELSE IF h \in downloading THEN have[h]..Length
              ELSE {have[h]}]

(* Whether Torrent.Name is the name of the content's path.  Without        *)
(* metadata it is the magnet's dn (here always the torrent's own name), or *)
(* a string made of the info hash, which names no file.                    *)
NameIsPath(h) == h \in info \/ h \in named

-----------------------------------------------------------------------------
(* The client's operations.                                                *)

(* The pieces marked complete when metadata is set: those that the piece   *)
(* completion store remembers and the files on disk can hold.  What the    *)
(* store remembers is the subject of module PieceRepository.               *)
InitialCompletion(h) == 0..disk[h]

(* Client.AddMagnet and Client.AddTorrent: get or create the open object.  *)
(* A .torrent file ("file") brings the metadata with it.                   *)
ClientAdd(p, h, source) ==
    /\ ~leaked
    /\ handle' = [handle EXCEPT ![p] = "open"]
    /\ tracked' = tracked \cup {h}
    /\ named' = IF source = "named" THEN named \cup {h} ELSE named
    /\ \/ /\ source = "file" /\ h \notin info
          /\ info' = info \cup {h}
          /\ \E n \in InitialCompletion(h) : have' = [have EXCEPT ![h] = n]
       \/ /\ source # "file" \/ h \in info
          /\ UNCHANGED <<info, have>>
    /\ UNCHANGED <<downloading, disk, leaked>>

(* Torrent.Drop, the last thing any caller does with its object: closing   *)
(* it closes it under every goroutine that holds it.  On a closed object   *)
(* it returns before it takes the lock.                                    *)
Drop(p) ==
    LET h == target[p] IN
    IF handle[p] = "open"
    THEN /\ ~leaked
         /\ tracked' = tracked \ {h}
         /\ named' = named \ {h}
         /\ info' = info \ {h}
         /\ downloading' = downloading \ {h}
         /\ have' = [have EXCEPT ![h] = 0]
         /\ handle' = [q \in Proc |->
                         IF q = p THEN "nil"
                         ELSE IF handle[q] = "open" /\ target[q] = h
                         THEN IF h \in info THEN "closedinfo" ELSE "closed"
                         ELSE handle[q]]
         /\ UNCHANGED <<disk, leaked>>
    ELSE /\ handle' = [handle EXCEPT ![p] = "nil"]
         /\ UNCHANGED <<clientVars, disk, leaked>>

(* GotInfo's channel is closed when metadata is set and stays closed; it   *)
(* never closes on an object that was dropped without metadata.            *)
GotInfo(p) ==
    \/ handle[p] = "open" /\ target[p] \in info
    \/ handle[p] = "closedinfo"

(* Mutant: an early return for a piece that is already complete forgets    *)
(* the lock too.                                                           *)
QueueCheckKeepsLock(p) ==
    /\ ~leaked
    /\ leaked' = (handle[p] # "open" \/ have[target[p]] > 0)
    /\ UNCHANGED <<clientVars, disk, handle>>

(* The start of Piece.VerifyDataContext: on a closed torrent it returns    *)
(* errTorrentClosed with the client's lock still locked.                   *)
QueueCheck(p) ==
    /\ ~leaked
    /\ leaked' = (handle[p] # "open")
    /\ UNCHANGED <<clientVars, disk, handle>>

(* A queued check of the i-th piece ends.  Content is abstracted to a      *)
(* prefix of the pieces.  A closed torrent records nothing.                *)
CheckPiece(p, i) ==
    LET h == target[p] IN
    /\ ~leaked
    /\ IF handle[p] = "open"
       THEN have' = [have EXCEPT ![h] = IF i <= disk[h]
                                        THEN IF @ < i THEN i ELSE @
                                        ELSE IF @ < i THEN @ ELSE i - 1]
       ELSE UNCHANGED have
    /\ UNCHANGED <<tracked, named, info, downloading, disk, handle, leaked>>

(* Torrent.DownloadAll, after which the caller returns.                    *)
DownloadAll(p) ==
    /\ ~leaked
    /\ downloading' = IF handle[p] = "open" THEN downloading \cup {target[p]}
                                            ELSE downloading
    /\ handle' = [handle EXCEPT ![p] = "nil"]
    /\ UNCHANGED <<tracked, named, info, have, disk, leaked>>

(* Client.Torrent, in the engine's Remove.                                 *)
Find(p, h) ==
    /\ ~leaked
    /\ handle' = [handle EXCEPT ![p] = IF h \in tracked THEN "open" ELSE "nil"]
    /\ UNCHANGED <<clientVars, disk, leaked>>

(* os.RemoveAll on the content's path; n pieces survive a failure.         *)
Erase(h, n) ==
    /\ disk' = [disk EXCEPT ![h] = n]
    /\ UNCHANGED <<clientVars, handle, leaked>>

-----------------------------------------------------------------------------
(* What peers bring.                                                       *)

MetadataArrives(h) ==
    /\ ~leaked
    /\ h \in tracked \ info
    /\ info' = info \cup {h}
    /\ \E n \in InitialCompletion(h) : have' = [have EXCEPT ![h] = n]
    /\ UNCHANGED <<tracked, named, downloading, disk, target, handle, leaked>>

PieceArrives(h) ==
    /\ ~leaked
    /\ h \in downloading
    /\ have[h] < Length
    /\ have' = [have EXCEPT ![h] = @ + 1]
    /\ disk' = [disk EXCEPT ![h] = IF @ < Length THEN @ + 1 ELSE @]
    /\ UNCHANGED <<tracked, named, info, downloading, target, handle, leaked>>
=============================================================================
