---------------------------- MODULE PieceRepository ----------------------------
(***************************************************************************)
(* PieceRepository (internal/server/database/piece.go): the piece_completion*)
(* table and the cache in front of it, with the four that use it at once:  *)
(*   - the client's piece hashers, which Set a piece after checking that   *)
(*     the torrent is open and then releasing the client's lock            *)
(*     (Torrent.pieceHashed), so that the Set itself may come after a Drop; *)
(*   - the service's Remove, whose torrents.Delete fires the trigger       *)
(*     piece_completion_cascade and which then calls Forget;               *)
(*   - whoever adds or drops the torrent;                                  *)
(*   - the server's start, which Loads the table into the cache.           *)
(***************************************************************************)
EXTENDS Naturals

CONSTANTS
    Hash,       \* info hashes
    Index,      \* piece indexes
    Hasher,     \* piece hashers
    Nil,        \* nobody, and no piece
    Overlap,    \* whether a torrent is added again while it is being removed
    LateMarks,  \* whether a torrent is dropped while a hasher is marking it
    Faults      \* whether a statement may fail and the process may die

ASSUME PieceAssumption ==
    /\ Nil \notin Hasher
    /\ Nil \notin Hash \X Index
    /\ {Overlap, LateMarks, Faults} \subseteq BOOLEAN

Key == Hash \X Index
KeysOf(h) == {h} \X Index

(* An entry that is absent is the Completion with Ok = false.              *)
Completion == {"unknown", "complete", "incomplete"}

VARIABLES
    rows,       \* the piece_completion table
    cache,      \* PieceRepository.cache
    mu,         \* who holds PieceRepository.mu for writing
    step,       \* where each hasher is in Set
    key,        \* the piece it marks
    mark,       \* and how
    torrents,   \* hashes with a row in the torrent table
    open,       \* hashes the client tracks
    removing,   \* how far the service's Remove of a torrent is
    removed,    \* torrents removed and not added since (history)
    up          \* the server process runs

hasherVars == <<step, key, mark>>
vars == <<rows, cache, mu, hasherVars, torrents, open, removing, removed, up>>

TypeOK ==
    /\ rows \in [Key -> Completion]
    /\ cache \in [Key -> Completion]
    /\ mu \in Hasher \cup {Nil}
    /\ step \in [Hasher -> {"idle", "marking", "locked", "stored"}]
    /\ key \in [Hasher -> Key \cup {Nil}]
    /\ mark \in [Hasher -> Completion]
    /\ torrents \subseteq Hash
    /\ open \subseteq Hash
    /\ removing \in [Hash -> {"no", "dropped", "deleted"}]
    /\ removed \subseteq Hash
    /\ up \in BOOLEAN

Init ==
    /\ rows = [k \in Key |-> "unknown"]
    /\ cache = [k \in Key |-> "unknown"]
    /\ mu = Nil
    /\ step = [w \in Hasher |-> "idle"]
    /\ key = [w \in Hasher |-> Nil]
    /\ mark = [w \in Hasher |-> "unknown"]
    /\ torrents = {}
    /\ open = {}
    /\ removing = [h \in Hash |-> "no"]
    /\ removed = {}
    /\ up = FALSE

(* The entries of h dropped from a map.                                    *)
Without(map, h) == [k \in Key |-> IF k \in KeysOf(h) THEN "unknown" ELSE map[k]]

-----------------------------------------------------------------------------
(* Set, called by a hasher.                                                *)

MarkPiece(w, k, m) ==
    /\ up
    /\ step[w] = "idle"
    /\ k[1] \in open
    /\ step' = [step EXCEPT ![w] = "marking"]
    /\ key' = [key EXCEPT ![w] = k]
    /\ mark' = [mark EXCEPT ![w] = m]
    /\ UNCHANGED <<rows, cache, mu, torrents, open, removing, removed, up>>

SetLock(w) ==
    /\ step[w] = "marking"
    /\ mu = Nil
    /\ mu' = w
    /\ step' = [step EXCEPT ![w] = "locked"]
    /\ UNCHANGED <<rows, cache, key, mark, torrents, open, removing, removed, up>>

(* The deferred Unlock, and the end of the hasher's call.                  *)
SetReturns(w) ==
    /\ mu' = Nil
    /\ step' = [step EXCEPT ![w] = "idle"]
    /\ key' = [key EXCEPT ![w] = Nil]
    /\ mark' = [mark EXCEPT ![w] = "unknown"]

(* Mutant: the mutex is released between the row and the cache.            *)
SetRowUnlocks(w) ==
    /\ step[w] = "locked"
    /\ rows' = [rows EXCEPT ![key[w]] = mark[w]]
    /\ step' = [step EXCEPT ![w] = "stored"]
    /\ mu' = Nil
    /\ UNCHANGED <<key, mark, cache, torrents, open, removing, removed, up>>

SetRow(w) ==
    /\ step[w] = "locked"
    /\ \/ /\ rows' = [rows EXCEPT ![key[w]] = mark[w]]
          /\ step' = [step EXCEPT ![w] = "stored"]
          /\ UNCHANGED <<mu, key, mark>>
       \/ /\ Faults
          /\ SetReturns(w)
          /\ UNCHANGED rows
    /\ UNCHANGED <<cache, torrents, open, removing, removed, up>>

SetCache(w) ==
    /\ step[w] = "stored"
    /\ cache' = [cache EXCEPT ![key[w]] = mark[w]]
    /\ SetReturns(w)
    /\ UNCHANGED <<rows, torrents, open, removing, removed, up>>

-----------------------------------------------------------------------------
(* Adding, pausing and removing a torrent.                                 *)

ClientAdd(h) ==
    /\ up
    /\ h \notin open
    /\ Overlap \/ removing[h] = "no"
    /\ open' = open \cup {h}
    /\ removed' = removed \ {h}
    /\ UNCHANGED <<rows, cache, mu, hasherVars, torrents, removing, up>>

Create(h) ==
    /\ h \in open \ torrents
    /\ torrents' = torrents \cup {h}
    /\ UNCHANGED <<rows, cache, mu, hasherVars, open, removing, removed, up>>

MayDrop(h) == LateMarks \/ \A w \in Hasher : key[w] \notin KeysOf(h)

(* Pause, or an engine.Add that fails or is cancelled, which may drop a    *)
(* torrent that has no row yet.                                            *)
Drop(h) ==
    /\ h \in open
    /\ MayDrop(h)
    /\ open' = open \ {h}
    /\ UNCHANGED <<rows, cache, mu, hasherVars, torrents, removing, removed, up>>

RemoveDrop(h) ==
    /\ up
    /\ h \in torrents
    /\ removing[h] = "no"
    /\ MayDrop(h)
    /\ open' = open \ {h}
    /\ removing' = [removing EXCEPT ![h] = "dropped"]
    /\ UNCHANGED <<rows, cache, mu, hasherVars, torrents, removed, up>>

(* Mutant: the schema has no cascade trigger.                              *)
RemoveDeleteNoTrigger(h) ==
    /\ removing[h] = "dropped"
    /\ torrents' = torrents \ {h}
    /\ removing' = [removing EXCEPT ![h] = "deleted"]
    /\ UNCHANGED <<rows, cache, mu, hasherVars, open, removed, up>>

(* torrents.Delete with its trigger, or its failure, which ends Remove.    *)
RemoveDelete(h) ==
    /\ removing[h] = "dropped"
    /\ \/ /\ torrents' = torrents \ {h}
          /\ rows' = Without(rows, h)
          /\ removing' = [removing EXCEPT ![h] = "deleted"]
       \/ /\ Faults
          /\ removing' = [removing EXCEPT ![h] = "no"]
          /\ UNCHANGED <<torrents, rows>>
    /\ UNCHANGED <<cache, mu, hasherVars, open, removed, up>>

Forget(h) ==
    /\ removing[h] = "deleted"
    /\ mu = Nil
    /\ cache' = Without(cache, h)
    /\ removing' = [removing EXCEPT ![h] = "no"]
    /\ removed' = IF h \in open THEN removed ELSE removed \cup {h}
    /\ UNCHANGED <<rows, mu, hasherVars, torrents, open, up>>

-----------------------------------------------------------------------------
(* The server's life.                                                      *)

Load ==
    /\ ~up
    /\ up' = TRUE
    /\ cache' = rows
    /\ UNCHANGED <<rows, mu, hasherVars, torrents, open, removing, removed>>

Crash ==
    /\ Faults
    /\ up
    /\ up' = FALSE
    /\ cache' = [k \in Key |-> "unknown"]
    /\ mu' = Nil
    /\ step' = [w \in Hasher |-> "idle"]
    /\ key' = [w \in Hasher |-> Nil]
    /\ mark' = [w \in Hasher |-> "unknown"]
    /\ open' = {}
    /\ removing' = [h \in Hash |-> "no"]
    /\ removed' = removed \cup {h \in Hash \ open : removing[h] = "deleted"}
    /\ UNCHANGED <<rows, torrents>>

HasherStep(w) ==
    \/ \E k \in Key, m \in {"complete", "incomplete"} : MarkPiece(w, k, m)
    \/ SetLock(w) \/ SetRow(w) \/ SetCache(w)

TorrentStep(h) ==
    \/ ClientAdd(h) \/ Create(h) \/ Drop(h)
    \/ RemoveDrop(h) \/ RemoveDelete(h) \/ Forget(h)

Next ==
    \/ \E w \in Hasher : HasherStep(w)
    \/ \E h \in Hash : TorrentStep(h)
    \/ Load
    \/ Crash

Spec == Init /\ [][Next]_vars

-----------------------------------------------------------------------------
(* Properties.                                                             *)

(* "Two concurrent Sets to the same key can't leave the cache disagreeing  *)
(* with the row on disk": what the cache knows of a piece is what its row  *)
(* says, except while a Set of that piece holds the mutex and while Remove *)
(* is between Delete and Forget.                                           *)
CacheIsBacked ==
    \A h \in Hash : \A k \in KeysOf(h) :
        /\ cache[k] # "unknown"
        /\ removing[h] # "deleted"
        /\ \A w \in Hasher : step[w] = "stored" => key[w] # k
        => rows[k] = cache[k]

(* "A torrent re-added with the same hash starts fresh instead of          *)
(* inheriting the previous instance's completion state": a removed torrent *)
(* leaves nothing in the cache, nor in the table it is loaded from.        *)
StartsFresh ==
    \A h \in removed : \A k \in KeysOf(h) : cache[k] = "unknown" /\ rows[k] = "unknown"

(* To its callers the table with the cache in front of it is one map that  *)
(* each call accesses in one step and that survives the process: what Get  *)
(* answers is the cache while the server runs, and the table from which    *)
(* the cache is loaded while it does not.                                  *)
Store == INSTANCE CompletionStore WITH
    Setter <- Hasher,
    completion <- IF up THEN cache ELSE rows,
    setting <- [w \in Hasher |-> [key |-> key[w], mark |-> mark[w]]],
    forgetting <- {h \in Hash : removing[h] # "no"}

(* PieceRepository implements the atomic, crash-safe CompletionStore, if   *)
(* no torrent is added, or a piece of it marked, while it is removed.      *)
StoreIsAtomic == Store!Spec
=============================================================================
