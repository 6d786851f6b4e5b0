------------------------ MODULE PieceRepositoryProofs ------------------------
(***************************************************************************)
(* Proofs about PieceRepository, for any number of torrents, pieces and    *)
(* hashers, with every overlap and failure the module allows.              *)
(***************************************************************************)
EXTENDS PieceRepository, TLAPS

(* The mutex: who is inside Set holds it, and knows which piece it marks.  *)
Mutex ==
    \A w \in Hasher :
        /\ step[w] \in {"locked", "stored"} => mu = w
        /\ step[w] # "idle" => key[w] \in Key

(* The row that a Set wrote is still there when it comes to the cache,     *)
(* unless the torrent was deleted meanwhile: then Forget is yet to come,   *)
(* and waits for the mutex.                                                *)
Stored ==
    \A w \in Hasher :
        step[w] = "stored" /\ removing[key[w][1]] # "deleted" => rows[key[w]] = mark[w]

(* CacheIsBacked, piece by piece.                                          *)
PiecesBacked ==
    \A k \in Key :
        /\ cache[k] # "unknown"
        /\ removing[k[1]] # "deleted"
        /\ \A w \in Hasher : step[w] = "stored" => key[w] # k
        => rows[k] = cache[k]

BackedInv == TypeOK /\ Mutex /\ Stored /\ PiecesBacked

LEMMA WithoutType ==
    ASSUME NEW map \in [Key -> Completion], NEW h \in Hash
    PROVE  /\ Without(map, h) \in [Key -> Completion]
           /\ \A k \in Key : k[1] = h => Without(map, h)[k] = "unknown"
           /\ \A k \in Key : k[1] # h => Without(map, h)[k] = map[k]
  BY DEF Without, Completion, KeysOf, Key

LEMMA HashOfKey == \A k \in Key : k[1] \in Hash
  BY DEF Key

LEMMA HasherBacked ==
    ASSUME BackedInv, NEW w \in Hasher, HasherStep(w)
    PROVE  BackedInv'
  <1> USE DEF BackedInv
  <1>1. ASSUME NEW k \in Key, NEW m \in {"complete", "incomplete"}, MarkPiece(w, k, m)
        PROVE  BackedInv'
    <2>1. TypeOK' /\ Mutex'
      BY <1>1 DEF MarkPiece, TypeOK, Mutex, Completion
    <2>2. Stored'
      BY <1>1 DEF MarkPiece, TypeOK, Stored
    <2>3. PiecesBacked'
      BY <1>1 DEF MarkPiece, TypeOK, PiecesBacked
    <2> QED BY <2>1, <2>2, <2>3
  <1>2. CASE SetLock(w)
    <2>1. TypeOK' /\ Mutex'
      BY <1>2, PieceAssumption DEF SetLock, TypeOK, Mutex
    <2>2. Stored' /\ PiecesBacked'
      BY <1>2 DEF SetLock, TypeOK, Stored, PiecesBacked
    <2> QED BY <2>1, <2>2
  <1>3. CASE SetRow(w)
    <2>0. /\ key[w] \in Key /\ step[w] = "locked" /\ mu = w
          /\ \A v \in Hasher : v # w => step[v] \notin {"locked", "stored"}
      BY <1>3 DEF SetRow, Mutex
    <2>1. CASE SetReturns(w) /\ UNCHANGED <<rows, cache, torrents, open, removing, removed, up>>
      <3>1. TypeOK' /\ Mutex' /\ Stored'
        BY <2>0, <2>1 DEF SetReturns, TypeOK, Mutex, Stored, Completion
      <3>2. PiecesBacked'
        BY <2>0, <2>1 DEF SetReturns, TypeOK, PiecesBacked
      <3> QED BY <3>1, <3>2
    <2>2. CASE /\ rows' = [rows EXCEPT ![key[w]] = mark[w]]
               /\ step' = [step EXCEPT ![w] = "stored"]
               /\ UNCHANGED <<mu, key, mark, cache, torrents, open, removing, removed, up>>
      <3>1. TypeOK' /\ Mutex' /\ Stored'
        BY <2>0, <2>2 DEF TypeOK, Mutex, Stored
      <3>2. \A k \in Key : k # key[w] => rows'[k] = rows[k]
        BY <2>0, <2>2 DEF TypeOK
      <3>3. \A v \in Hasher : step'[v] = "stored" <=> v = w
        BY <2>0, <2>2 DEF TypeOK
      <3>4. PiecesBacked'
        BY <2>0, <2>2, <3>2, <3>3 DEF PiecesBacked
      <3> QED BY <3>1, <3>4
    <2> QED BY <1>3, <2>1, <2>2 DEF SetRow
  <1>4. CASE SetCache(w)
    <2>0. /\ key[w] \in Key /\ step[w] = "stored" /\ mu = w
          /\ \A v \in Hasher : v # w => step[v] \notin {"locked", "stored"}
      BY <1>4 DEF SetCache, Mutex
    <2>1. TypeOK' /\ Mutex' /\ Stored'
      BY <1>4, <2>0 DEF SetCache, SetReturns, TypeOK, Mutex, Stored, Completion
    <2>2. /\ cache'[key[w]] = mark[w] /\ rows' = rows /\ removing' = removing
          /\ \A k \in Key : k # key[w] => cache'[k] = cache[k]
      BY <1>4, <2>0 DEF SetCache, TypeOK
    <2>3. PiecesBacked'
      BY <2>0, <2>2 DEF Stored, PiecesBacked
    <2> QED BY <2>1, <2>3
  <1> QED BY <1>1, <1>2, <1>3, <1>4 DEF HasherStep

LEMMA TorrentBacked ==
    ASSUME BackedInv, NEW h \in Hash, TorrentStep(h)
    PROVE  BackedInv'
  <1> USE DEF BackedInv
  <1>k. \A w \in Hasher : step[w] = "stored" => key[w] \in Key /\ key[w][1] \in Hash
    BY DEF Mutex, Key
  <1>1. CASE ClientAdd(h)
    BY <1>1 DEF ClientAdd, hasherVars, TypeOK, Mutex, Stored, PiecesBacked
  <1>2. CASE Create(h)
    BY <1>2 DEF Create, hasherVars, TypeOK, Mutex, Stored, PiecesBacked
  <1>3. CASE Drop(h)
    BY <1>3 DEF Drop, hasherVars, TypeOK, Mutex, Stored, PiecesBacked
  <1>4. CASE RemoveDrop(h)
    <2>1. /\ TypeOK' /\ Mutex'
          /\ \A g \in Hash : removing'[g] = "deleted" <=> removing[g] = "deleted"
      BY <1>4 DEF RemoveDrop, hasherVars, TypeOK, Mutex
    <2>2. Stored' /\ PiecesBacked'
      BY <1>4, <1>k, <2>1 DEF RemoveDrop, hasherVars, Stored, PiecesBacked
    <2> QED BY <2>1, <2>2
  <1>5. CASE RemoveDelete(h)
    <2>1. CASE UNCHANGED rows /\ removing' = [removing EXCEPT ![h] = "no"]
      <3>1. /\ TypeOK' /\ Mutex'
            /\ \A g \in Hash : removing'[g] = "deleted" <=> removing[g] = "deleted"
        BY <1>5, <2>1 DEF RemoveDelete, hasherVars, TypeOK, Mutex
      <3>2. Stored' /\ PiecesBacked'
        BY <1>5, <1>k, <2>1, <3>1 DEF RemoveDelete, hasherVars, Stored, PiecesBacked
      <3> QED BY <3>1, <3>2
    <2>2. CASE rows' = Without(rows, h) /\ removing' = [removing EXCEPT ![h] = "deleted"]
      <3>1. TypeOK' /\ Mutex'
        BY <1>5, <2>2, WithoutType DEF RemoveDelete, hasherVars, TypeOK, Mutex
      <3>2. /\ \A k \in Key : k[1] # h => rows'[k] = rows[k]
            /\ \A g \in Hash : g # h => removing'[g] = removing[g]
            /\ removing'[h] = "deleted"
        BY <2>2, WithoutType DEF TypeOK
      <3>3. Stored'
        BY <1>5, <1>k, <3>2, HashOfKey DEF RemoveDelete, hasherVars, Stored
      <3>4. PiecesBacked'
        BY <1>5, <3>2, HashOfKey DEF RemoveDelete, hasherVars, PiecesBacked
      <3> QED BY <3>1, <3>3, <3>4
    <2> QED BY <1>5, <2>1, <2>2 DEF RemoveDelete
  <1>6. CASE Forget(h)
    <2>1. TypeOK' /\ Mutex'
      BY <1>6, WithoutType DEF Forget, hasherVars, TypeOK, Mutex
    <2>2. \A w \in Hasher : step[w] # "stored"
      BY <1>6, PieceAssumption DEF Forget, Mutex
    <2>3. Stored'
      BY <1>6, <2>2 DEF Forget, hasherVars, Stored
    <2>4. /\ \A k \in Key : k[1] = h => cache'[k] = "unknown"
          /\ \A k \in Key : k[1] # h => cache'[k] = cache[k]
          /\ \A g \in Hash : g # h => removing'[g] = removing[g]
      BY <1>6, WithoutType DEF Forget, TypeOK
    <2>5. PiecesBacked'
      BY <1>6, <2>2, <2>4, HashOfKey DEF Forget, hasherVars, PiecesBacked
    <2> QED BY <2>1, <2>3, <2>5
  <1> QED BY <1>1, <1>2, <1>3, <1>4, <1>5, <1>6 DEF TorrentStep

LEMMA BackedInit == Init => BackedInv
  <1> SUFFICES ASSUME Init PROVE BackedInv
    OBVIOUS
  <1>1. TypeOK
    BY DEF Init, TypeOK, Completion
  <1>2. Mutex /\ Stored /\ PiecesBacked
    BY DEF Init, Mutex, Stored, PiecesBacked
  <1> QED BY <1>1, <1>2 DEF BackedInv

LEMMA BackedStep == BackedInv /\ [Next]_vars => BackedInv'
  <1> SUFFICES ASSUME BackedInv, [Next]_vars PROVE BackedInv'
    OBVIOUS
  <1> USE DEF BackedInv
  <1>1. CASE Load
    <2>1. TypeOK' /\ Mutex' /\ Stored'
      BY <1>1 DEF Load, hasherVars, TypeOK, Mutex, Stored
    <2>2. PiecesBacked'
      BY <1>1 DEF Load, PiecesBacked
    <2> QED BY <2>1, <2>2
  <1>2. CASE Crash
    <2>1. TypeOK' /\ Mutex' /\ Stored'
      BY <1>2 DEF Crash, TypeOK, Mutex, Stored, Completion
    <2>2. PiecesBacked'
      BY <1>2 DEF Crash, PiecesBacked
    <2> QED BY <2>1, <2>2
  <1>3. CASE UNCHANGED vars
    BY <1>3 DEF vars, hasherVars, TypeOK, Mutex, Stored, PiecesBacked
  <1> QED BY <1>1, <1>2, <1>3, HasherBacked, TorrentBacked DEF Next

(* No overlap of Sets, of removals with Sets and re-adds, no failed        *)
(* statement and no crash leaves the cache disagreeing with the table: the *)
(* mutex held across both writes of Set, and taken by Forget, is enough.   *)
THEOREM CacheBacked == Spec => []CacheIsBacked
  <1>1. BackedInv => CacheIsBacked
    BY DEF BackedInv, PiecesBacked, CacheIsBacked, KeysOf, Key
  <1> QED BY <1>1, BackedInit, BackedStep, PTL DEF Spec

-----------------------------------------------------------------------------
(* With no torrent added, or a piece of it marked, while it is removed.    *)

Quiet == ~Overlap /\ ~LateMarks

(* A hasher inside Set marks a piece of a torrent the client tracks, and   *)
(* one outside Set has nothing under way.                                  *)
Marking ==
    \A w \in Hasher :
        \/ step[w] = "idle" /\ key[w] = Nil /\ mark[w] = "unknown"
        \/ /\ step[w] # "idle"
           /\ key[w] \in Key /\ key[w][1] \in open
           /\ mark[w] \in {"complete", "incomplete"}

(* A torrent is tracked, and a removal under way, only while the server    *)
(* runs; the two exclude each other.                                       *)
Tracked ==
    /\ open # {} => up
    /\ \A h \in Hash : removing[h] # "no" => up /\ h \notin open
    /\ ~up => cache = [k \in Key |-> "unknown"]

(* What was deleted has no rows, and what was removed is nowhere.          *)
Cleared ==
    /\ \A h \in Hash : removing[h] = "deleted" => h \notin torrents
    /\ \A k \in Key : removing[k[1]] = "deleted" => rows[k] = "unknown"
    /\ \A k \in Key : k[1] \in removed => rows[k] = "unknown" /\ cache[k] = "unknown"
    /\ \A h \in removed : h \notin open /\ h \notin torrents /\ removing[h] = "no"

(* The converse of PiecesBacked: the running server's cache has every row. *)
Cached ==
    \A k \in Key :
        /\ up
        /\ removing[k[1]] # "deleted"
        /\ \A w \in Hasher : step[w] = "stored" => key[w] # k
        => cache[k] = rows[k]

QuietInv == BackedInv /\ Marking /\ Tracked /\ Cleared /\ Cached

LEMMA HasherQuiet ==
    ASSUME QuietInv, NEW w \in Hasher, HasherStep(w)
    PROVE  (Marking /\ Tracked /\ Cleared /\ Cached)'
  <1> USE DEF QuietInv, BackedInv
  <1>m. \A v \in Hasher : step[v] \in {"locked", "stored"} => mu = v
    BY DEF Mutex
  <1>n. \A v \in Hasher : step[v] # "idle" => /\ key[v] \in Key /\ key[v][1] \in open
                                              /\ removing[key[v][1]] = "no"
    BY HashOfKey DEF Mutex, Marking, Tracked
  <1>1. ASSUME NEW k \in Key, NEW m \in {"complete", "incomplete"}, MarkPiece(w, k, m)
        PROVE  (Marking /\ Tracked /\ Cleared /\ Cached)'
    <2>1. Marking'
      BY <1>1 DEF MarkPiece, TypeOK, Marking
    <2>2. Tracked' /\ Cleared'
      BY <1>1 DEF MarkPiece, Tracked, Cleared
    <2>3. \A v \in Hasher : step[v] = "stored" => step'[v] = "stored" /\ key'[v] = key[v]
      BY <1>1 DEF MarkPiece, TypeOK
    <2>4. Cached'
      BY <1>1, <2>3 DEF MarkPiece, Cached
    <2> QED BY <2>1, <2>2, <2>4
  <1>2. CASE SetLock(w)
    <2>1. Marking' /\ Tracked' /\ Cleared'
      BY <1>2 DEF SetLock, TypeOK, Marking, Tracked, Cleared
    <2>2. Cached'
      BY <1>2 DEF SetLock, TypeOK, Cached
    <2> QED BY <2>1, <2>2
  <1>3. CASE SetRow(w)
    <2>1. CASE SetReturns(w) /\ UNCHANGED <<rows, cache, torrents, open, removing, removed, up>>
      <3>1. Marking' /\ Tracked' /\ Cleared'
        BY <2>1 DEF SetReturns, TypeOK, Marking, Tracked, Cleared
      <3>2. Cached'
        BY <1>3, <2>1 DEF SetRow, SetReturns, TypeOK, Cached
      <3> QED BY <3>1, <3>2
    <2>2. CASE /\ rows' = [rows EXCEPT ![key[w]] = mark[w]]
               /\ step' = [step EXCEPT ![w] = "stored"]
               /\ UNCHANGED <<mu, key, mark, cache, torrents, open, removing, removed, up>>
      <3>1. /\ \A k \in Key : k # key[w] => rows'[k] = rows[k]
            /\ key[w] \in Key /\ key[w][1] \in open /\ removing[key[w][1]] = "no"
        BY <1>3, <1>n, <2>2 DEF SetRow, TypeOK
      <3>2. Marking' /\ Tracked'
        BY <1>3, <2>2 DEF SetRow, TypeOK, Marking, Tracked
      <3>3. Cleared'
        BY <2>2, <3>1 DEF Cleared
      <3>4. \A v \in Hasher : step[v] = "stored" => v = w
        BY <1>3, <1>m DEF SetRow
      <3>5. Cached'
        BY <2>2, <3>1, <3>4 DEF TypeOK, Cached
      <3> QED BY <3>2, <3>3, <3>5
    <2> QED BY <1>3, <2>1, <2>2 DEF SetRow
  <1>4. CASE SetCache(w)
    <2>1. /\ cache'[key[w]] = mark[w] /\ rows[key[w]] = mark[w]
          /\ key[w] \in Key /\ key[w][1] \in open /\ open # {}
          /\ \A k \in Key : k # key[w] => cache'[k] = cache[k]
      BY <1>4, <1>n DEF SetCache, TypeOK, Stored
    <2>2. Marking' /\ Tracked'
      BY <1>4, <2>1 DEF SetCache, SetReturns, TypeOK, Marking, Tracked
    <2>3. Cleared'
      BY <1>4, <2>1 DEF SetCache, Cleared
    <2>4. \A v \in Hasher : step[v] = "stored" => v = w
      BY <1>4, <1>m DEF SetCache
    <2>5. Cached'
      BY <1>4, <2>1, <2>4 DEF SetCache, Cached
    <2> QED BY <2>2, <2>3, <2>5
  <1> QED BY <1>1, <1>2, <1>3, <1>4 DEF HasherStep

LEMMA TorrentQuiet ==
    ASSUME Quiet, QuietInv, NEW h \in Hash, TorrentStep(h)
    PROVE  (Marking /\ Tracked /\ Cleared /\ Cached)'
  <1> USE DEF Quiet, QuietInv, BackedInv
  <1>k. \A w \in Hasher : step[w] # "idle" => key[w][1] \in Hash /\ key[w] \in KeysOf(key[w][1])
    BY DEF Marking, Key, KeysOf
  <1>1. CASE ClientAdd(h)
    BY <1>1 DEF ClientAdd, hasherVars, TypeOK, Marking, Tracked, Cleared, Cached
  <1>2. CASE Create(h)
    BY <1>2 DEF Create, hasherVars, TypeOK, Marking, Tracked, Cleared, Cached
  <1>3. CASE Drop(h)
    <2>1. Marking'
      BY <1>3, <1>k DEF Drop, MayDrop, hasherVars, Marking
    <2>2. Tracked' /\ Cleared' /\ Cached'
      BY <1>3 DEF Drop, hasherVars, Tracked, Cleared, Cached
    <2> QED BY <2>1, <2>2
  <1>4. CASE RemoveDrop(h)
    <2>1. Marking'
      BY <1>4, <1>k DEF RemoveDrop, MayDrop, hasherVars, Marking
    <2>2. /\ \A g \in Hash : g # h => removing'[g] = removing[g]
          /\ removing'[h] = "dropped" /\ removing[h] = "no"
      BY <1>4 DEF RemoveDrop, TypeOK
    <2>3. Tracked' /\ Cleared' /\ Cached'
      BY <1>4, <2>2, HashOfKey DEF RemoveDrop, hasherVars, Tracked, Cleared, Cached, TypeOK
    <2> QED BY <2>1, <2>3
  <1>5. CASE RemoveDelete(h)
    <2>1. CASE UNCHANGED <<torrents, rows>> /\ removing' = [removing EXCEPT ![h] = "no"]
      <3>1. /\ \A g \in Hash : g # h => removing'[g] = removing[g]
            /\ removing'[h] = "no" /\ removing[h] = "dropped"
        BY <1>5, <2>1 DEF RemoveDelete, TypeOK
      <3>2. Marking' /\ Tracked'
        BY <1>5, <2>1, <3>1 DEF RemoveDelete, hasherVars, Marking, Tracked
      <3>3. Cleared' /\ Cached'
        BY <1>5, <2>1, <3>1, HashOfKey DEF RemoveDelete, hasherVars, Cleared, Cached, TypeOK
      <3> QED BY <3>2, <3>3
    <2>2. CASE /\ torrents' = torrents \ {h}
               /\ rows' = Without(rows, h) /\ removing' = [removing EXCEPT ![h] = "deleted"]
      <3>1. /\ \A g \in Hash : g # h => removing'[g] = removing[g]
            /\ removing'[h] = "deleted" /\ removing[h] = "dropped"
            /\ \A k \in Key : k[1] # h => rows'[k] = rows[k]
            /\ \A k \in Key : k[1] = h => rows'[k] = "unknown"
        BY <1>5, <2>2, WithoutType DEF RemoveDelete, TypeOK
      <3>2. Marking' /\ Tracked'
        BY <1>5, <3>1 DEF RemoveDelete, hasherVars, Marking, Tracked
      <3>3. Cleared'
        BY <1>5, <2>2, <3>1, HashOfKey DEF RemoveDelete, Cleared, TypeOK
      <3>4. Cached'
        BY <1>5, <2>2, <3>1, HashOfKey DEF RemoveDelete, hasherVars, Cached
      <3> QED BY <3>2, <3>3, <3>4
    <2> QED BY <1>5, <2>1, <2>2 DEF RemoveDelete
  <1>6. CASE Forget(h)
    <2>1. /\ \A g \in Hash : g # h => removing'[g] = removing[g]
          /\ removing'[h] = "no" /\ removing[h] = "deleted" /\ up /\ h \notin open
          /\ \A k \in Key : k[1] # h => cache'[k] = cache[k]
          /\ \A k \in Key : k[1] = h => cache'[k] = "unknown" /\ rows[k] = "unknown"
      BY <1>6, WithoutType DEF Forget, TypeOK, Tracked, Cleared
    <2>2. Marking' /\ Tracked'
      BY <1>6, <2>1 DEF Forget, hasherVars, Marking, Tracked
    <2>3. removed' = removed \cup {h} /\ h \notin torrents
      BY <1>6, <2>1 DEF Forget, Cleared
    <2>4. Cleared'
      BY <1>6, <2>1, <2>3, HashOfKey DEF Forget, Cleared, TypeOK
    <2>5. Cached'
      BY <1>6, <2>1, HashOfKey DEF Forget, hasherVars, Cached
    <2> QED BY <2>2, <2>4, <2>5
  <1> QED BY <1>1, <1>2, <1>3, <1>4, <1>5, <1>6 DEF TorrentStep

LEMMA QuietStep == ASSUME Quiet PROVE QuietInv /\ [Next]_vars => QuietInv'
  <1> SUFFICES ASSUME QuietInv, [Next]_vars PROVE QuietInv'
    OBVIOUS
  <1>0. BackedInv'
    BY BackedStep DEF QuietInv
  <1>1. ASSUME NEW w \in Hasher, HasherStep(w) PROVE QuietInv'
    BY <1>0, <1>1, HasherQuiet DEF QuietInv
  <1>2. ASSUME NEW h \in Hash, TorrentStep(h) PROVE QuietInv'
    BY <1>0, <1>2, TorrentQuiet DEF QuietInv
  <1>3. CASE Load
    BY <1>0, <1>3 DEF QuietInv, BackedInv, Load, hasherVars, TypeOK, Marking, Tracked, Cleared, Cached
  <1>4. CASE Crash
    <2>1. Marking' /\ Tracked' /\ Cached'
      BY <1>4 DEF Crash, Marking, Tracked, Cached
    <2>2. Cleared'
      BY <1>4, HashOfKey DEF QuietInv, BackedInv, Crash, Cleared, TypeOK
    <2> QED BY <1>0, <2>1, <2>2 DEF QuietInv
  <1>5. CASE UNCHANGED vars
    BY <1>0, <1>5 DEF QuietInv, vars, hasherVars, Marking, Tracked, Cleared, Cached
  <1> QED BY <1>1, <1>2, <1>3, <1>4, <1>5 DEF Next

LEMMA QuietHolds == ASSUME Quiet PROVE Spec => []QuietInv
  <1>1. Init => QuietInv
    BY BackedInit, HashOfKey DEF QuietInv, Init, Marking, Tracked, Cleared, Cached
  <1> QED BY <1>1, QuietStep, PTL DEF Spec

(* When no torrent is added or marked while it is removed, a torrent that  *)
(* was removed leaves nothing behind, in the table or in the cache,        *)
(* whatever statements fail and whenever the process dies: a Forget that   *)
(* failed or never came did not count as a removal.                        *)
THEOREM Fresh == ASSUME Quiet PROVE Spec => []StartsFresh
  <1>1. QuietInv => StartsFresh
    BY DEF QuietInv, BackedInv, TypeOK, Cleared, StartsFresh, KeysOf, Key
  <1> QED BY <1>1, QuietHolds, PTL

-----------------------------------------------------------------------------
(* The refinement of CompletionStore.                                      *)

LEMMA HasherRefines ==
    ASSUME QuietInv, NEW w \in Hasher, HasherStep(w)
    PROVE  [Store!Next]_Store!vars
  <1> USE DEF QuietInv, BackedInv
  <1> DEFINE setting == [v \in Hasher |-> [key |-> key[v], mark |-> mark[v]]]
  <1>n. step[w] # "idle" => key[w] \in Key /\ key[w] # Nil /\ up /\ setting[w] # Store!NoSet
    BY PieceAssumption DEF Marking, Tracked, Key, Store!NoSet
  <1>1. ASSUME NEW k \in Key, NEW m \in {"complete", "incomplete"}, MarkPiece(w, k, m)
        PROVE  Store!BeginSet(w, k, m)
    BY <1>1 DEF MarkPiece, Marking, TypeOK, Store!BeginSet, Store!NoSet
  <1>2. CASE SetLock(w)
    BY <1>2 DEF SetLock, Store!vars
  <1>3. CASE SetRow(w)
    <2>1. CASE SetReturns(w) /\ UNCHANGED <<rows, cache, removing, up>>
      <3>1. setting[w] # Store!NoSet /\ setting' = [setting EXCEPT ![w] = Store!NoSet]
        BY <1>3, <1>n, <2>1 DEF SetRow, SetReturns, TypeOK, Store!NoSet
      <3>2. Store!SetFails(w)
        BY <2>1, <3>1 DEF Store!SetFails
      <3> QED BY <3>2 DEF Store!Next
    <2>2. CASE UNCHANGED <<cache, key, mark, removing, up>>
      BY <1>3, <1>n, <2>2 DEF SetRow, Store!vars
    <2> QED BY <1>3, <2>1, <2>2 DEF SetRow
  <1>4. CASE SetCache(w)
    <2>1. Store!Set(w)
      BY <1>4, <1>n DEF SetCache, SetReturns, TypeOK, Store!Set, Store!NoSet
    <2> QED BY <2>1 DEF Store!Next
  <1> QED BY <1>1, <1>2, <1>3, <1>4 DEF HasherStep, Store!Next, Store!Key, Key

LEMMA TorrentRefines ==
    ASSUME QuietInv, NEW h \in Hash, TorrentStep(h)
    PROVE  [Store!Next]_Store!vars
  <1> USE DEF QuietInv, BackedInv
  <1>1. CASE UNCHANGED <<rows, cache, key, mark, removing, up>>
    BY <1>1 DEF Store!vars
  <1>2. CASE RemoveDrop(h)
    <2>1. Store!BeginForget(h)
      BY <1>2 DEF RemoveDrop, hasherVars, TypeOK, Store!BeginForget
    <2> QED BY <2>1 DEF Store!Next
  <1>3. CASE RemoveDelete(h)
    <2>1. CASE UNCHANGED rows /\ removing' = [removing EXCEPT ![h] = "no"]
      <3>1. Store!ForgetFails(h)
        BY <1>3, <2>1 DEF RemoveDelete, hasherVars, TypeOK, Store!ForgetFails
      <3> QED BY <3>1 DEF Store!Next
    <2>2. CASE removing' = [removing EXCEPT ![h] = "deleted"]
      <3>1. UNCHANGED {g \in Hash : removing[g] # "no"}
        BY <1>3, <2>2 DEF RemoveDelete, TypeOK
      <3>2. up /\ UNCHANGED <<cache, key, mark, up>>
        BY <1>3 DEF RemoveDelete, hasherVars, Tracked
      <3> QED BY <3>1, <3>2 DEF Store!vars
    <2> QED BY <1>3, <2>1, <2>2 DEF RemoveDelete
  <1>4. CASE Forget(h)
    <2>1. Store!Forget(h)
      BY <1>4 DEF Forget, Without, hasherVars, TypeOK, Tracked, Store!Forget, Store!Key, Store!KeysOf, Key, KeysOf
    <2> QED BY <2>1 DEF Store!Next
  <1> QED BY <1>1, <1>2, <1>3, <1>4 DEF TorrentStep, ClientAdd, Create, Drop, hasherVars

LEMMA CrashRefines ==
    ASSUME QuietInv, Crash
    PROVE  Store!Die
  <1> USE DEF QuietInv, BackedInv
  <1> DEFINE setting == [v \in Hasher |-> [key |-> key[v], mark |-> mark[v]]]
             forgetting == {g \in Hash : removing[g] # "no"}
  <1>0. up
    BY DEF Crash
  <1>1. ASSUME NEW k \in Key
        PROVE  rows[k] \in Store!Survivors(k)
    <2>1. CASE removing[k[1]] = "deleted"
      <3>1. k[1] \in forgetting /\ k \in KeysOf(k[1]) /\ rows[k] = "unknown"
        BY <2>1 DEF Key, KeysOf, Cleared
      <3> QED BY <3>1 DEF Store!Survivors, Store!KeysOf, KeysOf
    <2>2. ASSUME removing[k[1]] # "deleted", NEW w \in Hasher, step[w] = "stored", key[w] = k
          PROVE  rows[k] \in Store!Survivors(k)
      <3>1. rows[k] = setting[w].mark /\ setting[w].key = k
        BY <2>2 DEF Stored
      <3> QED BY <3>1 DEF Store!Survivors
    <2>3. CASE removing[k[1]] # "deleted" /\ \A w \in Hasher : step[w] = "stored" => key[w] # k
      BY <1>0, <2>3 DEF Cached, Store!Survivors
    <2> QED BY <2>1, <2>2, <2>3
  <1>2. rows \in [Key -> Completion] /\ rows' = rows /\ ~up'
    BY DEF Crash, TypeOK
  <1>3. setting' = [w \in Hasher |-> Store!NoSet] /\ forgetting' = {}
    BY DEF Crash, Store!NoSet
  <1> QED BY <1>1, <1>2, <1>3 DEF Store!Die, Store!Key, Store!Completion, Key, Completion

(* The table, the cache and the mutex implement a map that every call      *)
(* accesses in one step and that survives the process: the row written     *)
(* under the mutex is what a crash keeps, the write to the cache is where  *)
(* a Set takes effect, and a Set or a Forget that a crash interrupts has   *)
(* either happened or not.                                                 *)
THEOREM Atomic == ASSUME Quiet PROVE Spec => StoreIsAtomic
  <1>1. Init => Store!Init
    BY DEF Init, Store!Init, Store!NoSet, Store!Key, Key
  <1>2. QuietInv /\ [Next]_vars => [Store!Next]_Store!vars
    <2> SUFFICES ASSUME QuietInv, [Next]_vars PROVE [Store!Next]_Store!vars
      OBVIOUS
    <2>1. CASE Load
      BY <2>1 DEF Load, hasherVars, Store!vars
    <2>2. CASE Crash
      BY <2>2, CrashRefines DEF Store!Next
    <2>3. CASE UNCHANGED vars
      BY <2>3 DEF vars, hasherVars, Store!vars
    <2> QED BY <2>1, <2>2, <2>3, HasherRefines, TorrentRefines DEF Next
  <1> QED BY <1>1, <1>2, QuietHolds, PTL DEF Spec, StoreIsAtomic, Store!Spec
=============================================================================
