-------------------------- MODULE TorrentOrphanProofs --------------------------
(***************************************************************************)
(* Torrents that the engine tracks and no row shows, for any number of     *)
(* torrents, requests and pieces and with every failure.  Pauses and       *)
(* removals of a torrent overlap as they please; adds and resumes have     *)
(* their torrent to themselves.                                            *)
(***************************************************************************)
EXTENDS TorrentSerialProofs

(* A goroutine is where its operation can be, a restore runs in its        *)
(* torrent's own goroutine, and while the server is down there is none.    *)
Routed ==
    /\ \A p \in Proc :
        /\ Runs(op[p], pc[p])
        /\ pc[p] = "idle" => target[p] = Nil
        /\ op[p] = "restore" <=> op[p] # "none" /\ p \notin Req
        /\ op[p] = "restore" => p \in Hash
    /\ ~up => tracked = {} /\ \A p \in Proc : pc[p] = "idle"

(* Who may start a torrent has it to itself.                               *)
Starting == {"add", "resume", "restore"}

Solo ==
    \A p, q \in Proc :
        p # q /\ pc[p] # "idle" /\ op[p] \in Starting => target[q] # target[p]

(* What a goroutine knows at each call: it drops the torrent that the      *)
(* engine tracks or one that is gone; a removal past the drop finds it     *)
(* gone; an add can take back what it started; and whoever starts a        *)
(* torrent without creating a row has one.                                 *)
Knows(p) ==
    LET h == target[p] IN
    /\ pc[p] = "engine.drop" => handle[p] = "open" \/ h \notin tracked
    /\ pc[p] \in {"engine.erase", "remove.delete"} => h \notin tracked
    /\ op[p] = "add" /\ pc[p] \in EngineAddPC \ {"engine.clientAdd"} => handle[p] = "open"
    /\ op[p] # "add" /\ pc[p] = "engine.clientAdd" => Managed(h)
    /\ op[p] = "add" /\ pc[p] \in {"metadata.snapshot", "metadata.set"} => Managed(h)

OrphanInv ==
    /\ TypeInv
    /\ Routed
    /\ Solo
    /\ \A p \in Proc : Knows(p)

(* What a step of p on h does, as far as the invariant can tell.           *)
Effect(p, h) ==
    /\ up' = up
    /\ \A q \in Proc : q # p =>
        /\ pc'[q] = pc[q] /\ op'[q] = op[q] /\ target'[q] = target[q]
        /\ handle'[q] = handle[q] \/ (target[q] = h /\ h \notin tracked')
    /\ Moved(p)
    /\ \A g \in Hash : g # h => (g \in tracked' <=> g \in tracked) /\ table'[g] = table[g]
    /\ h \in tracked' => h \in tracked \/ pc[p] = "engine.clientAdd"
    /\ table'[h] = NoRow => table[h] = NoRow \/ pc[p] = "remove.delete"
    /\ pc'[p] = "engine.drop" => handle'[p] = "open"
    /\ pc'[p] \in {"engine.erase", "remove.delete"} => h \notin tracked'
    /\ op[p] = "add" /\ pc'[p] \in EngineAddPC => handle'[p] = "open"
    /\ pc'[p] = "engine.clientAdd" => table'[h] # NoRow /\ op[p] # "add"
    /\ op[p] = "add" /\ pc'[p] \in {"metadata.snapshot", "metadata.set"} => table'[h] # NoRow
    /\ op[p] = "add" /\ pc'[p] = "idle" =>
           pc[p] = "add.create" \/ h \notin tracked' \/ table'[h] # NoRow

LEMMA Moves ==
    ASSUME OrphanInv, NEW p \in Proc
    PROVE  /\ \A next : Goto(p, next) =>
                  /\ pc'[p] = next /\ op' = op /\ target' = target /\ up' = up
                  /\ \A q \in Proc : q # p => pc'[q] = pc[q]
           /\ Return(p) =>
                  /\ pc'[p] = "idle" /\ op'[p] = "none" /\ target'[p] = Nil /\ up' = up
                  /\ \A q \in Proc : q # p => /\ pc'[q] = pc[q] /\ op'[q] = op[q]
                                              /\ target'[q] = target[q]
  BY DEF OrphanInv, TypeInv, TypeOK, EngineTypeOK, Goto, Return

(* Dropping a torrent leaves it untracked, and closes only handles on it.  *)
LEMMA DropUntracks ==
    ASSUME OrphanInv, NEW p \in Proc, NEW h \in Hash, h = target[p], Drop(p),
           handle[p] = "open" \/ h \notin tracked
    PROVE  /\ h \notin tracked'
           /\ \A g \in Hash : g # h => (g \in tracked' <=> g \in tracked)
           /\ \A q \in Proc : q # p => handle'[q] = handle[q] \/ target[q] = h
  BY DEF OrphanInv, TypeInv, TypeOK, EngineTypeOK, Drop, clientVars

LEMMA EngineAddEffect ==
    ASSUME OrphanInv, NEW p \in Proc, NEW h \in Hash, h = target[p], EngineAdd(p)
    PROVE  Effect(p, h)
  <1> USE DEF EngineAddPC
  <1>0. /\ table' = table /\ handle \in [Proc -> HandleState]
        /\ Runs(op[p], pc[p]) /\ Knows(p)
    BY DEF OrphanInv, Routed, TypeInv, TypeOK, EngineTypeOK, EngineAdd, EngineClientAdd,
           EngineGotInfo, EngineQueueCheck, EngineCheckDone, EngineCheckAborted,
           EngineDropFailed, EngineDownloadAll
  <1>1. CASE EngineClientAdd(p)
    <2>1. /\ pc[p] = "engine.clientAdd" /\ Goto(p, "engine.gotInfo")
          /\ handle' = [handle EXCEPT ![p] = "open"] /\ tracked' = tracked \cup {h}
      BY <1>1 DEF EngineClientAdd, ClientAdd
    <2>2. Moved(p)
      BY <1>0, <2>1, Moves DEF Moved, Runs, EngineRemovePC
    <2> QED BY <1>0, <2>1, <2>2, Moves DEF Effect
  <1>2. CASE EngineGotInfo(p) \/ EngineQueueCheck(p) \/ EngineCheckDone(p) \/ EngineCheckAborted(p)
    <2>1. /\ pc[p] \in {"engine.gotInfo", "engine.queueCheck", "engine.awaitCheck"}
          /\ tracked' = tracked /\ handle' = handle
          /\ \E next \in {"engine.queueCheck", "engine.awaitCheck", "engine.dropFailed",
                          "engine.downloadAll"} : Goto(p, next)
      BY <1>2 DEF EngineGotInfo, EngineQueueCheck, EngineCheckDone, EngineCheckAborted,
                  QueueCheck, CheckPiece, engineRest, clientVars
    <2>2. Moved(p)
      BY <1>0, <2>1, Moves DEF Moved, Runs, EngineRemovePC
    <2>3. op[p] = "add" => handle[p] = "open"
      BY <1>0, <2>1 DEF Knows
    <2> QED BY <1>0, <2>1, <2>2, <2>3, Moves DEF Effect
  <1>3. CASE EngineDropFailed(p)
    <2>1. /\ pc[p] = "engine.dropFailed" /\ Drop(p)
          /\ \/ op[p] = "resume" /\ Goto(p, "resume.rollback")
             \/ op[p] # "resume" /\ Return(p)
      BY <1>3 DEF EngineDropFailed, AddFails
    <2>2. Moved(p)
      BY <1>0, <2>1, Moves DEF Moved, Runs, EngineRemovePC
    <2>3. /\ \A g \in Hash : g # h => (g \in tracked' <=> g \in tracked)
          /\ \A q \in Proc : q # p => handle'[q] = handle[q] \/ (target[q] = h /\ h \notin tracked')
          /\ h \in tracked' => h \in tracked
      BY <2>1 DEF Drop, clientVars, OrphanInv, TypeInv, TypeOK, EngineTypeOK
    <2>4. op[p] = "add" => h \notin tracked'
      BY <1>0, <2>1, DropUntracks DEF Knows
    <2> QED BY <1>0, <2>1, <2>2, <2>3, <2>4, Moves DEF Effect
  <1>4. CASE EngineDownloadAll(p)
    <2>1. /\ pc[p] = "engine.downloadAll" /\ Goto(p, Added(p))
          /\ tracked' = tracked /\ handle' = [handle EXCEPT ![p] = "nil"]
      BY <1>4 DEF EngineDownloadAll, DownloadAll
    <2>2. /\ pc'[p] \in {"add.create", "metadata.snapshot"}
          /\ op[p] = "add" => pc'[p] = "add.create"
          /\ op[p] # "add" => pc'[p] = "metadata.snapshot"
      BY <2>1, Moves DEF Added
    <2>3. Moved(p)
      BY <1>0, <2>1, <2>2, Moves DEF Moved, Runs, EngineRemovePC
    <2> QED BY <1>0, <2>1, <2>2, <2>3, Moves DEF Effect
  <1> QED BY <1>1, <1>2, <1>3, <1>4 DEF EngineAdd

LEMMA EngineRemoveEffect ==
    ASSUME OrphanInv, NEW p \in Proc, NEW h \in Hash, h = target[p], EngineRemove(p)
    PROVE  Effect(p, h)
  <1> USE DEF EngineRemovePC
  <1>0. /\ table' = table /\ handle \in [Proc -> HandleState]
        /\ Runs(op[p], pc[p]) /\ Knows(p) /\ pc[p] \in EngineRemovePC
    BY DEF OrphanInv, Routed, TypeInv, TypeOK, EngineTypeOK, EngineRemove, EngineFind,
           EngineDrop, EngineErase
  <1>o. op[p] \in {"pause", "remove"}
    BY <1>0 DEF Runs
  <1>r. /\ Removed(p) \in {"pause.setPaused", "remove.delete"}
        /\ op[p] = "pause" => Removed(p) = "pause.setPaused"
        /\ op[p] = "remove" => Removed(p) = "remove.delete"
    BY DEF Removed
  <1>1. CASE EngineFind(p)
    <2>0. /\ Goto(p, IF h \in tracked THEN "engine.drop" ELSE Removed(p))
          /\ tracked' = tracked
          /\ handle' = [handle EXCEPT ![p] = IF h \in tracked THEN "open" ELSE "nil"]
      BY <1>1, Zenon DEF EngineFind, Find, clientVars
    <2>1. /\ \A q \in Proc : q # p => handle'[q] = handle[q]
          /\ \/ h \in tracked /\ handle'[p] = "open" /\ Goto(p, "engine.drop")
             \/ h \notin tracked /\ Goto(p, Removed(p))
      BY <1>0, <2>0
    <2>2. Moved(p)
      BY <1>0, <1>o, <1>r, <2>1, Moves DEF Moved, Runs, EngineAddPC
    <2> QED BY <1>0, <1>o, <1>r, <2>0, <2>1, <2>2, Moves DEF Effect, EngineAddPC
  <1>2. CASE EngineDrop(p)
    <2>1. /\ pc[p] = "engine.drop" /\ Drop(p)
          /\ \E next \in {"engine.erase", Removed(p)} : Goto(p, next)
      BY <1>2 DEF EngineDrop
    <2>2. Moved(p)
      BY <1>0, <1>o, <1>r, <2>1, Moves DEF Moved, Runs, EngineAddPC
    <2>3. /\ h \notin tracked'
          /\ \A g \in Hash : g # h => (g \in tracked' <=> g \in tracked)
          /\ \A q \in Proc : q # p => handle'[q] = handle[q] \/ target[q] = h
      BY <1>0, <2>1, DropUntracks DEF Knows
    <2> QED BY <1>0, <1>o, <1>r, <2>1, <2>2, <2>3, Moves DEF Effect, EngineAddPC
  <1>3. CASE EngineErase(p)
    <2>1. /\ pc[p] = "engine.erase" /\ tracked' = tracked /\ handle' = handle
          /\ Return(p) \/ Goto(p, Removed(p))
      BY <1>3 DEF EngineErase, Erase, clientVars
    <2>2. Moved(p)
      BY <1>0, <1>o, <1>r, <2>1, Moves DEF Moved, Runs, EngineAddPC
    <2>3. h \notin tracked
      BY <1>0, <2>1 DEF Knows
    <2> QED BY <1>0, <1>o, <1>r, <2>1, <2>2, <2>3, Moves DEF Effect, EngineAddPC
  <1> QED BY <1>1, <1>2, <1>3 DEF EngineRemove

LEMMA ServiceEffect ==
    ASSUME OrphanInv, NEW p \in Proc, NEW h \in Hash, h = target[p],
           \/ AddCreate(p) \/ MetadataSnapshot(p) \/ MetadataSet(p)
           \/ Pause(p) \/ Resume(p) \/ Remove(p)
    PROVE  Effect(p, h)
  <1> USE DEF EngineAddPC, EngineRemovePC
  <1>0. /\ tracked' = tracked /\ handle' = handle
        /\ Runs(op[p], pc[p]) /\ Knows(p) /\ TypeInv
        /\ table \in [Hash -> Row \cup {NoRow}]
    BY DEF OrphanInv, Routed, TypeInv, TypeOK, RepositoryTypeOK, AddCreate, MetadataSnapshot,
           MetadataSet, Pause, PauseSnapshot, PauseSetBytes, PauseSetPaused,
           Resume, ResumeGet, ResumeSetPaused, ResumeRollback,
           Remove, RemoveGet, RemoveIsComplete, RemoveDelete, engineRest, clientVars
  <1>g. \A g \in Hash : g # h => table'[g] = table[g]
    BY <1>0, TableElsewhere
    DEF AddCreate, MetadataSnapshot, MetadataSet, Pause, PauseSnapshot, PauseSetBytes,
        PauseSetPaused, Resume, ResumeGet, ResumeSetPaused, ResumeRollback,
        Remove, RemoveGet, RemoveIsComplete, RemoveDelete
  (* Every statement but Delete leaves a row a row.                        *)
  <1>r. /\ table' = table => (table'[h] = NoRow <=> table[h] = NoRow)
        /\ \A m \in Magnet : Create(h, m) => table'[h] # NoRow
        /\ \A l \in {0, Length} : SetMetadata(h, l) => table'[h] # NoRow
        /\ \A b \in 0..Length : SetBytesCompleted(h, b) => table'[h] # NoRow
        /\ \A b \in BOOLEAN : SetPaused(h, b) => table'[h] # NoRow
    <2>1. \A m \in Magnet : [paused |-> FALSE, magnet |-> m, length |-> 0, bytes |-> 0] \in Row
      BY LengthAssumption DEF Row
    <2>2. table[h] # NoRow => /\ \A l \in {0, Length} : [table[h] EXCEPT !.length = l] \in Row
                              /\ \A b \in 0..Length : [table[h] EXCEPT !.bytes = b] \in Row
                              /\ \A b \in BOOLEAN : [table[h] EXCEPT !.paused = b] \in Row
      BY <1>0 DEF Row
    <2>3. \A m \in Magnet : Create(h, m) => table'[h] # NoRow
      BY <1>0, <2>1, NoRowAssumption DEF Create
    <2>4. \A l \in {0, Length} : SetMetadata(h, l) => table'[h] # NoRow
      BY <1>0, <2>2, NoRowAssumption DEF SetMetadata, Managed
    <2>5. \A b \in 0..Length : SetBytesCompleted(h, b) => table'[h] # NoRow
      BY <1>0, <2>2, NoRowAssumption DEF SetBytesCompleted, Managed
    <2>6. \A b \in BOOLEAN : SetPaused(h, b) => table'[h] # NoRow
      BY <1>0, <2>2, NoRowAssumption DEF SetPaused, Managed
    <2> QED BY <2>3, <2>4, <2>5, <2>6
  <1>f. /\ frame[p].snap.length \in {0, Length} /\ frame[p].snap.bytes \in 0..Length
        /\ (IF frame[p].source = "file" THEN "bare" ELSE frame[p].source) \in Magnet
    BY DEF OrphanInv, TypeInv, TypeOK, Frame, Magnet
  <1>k. ASSUME Moved(p), pc'[p] \notin {"engine.erase", "remove.delete", "engine.drop"},
               \A q \in Proc : q # p => pc'[q] = pc[q] /\ op'[q] = op[q] /\ target'[q] = target[q],
               up' = up,
               table'[h] = NoRow => table[h] = NoRow \/ pc[p] = "remove.delete",
               pc'[p] \in EngineAddPC => op[p] # "add" /\ table'[h] # NoRow,
               op[p] = "add" /\ pc'[p] \in {"metadata.snapshot", "metadata.set"} => table'[h] # NoRow,
               op[p] = "add" /\ pc'[p] = "idle" => pc[p] = "add.create" \/ table'[h] # NoRow
        PROVE  Effect(p, h)
    BY <1>0, <1>g, <1>k DEF Effect
  <1>a. op[p] = "add" /\ pc[p] \in {"metadata.snapshot", "metadata.set"} => table[h] # NoRow
    BY <1>0 DEF Knows, Managed
  <1> USE DEF Moved, Runs
  <1>1. CASE AddCreate(p)
    <2>1. /\ pc[p] = "add.create"
          /\ \/ table'[h] # NoRow /\ Goto(p, "metadata.snapshot")
             \/ table' = table /\ Return(p)
      BY <1>1, <1>f, <1>r DEF AddCreate
    <2> QED BY <1>0, <1>k, <2>1, Moves
  <1>2. CASE MetadataSnapshot(p)
    <2>1. /\ pc[p] = "metadata.snapshot" /\ table' = table
          /\ Goto(p, "metadata.set") \/ Return(p)
      BY <1>2, Zenon DEF MetadataSnapshot
    <2> QED BY <1>0, <1>a, <1>k, <2>1, Moves
  <1>3. CASE MetadataSet(p)
    <2>1. /\ pc[p] = "metadata.set" /\ Return(p)
          /\ table' = table \/ table'[h] # NoRow
      BY <1>3, <1>f, <1>r DEF MetadataSet
    <2> QED BY <1>0, <1>a, <1>k, <2>1, Moves
  <1>4. CASE PauseSnapshot(p)
    <2>1. /\ pc[p] = "pause.snapshot" /\ table' = table
          /\ Goto(p, "pause.setBytes") \/ Goto(p, "engine.find")
      BY <1>4, Zenon DEF PauseSnapshot
    <2> QED BY <1>0, <1>k, <2>1, Moves
  <1>5. CASE PauseSetBytes(p)
    <2>1. /\ pc[p] = "pause.setBytes" /\ Goto(p, "engine.find")
          /\ table' = table \/ table'[h] # NoRow
      BY <1>5, <1>f, <1>r DEF PauseSetBytes
    <2> QED BY <1>0, <1>k, <2>1, Moves
  <1>6. CASE PauseSetPaused(p) \/ ResumeRollback(p)
    <2>1. /\ pc[p] \in {"pause.setPaused", "resume.rollback"} /\ Return(p)
          /\ table' = table \/ table'[h] # NoRow
      BY <1>6, <1>r DEF PauseSetPaused, ResumeRollback
    <2> QED BY <1>0, <1>k, <2>1, Moves
  <1>7. CASE ResumeGet(p)
    <2>1. /\ pc[p] = "resume.get" /\ table' = table
          /\ Goto(p, "resume.setPaused") \/ Return(p)
      BY <1>7, Zenon DEF ResumeGet
    <2> QED BY <1>0, <1>k, <2>1, Moves
  <1>8. CASE ResumeSetPaused(p)
    <2>1. /\ pc[p] = "resume.setPaused"
          /\ \/ table'[h] # NoRow /\ Goto(p, "engine.clientAdd")
             \/ table' = table /\ Return(p)
      BY <1>8, <1>r DEF ResumeSetPaused
    <2> QED BY <1>0, <1>k, <2>1, Moves
  <1>9. CASE RemoveGet(p) \/ RemoveIsComplete(p)
    <2>1. /\ pc[p] \in {"remove.get", "remove.isComplete"} /\ table' = table
          /\ Goto(p, "remove.isComplete") \/ Goto(p, "engine.find") \/ Return(p)
      BY <1>9, Zenon DEF RemoveGet, RemoveIsComplete
    <2> QED BY <1>0, <1>k, <2>1, Moves
  <1>10. CASE RemoveDelete(p)
    <2>1. pc[p] = "remove.delete" /\ Return(p)
      BY <1>10 DEF RemoveDelete
    <2> QED BY <1>0, <1>k, <2>1, Moves
  <1> QED BY <1>1, <1>2, <1>3, <1>4, <1>5, <1>6, <1>7, <1>8, <1>9, <1>10 DEF Pause, Resume, Remove

(* No step of a goroutine orphans a torrent but a failing persist, and     *)
(* each keeps the invariant.                                               *)
Orphaned(h) == \E p \in Req : target[p] = h /\ pc[p] = "add.create"

LEMMA EffectKeeps ==
    ASSUME OrphanInv, TypeInv', NEW p \in Proc, pc[p] # "idle",
           NEW h \in Hash, h = target[p], Effect(p, h)
    PROVE  /\ OrphanInv'
           /\ \A g \in Hash : ~Orphan(g) /\ Orphan(g)' => Orphaned(g)
  <1>0. /\ up /\ Runs(op[p], pc[p]) /\ Knows(p)
        /\ op[p] \in Starting => \A q \in Proc : q # p => target[q] # h
    BY DEF OrphanInv, Routed, Solo
  <1>s. /\ pc[p] = "engine.clientAdd" => op[p] \in Starting
        /\ pc[p] = "remove.delete" => op[p] = "remove"
        /\ op[p] # "none" /\ (pc[p] = "add.create" => op[p] = "add")
    <2>1. op[p] = "none" => FALSE
      BY <1>0 DEF OrphanInv, TypeInv, TypeOK, Runs, PC, EngineAddPC, EngineRemovePC
    <2> QED BY <1>0, <2>1 DEF Runs, EngineAddPC, Starting
  <1>1. Routed'
    <2>1. ASSUME NEW q \in Proc
          PROVE  /\ Runs(op[q], pc[q])'
                 /\ pc'[q] = "idle" => target'[q] = Nil
                 /\ op'[q] = "restore" <=> op'[q] # "none" /\ q \notin Req
                 /\ op'[q] = "restore" => q \in Hash
      <3>1. CASE q = p
        BY <1>0, <1>s, <3>1 DEF Effect, Moved, OrphanInv, Routed, Runs, EngineAddPC, EngineRemovePC
      <3>2. CASE q # p
        BY <3>2 DEF Effect, OrphanInv, Routed, Runs
      <3> QED BY <3>1, <3>2
    <2> QED BY <1>0, <2>1 DEF Routed, Effect
  <1>2. Solo'
    <2> SUFFICES ASSUME NEW q \in Proc, NEW r \in Proc, q # r, pc'[q] # "idle", op'[q] \in Starting
                 PROVE  target'[r] # target'[q]
      BY DEF Solo
    <2>1. /\ pc[q] # "idle" /\ op[q] = op'[q] /\ target'[q] = target[q]
          /\ target'[q] \in Hash
      BY DEF Effect, Moved, TypeInv, Targeted
    <2>2. target'[r] \in {target[r], Nil}
      BY DEF Effect, Moved
    <2> QED BY <2>1, <2>2, NilAssumption DEF OrphanInv, Solo
  <1>3. ASSUME NEW q \in Proc PROVE Knows(q)'
    <2>1. CASE q = p
      BY <1>0, <2>1, NilAssumption DEF Effect, Moved, Knows, Managed, EngineAddPC
    <2>2. CASE q # p /\ target[q] # h
      <3>1. pc'[q] # "idle" => target[q] \in Hash
        BY <2>2 DEF Effect, OrphanInv, TypeInv, Targeted
      <3> QED BY <2>2, <3>1 DEF Effect, OrphanInv, Knows, Managed, EngineAddPC
    <2>3. CASE q # p /\ target[q] = h
      <3>1. Knows(q) /\ op[p] \notin Starting /\ (pc[q] # "idle" => op[q] \notin Starting)
        BY <1>0, <2>3 DEF OrphanInv, Solo
      <3>2. h \in tracked' => h \in tracked
        BY <1>s, <3>1 DEF Effect
      <3>3. /\ pc'[q] = pc[q] /\ op'[q] = op[q] /\ target'[q] = h
            /\ handle'[q] = handle[q] \/ h \notin tracked'
        BY <2>3 DEF Effect
      <3>4. pc[q] \in EngineAddPC \cup {"metadata.snapshot", "metadata.set"} => FALSE
        BY <3>1 DEF OrphanInv, Routed, Runs, Starting, EngineAddPC
      <3> QED BY <2>3, <3>1, <3>2, <3>3, <3>4 DEF Knows, EngineAddPC
    <2> QED BY <2>1, <2>2, <2>3
  <1>4. ASSUME NEW g \in Hash, ~Orphan(g), Orphan(g)' PROVE Orphaned(g)
    <2>1. CASE g # h
      <3>1. \A q \in Proc : target[q] = g => op[q] # "add"
        BY <1>4, <2>1 DEF Effect, Orphan
      <3> QED BY <1>4, <2>1, <3>1 DEF Effect, Orphan, Managed
    <2>2. CASE g = h
      <3>1. \A q \in Proc : q # p /\ target[q] = h => op[q] # "add"
        BY <1>4, <2>2 DEF Effect, Orphan
      <3>2. h \in tracked' /\ table'[h] = NoRow /\ (target'[p] = h => op'[p] # "add")
        BY <1>4, <2>2 DEF Orphan, Managed
      <3>3. CASE op[p] = "add"
        <4>1. pc'[p] = "idle"
          BY <3>2, <3>3 DEF Effect, Moved
        <4>2. pc[p] = "add.create"
          BY <3>2, <3>3, <4>1 DEF Effect
        <4>3. p \in Req
          BY <3>3 DEF OrphanInv, Routed
        <4> QED BY <2>2, <4>2, <4>3 DEF Orphaned
      <3>4. CASE op[p] # "add"
        <4>1. h \notin tracked \/ table[h] # NoRow
          BY <1>4, <2>2, <3>1, <3>4 DEF Orphan, Managed
        <4>2. CASE h \notin tracked
          <5>1. pc[p] = "engine.clientAdd" /\ table[h] # NoRow
            BY <1>0, <3>2, <3>4, <4>2 DEF Effect, Knows, Managed
          <5> QED BY <3>2, <5>1 DEF Effect
        <4>3. CASE h \in tracked /\ table[h] # NoRow
          <5>1. pc[p] = "remove.delete"
            BY <3>2, <4>3 DEF Effect
          <5> QED BY <1>0, <4>3, <5>1 DEF Knows
        <4> QED BY <4>1, <4>2, <4>3
      <3> QED BY <3>3, <3>4
    <2> QED BY <2>1, <2>2
  <1> QED BY <1>1, <1>2, <1>3, <1>4 DEF OrphanInv

(* A request that may start a torrent begins where nobody works on it, and *)
(* nobody joins it.                                                        *)
LEMMA RequestKeeps ==
    ASSUME OrphanInv, TypeInv', Overlap \subseteq {"pause", "remove"}, NEW p \in Req, Request(p)
    PROVE  /\ OrphanInv'
           /\ \A g \in Hash : ~Orphan(g) /\ Orphan(g)' => Orphaned(g)
  <1>0. p \in Proc
    BY DEF Proc
  <1>1. PICK h \in Hash, o \in Op, first \in PC : \E locals :
             /\ Begin(p, o, h, first, locals)
             /\ \/ o = "add" /\ first = "engine.clientAdd"
                \/ o = "pause" /\ first = "pause.snapshot"
                \/ o = "resume" /\ first = "resume.get"
                \/ o = "remove" /\ first = "remove.get"
    BY RequestBegins
  <1>2. /\ up /\ up' = up /\ pc[p] = "idle" /\ table' = table
        /\ tracked' = tracked /\ handle' = handle
        /\ \A q \in Proc : q \in Hash => pc[q] = "idle"
        /\ \A q \in Proc : target[q] = h => o \in {"pause", "remove"} /\ op[q] \in {"pause", "remove"}
    BY <1>1 DEF Begin, MayBegin, Serving, engineRest, clientVars
  <1>3. /\ pc'[p] = first /\ op'[p] = o /\ target'[p] = h
        /\ \A q \in Proc : q # p => /\ pc'[q] = pc[q] /\ op'[q] = op[q]
                                    /\ target'[q] = target[q]
    BY <1>0, <1>1 DEF Begin, OrphanInv, TypeInv, TypeOK, EngineTypeOK
  <1>4. Routed'
    BY <1>0, <1>1, <1>2, <1>3 DEF OrphanInv, Routed, Runs, EngineAddPC, EngineRemovePC
  <1>5. Solo'
    <2> SUFFICES ASSUME NEW q \in Proc, NEW r \in Proc, q # r, pc'[q] # "idle", op'[q] \in Starting
                 PROVE  target'[r] # target'[q]
      BY DEF Solo
    <2>1. CASE q = p \/ r = p
      BY <1>2, <1>3, <2>1 DEF Starting
    <2>2. CASE q # p /\ r # p
      BY <1>3, <2>2 DEF OrphanInv, Solo
    <2> QED BY <2>1, <2>2
  <1>6. \A q \in Proc : Knows(q)'
    BY <1>1, <1>2, <1>3 DEF OrphanInv, Knows, Managed, EngineAddPC
  <1>7. \A g \in Hash : Orphan(g)' => Orphan(g)
    <2>1. target[p] = Nil
      BY <1>0, <1>2 DEF OrphanInv, Routed
    <2> QED BY <1>2, <1>3, <2>1, NilAssumption DEF Orphan, Managed
  <1> QED BY <1>4, <1>5, <1>6, <1>7 DEF OrphanInv

LEMMA ServerKeeps ==
    ASSUME OrphanInv, TypeInv', Restore \/ Crash \/ Peers \/ \E p \in Req : Cancel(p)
    PROVE  /\ OrphanInv'
           /\ \A g \in Hash : ~Orphan(g) /\ Orphan(g)' => Orphaned(g)
  <1>1. CASE Restore
    <2> DEFINE rows == {h \in Hash : Unpaused(h)}
    <2>1. /\ ~up /\ up' /\ table' = table /\ tracked' = tracked
          /\ pc' = [p \in Proc |-> IF p \in rows THEN "engine.clientAdd" ELSE "idle"]
          /\ op' = [p \in Proc |-> IF p \in rows THEN "restore" ELSE "none"]
          /\ target' = [p \in Proc |-> IF p \in rows THEN p ELSE Nil]
      BY <1>1 DEF Restore, engineRest, clientVars
    <2>2. rows \subseteq Hash /\ \A h \in rows : table[h] # NoRow
      BY DEF Unpaused, Managed
    <2> HIDE DEF rows
    <2>3. tracked = {}
      BY <2>1 DEF OrphanInv, Routed
    <2>4. Routed'
      BY <2>1, <2>2, ReqAssumption DEF Routed, Runs, EngineAddPC, EngineRemovePC
    <2>5. Solo'
      BY <2>1, <2>2, NilAssumption DEF Solo
    <2>6. \A p \in Proc : Knows(p)'
      BY <2>1, <2>2 DEF Knows, Managed, EngineAddPC
    <2> QED BY <2>1, <2>3, <2>4, <2>5, <2>6 DEF OrphanInv, Orphan
  <1>2. CASE Crash
    <2>1. /\ tracked' = {} /\ ~up'
          /\ \A p \in Proc : pc'[p] = "idle" /\ op'[p] = "none" /\ target'[p] = Nil
      BY <1>2 DEF Crash, EngineStart
    <2>2. Routed' /\ Solo' /\ \A p \in Proc : Knows(p)'
      BY <2>1 DEF Routed, Solo, Knows, Runs, EngineAddPC, EngineRemovePC
    <2> QED BY <2>1, <2>2 DEF OrphanInv, Orphan
  <1>3. CASE Peers \/ \E p \in Req : Cancel(p)
    <2>1. UNCHANGED <<table, tracked, handle, target, up, pc, op>>
      BY <1>3 DEF Peers, MetadataArrives, PieceArrives, serviceVars, Cancel, engineVars, clientVars
    <2>2. Routed' /\ Solo' /\ \A p \in Proc : Knows(p)'
      BY <2>1 DEF OrphanInv, Routed, Solo, Knows, Runs, Managed
    <2> QED BY <2>1, <2>2 DEF OrphanInv, Orphan, Managed
  <1> QED BY <1>1, <1>2, <1>3

LEMMA OrphanStep ==
    ASSUME OrphanInv, Overlap \subseteq {"pause", "remove"}, [Next]_vars
    PROVE  /\ OrphanInv'
           /\ \A g \in Hash : ~Orphan(g) /\ Orphan(g)' => Orphaned(g)
  <1>1. TypeInv'
    BY TypeStep DEF OrphanInv
  <1>2. ASSUME NEW p \in Proc, Step(p)
        PROVE  /\ OrphanInv'
               /\ \A g \in Hash : ~Orphan(g) /\ Orphan(g)' => Orphaned(g)
    <2>1. pc[p] # "idle"
      BY <1>2, StepBusy
    <2>2. PICK h \in Hash : h = target[p]
      BY <2>1 DEF OrphanInv, TypeInv, Targeted
    <2>3. Effect(p, h)
      BY <1>2, <2>2, EngineAddEffect, EngineRemoveEffect, ServiceEffect DEF Step
    <2> QED BY <1>1, <2>1, <2>2, <2>3, EffectKeeps
  <1>3. CASE UNCHANGED vars
    <2>1. UNCHANGED <<table, tracked, handle, target, up, pc, op>>
      BY <1>3 DEF vars, engineVars, clientVars, serviceVars
    <2>2. Routed' /\ Solo' /\ \A p \in Proc : Knows(p)'
      BY <2>1 DEF OrphanInv, Routed, Solo, Knows, Runs, Managed
    <2> QED BY <1>1, <2>1, <2>2 DEF OrphanInv, Orphan, Managed
  <1> QED BY <1>1, <1>2, <1>3, RequestKeeps, ServerKeeps DEF Next

(* While adds and resumes of a torrent do not overlap other calls on it,   *)
(* nothing but the failing persist of an add leaves a torrent in the       *)
(* engine that no row shows: not the overlap of pauses and removals, not a *)
(* cancelled or failed call, not a crash.  A removal deletes the row only  *)
(* after the torrent is gone from the engine, whoever dropped it, and a    *)
(* failed engine.Add takes back what it started.                           *)
THEOREM OrphansReported ==
    ASSUME Overlap \subseteq {"pause", "remove"}
    PROVE  Spec => OrphansAreReported
  <1>1. Init => OrphanInv
    <2> SUFFICES ASSUME Init PROVE OrphanInv
      OBVIOUS
    <2>1. /\ tracked = {} /\ ~up
          /\ \A p \in Proc : pc[p] = "idle" /\ op[p] = "none" /\ target[p] = Nil
      BY DEF Init, EngineInit
    <2>2. Routed /\ Solo /\ \A p \in Proc : Knows(p)
      BY <2>1 DEF Routed, Solo, Knows, Runs, EngineAddPC, EngineRemovePC
    <2> QED BY <2>2, TypeInit DEF OrphanInv
  <1>2. OrphanInv /\ [Next]_vars => OrphanInv'
    BY OrphanStep
  <1>3. OrphanInv /\ [Next]_vars =>
            [\A h \in Hash : ~Orphan(h) /\ Orphan(h)'
                 => \E p \in Req : target[p] = h /\ pc[p] = "add.create"]_vars
    BY OrphanStep DEF Orphaned
  <1> QED BY <1>1, <1>2, <1>3, PTL DEF Spec, OrphansAreReported
=============================================================================
