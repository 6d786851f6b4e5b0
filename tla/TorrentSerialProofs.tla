-------------------------- MODULE TorrentSerialProofs --------------------------
(***************************************************************************)
(* Proofs about TorrentService when no two requests are about the same     *)
(* torrent at once (Overlap is empty), for any number of torrents,         *)
(* requests and pieces, and with the failures each theorem allows.         *)
(*                                                                         *)
(* A goroutine then has its torrent to itself, so the argument is local: a *)
(* step touches the goroutine and its torrent, and what it leaves behind   *)
(* is a fact about those two.                                              *)
(***************************************************************************)
EXTENDS TorrentServiceProofs

(* Which operation makes which call.                                       *)
Runs(o, call) ==
    /\ call = "idle" => o = "none"
    /\ call \in EngineAddPC \cup {"metadata.snapshot", "metadata.set"}
            => o \in {"add", "resume", "restore"}
    /\ call = "add.create" => o = "add"
    /\ call \in {"resume.get", "resume.setPaused", "resume.rollback"} => o = "resume"
    /\ call \in {"pause.snapshot", "pause.setBytes", "pause.setPaused"} => o = "pause"
    /\ call \in {"remove.get", "remove.isComplete", "remove.delete"} => o = "remove"
    /\ call \in EngineRemovePC => o \in {"pause", "remove"}

(* A goroutine is where its operation can be, and has its torrent to       *)
(* itself; while the server is down there is none.                         *)
Serial ==
    /\ \A p \in Proc : Runs(op[p], pc[p]) /\ (pc[p] = "idle" => target[p] = Nil)
    /\ \A p, q \in Proc : p # q /\ pc[p] # "idle" => target[q] # target[p]
    /\ ~up => tracked = {} /\ \A p \in Proc : pc[p] = "idle"

(* The goroutine holds the tracked torrent object.                         *)
Holding == {"engine.gotInfo", "engine.queueCheck", "engine.awaitCheck",
            "engine.downloadAll", "engine.dropFailed", "engine.drop"}

(* It has dropped its torrent, or found it untracked.                      *)
Gone == {"engine.erase", "pause.setPaused", "remove.delete", "resume.rollback"}

(* What a goroutine knows of its torrent at each call: it holds the object *)
(* until it drops it; the pieces below the one it verifies are checked;    *)
(* and a removal that must keep whole content will not get to erasing it.  *)
At(p) ==
    LET h == target[p] IN
    /\ pc[p] \in Holding => handle[p] = "open" /\ h \in tracked
    /\ pc[p] \in {"engine.queueCheck", "engine.awaitCheck", "engine.downloadAll"} => h \in info
    /\ pc[p] \in {"resume.get", "resume.setPaused", "engine.clientAdd", "engine.gotInfo"}
            => frame[p].piece = 1
    /\ pc[p] \in {"engine.queueCheck", "engine.awaitCheck"}
            => have[h] = disk[h] \/ have[h] >= frame[p].piece - 1
    /\ pc[p] = "engine.downloadAll" => have[h] = disk[h]
    /\ pc[p] \in Gone => h \notin tracked
    /\ pc[p] # "idle" /\ frame[p].asked = "keepwhole" =>
            /\ disk[h] = Length /\ op[p] = "remove"
            /\ pc[p] \in {"remove.get", "remove.isComplete"} => ~frame[p].deleteFiles
            /\ pc[p] \in {"engine.find", "engine.drop"}
                   => ~frame[p].deleteFiles \/ h \notin tracked
            /\ pc[p] # "engine.erase"

(* What is true of a torrent: the client believes in no more than is on    *)
(* disk, and in all of it unless a goroutine has yet to verify it.         *)
Unverified(h) ==
    \E p \in Proc : target[p] = h /\ pc[p] \in Holding \ {"engine.downloadAll", "engine.drop"}

Fine(h) ==
    /\ h \in info \cup downloading => h \in tracked
    /\ h \notin tracked => have[h] = 0
    /\ have[h] <= disk[h]
    /\ h \in tracked => (h \in info /\ have[h] = disk[h]) \/ Unverified(h)

SerialInv ==
    /\ TypeInv
    /\ Serial
    /\ ~leaked
    /\ \A p \in Proc : At(p)
    /\ \A h \in Hash : Fine(h)

-----------------------------------------------------------------------------
(* Locality.                                                               *)

(* A step of p leaves the other goroutines and torrents alone.             *)
Elsewhere(p) ==
    /\ up' = up
    /\ \A q \in Proc : q # p => /\ pc'[q] = pc[q] /\ op'[q] = op[q]
                                /\ target'[q] = target[q]
                                /\ frame'[q] = frame[q] /\ handle'[q] = handle[q]
    /\ \A g \in Hash : g # target[p] => /\ g \in tracked' <=> g \in tracked
                                        /\ g \in info' <=> g \in info
                                        /\ g \in downloading' <=> g \in downloading
                                        /\ have'[g] = have[g] /\ disk'[g] = disk[g]
                                        /\ table'[g] = table[g]

(* It ends the handler or goes on to another of its calls.                 *)
Moved(p) ==
    \/ pc'[p] = "idle" /\ op'[p] = "none" /\ target'[p] = Nil
    \/ /\ pc'[p] # "idle" /\ Runs(op[p], pc'[p])
       /\ op'[p] = op[p] /\ target'[p] = target[p]

LEMMA Exclusive ==
    ASSUME SerialInv, NEW p \in Proc, pc[p] # "idle"
    PROVE  /\ target[p] \in Hash
           /\ \A q \in Proc : q # p => target[q] # target[p]
           /\ up
           /\ At(p) /\ Fine(target[p]) /\ Runs(op[p], pc[p])
           /\ Unverified(target[p]) <=> pc[p] \in Holding \ {"engine.downloadAll", "engine.drop"}
  <1>1. /\ target[p] \in Hash
        /\ \A q \in Proc : q # p => target[q] # target[p]
    BY DEF SerialInv, TypeInv, Targeted, Serial
  <1>2. up
    BY DEF SerialInv, Serial
  <1> QED BY <1>1, <1>2 DEF SerialInv, Serial, Unverified

LEMMA KeepSerial ==
    ASSUME SerialInv, TypeInv', NEW p \in Proc, pc[p] # "idle", NEW h \in Hash, h = target[p],
           Elsewhere(p), Moved(p), ~leaked', At(p)', Fine(h)'
    PROVE  SerialInv'
  <1>0. /\ target[p] \in Hash
        /\ \A q \in Proc : q # p => target[q] # target[p]
        /\ up
    BY Exclusive
  <1>1. ASSUME NEW q \in Proc PROVE At(q)'
    <2>1. CASE q # p /\ pc[q] = "idle"
      BY <2>1 DEF Elsewhere, At, Holding, Gone
    <2>2. CASE q # p /\ pc[q] # "idle"
      <3>1. At(q) /\ target[q] \in Hash /\ target[q] # target[p]
        BY <1>0, <2>2 DEF SerialInv, TypeInv, Targeted
      <3> QED BY <2>2, <3>1 DEF Elsewhere, At
    <2> QED BY <2>1, <2>2
  <1>2. ASSUME NEW g \in Hash, g # h PROVE Fine(g)'
    <2>1. Fine(g)
      BY DEF SerialInv
    <2>2. Unverified(g) => Unverified(g)'
      BY <1>2 DEF Elsewhere, Unverified
    <2> QED BY <1>2, <2>1, <2>2 DEF Elsewhere, Fine
  <1>3. Serial'
    <2>1. \A q \in Proc : Runs(op[q], pc[q])' /\ (pc'[q] = "idle" => target'[q] = Nil)
      BY DEF SerialInv, Serial, Elsewhere, Moved, Runs, EngineAddPC, EngineRemovePC
    <2>2. ASSUME NEW q \in Proc, NEW r \in Proc, q # r, pc'[q] # "idle"
          PROVE  target'[r] # target'[q]
      <3>1. target'[q] \in Hash /\ pc[q] # "idle" /\ target'[q] = target[q]
        BY <2>2 DEF TypeInv, Targeted, Elsewhere, Moved
      <3>2. target'[r] \in {target[r], Nil}
        BY DEF Elsewhere, Moved
      <3> QED BY <2>2, <3>1, <3>2, NilAssumption DEF SerialInv, Serial
    <2> QED BY <1>0, <2>1, <2>2 DEF Serial, Elsewhere
  <1> QED BY <1>1, <1>2, <1>3 DEF SerialInv

LEMMA GotoEffect ==
    ASSUME SerialInv, NEW p \in Proc, NEW next, Goto(p, next)
    PROVE  /\ pc'[p] = next /\ op' = op /\ target' = target /\ up' = up
           /\ \A q \in Proc : q # p => pc'[q] = pc[q]
  BY DEF SerialInv, TypeInv, TypeOK, Goto

LEMMA ReturnEffect ==
    ASSUME SerialInv, NEW p \in Proc, Return(p)
    PROVE  /\ pc'[p] = "idle" /\ op'[p] = "none" /\ target'[p] = Nil /\ up' = up
           /\ \A q \in Proc : q # p => /\ pc'[q] = pc[q] /\ op'[q] = op[q]
                                       /\ target'[q] = target[q] /\ frame'[q] = frame[q]
           /\ At(p)'
  BY DEF SerialInv, TypeInv, TypeOK, EngineTypeOK, Return, At, Holding, Gone

(* The statements of the repository touch one row.                         *)
LEMMA TableElsewhere ==
    ASSUME TypeInv, NEW h \in Hash, NEW g \in Hash, g # h
    PROVE  /\ UNCHANGED table => table'[g] = table[g]
           /\ \A magnet : Create(h, magnet) => table'[g] = table[g]
           /\ Delete(h) => table'[g] = table[g]
           /\ \A length : SetMetadata(h, length) => table'[g] = table[g]
           /\ \A bytes : SetBytesCompleted(h, bytes) => table'[g] = table[g]
           /\ \A paused : SetPaused(h, paused) => table'[g] = table[g]
  BY DEF TypeInv, TypeOK, RepositoryTypeOK, Create, Delete, SetMetadata,
         SetBytesCompleted, SetPaused

(* A torrent that is its goroutine's alone is dropped under nobody else.   *)
LEMMA DropEffect ==
    ASSUME SerialInv, NEW p \in Proc, pc[p] # "idle", handle[p] = "open",
           NEW h \in Hash, h = target[p], Drop(p)
    PROVE  /\ \A q \in Proc : q # p => handle'[q] = handle[q]
           /\ \A g \in Hash : g # h => /\ g \in tracked' <=> g \in tracked
                                       /\ g \in info' <=> g \in info
                                       /\ g \in downloading' <=> g \in downloading
                                       /\ have'[g] = have[g]
           /\ disk' = disk /\ leaked' = leaked
           /\ h \notin tracked' /\ h \notin info' /\ h \notin downloading' /\ have'[h] = 0
  <1>1. \A q \in Proc : q # p => target[q] # h
    BY Exclusive
  <1> QED BY <1>1 DEF SerialInv, TypeInv, TypeOK, EngineTypeOK, Drop

LEMMA EngineAddSerial ==
    ASSUME SerialInv, TypeInv', NEW p \in Proc, EngineAdd(p)
    PROVE  SerialInv' /\ Elsewhere(p) /\ Moved(p)
  <1> USE DEF EngineAddPC, Holding, Gone
  <1>0. /\ pc[p] # "idle"
        /\ table' = table
    BY DEF EngineAdd, EngineClientAdd, EngineGotInfo, EngineQueueCheck, EngineCheckDone,
           EngineCheckAborted, EngineDropFailed, EngineDownloadAll
  <1>h. PICK h \in Hash : h = target[p]
    BY <1>0, Exclusive
  <1>x. /\ (\A q \in Proc : q # p => target[q] # h)
        /\ At(p) /\ Fine(h) /\ Runs(op[p], pc[p])
        /\ Unverified(h) <=> pc[p] \in Holding \ {"engine.downloadAll", "engine.drop"}
    BY <1>0, <1>h, Exclusive
  <1>t. /\ have \in [Hash -> 0..Length] /\ disk \in [Hash -> 0..Length]
        /\ handle \in [Proc -> HandleState] /\ frame \in [Proc -> Frame]
        /\ frame[p].piece \in 1..Length /\ frame[p].source \in Magnet \cup {"file"}
        /\ leaked = FALSE /\ Length \in Nat /\ Length > 0
    BY LengthAssumption DEF SerialInv, TypeInv, TypeOK, EngineTypeOK, Frame
  <1>v. pc'[p] \in Holding \ {"engine.downloadAll", "engine.drop"} /\ target'[p] = h
            => (\E q \in Proc : target'[q] = h /\ pc'[q] \in Holding \ {"engine.downloadAll", "engine.drop"})
    OBVIOUS
  <1>k. ASSUME Elsewhere(p), Moved(p), ~leaked', At(p)', Fine(h)'
        PROVE  SerialInv' /\ Elsewhere(p) /\ Moved(p)
    BY <1>0, <1>h, <1>k, KeepSerial
  <1>1. CASE EngineClientAdd(p)
    <2>1. /\ pc'[p] = "engine.gotInfo" /\ op' = op /\ target' = target /\ up' = up /\ frame' = frame
          /\ \A q \in Proc : q # p => pc'[q] = pc[q]
          /\ pc[p] = "engine.clientAdd"
      BY <1>1, GotoEffect DEF EngineClientAdd
    <2>2. /\ handle' = [handle EXCEPT ![p] = "open"]
          /\ tracked' = tracked \cup {h} /\ disk' = disk /\ leaked' = leaked
          /\ downloading' = downloading
          /\ \/ info' = info /\ have' = have
             \/ /\ info' = info \cup {h}
                /\ \E n \in 0..disk[h] : have' = [have EXCEPT ![h] = n]
      BY <1>h, <1>1 DEF EngineClientAdd, ClientAdd, InitialCompletion
    <2>3. Elsewhere(p)
      BY <1>h, <1>0, <1>t, <2>1, <2>2 DEF Elsewhere
    <2>4. Moved(p)
      BY <1>x, <2>1 DEF Moved, Runs, EngineRemovePC
    <2>5. At(p)'
      BY <1>h, <1>x, <1>t, <2>1, <2>2 DEF At
    <2>6. Fine(h)'
      BY <1>h, <1>x, <1>t, <1>v, <2>1, <2>2 DEF Fine, Unverified
    <2> QED BY <1>k, <1>t, <2>2, <2>3, <2>4, <2>5, <2>6
  <1>2. CASE EngineGotInfo(p) \/ EngineCheckAborted(p)
    <2> DEFINE next == pc'[p]
    <2>1. /\ op' = op /\ target' = target /\ up' = up /\ frame' = frame
          /\ \A q \in Proc : q # p => pc'[q] = pc[q]
          /\ pc[p] \in {"engine.gotInfo", "engine.awaitCheck"}
          /\ pc'[p] \in {"engine.queueCheck", "engine.dropFailed"}
          /\ pc'[p] = "engine.queueCheck" => h \in info /\ pc[p] = "engine.gotInfo"
      BY <1>h, <1>2, <1>x, GotoEffect DEF EngineGotInfo, EngineCheckAborted, GotInfo, At
    <2>2. UNCHANGED <<tracked, info, downloading, have, disk, handle, leaked>>
      BY <1>2 DEF EngineGotInfo, EngineCheckAborted, engineRest, clientVars
    <2>3. Elsewhere(p)
      BY <1>0, <2>1, <2>2 DEF Elsewhere
    <2>4. Moved(p)
      BY <1>x, <2>1 DEF Moved, Runs, EngineRemovePC
    <2>5. At(p)'
      BY <1>h, <1>x, <1>t, <2>1, <2>2 DEF At
    <2>6. Fine(h)'
      BY <1>h, <1>x, <1>t, <1>v, <2>1, <2>2 DEF Fine, Unverified
    <2> QED BY <1>k, <1>t, <2>2, <2>3, <2>4, <2>5, <2>6
  <1>3. CASE EngineQueueCheck(p)
    <2>0. handle[p] = "open" /\ pc[p] = "engine.queueCheck"
      BY <1>3, <1>x DEF EngineQueueCheck, At
    <2>1. /\ op' = op /\ target' = target /\ up' = up /\ frame' = frame
          /\ \A q \in Proc : q # p => pc'[q] = pc[q]
          /\ pc'[p] = "engine.awaitCheck"
      BY <1>3, <2>0, GotoEffect DEF EngineQueueCheck
    <2>2. UNCHANGED <<tracked, info, downloading, have, disk, handle>> /\ leaked' = FALSE
      BY <1>3, <2>0 DEF EngineQueueCheck, QueueCheck, clientVars
    <2>3. Elsewhere(p)
      BY <1>0, <2>1, <2>2 DEF Elsewhere
    <2>4. Moved(p)
      BY <1>x, <2>0, <2>1 DEF Moved, Runs, EngineRemovePC
    <2>5. At(p)'
      BY <1>h, <1>x, <1>t, <2>0, <2>1, <2>2 DEF At
    <2>6. Fine(h)'
      BY <1>h, <1>x, <1>t, <1>v, <2>1, <2>2 DEF Fine, Unverified
    <2> QED BY <1>k, <2>2, <2>3, <2>4, <2>5, <2>6
  <1>4. CASE EngineCheckDone(p)
    <2>0. handle[p] = "open" /\ pc[p] = "engine.awaitCheck"
      BY <1>4, <1>x DEF EngineCheckDone, At
    <2> DEFINE i == frame[p].piece
    <2>1. /\ op' = op /\ target' = target /\ up' = up
          /\ \A q \in Proc : q # p => pc'[q] = pc[q] /\ frame'[q] = frame[q]
          /\ \/ i = Length /\ pc'[p] = "engine.downloadAll" /\ frame' = frame
             \/ /\ i < Length /\ pc'[p] = "engine.queueCheck"
                /\ frame'[p].piece = i + 1 /\ frame'[p].asked = frame[p].asked
      BY <1>4, <1>t, GotoEffect DEF EngineCheckDone, Frame
    <2>2. UNCHANGED <<tracked, info, downloading, disk, handle, leaked>>
      BY <1>4 DEF EngineCheckDone, CheckPiece
    <2>3. /\ have'[h] = IF i <= disk[h] THEN IF have[h] < i THEN i ELSE have[h]
                                        ELSE IF have[h] < i THEN have[h] ELSE i - 1
          /\ \A g \in Hash : g # h => have'[g] = have[g]
      BY <1>h, <1>4, <1>t, <1>x, <2>0 DEF EngineCheckDone, CheckPiece
    <2>4. /\ have[h] <= disk[h] /\ (have[h] = disk[h] \/ have[h] >= i - 1)
          /\ i \in 1..Length /\ have[h] \in 0..Length /\ disk[h] \in 0..Length
      BY <1>h, <1>x, <1>t, <2>0 DEF At, Fine
    <2> HIDE DEF i
    <2>5. /\ have'[h] <= disk[h] /\ (have'[h] = disk[h] \/ have'[h] >= i)
          /\ i = Length => have'[h] = disk[h]
      BY <1>t, <2>3, <2>4
    <2>6. Elsewhere(p)
      BY <1>h, <1>0, <2>1, <2>2, <2>3 DEF Elsewhere
    <2>7. Moved(p)
      BY <1>x, <2>0, <2>1 DEF Moved, Runs, EngineRemovePC
    <2>8. At(p)'
      BY <1>h, <1>x, <1>t, <2>0, <2>1, <2>2, <2>4, <2>5 DEF At
    <2>9. Fine(h)'
      BY <1>h, <1>x, <1>t, <1>v, <2>0, <2>1, <2>2, <2>5 DEF Fine, At, Unverified
    <2> QED BY <1>k, <1>t, <2>2, <2>6, <2>7, <2>8, <2>9
  <1>5. CASE EngineDropFailed(p)
    <2>0. handle[p] = "open" /\ pc[p] = "engine.dropFailed"
      BY <1>5, <1>x DEF EngineDropFailed, At
    <2>1. /\ \A q \in Proc : q # p => handle'[q] = handle[q]
          /\ \A g \in Hash : g # h => /\ g \in tracked' <=> g \in tracked
                                      /\ g \in info' <=> g \in info
                                      /\ g \in downloading' <=> g \in downloading
                                      /\ have'[g] = have[g]
          /\ disk' = disk /\ leaked' = leaked
          /\ h \notin tracked' /\ h \notin info' /\ h \notin downloading' /\ have'[h] = 0
      BY <1>h, <1>5, <1>0, <1>x, <2>0, DropEffect DEF EngineDropFailed
    <2>2. Fine(h)'
      BY <1>t, <1>x, <2>1 DEF Fine
    <2>3. CASE Return(p)
      <3>1. Elsewhere(p) /\ Moved(p) /\ At(p)'
        BY <1>h, <1>0, <2>1, <2>3, ReturnEffect DEF Elsewhere, Moved
      <3> QED BY <1>k, <1>t, <2>1, <2>2, <3>1
    <2>4. CASE Goto(p, "resume.rollback") /\ UNCHANGED frame /\ op[p] = "resume"
      <3>1. /\ pc'[p] = "resume.rollback" /\ op' = op /\ target' = target /\ up' = up
            /\ \A q \in Proc : q # p => pc'[q] = pc[q]
        BY <2>4, GotoEffect
      <3>2. Elsewhere(p) /\ Moved(p)
        BY <1>h, <1>0, <2>1, <2>4, <3>1 DEF Elsewhere, Moved, Runs, EngineRemovePC
      <3>3. At(p)'
        BY <1>h, <1>x, <2>0, <2>1, <2>4, <3>1 DEF At
      <3> QED BY <1>k, <1>t, <2>1, <2>2, <3>2, <3>3
    <2> QED BY <1>5, <2>3, <2>4 DEF EngineDropFailed, AddFails
  <1>6. CASE EngineDownloadAll(p)
    <2>0. handle[p] = "open" /\ pc[p] = "engine.downloadAll"
      BY <1>6, <1>x DEF EngineDownloadAll, At
    <2>1. /\ op' = op /\ target' = target /\ up' = up /\ frame' = frame
          /\ \A q \in Proc : q # p => pc'[q] = pc[q]
          /\ \/ pc'[p] = "add.create" /\ op[p] = "add"
             \/ pc'[p] = "metadata.snapshot"
      BY <1>6, GotoEffect DEF EngineDownloadAll, Added
    <2>2. /\ UNCHANGED <<tracked, info, have, disk, leaked>>
          /\ downloading' = downloading \cup {h}
          /\ handle' = [handle EXCEPT ![p] = "nil"]
      BY <1>h, <1>6, <2>0 DEF EngineDownloadAll, DownloadAll
    <2>3. Elsewhere(p)
      BY <1>h, <1>0, <1>t, <2>1, <2>2 DEF Elsewhere
    <2>4. Moved(p)
      BY <1>x, <2>0, <2>1 DEF Moved, Runs, EngineRemovePC
    <2>5. At(p)'
      BY <1>h, <1>x, <1>t, <2>0, <2>1, <2>2 DEF At
    <2>6. Fine(h)'
      BY <1>h, <1>x, <1>t, <2>0, <2>1, <2>2 DEF Fine, At
    <2> QED BY <1>k, <1>t, <2>2, <2>3, <2>4, <2>5, <2>6
  <1> QED BY <1>1, <1>2, <1>3, <1>4, <1>5, <1>6 DEF EngineAdd

LEMMA EngineRemoveSerial ==
    ASSUME SerialInv, TypeInv', NEW p \in Proc, EngineRemove(p)
    PROVE  SerialInv' /\ Elsewhere(p) /\ Moved(p)
  <1> USE DEF EngineRemovePC, Holding, Gone
  <1>0. pc[p] # "idle" /\ table' = table
    BY DEF EngineRemove, EngineFind, EngineDrop, EngineErase
  <1>h. PICK h \in Hash : h = target[p]
    BY <1>0, Exclusive
  <1>x. /\ At(p) /\ Fine(h) /\ Runs(op[p], pc[p])
        /\ Unverified(h) <=> pc[p] \in Holding \ {"engine.downloadAll", "engine.drop"}
    BY <1>0, <1>h, Exclusive
  <1>t. /\ have \in [Hash -> 0..Length] /\ disk \in [Hash -> 0..Length]
        /\ handle \in [Proc -> HandleState] /\ frame \in [Proc -> Frame]
        /\ leaked = FALSE /\ Length \in Nat /\ Length > 0
    BY LengthAssumption DEF SerialInv, TypeInv, TypeOK, EngineTypeOK
  <1>k. ASSUME Elsewhere(p), Moved(p), ~leaked', At(p)', Fine(h)'
        PROVE  SerialInv' /\ Elsewhere(p) /\ Moved(p)
    BY <1>0, <1>h, <1>k, KeepSerial
  <1>1. CASE EngineFind(p)
    <2>0. pc[p] = "engine.find"
      BY <1>1 DEF EngineFind
    <2>1. /\ op' = op /\ target' = target /\ up' = up
          /\ \A q \in Proc : q # p => pc'[q] = pc[q] /\ frame'[q] = frame[q]
          /\ pc'[p] = IF h \in tracked THEN "engine.drop" ELSE Removed(p)
          /\ frame'[p].asked = frame[p].asked /\ frame'[p].deleteFiles = frame[p].deleteFiles
      BY <1>1, <1>h, <1>t, GotoEffect DEF EngineFind, Frame
    <2>2. /\ UNCHANGED <<tracked, info, downloading, have, disk, leaked>>
          /\ handle' = [handle EXCEPT ![p] = IF h \in tracked THEN "open" ELSE "nil"]
      BY <1>1, <1>h DEF EngineFind, Find, clientVars
    <2>3. Elsewhere(p)
      BY <1>0, <1>t, <2>1, <2>2 DEF Elsewhere
    <2>4. Moved(p)
      BY <1>x, <2>0, <2>1 DEF Moved, Runs, Removed, EngineAddPC
    <2>5. At(p)'
      BY <1>h, <1>x, <1>t, <2>0, <2>1, <2>2 DEF At, Removed
    <2>6. Fine(h)'
      BY <1>x, <1>t, <2>0, <2>2 DEF Fine
    <2> QED BY <1>k, <1>t, <2>2, <2>3, <2>4, <2>5, <2>6
  <1>2. CASE EngineDrop(p)
    <2>0. handle[p] = "open" /\ pc[p] = "engine.drop" /\ h \in tracked
      BY <1>2, <1>h, <1>x DEF EngineDrop, At
    <2>1. /\ op' = op /\ target' = target /\ up' = up /\ frame' = frame
          /\ \A q \in Proc : q # p => pc'[q] = pc[q]
          /\ pc'[p] = IF frame[p].deleteFiles /\ frame[p].path
                      THEN "engine.erase" ELSE Removed(p)
      BY <1>2, GotoEffect DEF EngineDrop
    <2>2. /\ \A q \in Proc : q # p => handle'[q] = handle[q]
          /\ \A g \in Hash : g # h => /\ g \in tracked' <=> g \in tracked
                                      /\ g \in info' <=> g \in info
                                      /\ g \in downloading' <=> g \in downloading
                                      /\ have'[g] = have[g]
          /\ disk' = disk /\ leaked' = leaked
          /\ h \notin tracked' /\ h \notin info' /\ h \notin downloading' /\ have'[h] = 0
      BY <1>h, <1>2, <1>0, <2>0, DropEffect DEF EngineDrop
    <2>3. Elsewhere(p)
      BY <1>0, <1>h, <2>1, <2>2 DEF Elsewhere
    <2>4. Moved(p)
      BY <1>x, <2>0, <2>1 DEF Moved, Runs, Removed, EngineAddPC
    <2>5. At(p)'
      BY <1>h, <1>x, <1>t, <2>0, <2>1, <2>2 DEF At, Removed
    <2>6. Fine(h)'
      BY <1>t, <2>2 DEF Fine
    <2> QED BY <1>k, <1>t, <2>2, <2>3, <2>4, <2>5, <2>6
  <1>3. CASE EngineErase(p)
    <2>0. pc[p] = "engine.erase" /\ h \notin tracked /\ have[h] = 0
      BY <1>3, <1>h, <1>x DEF EngineErase, At, Fine
    <2>1. /\ UNCHANGED <<tracked, info, downloading, have, handle, leaked>>
          /\ \E n \in 0..Length : disk' = [disk EXCEPT ![h] = n]
      BY <1>3, <1>h, <1>t DEF EngineErase, Erase, clientVars
    <2>2. Fine(h)'
      BY <1>t, <1>x, <2>0, <2>1 DEF Fine
    <2>3. CASE Return(p)
      <3>1. Elsewhere(p) /\ Moved(p) /\ At(p)'
        BY <1>0, <1>h, <1>t, <2>1, <2>3, ReturnEffect DEF Elsewhere, Moved
      <3> QED BY <1>k, <1>t, <2>1, <2>2, <3>1
    <2>4. CASE Goto(p, Removed(p)) /\ UNCHANGED frame
      <3>1. /\ pc'[p] = Removed(p) /\ op' = op /\ target' = target /\ up' = up
            /\ \A q \in Proc : q # p => pc'[q] = pc[q]
        BY <2>4, GotoEffect
      <3>2. Elsewhere(p)
        BY <1>0, <1>h, <1>t, <2>1, <2>4, <3>1 DEF Elsewhere
      <3>3. Moved(p)
        BY <1>x, <2>0, <3>1 DEF Moved, Runs, Removed, EngineAddPC
      <3>4. At(p)'
        BY <1>h, <1>x, <2>0, <2>1, <2>4, <3>1 DEF At, Removed
      <3> QED BY <1>k, <1>t, <2>1, <2>2, <3>2, <3>3, <3>4
    <2> QED BY <1>3, <2>3, <2>4 DEF EngineErase
  <1> QED BY <1>1, <1>2, <1>3 DEF EngineRemove

LEMMA ServiceStepSerial ==
    ASSUME SerialInv, TypeInv', NEW p \in Proc,
           \/ AddCreate(p) \/ MetadataSnapshot(p) \/ MetadataSet(p)
           \/ Pause(p) \/ Resume(p) \/ Remove(p)
    PROVE  SerialInv' /\ Elsewhere(p) /\ Moved(p)
  <1> USE DEF Holding, Gone
  <1>0. /\ pc[p] \in {"add.create", "metadata.snapshot", "metadata.set",
                      "pause.snapshot", "pause.setBytes", "pause.setPaused",
                      "resume.get", "resume.setPaused", "resume.rollback",
                      "remove.get", "remove.isComplete", "remove.delete"}
        /\ UNCHANGED engineRest
    BY DEF AddCreate, MetadataSnapshot, MetadataSet,
           Pause, PauseSnapshot, PauseSetBytes, PauseSetPaused,
           Resume, ResumeGet, ResumeSetPaused, ResumeRollback,
           Remove, RemoveGet, RemoveIsComplete, RemoveDelete
  <1>h. PICK h \in Hash : h = target[p]
    BY <1>0, Exclusive
  <1>x. /\ At(p) /\ Fine(h) /\ Runs(op[p], pc[p]) /\ ~Unverified(h)
    BY <1>0, <1>h, Exclusive
  <1>t. /\ have \in [Hash -> 0..Length] /\ disk \in [Hash -> 0..Length]
        /\ frame \in [Proc -> Frame]
        /\ leaked = FALSE /\ Length \in Nat /\ Length > 0
    BY LengthAssumption DEF SerialInv, TypeInv, TypeOK, EngineTypeOK
  <1>e. UNCHANGED <<tracked, info, downloading, have, disk, handle, leaked>>
    BY <1>0 DEF engineRest, clientVars
  <1>f. Fine(h)' /\ ~leaked'
    BY <1>e, <1>t, <1>x DEF Fine
  <1>g. \A g \in Hash : g # h => table'[g] = table[g]
    BY <1>h, TableElsewhere
    DEF SerialInv, AddCreate, MetadataSnapshot, MetadataSet,
        Pause, PauseSnapshot, PauseSetBytes, PauseSetPaused,
        Resume, ResumeGet, ResumeSetPaused, ResumeRollback,
        Remove, RemoveGet, RemoveIsComplete, RemoveDelete
  <1>k. ASSUME Elsewhere(p), Moved(p), At(p)'
        PROVE  SerialInv' /\ Elsewhere(p) /\ Moved(p)
    BY <1>0, <1>h, <1>f, <1>k, KeepSerial
  <1>r. ASSUME Return(p) PROVE SerialInv' /\ Elsewhere(p) /\ Moved(p)
    <2>1. Elsewhere(p) /\ Moved(p) /\ At(p)'
      BY <1>e, <1>g, <1>h, <1>r, ReturnEffect DEF Elsewhere, Moved
    <2> QED BY <1>k, <2>1
  <1>n. ASSUME NEW next \in {"metadata.snapshot", "metadata.set", "pause.setBytes", "engine.find",
                            "resume.setPaused", "engine.clientAdd", "remove.isComplete"},
               Goto(p, next), Runs(op[p], next),
               \A q \in Proc : q # p => frame'[q] = frame[q],
               frame'[p].asked = frame[p].asked,
               next \in {"resume.setPaused", "engine.clientAdd"} => frame'[p].piece = 1,
               frame[p].asked = "keepwhole" =>
                    /\ next = "remove.isComplete" => ~frame'[p].deleteFiles
                    /\ next = "engine.find" => ~frame'[p].deleteFiles \/ h \notin tracked
        PROVE  SerialInv' /\ Elsewhere(p) /\ Moved(p)
    <2>1. /\ pc'[p] = next /\ op' = op /\ target' = target /\ up' = up
          /\ \A q \in Proc : q # p => pc'[q] = pc[q]
      BY <1>n, GotoEffect
    <2>2. Elsewhere(p)
      BY <1>e, <1>g, <1>h, <1>n, <2>1 DEF Elsewhere
    <2>3. Moved(p)
      BY <1>n, <2>1 DEF Moved
    <2>4. At(p)'
      BY <1>0, <1>e, <1>h, <1>n, <1>x, <2>1 DEF At
    <2> QED BY <1>k, <2>2, <2>3, <2>4
  <1> USE DEF Runs, EngineAddPC, EngineRemovePC
  <1>1. CASE AddCreate(p)
    BY <1>1, <1>r, <1>n, <1>x DEF AddCreate
  <1>2. CASE MetadataSnapshot(p)
    BY <1>2, <1>r, <1>n, <1>x, <1>t DEF MetadataSnapshot, Frame
  <1>3. CASE MetadataSet(p) \/ PauseSetPaused(p) \/ ResumeRollback(p) \/ RemoveDelete(p)
    BY <1>3, <1>r DEF MetadataSet, PauseSetPaused, ResumeRollback, RemoveDelete
  <1>4. CASE PauseSnapshot(p)
    BY <1>4, <1>n, <1>x, <1>t DEF PauseSnapshot, At, Frame
  <1>5. CASE PauseSetBytes(p)
    BY <1>5, <1>n, <1>x DEF PauseSetBytes, At
  <1>6. CASE ResumeGet(p)
    BY <1>6, <1>r, <1>n, <1>x, <1>t DEF ResumeGet, At, Frame
  <1>7. CASE ResumeSetPaused(p)
    BY <1>7, <1>r, <1>n, <1>x, <1>t DEF ResumeSetPaused, At
  <1>8. CASE RemoveGet(p)
    BY <1>8, <1>r, <1>n, <1>x, <1>t DEF RemoveGet, At, Frame
  <1>9. CASE RemoveIsComplete(p)
    <2>1. PICK live \in Snapshot(h) :
              frame' = [frame EXCEPT ![p].deleteFiles = @ \/ ~IsComplete(p, live)]
      BY <1>9, <1>h DEF RemoveIsComplete
    <2>2. frame[p].asked = "keepwhole" => ~frame[p].deleteFiles /\ disk[h] = Length
      BY <1>9, <1>h, <1>x DEF RemoveIsComplete, At
    <2>3. h \in tracked => h \in info /\ have[h] = disk[h]
      BY <1>x DEF Fine
    <2>4. frame[p].asked = "keepwhole" /\ h \in tracked => live.length = Length /\ live.bytes = Length
      BY <1>t, <2>2, <2>3 DEF Snapshot
    <2>5. frame[p].asked = "keepwhole" /\ h \in tracked => IsComplete(p, live)
      BY <1>h, <1>t, <2>4 DEF IsComplete
    <2>6. /\ \A q \in Proc : q # p => frame'[q] = frame[q]
          /\ frame'[p].asked = frame[p].asked
          /\ frame'[p].deleteFiles = (frame[p].deleteFiles \/ ~IsComplete(p, live))
      BY <1>t, <2>1 DEF Frame
    <2> QED BY <1>9, <1>n, <1>x, <2>2, <2>5, <2>6 DEF RemoveIsComplete
  <1> QED BY <1>1, <1>2, <1>3, <1>4, <1>5, <1>6, <1>7, <1>8, <1>9 DEF Pause, Resume, Remove

LEMMA StepSerial ==
    ASSUME SerialInv, TypeInv', NEW p \in Proc, Step(p)
    PROVE  SerialInv' /\ Elsewhere(p) /\ Moved(p)
  BY EngineAddSerial, EngineRemoveSerial, ServiceStepSerial DEF Step

(* A request begins on a torrent that nobody works on.                     *)
LEMMA BeginSerial ==
    ASSUME SerialInv, TypeInv', Overlap = {}, NEW p \in Req, NEW o, NEW h \in Hash,
           NEW first \in {"engine.clientAdd", "pause.snapshot", "resume.get", "remove.get"},
           NEW locals, Begin(p, o, h, first, locals),
           Runs(o, first), locals.piece = 1,
           locals.asked = "keepwhole" => disk[h] = Length /\ o = "remove" /\ ~locals.deleteFiles
    PROVE  SerialInv'
  <1>0. p \in Proc
    BY DEF Proc
  <1>1. /\ up /\ pc[p] = "idle" /\ up' = up
        /\ \A q \in Proc : target[q] # h
    BY DEF Begin, MayBegin, Serving
  <1>2. /\ pc'[p] = first /\ op'[p] = o /\ target'[p] = h /\ frame'[p] = locals
        /\ \A q \in Proc : q # p => /\ pc'[q] = pc[q] /\ op'[q] = op[q]
                                    /\ target'[q] = target[q] /\ frame'[q] = frame[q]
        /\ UNCHANGED <<tracked, info, downloading, have, disk, handle, leaked>>
    BY <1>0 DEF Begin, SerialInv, TypeInv, TypeOK, EngineTypeOK, engineRest, clientVars
  <1>3. Serial'
    <2>1. \A q \in Proc : Runs(op[q], pc[q])' /\ (pc'[q] = "idle" => target'[q] = Nil)
      BY <1>2 DEF SerialInv, Serial, Runs
    <2>2. \A q, r \in Proc : q # r /\ pc'[q] # "idle" => target'[r] # target'[q]
      BY <1>1, <1>2 DEF SerialInv, Serial
    <2> QED BY <1>1, <2>1, <2>2 DEF Serial
  <1>4. ASSUME NEW q \in Proc PROVE At(q)'
    <2>1. CASE q = p
      BY <1>2, <2>1 DEF At, Holding, Gone
    <2>2. CASE q # p
      BY <1>2, <2>2 DEF SerialInv, At
    <2> QED BY <2>1, <2>2
  <1>5. ASSUME NEW g \in Hash PROVE Fine(g)'
    <2>1. Unverified(g) => Unverified(g)'
      BY <1>1, <1>2 DEF Unverified, Holding
    <2> QED BY <1>2, <2>1 DEF SerialInv, Fine
  <1> QED BY <1>2, <1>3, <1>4, <1>5 DEF SerialInv

LEMMA RequestSerial ==
    ASSUME SerialInv, TypeInv', Overlap = {}, NEW p \in Req, Request(p)
    PROVE  SerialInv'
  <1> USE DEF Runs, EngineAddPC, EngineRemovePC, EmptyFrame
  <1>2. PICK h \in Hash :
            \/ \E source \in Magnet \cup {"file"} : AddRequest(p, h, source)
            \/ PauseRequest(p, h)
            \/ ResumeRequest(p, h)
            \/ \E deleteFiles \in BOOLEAN : RemoveRequest(p, h, deleteFiles)
    BY DEF Request
  <1>3. ASSUME NEW source, AddRequest(p, h, source) PROVE SerialInv'
    <2> DEFINE locals == [EmptyFrame EXCEPT !.source = source]
    <2>1. locals.piece = 1 /\ locals.asked = "none"
      OBVIOUS
    <2>2. Begin(p, "add", h, "engine.clientAdd", locals)
      BY <1>3 DEF AddRequest
    <2> HIDE DEF locals
    <2> QED BY <2>1, <2>2, BeginSerial
  <1>4. CASE PauseRequest(p, h)
    BY <1>4, BeginSerial DEF PauseRequest
  <1>5. CASE ResumeRequest(p, h)
    BY <1>5, BeginSerial DEF ResumeRequest
  <1>6. ASSUME NEW deleteFiles \in BOOLEAN, RemoveRequest(p, h, deleteFiles) PROVE SerialInv'
    <2> DEFINE asked == CASE deleteFiles -> "delete"
                          [] ~deleteFiles /\ disk[h] = Length -> "keepwhole"
                          [] ~deleteFiles /\ disk[h] < Length -> "keep"
               locals == [EmptyFrame EXCEPT !.deleteFiles = deleteFiles, !.asked = asked]
    <2>0. disk[h] \in 0..Length /\ Length \in Nat
      BY LengthAssumption DEF SerialInv, TypeInv, TypeOK, EngineTypeOK
    <2>1. asked = "keepwhole" => disk[h] = Length /\ ~deleteFiles
      BY <2>0
    <2>2. /\ locals.piece = 1 /\ locals.asked = asked /\ locals.deleteFiles = deleteFiles
      OBVIOUS
    <2>3. Begin(p, "remove", h, "remove.get", locals)
      BY <1>6 DEF RemoveRequest
    <2> HIDE DEF asked, locals
    <2> QED BY <2>1, <2>2, <2>3, BeginSerial
  <1> QED BY <1>2, <1>3, <1>4, <1>5, <1>6

(* What peers bring to h concerns h and whoever works on it.               *)
LEMMA PeersElsewhere ==
    ASSUME SerialInv, TypeInv', Serial', NEW h \in Hash,
           UNCHANGED <<up, pc, op, target, frame, tracked, downloading, handle, leaked>>,
           \A g \in Hash : g # h => /\ have'[g] = have[g] /\ disk'[g] = disk[g]
                                    /\ g \in info' <=> g \in info,
           Fine(h)', \A q \in Proc : target[q] = h => At(q)'
    PROVE  SerialInv'
  <1>1. ASSUME NEW q \in Proc, target[q] # h PROVE At(q)'
    <2>1. CASE pc[q] = "idle"
      BY <2>1 DEF At, Holding, Gone
    <2>2. CASE pc[q] # "idle"
      <3>1. At(q) /\ target[q] \in Hash
        BY <2>2 DEF SerialInv, TypeInv, Targeted
      <3> QED BY <1>1, <3>1 DEF At
    <2> QED BY <2>1, <2>2
  <1>2. ASSUME NEW g \in Hash, g # h PROVE Fine(g)'
    <2>1. Fine(g)
      BY DEF SerialInv
    <2>2. Unverified(g)' <=> Unverified(g)
      BY DEF Unverified
    <2> QED BY <1>2, <2>1, <2>2 DEF Fine
  <1> QED BY <1>1, <1>2 DEF SerialInv

LEMMA SameSerial ==
    ASSUME SerialInv, TypeInv',
           UNCHANGED <<up, pc, op, target, frame, tracked, info, downloading, have, disk,
                       handle, leaked>>
    PROVE  SerialInv'
  BY DEF SerialInv, Serial, Runs, At, Fine, Unverified

LEMMA ServerSerial ==
    ASSUME SerialInv, TypeInv', Restore \/ Crash \/ Peers \/ \E p \in Req : Cancel(p)
    PROVE  SerialInv'
  <1> USE DEF Holding, Gone
  <1>t. /\ have \in [Hash -> 0..Length] /\ disk \in [Hash -> 0..Length]
        /\ Length \in Nat /\ Length > 0
    BY LengthAssumption DEF SerialInv, TypeInv, TypeOK, EngineTypeOK
  <1>1. CASE Restore
    <2> DEFINE rows == {h \in Hash : Unpaused(h)}
    <2>0. rows \subseteq Hash
      OBVIOUS
    <2>1. /\ ~up /\ up'
          /\ pc' = [p \in Proc |-> IF p \in rows THEN "engine.clientAdd" ELSE "idle"]
          /\ op' = [p \in Proc |-> IF p \in rows THEN "restore" ELSE "none"]
          /\ target' = [p \in Proc |-> IF p \in rows THEN p ELSE Nil]
          /\ \A p \in Proc : frame'[p].piece = 1 /\ frame'[p].asked = "none"
          /\ UNCHANGED <<tracked, info, downloading, have, disk, handle, leaked>>
      BY <1>1 DEF Restore, engineRest, clientVars, EmptyFrame
    <2> HIDE DEF rows
    <2>2. tracked = {} /\ \A p \in Proc : pc[p] = "idle"
      BY <2>1 DEF SerialInv, Serial
    <2>3. Serial'
      BY <2>0, <2>1, NilAssumption DEF Serial, Runs, EngineAddPC, EngineRemovePC
    <2>4. \A p \in Proc : At(p)'
      BY <2>1 DEF At
    <2>5. \A h \in Hash : Fine(h)'
      BY <2>1, <2>2 DEF SerialInv, Fine
    <2> QED BY <2>1, <2>3, <2>4, <2>5 DEF SerialInv
  <1>2. CASE Crash
    <2>1. /\ tracked' = {} /\ info' = {} /\ downloading' = {} /\ leaked' = FALSE
          /\ have' = [h \in Hash |-> 0] /\ disk' = disk
          /\ \A p \in Proc : pc'[p] = "idle" /\ op'[p] = "none" /\ target'[p] = Nil
      BY <1>2 DEF Crash, EngineStart
    <2>2. Serial' /\ \A p \in Proc : At(p)'
      BY <2>1 DEF Serial, Runs, At, EngineAddPC, EngineRemovePC
    <2>3. \A h \in Hash : Fine(h)'
      BY <1>t, <2>1 DEF Fine
    <2> QED BY <2>1, <2>2, <2>3 DEF SerialInv
  <1>3. CASE Peers
    <2>1. PICK h \in Hash : (MetadataArrives(h) \/ PieceArrives(h)) /\ UNCHANGED <<table, serviceVars>>
      BY <1>3 DEF Peers
    <2>2. /\ UNCHANGED <<up, pc, op, target, frame, tracked, downloading, handle, leaked>>
      BY <2>1 DEF MetadataArrives, PieceArrives, serviceVars
    <2>3. \A g \in Hash : g # h => /\ have'[g] = have[g] /\ disk'[g] = disk[g]
                                   /\ g \in info' <=> g \in info
      BY <1>t, <2>1 DEF MetadataArrives, PieceArrives
    <2>4. Serial'
      BY <2>2 DEF SerialInv, Serial, Runs
    <2>5. \A g \in Hash : Unverified(g)' <=> Unverified(g)
      BY <2>2 DEF Unverified
    <2>6. h \in tracked /\ Fine(h)
      BY <2>1 DEF SerialInv, Fine, MetadataArrives, PieceArrives
    <2>7. CASE MetadataArrives(h)
      <3>1. /\ h \notin info /\ info' = info \cup {h} /\ disk' = disk
            /\ have'[h] \in 0..disk[h]
        BY <1>t, <2>7 DEF MetadataArrives, InitialCompletion
      <3>2. Fine(h)'
        BY <1>t, <2>2, <2>5, <2>6, <3>1 DEF Fine
      <3>3. ASSUME NEW q \in Proc, target[q] = h PROVE At(q)'
        BY <2>2, <3>1, <3>3 DEF SerialInv, At
      <3> QED BY <2>2, <2>3, <2>4, <2>5, <3>1, <3>2, <3>3, PeersElsewhere
    <2>8. CASE PieceArrives(h)
      <3>1. /\ info' = info /\ have[h] < Length /\ have'[h] = have[h] + 1
            /\ disk'[h] = IF disk[h] < Length THEN disk[h] + 1 ELSE disk[h]
        BY <1>t, <2>8 DEF PieceArrives
      <3>2. Fine(h)'
        BY <1>t, <2>2, <2>5, <2>6, <3>1 DEF Fine
      <3>3. ASSUME NEW q \in Proc, target[q] = h PROVE At(q)'
        <4>1. frame[q].piece \in 1..Length
          BY DEF SerialInv, TypeInv, TypeOK, Frame
        <4> QED BY <1>t, <2>2, <3>1, <3>3, <4>1 DEF SerialInv, At
      <3> QED BY <2>2, <2>3, <2>4, <2>5, <3>1, <3>2, <3>3, PeersElsewhere
    <2> QED BY <2>1, <2>7, <2>8
  <1>4. ASSUME NEW p \in Req, Cancel(p) PROVE SerialInv'
    <2>1. UNCHANGED <<up, pc, op, target, frame, tracked, info, downloading, have, disk, handle, leaked>>
      BY <1>4 DEF Cancel, engineVars, clientVars
    <2> QED BY <2>1, SameSerial
  <1> QED BY <1>1, <1>2, <1>3, <1>4

LEMMA SerialStep == ASSUME Overlap = {} PROVE SerialInv /\ [Next]_vars => SerialInv'
  <1> SUFFICES ASSUME SerialInv, [Next]_vars PROVE SerialInv'
    OBVIOUS
  <1>1. TypeInv'
    BY TypeStep DEF SerialInv
  <1>2. CASE UNCHANGED vars
    BY <1>1, <1>2, SameSerial DEF vars, engineVars, clientVars, serviceVars
  <1> QED BY <1>1, <1>2, StepSerial, RequestSerial, ServerSerial DEF Next

LEMMA SerialHolds == ASSUME Overlap = {} PROVE Spec => []SerialInv
  <1>1. Init => SerialInv
    <2> SUFFICES ASSUME Init PROVE SerialInv
      OBVIOUS
    <2>1. Serial /\ ~leaked /\ \A p \in Proc : At(p)
      BY DEF Init, EngineInit, Serial, Runs, At, EngineAddPC, EngineRemovePC, Holding, Gone
    <2>2. \A h \in Hash : Fine(h)
      <3> SUFFICES ASSUME NEW h \in Hash PROVE Fine(h)
        OBVIOUS
      <3>1. tracked = {} /\ info = {} /\ downloading = {} /\ have[h] = 0 /\ disk[h] = 0
        BY DEF Init, EngineInit
      <3> QED BY <3>1 DEF Fine
    <2> QED BY <2>1, <2>2, TypeInit DEF SerialInv
  <1>2. SerialInv /\ [Next]_vars => SerialInv'
    BY SerialStep
  <1> QED BY <1>1, <1>2, PTL DEF Spec

(* The client never believes in content that was erased, whatever fails    *)
(* between Drop and RemoveAll and however much of it RemoveAll left: every *)
(* call that erases comes after the object is gone.                        *)
THEOREM HaveOnDisk == ASSUME Overlap = {} PROVE Spec => []HaveIsOnDisk
  <1>1. SerialInv => HaveIsOnDisk
    BY DEF SerialInv, Fine, HaveIsOnDisk
  <1> QED BY <1>1, SerialHolds, PTL

(* A removal asked to keep whole content never erases it.  The live        *)
(* snapshot decides while the torrent is tracked, and it is right because  *)
(* engine.Add verified every piece before it returned; when the torrent is *)
(* not tracked, a row that says too little is harmless, as engine.Remove   *)
(* then finds nothing to erase.                                            *)
THEOREM KeepRespected == ASSUME Overlap = {} PROVE Spec => []KeepIsRespected
  <1>1. SerialInv => KeepIsRespected
    BY DEF SerialInv, At, KeepIsRespected, Proc
  <1> QED BY <1>1, SerialHolds, PTL

-----------------------------------------------------------------------------
(* The rows.                                                               *)

(* What a step of the service does to the row of its torrent.              *)
LEMMA ServiceRows ==
    ASSUME SerialInv, NEW p \in Proc, NEW h \in Hash, h = target[p],
           \/ AddCreate(p) \/ MetadataSnapshot(p) \/ MetadataSet(p)
           \/ Pause(p) \/ Resume(p) \/ Remove(p)
    PROVE  /\ pc[p] \notin EngineAddPC \cup EngineRemovePC \cup {"idle"}
           /\ tracked' = tracked /\ disk' = disk
           /\ \/ table'[h] = table[h]
              \/ /\ pc[p] = "add.create" /\ table'[h] # NoRow
                 /\ ~table'[h].paused /\ table'[h].bytes = 0 /\ ~Managed(h)
              \/ pc[p] = "remove.delete" /\ table'[h] = NoRow
              \/ /\ Managed(h) /\ table'[h] # NoRow
                 /\ \/ /\ pc[p] = "metadata.set"
                       /\ table'[h].paused = table[h].paused /\ table'[h].bytes = table[h].bytes
                    \/ /\ pc[p] = "pause.setBytes"
                       /\ table'[h].paused = table[h].paused
                       /\ table'[h].bytes = frame[p].snap.bytes
                    \/ /\ pc[p] \in {"pause.setPaused", "resume.rollback"}
                       /\ table'[h].bytes = table[h].bytes
                    \/ /\ pc[p] = "resume.setPaused"
                       /\ ~table'[h].paused /\ table'[h].bytes = table[h].bytes
           /\ pc'[p] \in EngineAddPC =>
                 pc[p] = "resume.setPaused" /\ table'[h] # NoRow /\ ~table'[h].paused
           /\ pc'[p] \notin {"add.create", "engine.erase"}
           /\ pc'[p] = "pause.setBytes" => PauseSnapshot(p)
           /\ pc[p] = "remove.delete" => RemoveDelete(p)
  <1> USE DEF EngineAddPC, EngineRemovePC
  <1>t. table \in [Hash -> Row \cup {NoRow}]
    BY DEF SerialInv, TypeInv, TypeOK, RepositoryTypeOK
  <1>r. Managed(h) => /\ table[h] \in Row
                      /\ \A l \in {0, Length} : [table[h] EXCEPT !.length = l] \in Row
                      /\ \A b \in 0..Length : [table[h] EXCEPT !.bytes = b] \in Row
                      /\ \A b \in BOOLEAN : [table[h] EXCEPT !.paused = b] \in Row
    BY <1>t DEF Managed, Row
  <1>f. frame[p].snap \in [length : {0, Length}, bytes : 0..Length]
    BY DEF SerialInv, TypeInv, TypeOK, Frame
  <1>e. tracked' = tracked /\ disk' = disk
    BY DEF AddCreate, MetadataSnapshot, MetadataSet,
           Pause, PauseSnapshot, PauseSetBytes, PauseSetPaused,
           Resume, ResumeGet, ResumeSetPaused, ResumeRollback,
           Remove, RemoveGet, RemoveIsComplete, RemoveDelete, engineRest, clientVars
  <1>p. /\ \A next : Goto(p, next) => pc'[p] = next
        /\ Return(p) => pc'[p] = "idle"
    BY GotoEffect, ReturnEffect
  <1>1. CASE AddCreate(p)
    <2>1. ASSUME NEW magnet \in Magnet, Create(h, magnet)
          PROVE  /\ table'[h] # NoRow /\ ~table'[h].paused /\ table'[h].bytes = 0 /\ ~Managed(h)
      <3>1. [paused |-> FALSE, magnet |-> magnet, length |-> 0, bytes |-> 0] \in Row
        BY LengthAssumption DEF Row
      <3> QED BY <1>t, <2>1, <3>1, NoRowAssumption DEF Create
    <2>2. (IF frame[p].source = "file" THEN "bare" ELSE frame[p].source) \in Magnet
      BY DEF SerialInv, TypeInv, TypeOK, Frame, Magnet
    <2> QED BY <1>1, <1>e, <1>p, <2>1, <2>2 DEF AddCreate
  <1>2. CASE MetadataSnapshot(p) \/ PauseSnapshot(p) \/ ResumeGet(p) \/ RemoveGet(p)
             \/ RemoveIsComplete(p)
    BY <1>2, <1>e, <1>p DEF MetadataSnapshot, PauseSnapshot, ResumeGet, RemoveGet, RemoveIsComplete
  <1>3. CASE MetadataSet(p)
    <2>1. SetMetadata(h, frame[p].snap.length) =>
              /\ Managed(h) /\ table'[h] # NoRow
              /\ table'[h].paused = table[h].paused /\ table'[h].bytes = table[h].bytes
      BY <1>t, <1>r, <1>f, NoRowAssumption DEF SetMetadata, Row
    <2> QED BY <1>3, <1>e, <1>p, <2>1 DEF MetadataSet
  <1>4. CASE PauseSetBytes(p)
    <2>1. SetBytesCompleted(h, frame[p].snap.bytes) =>
              /\ Managed(h) /\ table'[h] # NoRow
              /\ table'[h].paused = table[h].paused
              /\ table'[h].bytes = frame[p].snap.bytes
      BY <1>t, <1>r, <1>f, NoRowAssumption DEF SetBytesCompleted, Row
    <2> QED BY <1>4, <1>e, <1>p, <2>1 DEF PauseSetBytes
  <1>5. ASSUME NEW b \in BOOLEAN, SetPaused(h, b)
        PROVE  /\ Managed(h) /\ table'[h] # NoRow
               /\ table'[h].paused = b /\ table'[h].bytes = table[h].bytes
    BY <1>t, <1>r, <1>5, NoRowAssumption DEF SetPaused, Row
  <1>6. CASE PauseSetPaused(p) \/ ResumeRollback(p)
    BY <1>5, <1>6, <1>e, <1>p DEF PauseSetPaused, ResumeRollback
  <1>7. CASE ResumeSetPaused(p)
    BY <1>5, <1>7, <1>e, <1>p DEF ResumeSetPaused
  <1>8. CASE RemoveDelete(p)
    BY <1>8, <1>e, <1>p, <1>t DEF RemoveDelete, Delete
  <1> QED BY <1>1, <1>2, <1>3, <1>4, <1>6, <1>7, <1>8 DEF Pause, Resume, Remove

(* The engine's steps change no row.                                       *)
LEMMA EngineAddRows ==
    ASSUME SerialInv, NEW p \in Proc, NEW h \in Hash, h = target[p], EngineAdd(p)
    PROVE  /\ table' = table /\ disk' = disk /\ pc[p] \in EngineAddPC
           /\ \/ pc'[p] \in EngineAddPC
              \/ pc'[p] = "add.create" /\ op[p] = "add"
              \/ pc'[p] = "metadata.snapshot" /\ op[p] # "add"
              \/ pc'[p] \in {"resume.rollback", "idle"} /\ h \notin tracked'
  <1> USE DEF EngineAddPC
  <1>1. pc[p] \in EngineAddPC /\ table' = table
    BY DEF EngineAdd, EngineClientAdd, EngineGotInfo, EngineQueueCheck, EngineCheckDone,
           EngineCheckAborted, EngineDropFailed, EngineDownloadAll
  <1>2. disk' = disk
    BY DEF EngineAdd, EngineClientAdd, EngineGotInfo, EngineQueueCheck, EngineCheckDone,
           EngineCheckAborted, EngineDropFailed, EngineDownloadAll, ClientAdd, QueueCheck,
           CheckPiece, Drop, DownloadAll, engineRest
  <1>3. CASE EngineDropFailed(p)
    <2>1. handle[p] = "open"
      BY <1>1, <1>3, Exclusive DEF EngineDropFailed, At, Holding
    <2>2. h \notin tracked'
      BY <1>1, <1>3, <2>1, DropEffect DEF EngineDropFailed
    <2> QED BY <1>1, <1>2, <1>3, <2>2, GotoEffect, ReturnEffect DEF EngineDropFailed, AddFails
  <1>4. CASE EngineDownloadAll(p)
    BY <1>1, <1>2, <1>4, GotoEffect DEF EngineDownloadAll, Added
  <1>5. CASE EngineClientAdd(p) \/ EngineGotInfo(p) \/ EngineQueueCheck(p)
             \/ EngineCheckDone(p) \/ EngineCheckAborted(p)
    BY <1>1, <1>2, <1>5, GotoEffect
    DEF EngineClientAdd, EngineGotInfo, EngineQueueCheck, EngineCheckDone, EngineCheckAborted
  <1> QED BY <1>3, <1>4, <1>5 DEF EngineAdd

LEMMA EngineRemoveRows ==
    ASSUME SerialInv, NEW p \in Proc, NEW h \in Hash, h = target[p], EngineRemove(p)
    PROVE  /\ table' = table /\ pc[p] \in EngineRemovePC
           /\ pc'[p] \in EngineRemovePC \cup {"pause.setPaused", "remove.delete", "idle"}
           /\ h \in tracked' => h \in tracked
  <1> USE DEF EngineRemovePC
  <1>1. pc[p] \in EngineRemovePC /\ table' = table
    BY DEF EngineRemove, EngineFind, EngineDrop, EngineErase
  <1>2. CASE EngineFind(p)
    BY <1>1, <1>2, GotoEffect DEF EngineFind, Find, Removed, clientVars
  <1>3. CASE EngineDrop(p)
    <2>1. handle[p] = "open"
      BY <1>1, <1>3, Exclusive DEF EngineDrop, At, Holding
    <2> QED BY <1>1, <1>3, <2>1, DropEffect, GotoEffect DEF EngineDrop, Removed
  <1>4. CASE EngineErase(p)
    BY <1>1, <1>4, GotoEffect, ReturnEffect DEF EngineErase, Erase, Removed, clientVars
  <1> QED BY <1>2, <1>3, <1>4 DEF EngineRemove

(* A torrent with a paused row is not tracked, nor about to be.            *)
PausedInv ==
    /\ \A h \in Hash : Paused(h) => h \notin tracked
    /\ \A p \in Proc :
        /\ pc[p] \in EngineAddPC => ~Paused(target[p])
        /\ op[p] = "add" /\ pc[p] \in EngineAddPC \cup {"add.create"} => ~Managed(target[p])


LEMMA StepBusy == ASSUME NEW p \in Proc, Step(p) PROVE pc[p] # "idle"
  BY DEF Step, EngineAdd, EngineClientAdd, EngineGotInfo, EngineQueueCheck, EngineCheckDone,
         EngineCheckAborted, EngineDropFailed, EngineDownloadAll,
         EngineRemove, EngineFind, EngineDrop, EngineErase,
         AddCreate, MetadataSnapshot, MetadataSet,
         Pause, PauseSnapshot, PauseSetBytes, PauseSetPaused,
         Resume, ResumeGet, ResumeSetPaused, ResumeRollback,
         Remove, RemoveGet, RemoveIsComplete, RemoveDelete

LEMMA StepPaused ==
    ASSUME SerialInv, TypeInv', PausedInv, NEW p \in Proc, Step(p)
    PROVE  PausedInv'
  <1> USE DEF Paused, Managed
  <1>0. SerialInv' /\ Elsewhere(p) /\ Moved(p)
    BY StepSerial
  <1>i. pc[p] # "idle"
    BY StepBusy
  <1>h. PICK h \in Hash : h = target[p]
    BY <1>i, Exclusive
  <1>x. At(p) /\ Runs(op[p], pc[p])
    BY <1>i, Exclusive
  <1>k. ASSUME Paused(h)' => h \notin tracked',
               pc'[p] \in EngineAddPC => ~Paused(h)',
               op[p] = "add" /\ pc'[p] \in EngineAddPC \cup {"add.create"} => ~Managed(h)'
        PROVE  PausedInv'
    <2>1. \A g \in Hash : Paused(g)' => g \notin tracked'
      BY <1>0, <1>h, <1>k DEF PausedInv, Elsewhere
    <2>2. ASSUME NEW q \in Proc, pc'[q] # "idle"
          PROVE  /\ pc'[q] \in EngineAddPC => ~Paused(target[q])'
                 /\ op'[q] = "add" /\ pc'[q] \in EngineAddPC \cup {"add.create"}
                         => ~Managed(target[q])'
      <3>1. CASE q = p
        BY <1>0, <1>h, <1>k, <2>2, <3>1 DEF Moved
      <3>2. CASE q # p
        <4>1. target'[q] = target[q] /\ target[q] \in Hash /\ target[q] # h
              /\ pc'[q] = pc[q] /\ op'[q] = op[q]
          BY <1>0, <1>h, <1>i, <2>2, <3>2, Exclusive DEF Elsewhere, SerialInv, TypeInv, Targeted
        <4>2. table'[target[q]] = table[target[q]]
          BY <1>0, <1>h, <4>1 DEF Elsewhere
        <4> QED BY <4>1, <4>2 DEF PausedInv
      <3> QED BY <3>1, <3>2
    <2> QED BY <2>1, <2>2 DEF PausedInv, EngineAddPC
  <1>p. /\ Paused(h) => h \notin tracked
        /\ pc[p] \in EngineAddPC => ~Paused(h)
        /\ op[p] = "add" /\ pc[p] \in EngineAddPC \cup {"add.create"} => ~Managed(h)
    BY <1>h DEF PausedInv
  <1>1. CASE EngineAdd(p)
    BY <1>1, <1>h, <1>k, <1>p, EngineAddRows
  <1>2. CASE EngineRemove(p)
    BY <1>2, <1>h, <1>k, <1>p, EngineRemoveRows DEF EngineRemovePC, EngineAddPC
  <1>3. CASE \/ AddCreate(p) \/ MetadataSnapshot(p) \/ MetadataSet(p)
             \/ Pause(p) \/ Resume(p) \/ Remove(p)
    <2>1. pc[p] \in {"pause.setPaused", "resume.rollback"} => h \notin tracked
      BY <1>h, <1>x DEF At, Gone
    <2>2. /\ tracked' = tracked
          /\ Paused(h)' => \/ Paused(h)
                           \/ pc[p] \in {"pause.setPaused", "resume.rollback"}
          /\ pc'[p] \in EngineAddPC => ~Paused(h)' /\ op[p] = "resume"
          /\ pc'[p] # "add.create"
      BY <1>3, <1>h, <1>x, ServiceRows DEF Runs
    <2> QED BY <1>k, <1>p, <2>1, <2>2
  <1> QED BY <1>1, <1>2, <1>3 DEF Step

(* How a request begins.                                                   *)
LEMMA RequestBegins ==
    ASSUME NEW p \in Req, Request(p)
    PROVE  \E h \in Hash, o \in Op, first \in PC : \E locals :
               /\ Begin(p, o, h, first, locals)
               /\ \/ o = "add" /\ first = "engine.clientAdd" /\ (ReAdd \/ ~Managed(h))
                  \/ o = "pause" /\ first = "pause.snapshot"
                  \/ o = "resume" /\ first = "resume.get"
                  \/ o = "remove" /\ first = "remove.get"
  <1> USE DEF Op, PC, EngineAddPC
  <1>1. PICK h \in Hash :
            \/ \E source \in Magnet \cup {"file"} : AddRequest(p, h, source)
            \/ PauseRequest(p, h)
            \/ ResumeRequest(p, h)
            \/ \E deleteFiles \in BOOLEAN : RemoveRequest(p, h, deleteFiles)
    BY DEF Request
  <1>2. CASE \E source \in Magnet \cup {"file"} : AddRequest(p, h, source)
    BY <1>2, Zenon DEF AddRequest
  <1>3. CASE PauseRequest(p, h)
    BY <1>3, Zenon DEF PauseRequest
  <1>4. CASE ResumeRequest(p, h)
    BY <1>4, Zenon DEF ResumeRequest
  <1>5. CASE \E deleteFiles \in BOOLEAN : RemoveRequest(p, h, deleteFiles)
    BY <1>5, Zenon DEF RemoveRequest
  <1> QED BY <1>1, <1>2, <1>3, <1>4, <1>5

LEMMA PausedHolds ==
    ASSUME Overlap = {}, ~ReAdd
    PROVE  Spec => [](SerialInv /\ PausedInv)
  <1> USE DEF Paused, Managed
  <1>1. Init => PausedInv
    BY DEF Init, RepositoryInit, PausedInv, EngineAddPC
  <1>2. SerialInv /\ PausedInv /\ [Next]_vars => PausedInv'
    <2> SUFFICES ASSUME SerialInv, PausedInv, [Next]_vars PROVE PausedInv'
      OBVIOUS
    <2>0. TypeInv'
      BY TypeStep DEF SerialInv
    <2>1. ASSUME NEW p \in Proc, Step(p) PROVE PausedInv'
      BY <2>0, <2>1, StepPaused
    <2>2. ASSUME NEW p \in Req, NEW o, NEW h \in Hash, NEW first, NEW locals,
                 Begin(p, o, h, first, locals),
                 \/ first = "engine.clientAdd" /\ ~Managed(h)
                 \/ first \notin EngineAddPC \cup {"add.create"}
          PROVE  PausedInv'
      <3>1. /\ tracked' = tracked /\ table' = table
            /\ pc'[p] = first /\ op'[p] = o /\ target'[p] = h
            /\ \A q \in Proc : q # p => pc'[q] = pc[q] /\ op'[q] = op[q] /\ target'[q] = target[q]
        BY <2>2 DEF Begin, SerialInv, TypeInv, TypeOK, EngineTypeOK, engineRest, clientVars, Proc
      <3> QED BY <2>2, <3>1 DEF PausedInv
    <2>3. ASSUME NEW p \in Req, Request(p) PROVE PausedInv'
      BY <2>2, <2>3, RequestBegins DEF EngineAddPC
    <2>4. CASE Restore
      <3> DEFINE rows == {h \in Hash : Unpaused(h)}
      <3>1. /\ pc' = [p \in Proc |-> IF p \in rows THEN "engine.clientAdd" ELSE "idle"]
            /\ op' = [p \in Proc |-> IF p \in rows THEN "restore" ELSE "none"]
            /\ target' = [p \in Proc |-> IF p \in rows THEN p ELSE Nil]
            /\ table' = table /\ tracked' = tracked
        BY <2>4 DEF Restore, engineRest, clientVars
      <3>2. \A h \in rows : ~Paused(h)
        BY DEF Unpaused
      <3> HIDE DEF rows
      <3> QED BY <3>1, <3>2 DEF PausedInv, EngineAddPC
    <2>5. CASE Crash
      BY <2>5 DEF Crash, EngineStart, PausedInv, EngineAddPC
    <2>6. CASE Peers \/ (\E p \in Req : Cancel(p)) \/ UNCHANGED vars
      <3>1. UNCHANGED <<table, tracked, target, pc, op>>
        BY <2>6 DEF Peers, MetadataArrives, PieceArrives, Cancel, vars, engineVars, clientVars,
                    serviceVars
      <3> QED BY <3>1 DEF PausedInv
    <2> QED BY <2>1, <2>3, <2>4, <2>5, <2>6 DEF Next
  <1> QED BY <1>1, <1>2, SerialHolds, PTL DEF Spec

(* Paused torrents stay in the database only: when requests about a torrent *)
(* do not overlap and clients add no torrent that is already managed, the   *)
(* engine tracks none whose row is paused, whatever fails.  Resume clears   *)
(* the flag before it adds; its rollback, and Pause, set it after the drop. *)
THEOREM PausedStopped ==
    ASSUME Overlap = {}, ~ReAdd
    PROVE  Spec => []PausedIsStopped
  <1>1. PausedInv => PausedIsStopped
    BY DEF PausedInv, PausedIsStopped
  <1> QED BY <1>1, PausedHolds, PTL
=============================================================================
