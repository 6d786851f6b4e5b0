------------------------- MODULE TorrentServiceProofs -------------------------
(***************************************************************************)
(* Proofs about TorrentService, for any number of torrents, requests and   *)
(* pieces.                                                                 *)
(***************************************************************************)
EXTENDS TorrentService, TLAPS

(* A goroutine that runs a handler works on a torrent.                     *)
Targeted == \A p \in Proc : pc[p] # "idle" => target[p] \in Hash

TypeInv == TypeOK /\ Targeted

LEMMA EmptyFrameType == EmptyFrame \in Frame
  BY LengthAssumption DEF EmptyFrame, Frame, Magnet

LEMMA SnapshotType ==
    ASSUME TypeOK, NEW h \in Hash
    PROVE  Snapshot(h) \subseteq [length : {0, Length}, bytes : 0..Length]
  BY LengthAssumption DEF Snapshot, TypeOK, EngineTypeOK

(* A handler that returns leaves well-typed locals behind.                 *)
LEMMA ReturnType ==
    ASSUME TypeInv, NEW p \in Proc, Return(p)
    PROVE  /\ up' \in BOOLEAN
           /\ pc' \in [Proc -> PC]
           /\ op' \in [Proc -> Op \cup {"none"}]
           /\ cancelled' \subseteq Proc
           /\ frame' \in [Proc -> Frame]
           /\ target' \in [Proc -> Hash \cup {Nil}]
           /\ Targeted'
  BY EmptyFrameType DEF TypeInv, TypeOK, EngineTypeOK, Targeted, Return, PC

(* So does one that goes on to a call.                                     *)
LEMMA GotoType ==
    ASSUME TypeInv, NEW p \in Proc, pc[p] # "idle", NEW next \in PC, Goto(p, next)
    PROVE  /\ up' \in BOOLEAN
           /\ pc' \in [Proc -> PC]
           /\ op' \in [Proc -> Op \cup {"none"}]
           /\ cancelled' \subseteq Proc
           /\ target' \in [Proc -> Hash \cup {Nil}]
           /\ Targeted'
  BY DEF TypeInv, TypeOK, EngineTypeOK, Targeted, Goto

(* What is left to show of a step: the table, the client and the locals.   *)
ClientType ==
    /\ tracked \subseteq Hash
    /\ named \subseteq Hash
    /\ info \subseteq Hash
    /\ downloading \subseteq Hash
    /\ have \in [Hash -> 0..Length]
    /\ disk \in [Hash -> 0..Length]
    /\ handle \in [Proc -> HandleState]
    /\ leaked \in BOOLEAN

LEMMA EngineRestType ==
    ASSUME TypeInv, UNCHANGED engineRest
    PROVE  ClientType'
  BY DEF TypeInv, TypeOK, EngineTypeOK, ClientType, engineRest, clientVars

LEMMA DropType ==
    ASSUME TypeInv, NEW p \in Proc, target[p] \in Hash, Drop(p)
    PROVE  ClientType'
  <1>1. CASE handle[p] = "open"
    BY <1>1, LengthAssumption
    DEF TypeInv, TypeOK, EngineTypeOK, ClientType, Drop, HandleState
  <1>2. CASE handle[p] # "open"
    BY <1>2
    DEF TypeInv, TypeOK, EngineTypeOK, ClientType, Drop, HandleState, clientVars
  <1> QED BY <1>1, <1>2

LEMMA TableType ==
    ASSUME TypeInv, NEW h \in Hash
    PROVE  /\ UNCHANGED table => RepositoryTypeOK'
           /\ \A magnet \in Magnet : Create(h, magnet) => RepositoryTypeOK'
           /\ Delete(h) => RepositoryTypeOK'
           /\ \A length \in {0, Length} : SetMetadata(h, length) => RepositoryTypeOK'
           /\ \A bytes \in 0..Length : SetBytesCompleted(h, bytes) => RepositoryTypeOK'
           /\ \A paused \in BOOLEAN : SetPaused(h, paused) => RepositoryTypeOK'
  <1> USE LengthAssumption DEF TypeInv, TypeOK, RepositoryTypeOK
  <1>1. UNCHANGED table => RepositoryTypeOK'
    OBVIOUS
  <1>2. \A magnet \in Magnet : Create(h, magnet) => RepositoryTypeOK'
    BY DEF Create, Row
  <1>3. Delete(h) => RepositoryTypeOK'
    BY DEF Delete
  <1>4. \A length \in {0, Length} : SetMetadata(h, length) => RepositoryTypeOK'
    BY DEF SetMetadata, Managed, Row
  <1>5. \A bytes \in 0..Length : SetBytesCompleted(h, bytes) => RepositoryTypeOK'
    BY DEF SetBytesCompleted, Managed, Row
  <1>6. \A paused \in BOOLEAN : SetPaused(h, paused) => RepositoryTypeOK'
    BY DEF SetPaused, Managed, Row
  <1> QED BY <1>1, <1>2, <1>3, <1>4, <1>5, <1>6

(* A well-typed step, put together from its parts.                         *)
LEMMA Assemble ==
    ASSUME ClientType', RepositoryTypeOK',
           target' \in [Proc -> Hash \cup {Nil}], up' \in BOOLEAN,
           pc' \in [Proc -> PC], op' \in [Proc -> Op \cup {"none"}],
           cancelled' \subseteq Proc, frame' \in [Proc -> Frame], Targeted'
    PROVE  TypeInv'
  BY DEF TypeInv, TypeOK, EngineTypeOK, ClientType

LEMMA EngineAddType ==
    ASSUME TypeInv, NEW p \in Proc, EngineAdd(p)
    PROVE  TypeInv'
  <1> USE DEF PC, EngineAddPC
  <1>0. /\ target[p] \in Hash /\ pc[p] # "idle" /\ frame[p] \in Frame
        /\ frame \in [Proc -> Frame] /\ RepositoryTypeOK
    BY DEF TypeInv, TypeOK, Targeted, EngineAdd, EngineClientAdd, EngineGotInfo,
           EngineQueueCheck, EngineCheckDone, EngineCheckAborted, EngineDropFailed,
           EngineDownloadAll
  <1>t. UNCHANGED table => RepositoryTypeOK'
    BY <1>0, TableType
  <1>1. CASE EngineClientAdd(p)
    <2>1. ClientType'
      BY <1>0, <1>1, LengthAssumption
      DEF TypeInv, TypeOK, EngineTypeOK, ClientType, EngineClientAdd, ClientAdd,
          InitialCompletion, HandleState
    <2> QED BY <1>0, <1>1, <1>t, <2>1, GotoType, Assemble DEF EngineClientAdd
  <1>2. CASE EngineGotInfo(p)
    BY <1>0, <1>2, <1>t, EngineRestType, GotoType, Assemble DEF EngineGotInfo
  <1>3. CASE EngineQueueCheck(p)
    <2>1. ClientType'
      BY <1>3 DEF TypeInv, TypeOK, EngineTypeOK, ClientType, EngineQueueCheck,
                  QueueCheck, clientVars
    <2> QED BY <1>0, <1>3, <1>t, <2>1, GotoType, Assemble DEF EngineQueueCheck
  <1>4. CASE EngineCheckDone(p)
    <2>1. frame[p].piece \in 1..Length
      BY <1>0 DEF Frame
    <2>2. ClientType'
      BY <1>0, <1>4, <2>1, LengthAssumption
      DEF TypeInv, TypeOK, EngineTypeOK, ClientType, EngineCheckDone, CheckPiece
    <2>3. frame' \in [Proc -> Frame]
      BY <1>0, <1>4, <2>1, LengthAssumption DEF EngineCheckDone, Frame
    <2> QED BY <1>0, <1>4, <1>t, <2>2, <2>3, GotoType, Assemble DEF EngineCheckDone
  <1>5. CASE EngineCheckAborted(p)
    BY <1>0, <1>5, <1>t, EngineRestType, GotoType, Assemble DEF EngineCheckAborted
  <1>6. CASE EngineDropFailed(p)
    <2>1. ClientType'
      BY <1>0, <1>6, DropType DEF EngineDropFailed
    <2>2. CASE Return(p)
      BY <1>6, <1>t, <2>1, <2>2, ReturnType, Assemble DEF EngineDropFailed
    <2>3. CASE Goto(p, "resume.rollback") /\ UNCHANGED frame
      BY <1>0, <1>6, <1>t, <2>1, <2>3, GotoType, Assemble DEF EngineDropFailed
    <2> QED BY <1>6, <2>2, <2>3 DEF EngineDropFailed, AddFails
  <1>7. CASE EngineDownloadAll(p)
    <2>1. ClientType'
      BY <1>0, <1>7 DEF TypeInv, TypeOK, EngineTypeOK, ClientType, EngineDownloadAll,
                        DownloadAll, HandleState
    <2>2. Added(p) \in PC
      BY DEF Added
    <2> QED BY <1>0, <1>7, <1>t, <2>1, <2>2, GotoType, Assemble DEF EngineDownloadAll
  <1> QED BY <1>1, <1>2, <1>3, <1>4, <1>5, <1>6, <1>7 DEF EngineAdd

LEMMA EngineRemoveType ==
    ASSUME TypeInv, NEW p \in Proc, EngineRemove(p)
    PROVE  TypeInv'
  <1> USE DEF PC, EngineRemovePC
  <1>0. /\ target[p] \in Hash /\ pc[p] # "idle" /\ frame[p] \in Frame
        /\ frame \in [Proc -> Frame] /\ RepositoryTypeOK
    BY DEF TypeInv, TypeOK, Targeted, EngineRemove, EngineFind, EngineDrop, EngineErase
  <1>t. UNCHANGED table => RepositoryTypeOK'
    BY <1>0, TableType
  <1>r. Removed(p) \in PC
    BY DEF Removed
  <1>1. CASE EngineFind(p)
    <2>1. ClientType'
      BY <1>1 DEF TypeInv, TypeOK, EngineTypeOK, ClientType, EngineFind, Find,
                  HandleState, clientVars
    <2>2. frame' \in [Proc -> Frame]
      BY <1>0, <1>1 DEF EngineFind, Frame, NameIsPath
    <2> QED BY <1>0, <1>1, <1>t, <1>r, <2>1, <2>2, GotoType, Assemble DEF EngineFind
  <1>2. CASE EngineDrop(p)
    <2>1. ClientType'
      BY <1>0, <1>2, DropType DEF EngineDrop
    <2> QED BY <1>0, <1>2, <1>t, <1>r, <2>1, GotoType, Assemble DEF EngineDrop
  <1>3. CASE EngineErase(p)
    <2>1. ClientType'
      BY <1>0, <1>3, LengthAssumption
      DEF TypeInv, TypeOK, EngineTypeOK, ClientType, EngineErase, Erase, clientVars
    <2>2. CASE Return(p)
      BY <1>3, <1>t, <2>1, <2>2, ReturnType, Assemble DEF EngineErase
    <2>3. CASE Goto(p, Removed(p)) /\ UNCHANGED frame
      BY <1>0, <1>3, <1>t, <1>r, <2>1, <2>3, GotoType, Assemble DEF EngineErase
    <2> QED BY <1>3, <2>2, <2>3 DEF EngineErase
  <1> QED BY <1>1, <1>2, <1>3 DEF EngineRemove

(* The service's own steps leave the client alone.                         *)
LEMMA ServiceStepType ==
    ASSUME TypeInv, NEW p \in Proc,
           \/ AddCreate(p) \/ MetadataSnapshot(p) \/ MetadataSet(p)
           \/ Pause(p) \/ Resume(p) \/ Remove(p)
    PROVE  TypeInv'
  <1> USE DEF PC, EngineAddPC, EngineRemovePC
  <1> DEFINE Steps == {"add.create", "metadata.snapshot", "metadata.set",
                       "pause.snapshot", "pause.setBytes", "pause.setPaused",
                       "resume.get", "resume.setPaused", "resume.rollback",
                       "remove.get", "remove.isComplete", "remove.delete"}
  <1>0. /\ target[p] \in Hash /\ pc[p] # "idle" /\ frame[p] \in Frame
        /\ frame \in [Proc -> Frame] /\ RepositoryTypeOK
    BY DEF TypeInv, TypeOK, Targeted, AddCreate, MetadataSnapshot, MetadataSet,
           Pause, PauseSnapshot, PauseSetBytes, PauseSetPaused,
           Resume, ResumeGet, ResumeSetPaused, ResumeRollback,
           Remove, RemoveGet, RemoveIsComplete, RemoveDelete
  <1>c. ClientType'
    BY EngineRestType
    DEF AddCreate, MetadataSnapshot, MetadataSet,
        Pause, PauseSnapshot, PauseSetBytes, PauseSetPaused,
        Resume, ResumeGet, ResumeSetPaused, ResumeRollback,
        Remove, RemoveGet, RemoveIsComplete, RemoveDelete
  <1>s. /\ frame[p].snap.length \in {0, Length}
        /\ frame[p].snap.bytes \in 0..Length
        /\ frame[p].source \in Magnet \cup {"file"}
    BY <1>0 DEF Frame
  <1>t. /\ UNCHANGED table => RepositoryTypeOK'
        /\ \A magnet \in Magnet : Create(target[p], magnet) => RepositoryTypeOK'
        /\ Delete(target[p]) => RepositoryTypeOK'
        /\ SetMetadata(target[p], frame[p].snap.length) => RepositoryTypeOK'
        /\ SetBytesCompleted(target[p], frame[p].snap.bytes) => RepositoryTypeOK'
        /\ SetPaused(target[p], TRUE) => RepositoryTypeOK'
        /\ SetPaused(target[p], FALSE) => RepositoryTypeOK'
    BY <1>0, <1>s, TableType
  <1>f. ASSUME NEW snap \in [length : {0, Length}, bytes : 0..Length]
        PROVE  [frame EXCEPT ![p].snap = snap] \in [Proc -> Frame]
    BY <1>0 DEF Frame
  <1>1. CASE AddCreate(p)
    <2>0. (IF frame[p].source = "file" THEN "bare" ELSE frame[p].source) \in Magnet
      BY <1>s DEF Magnet
    <2>1. RepositoryTypeOK'
      BY <1>1, <1>t, <2>0 DEF AddCreate
    <2>2. CASE Return(p)
      BY <1>c, <2>1, <2>2, ReturnType, Assemble
    <2>3. CASE Goto(p, "metadata.snapshot") /\ UNCHANGED frame
      BY <1>0, <1>c, <2>1, <2>3, GotoType, Assemble
    <2> QED BY <1>1, <2>2, <2>3 DEF AddCreate
  <1>2. CASE MetadataSnapshot(p)
    <2>1. RepositoryTypeOK'
      BY <1>2, <1>t DEF MetadataSnapshot
    <2>2. CASE Return(p)
      BY <1>c, <2>1, <2>2, ReturnType, Assemble
    <2>3. CASE /\ Goto(p, "metadata.set")
               /\ \E snap \in Snapshot(target[p]) : frame' = [frame EXCEPT ![p].snap = snap]
      <3>1. frame' \in [Proc -> Frame]
        BY <1>0, <1>f, <2>3, SnapshotType DEF TypeInv
      <3> QED BY <1>0, <1>c, <2>1, <2>3, <3>1, GotoType, Assemble
    <2> QED BY <1>2, <2>2, <2>3 DEF MetadataSnapshot
  <1>3. CASE MetadataSet(p)
    BY <1>c, <1>t, <1>3, ReturnType, Assemble DEF MetadataSet
  <1>4. CASE PauseSnapshot(p)
    <2>1. RepositoryTypeOK'
      BY <1>4, <1>t DEF PauseSnapshot
    <2>2. CASE Goto(p, "engine.find") /\ UNCHANGED frame
      BY <1>0, <1>c, <2>1, <2>2, GotoType, Assemble
    <2>3. CASE /\ Goto(p, "pause.setBytes")
               /\ \E snap \in Snapshot(target[p]) : frame' = [frame EXCEPT ![p].snap = snap]
      <3>1. frame' \in [Proc -> Frame]
        BY <1>0, <1>f, <2>3, SnapshotType DEF TypeInv
      <3> QED BY <1>0, <1>c, <2>1, <2>3, <3>1, GotoType, Assemble
    <2> QED BY <1>4, <2>2, <2>3 DEF PauseSnapshot
  <1>5. CASE PauseSetBytes(p)
    BY <1>0, <1>c, <1>t, <1>5, GotoType, Assemble DEF PauseSetBytes
  <1>6. CASE PauseSetPaused(p)
    BY <1>c, <1>t, <1>6, ReturnType, Assemble DEF PauseSetPaused
  <1>7. CASE ResumeGet(p)
    <2>1. RepositoryTypeOK'
      BY <1>7, <1>t DEF ResumeGet
    <2>2. CASE Return(p)
      BY <1>c, <2>1, <2>2, ReturnType, Assemble
    <2>3. CASE /\ Managed(target[p])
               /\ Goto(p, "resume.setPaused")
               /\ frame' = [frame EXCEPT ![p].source = table[target[p]].magnet]
      <3>1. table[target[p]].magnet \in Magnet
        BY <1>0, <2>3 DEF RepositoryTypeOK, Managed, Row
      <3>2. frame' \in [Proc -> Frame]
        BY <1>0, <2>3, <3>1 DEF Frame
      <3> QED BY <1>0, <1>c, <2>1, <2>3, <3>2, GotoType, Assemble
    <2> QED BY <1>7, <2>2, <2>3 DEF ResumeGet
  <1>8. CASE ResumeSetPaused(p)
    <2>1. RepositoryTypeOK'
      BY <1>8, <1>t DEF ResumeSetPaused
    <2>2. CASE Return(p)
      BY <1>c, <2>1, <2>2, ReturnType, Assemble
    <2>3. CASE Goto(p, "engine.clientAdd") /\ UNCHANGED frame
      BY <1>0, <1>c, <2>1, <2>3, GotoType, Assemble
    <2> QED BY <1>8, <2>2, <2>3 DEF ResumeSetPaused
  <1>9. CASE ResumeRollback(p)
    BY <1>c, <1>t, <1>9, ReturnType, Assemble DEF ResumeRollback
  <1>10. CASE RemoveGet(p)
    <2>1. RepositoryTypeOK'
      BY <1>10, <1>t DEF RemoveGet
    <2>2. CASE Return(p)
      BY <1>c, <2>1, <2>2, ReturnType, Assemble
    <2>3. CASE /\ Goto(p, "remove.isComplete")
               /\ \E b \in BOOLEAN : frame' = [frame EXCEPT ![p].rowComplete = b]
      <3>1. frame' \in [Proc -> Frame]
        BY <1>0, <2>3 DEF Frame
      <3> QED BY <1>0, <1>c, <2>1, <2>3, <3>1, GotoType, Assemble
    <2> QED BY <1>10, <2>2, <2>3 DEF RemoveGet
  <1>11. CASE RemoveIsComplete(p)
    <2>1. \E b \in BOOLEAN : frame' = [frame EXCEPT ![p].deleteFiles = b]
      <3>1. PICK live \in Snapshot(target[p]) :
                frame' = [frame EXCEPT ![p].deleteFiles = @ \/ ~IsComplete(p, live)]
        BY <1>11 DEF RemoveIsComplete
      <3> QED BY <1>0, <3>1 DEF Frame
    <2>2. frame' \in [Proc -> Frame]
      BY <1>0, <2>1 DEF Frame
    <2> QED BY <1>0, <1>c, <1>t, <1>11, <2>2, GotoType, Assemble DEF RemoveIsComplete
  <1>12. CASE RemoveDelete(p)
    BY <1>c, <1>t, <1>12, ReturnType, Assemble DEF RemoveDelete
  <1> QED BY <1>1, <1>2, <1>3, <1>4, <1>5, <1>6, <1>7, <1>8, <1>9, <1>10, <1>11, <1>12
          DEF Pause, Resume, Remove

LEMMA RequestType ==
    ASSUME TypeInv, NEW p \in Req, Request(p)
    PROVE  TypeInv'
  <1> USE DEF PC, EngineAddPC, Op
  <1>1. ASSUME NEW o \in Op, NEW h \in Hash, NEW first \in PC, NEW locals \in Frame,
               Begin(p, o, h, first, locals)
        PROVE  TypeInv'
    <2>1. p \in Proc
      BY DEF Proc
    <2>2. ClientType'
      BY <1>1, EngineRestType DEF Begin
    <2>3. RepositoryTypeOK'
      BY <1>1, TableType DEF Begin
    <2> QED BY <1>1, <2>1, <2>2, <2>3, Assemble
            DEF Begin, TypeInv, TypeOK, EngineTypeOK, Targeted
  <1>2. PICK h \in Hash :
            \/ \E source \in Magnet \cup {"file"} : AddRequest(p, h, source)
            \/ PauseRequest(p, h)
            \/ ResumeRequest(p, h)
            \/ \E deleteFiles \in BOOLEAN : RemoveRequest(p, h, deleteFiles)
    BY DEF Request
  <1>3. ASSUME NEW source \in Magnet \cup {"file"}, AddRequest(p, h, source)
        PROVE  TypeInv'
    <2>1. [EmptyFrame EXCEPT !.source = source] \in Frame
      BY EmptyFrameType DEF Frame
    <2> QED BY <1>1, <1>3, <2>1 DEF AddRequest
  <1>4. CASE PauseRequest(p, h)
    BY <1>1, <1>4, EmptyFrameType DEF PauseRequest
  <1>5. CASE ResumeRequest(p, h)
    BY <1>1, <1>5, EmptyFrameType DEF ResumeRequest
  <1>6. ASSUME NEW deleteFiles \in BOOLEAN, RemoveRequest(p, h, deleteFiles)
        PROVE  TypeInv'
    <2> DEFINE asked == CASE deleteFiles -> "delete"
                          [] ~deleteFiles /\ disk[h] = Length -> "keepwhole"
                          [] ~deleteFiles /\ disk[h] < Length -> "keep"
    <2>1. asked \in {"none", "delete", "keep", "keepwhole"}
      BY <1>6, LengthAssumption DEF TypeInv, TypeOK, EngineTypeOK
    <2> HIDE DEF asked
    <2>2. [EmptyFrame EXCEPT !.deleteFiles = deleteFiles, !.asked = asked] \in Frame
      BY <2>1, EmptyFrameType DEF Frame
    <2> QED BY <1>1, <1>6, <2>2 DEF RemoveRequest, asked
  <1> QED BY <1>2, <1>3, <1>4, <1>5, <1>6

LEMMA ServerType ==
    ASSUME TypeInv, Restore \/ Crash \/ Peers \/ \E p \in Req : Cancel(p)
    PROVE  TypeInv'
  <1> USE DEF PC, EngineAddPC, Op
  <1>t. UNCHANGED table => RepositoryTypeOK'
    BY DEF TypeInv, TypeOK, RepositoryTypeOK
  <1>1. CASE Restore
    <2> DEFINE rows == {h \in Hash : Unpaused(h)}
    <2>1. \A h \in rows : table[h].magnet \in Magnet
      BY DEF TypeInv, TypeOK, RepositoryTypeOK, Unpaused, Managed, Row
    <2>2. \A h \in rows : [EmptyFrame EXCEPT !.source = table[h].magnet] \in Frame
      BY <2>1, EmptyFrameType DEF Frame
    <2>3. rows \subseteq Hash
      OBVIOUS
    <2>4. /\ ClientType' /\ RepositoryTypeOK' /\ up' \in BOOLEAN /\ cancelled' \subseteq Proc
      BY <1>1, <1>t, EngineRestType DEF Restore, TypeInv, TypeOK
    <2>5. /\ pc' = [p \in Proc |-> IF p \in rows THEN "engine.clientAdd" ELSE "idle"]
          /\ op' = [p \in Proc |-> IF p \in rows THEN "restore" ELSE "none"]
          /\ target' = [p \in Proc |-> IF p \in rows THEN p ELSE Nil]
          /\ frame' = [p \in Proc |-> IF p \in rows
                                      THEN [EmptyFrame EXCEPT !.source = table[p].magnet]
                                      ELSE EmptyFrame]
      BY <1>1 DEF Restore
    <2> HIDE DEF rows
    <2>6. frame' \in [Proc -> Frame]
      BY <2>2, <2>5, EmptyFrameType
    <2>7. pc' \in [Proc -> PC] /\ op' \in [Proc -> Op \cup {"none"}]
      BY <2>5
    <2>8. target' \in [Proc -> Hash \cup {Nil}] /\ Targeted'
      BY <2>3, <2>5 DEF Targeted
    <2> QED BY <2>4, <2>6, <2>7, <2>8, Assemble
  <1>2. CASE Crash
    <2>0. 0 \in 0..Length /\ disk \in [Hash -> 0..Length]
      BY LengthAssumption DEF TypeInv, TypeOK, EngineTypeOK
    <2>1. ClientType'
      BY <1>2, <2>0 DEF Crash, EngineStart, ClientType, HandleState
    <2> QED BY <1>2, <1>t, <2>1, EmptyFrameType, Assemble DEF Crash, Targeted
  <1>3. CASE Peers
    BY <1>3, <1>t, LengthAssumption, Assemble
    DEF Peers, MetadataArrives, PieceArrives, InitialCompletion, serviceVars,
        ClientType, TypeInv, TypeOK, EngineTypeOK, Targeted
  <1>4. ASSUME NEW p \in Req, Cancel(p)
        PROVE  TypeInv'
    BY <1>4, <1>t, Assemble
    DEF Cancel, engineVars, clientVars, ClientType, TypeInv, TypeOK, EngineTypeOK,
        Targeted, Proc
  <1> QED BY <1>1, <1>2, <1>3, <1>4

LEMMA TypeInit == Init => TypeInv
  <1> SUFFICES ASSUME Init PROVE TypeInv
    OBVIOUS
  <1>1. 0 \in 0..Length
    BY LengthAssumption
  <1>2. EngineTypeOK
    BY <1>1 DEF Init, EngineInit, EngineTypeOK, HandleState
  <1>3. RepositoryTypeOK /\ Targeted
    BY DEF Init, RepositoryInit, RepositoryTypeOK, Targeted
  <1> QED BY <1>2, <1>3, EmptyFrameType DEF Init, TypeInv, TypeOK, PC

LEMMA TypeStep == TypeInv /\ [Next]_vars => TypeInv'
  <1> SUFFICES ASSUME TypeInv, [Next]_vars PROVE TypeInv'
    OBVIOUS
  <1>1. ASSUME NEW p \in Proc, Step(p) PROVE TypeInv'
    BY <1>1, EngineAddType, EngineRemoveType, ServiceStepType DEF Step
  <1>2. CASE UNCHANGED vars
    BY <1>2 DEF vars, engineVars, clientVars, serviceVars, TypeInv, TypeOK,
                RepositoryTypeOK, EngineTypeOK, Targeted
  <1> QED BY <1>1, <1>2, RequestType, ServerType DEF Next

(* Every variable of the service, the engine and the table keeps its type, *)
(* under any overlap of requests and any failures: in particular the piece *)
(* the engine verifies stays within the content and the counters it        *)
(* persists never exceed its length.                                       *)
THEOREM TypeCorrect == Spec => []TypeOK
  <1>1. TypeInv => TypeOK
    BY DEF TypeInv
  <1> QED BY TypeInit, TypeStep, <1>1, PTL DEF Spec

-----------------------------------------------------------------------------
(* The paused flag and the engine.                                         *)

(* The environment of the result: requests that pause, resume and remove   *)
(* overlap as they please, requests that add have their torrent to         *)
(* themselves, no client gives up and no statement fails; the process may  *)
(* die at any point.                                                       *)
Calm == Faults \subseteq {"crash"} /\ "add" \notin Overlap

(* Between client.Add and the return of engine.AddMagnet.                  *)
Adding == {"engine.gotInfo", "engine.queueCheck", "engine.awaitCheck", "engine.downloadAll"}

(* The handler will yet set the flag, delete the row or start the download *)
(* of its torrent, whatever the others do to it.                           *)
Settling(p) ==
    \/ pc[p] \in {"engine.clientAdd", "engine.dropFailed", "resume.rollback",
                  "engine.erase", "pause.setPaused", "remove.delete"}
    \/ pc[p] \in Adding /\ handle[p] = "open"

Settled ==
    up => \A h \in Hash : Unpaused(h) /\ h \notin downloading
                              => \E p \in Proc : target[p] = h /\ Settling(p)

(* Which operation may be at which call, and who runs it.                  *)
Calls ==
    \A p \in Proc :
        /\ pc[p] = "idle" => target[p] = Nil
        /\ pc[p] \in EngineAddPC => op[p] \in {"add", "resume", "restore"}
        /\ pc[p] = "add.create" => op[p] = "add"
        /\ pc[p] \in {"resume.get", "resume.setPaused"} => op[p] = "resume"
        /\ op[p] = "restore" => p \in Hash

(* Adding and restoring goroutines have their torrent to themselves ...    *)
Alone ==
    \A p, q \in Proc :
        p # q /\ pc[p] # "idle" /\ op[p] \in {"add", "restore"} => target[q] # target[p]

(* ... so nobody closes it under them, and they never fail.                *)
NotClosed ==
    \A p \in Proc :
        /\ pc[p] \in Adding /\ op[p] \in {"add", "restore"} => handle[p] = "open"
        /\ pc[p] = "engine.dropFailed" => op[p] = "resume" /\ handle[p] # "open"
        /\ pc[p] = "add.create" => target[p] \in downloading

SettledInv ==
    /\ TypeInv
    /\ cancelled = {}
    /\ Calls
    /\ Alone
    /\ NotClosed
    /\ Settled

(* What a goroutine's step does to control, whatever it does to the data.  *)
Control == cancelled = {} /\ Calls /\ Alone

LEMMA GotoControl ==
    ASSUME SettledInv, NEW p \in Proc, pc[p] # "idle",
           NEW next \in PC \ {"idle"}, Goto(p, next),
           next \in EngineAddPC => op[p] \in {"add", "resume", "restore"},
           next = "add.create" => op[p] = "add",
           next \in {"resume.get", "resume.setPaused"} => op[p] = "resume"
    PROVE  /\ Control'
           /\ up' = up /\ op' = op /\ target' = target
           /\ pc'[p] = next
           /\ \A q \in Proc : q # p => pc'[q] = pc[q]
  BY DEF SettledInv, TypeInv, TypeOK, Control, Calls, Alone, Goto

LEMMA ReturnControl ==
    ASSUME SettledInv, NEW p \in Proc, Return(p)
    PROVE  /\ Control'
           /\ up' = up
           /\ pc'[p] = "idle"
           /\ \A q \in Proc : q # p => /\ pc'[q] = pc[q]
                                       /\ op'[q] = op[q]
                                       /\ target'[q] = target[q]
  <1>1. /\ up' = up
        /\ pc'[p] = "idle" /\ op'[p] = "none" /\ target'[p] = Nil
        /\ \A q \in Proc : q # p => /\ pc'[q] = pc[q]
                                    /\ op'[q] = op[q]
                                    /\ target'[q] = target[q]
        /\ cancelled' = {}
    BY DEF SettledInv, TypeInv, TypeOK, EngineTypeOK, Return
  <1>2. Calls'
    BY <1>1 DEF SettledInv, Calls, EngineAddPC
  <1>3. Alone'
    BY <1>1, NilAssumption DEF SettledInv, TypeInv, Targeted, Alone
  <1> QED BY <1>1, <1>2, <1>3 DEF Control

(* A step of p that closes no torrent keeps the rest of the invariant, if  *)
(* it leaves the other torrents' flags alone and either settles its own or *)
(* was not counted on to do so.                                            *)
LEMMA KeepSettled ==
    ASSUME SettledInv, NEW p \in Proc, NEW h \in Hash, target[p] = h,
           up' = up,
           \A q \in Proc : q # p => /\ pc'[q] = pc[q]
                                    /\ op'[q] = op[q]
                                    /\ target'[q] = target[q]
                                    /\ handle'[q] = handle[q],
           downloading \subseteq downloading',
           \A g \in Hash : g # h /\ Unpaused(g)' => Unpaused(g),
           \/ ~Unpaused(h)' \/ h \in downloading'
           \/ target'[p] = h /\ Settling(p)'
           \/ ~Settling(p) /\ (Unpaused(h)' => Unpaused(h)),
           pc'[p] \in Adding /\ op'[p] \in {"add", "restore"} => handle'[p] = "open",
           pc'[p] = "engine.dropFailed" => op'[p] = "resume" /\ handle'[p] # "open",
           pc'[p] = "add.create" => target'[p] \in downloading'
    PROVE  NotClosed' /\ Settled'
  <1>1. NotClosed'
    BY DEF SettledInv, NotClosed
  <1>2. Settled'
    <2> SUFFICES ASSUME up, NEW g \in Hash, Unpaused(g)', g \notin downloading'
                 PROVE  \E q \in Proc : target'[q] = g /\ Settling(q)'
      BY DEF Settled
    <2>1. \A q \in Proc : q # p => (Settling(q)' <=> Settling(q))
      BY DEF Settling
    <2>2. CASE g # h
      <3>1. PICK q \in Proc : target[q] = g /\ Settling(q)
        BY <2>2 DEF SettledInv, Settled
      <3> QED BY <2>1, <2>2, <3>1
    <2>3. CASE g = h /\ target'[p] = h /\ Settling(p)'
      BY <2>3
    <2>4. CASE g = h /\ ~Settling(p) /\ Unpaused(h)
      <3>1. PICK q \in Proc : target[q] = g /\ Settling(q)
        BY <2>4 DEF SettledInv, Settled
      <3> QED BY <2>1, <2>4, <3>1
    <2> QED BY <2>2, <2>3, <2>4
  <1> QED BY <1>1, <1>2

LEMMA EngineAddSettled ==
    ASSUME SettledInv, Calm, NEW p \in Proc, EngineAdd(p)
    PROVE  Control' /\ NotClosed' /\ Settled'
  <1> USE DEF PC, EngineAddPC, Adding
  <1>0. /\ target[p] \in Hash /\ pc[p] # "idle" /\ p \notin cancelled
        /\ op[p] \in {"add", "resume", "restore"}
        /\ handle \in [Proc -> HandleState]
    BY DEF SettledInv, TypeInv, TypeOK, EngineTypeOK, Targeted, Calls, EngineAdd,
           EngineClientAdd, EngineGotInfo, EngineQueueCheck, EngineCheckDone,
           EngineCheckAborted, EngineDropFailed, EngineDownloadAll
  <1>u. table' = table => \A h \in Hash : Unpaused(h)' <=> Unpaused(h)
    BY DEF Unpaused, Managed
  <1>n. /\ pc[p] \in Adding /\ op[p] \in {"add", "restore"} => handle[p] = "open"
        /\ pc[p] = "engine.dropFailed" => op[p] = "resume" /\ handle[p] # "open"
    BY DEF SettledInv, NotClosed
  <1>1. CASE EngineClientAdd(p)
    <2>1. /\ table' = table /\ downloading' = downloading
          /\ handle' = [handle EXCEPT ![p] = "open"]
          /\ Goto(p, "engine.gotInfo")
      BY <1>1 DEF EngineClientAdd, ClientAdd
    <2>2. Settling(p)'
      BY <1>0, <2>1, GotoControl DEF Settling
    <2> QED BY <1>0, <1>u, <2>1, <2>2, GotoControl, KeepSettled
  <1>2. CASE EngineGotInfo(p)
    <2>1. /\ table' = table /\ downloading' = downloading /\ handle' = handle
          /\ Goto(p, "engine.queueCheck") /\ pc[p] = "engine.gotInfo"
      BY <1>0, <1>2 DEF EngineGotInfo, engineRest, clientVars
    <2>2. Settling(p) => Settling(p)'
      BY <1>0, <2>1, GotoControl DEF Settling
    <2> QED BY <1>0, <1>u, <1>n, <2>1, <2>2, GotoControl, KeepSettled
  <1>3. CASE EngineQueueCheck(p)
    <2>1. /\ table' = table /\ downloading' = downloading /\ handle' = handle
          /\ pc[p] = "engine.queueCheck"
          /\ Goto(p, IF handle[p] = "open" THEN "engine.awaitCheck" ELSE "engine.dropFailed")
      BY <1>3 DEF EngineQueueCheck, QueueCheck, clientVars
    <2>2. Settling(p) => Settling(p)'
      BY <1>0, <2>1, GotoControl DEF Settling
    <2> QED BY <1>0, <1>u, <1>n, <2>1, <2>2, GotoControl, KeepSettled
  <1>4. CASE EngineCheckDone(p)
    <2>1. /\ table' = table /\ downloading' = downloading /\ handle' = handle
          /\ pc[p] = "engine.awaitCheck"
          /\ Goto(p, "engine.downloadAll") \/ Goto(p, "engine.queueCheck")
      BY <1>4 DEF EngineCheckDone, CheckPiece
    <2>2. Settling(p) => Settling(p)'
      BY <1>0, <2>1, GotoControl DEF Settling
    <2> QED BY <1>0, <1>u, <1>n, <2>1, <2>2, GotoControl, KeepSettled
  <1>5. CASE EngineCheckAborted(p)
    <2>1. /\ table' = table /\ downloading' = downloading /\ handle' = handle
          /\ pc[p] = "engine.awaitCheck" /\ handle[p] # "open"
          /\ Goto(p, "engine.dropFailed")
      BY <1>0, <1>5 DEF EngineCheckAborted, engineRest, clientVars
    <2>2. Settling(p)'
      BY <1>0, <2>1, GotoControl DEF Settling
    <2> QED BY <1>0, <1>u, <1>n, <2>1, <2>2, GotoControl, KeepSettled
  <1>6. CASE EngineDropFailed(p)
    <2>1. /\ table' = table /\ downloading' = downloading
          /\ handle' = [handle EXCEPT ![p] = "nil"]
          /\ Goto(p, "resume.rollback")
      BY <1>n, <1>6 DEF EngineDropFailed, Drop, AddFails, clientVars
    <2>2. Settling(p)'
      BY <1>0, <2>1, GotoControl DEF Settling
    <2> QED BY <1>0, <1>u, <2>1, <2>2, GotoControl, KeepSettled
  <1>7. CASE EngineDownloadAll(p)
    <2>1. /\ table' = table
          /\ downloading' = IF handle[p] = "open" THEN downloading \cup {target[p]}
                                                  ELSE downloading
          /\ handle' = [handle EXCEPT ![p] = "nil"]
          /\ pc[p] = "engine.downloadAll"
          /\ Goto(p, Added(p))
      BY <1>7 DEF EngineDownloadAll, DownloadAll
    <2>2. /\ Added(p) \in {"add.create", "metadata.snapshot"}
          /\ Added(p) = "add.create" => op[p] = "add"
      BY DEF Added
    <2>3. target[p] \in downloading' \/ ~Settling(p)
      BY <2>1 DEF Settling
    <2>4. Added(p) = "add.create" => target'[p] \in downloading'
      BY <1>0, <1>n, <2>1, <2>2 DEF Goto
    <2> QED BY <1>0, <1>u, <2>1, <2>2, <2>3, <2>4, GotoControl, KeepSettled
  <1> QED BY <1>1, <1>2, <1>3, <1>4, <1>5, <1>6, <1>7 DEF EngineAdd

(* Closing a torrent unsettles it for everyone else, but the goroutine     *)
(* that closed it goes on to set the flag or to delete the row.            *)
LEMMA EngineRemoveSettled ==
    ASSUME SettledInv, Calm, NEW p \in Proc, EngineRemove(p)
    PROVE  Control' /\ NotClosed' /\ Settled'
  <1> USE DEF PC, EngineRemovePC, EngineAddPC, Adding
  <1>0. /\ target[p] \in Hash /\ pc[p] # "idle" /\ "disk" \notin Faults
        /\ handle \in [Proc -> HandleState]
    BY DEF SettledInv, TypeInv, TypeOK, EngineTypeOK, Targeted, Calm,
           EngineRemove, EngineFind, EngineDrop, EngineErase
  <1>u. table' = table => \A h \in Hash : Unpaused(h)' <=> Unpaused(h)
    BY DEF Unpaused, Managed
  <1>r. Removed(p) \in {"pause.setPaused", "remove.delete"}
    BY DEF Removed
  <1>1. CASE EngineFind(p)
    <2> DEFINE next == IF target[p] \in tracked THEN "engine.drop" ELSE Removed(p)
    <2>1. /\ table' = table /\ downloading' = downloading
          /\ \A q \in Proc : q # p => handle'[q] = handle[q]
          /\ pc[p] = "engine.find"
          /\ Goto(p, next)
          /\ next \in {"engine.drop", "pause.setPaused", "remove.delete"}
      BY <1>0, <1>1, <1>r DEF EngineFind, Find, clientVars
    <2> HIDE DEF next
    <2>2. ~Settling(p)
      BY <2>1 DEF Settling
    <2> QED BY <1>0, <1>u, <2>1, <2>2, GotoControl, KeepSettled
  <1>2. CASE EngineDrop(p)
    <2> DEFINE next == IF frame[p].deleteFiles /\ frame[p].path
                       THEN "engine.erase" ELSE Removed(p)
    <2>1. /\ table' = table
          /\ pc[p] = "engine.drop"
          /\ Goto(p, next)
          /\ next \in {"engine.erase", "pause.setPaused", "remove.delete"}
      BY <1>2, <1>r DEF EngineDrop
    <2> HIDE DEF next
    <2>c. /\ Control' /\ up' = up /\ op' = op /\ target' = target /\ pc'[p] = next
          /\ \A q \in Proc : q # p => pc'[q] = pc[q]
      BY <1>0, <2>1, GotoControl
    <2>s. Settling(p)'
      BY <2>1, <2>c DEF Settling
    <2>2. CASE handle[p] # "open"
      <3>1. downloading' = downloading /\ \A q \in Proc : q # p => handle'[q] = handle[q]
        BY <1>0, <1>2, <2>2 DEF EngineDrop, Drop, clientVars
      <3> QED BY <1>0, <1>u, <2>1, <2>c, <2>s, <3>1, KeepSettled
    <2>3. CASE handle[p] = "open"
      <3>1. /\ downloading' = downloading \ {target[p]}
            /\ \A q \in Proc : q # p => \/ handle'[q] = handle[q]
                                        \/ target[q] = target[p] /\ handle'[q] # "open"
        BY <1>0, <1>2, <2>3 DEF EngineDrop, Drop
      <3>2. \A q \in Proc : q # p /\ target[q] # target[p]
                                => (Settling(q)' <=> Settling(q))
        BY <2>c, <3>1 DEF Settling
      <3>3. NotClosed'
        <4> SUFFICES ASSUME NEW q \in Proc
                     PROVE  /\ pc'[q] \in Adding /\ op'[q] \in {"add", "restore"} => handle'[q] = "open"
                            /\ pc'[q] = "engine.dropFailed" => op'[q] = "resume" /\ handle'[q] # "open"
                            /\ pc'[q] = "add.create" => target'[q] \in downloading'
          BY DEF NotClosed
        <4>1. CASE q = p
          BY <4>1, <2>1, <2>c
        <4>2. CASE q # p /\ target[q] # target[p]
          BY <4>2, <2>c, <3>1 DEF SettledInv, NotClosed
        <4>3. CASE q # p /\ target[q] = target[p]
          <5>1. pc[q] # "idle"
            BY <1>0, <4>3, NilAssumption DEF SettledInv, Calls
          <5>2. op[q] \notin {"add", "restore"}
            BY <4>3, <5>1 DEF SettledInv, Alone
          <5> QED BY <4>3, <5>2, <2>c, <3>1 DEF SettledInv, NotClosed, Calls
        <4> QED BY <4>1, <4>2, <4>3
      <3>4. Settled'
        <4> SUFFICES ASSUME up, NEW g \in Hash, Unpaused(g)', g \notin downloading'
                     PROVE  \E q \in Proc : target'[q] = g /\ Settling(q)'
          BY <2>c DEF Settled
        <4>1. CASE g = target[p]
          BY <4>1, <2>c, <2>s
        <4>2. CASE g # target[p]
          <5>1. PICK q \in Proc : target[q] = g /\ Settling(q)
            BY <1>u, <2>1, <3>1, <4>2 DEF SettledInv, Settled
          <5> QED BY <4>2, <5>1, <3>2, <2>c
        <4> QED BY <4>1, <4>2
      <3> QED BY <2>c, <3>3, <3>4
    <2> QED BY <2>2, <2>3
  <1>3. CASE EngineErase(p)
    <2>1. /\ table' = table /\ downloading' = downloading /\ handle' = handle
          /\ Goto(p, Removed(p))
      BY <1>0, <1>3 DEF EngineErase, Erase, clientVars
    <2>2. Settling(p)'
      BY <1>0, <1>r, <2>1, GotoControl DEF Settling
    <2> QED BY <1>0, <1>u, <1>r, <2>1, <2>2, GotoControl, KeepSettled
  <1> QED BY <1>1, <1>2, <1>3 DEF EngineRemove

(* What each statement does to the flags.                                  *)
LEMMA Flags ==
    ASSUME TypeInv, NEW h \in Hash
    PROVE  /\ table' = table => \A g \in Hash : Unpaused(g)' <=> Unpaused(g)
           /\ \A magnet \in Magnet : Create(h, magnet) =>
                  \A g \in Hash : g # h => (Unpaused(g)' <=> Unpaused(g))
           /\ \A length \in {0, Length} : SetMetadata(h, length) =>
                  \A g \in Hash : Unpaused(g)' <=> Unpaused(g)
           /\ \A bytes \in 0..Length : SetBytesCompleted(h, bytes) =>
                  \A g \in Hash : Unpaused(g)' <=> Unpaused(g)
           /\ \A paused \in BOOLEAN : SetPaused(h, paused) =>
                  \A g \in Hash : g # h => (Unpaused(g)' <=> Unpaused(g))
           /\ SetPaused(h, TRUE) => ~Unpaused(h)'
           /\ Delete(h) => /\ ~Unpaused(h)'
                           /\ \A g \in Hash : g # h => (Unpaused(g)' <=> Unpaused(g))
  <1> USE DEF TypeInv, TypeOK, RepositoryTypeOK, Unpaused, Managed
  <1>1. table' = table => \A g \in Hash : Unpaused(g)' <=> Unpaused(g)
    OBVIOUS
  <1>2. \A magnet \in Magnet : Create(h, magnet) =>
            \A g \in Hash : g # h => (Unpaused(g)' <=> Unpaused(g))
    BY DEF Create
  <1>3. \A length \in {0, Length} : SetMetadata(h, length) =>
            \A g \in Hash : Unpaused(g)' <=> Unpaused(g)
    BY NoRowAssumption DEF SetMetadata, Row
  <1>4. \A bytes \in 0..Length : SetBytesCompleted(h, bytes) =>
            \A g \in Hash : Unpaused(g)' <=> Unpaused(g)
    BY NoRowAssumption DEF SetBytesCompleted, Row
  <1>5. \A paused \in BOOLEAN : SetPaused(h, paused) =>
            \A g \in Hash : g # h => (Unpaused(g)' <=> Unpaused(g))
    BY DEF SetPaused
  <1>6. SetPaused(h, TRUE) => ~Unpaused(h)'
    BY DEF SetPaused, Row
  <1>7. Delete(h) => /\ ~Unpaused(h)'
                     /\ \A g \in Hash : g # h => (Unpaused(g)' <=> Unpaused(g))
    BY DEF Delete
  <1> QED BY <1>1, <1>2, <1>3, <1>4, <1>5, <1>6, <1>7

(* The service's own steps close nothing; those that change the flag of    *)
(* their torrent set it, delete its row, or go on to start its download.   *)
LEMMA ServiceStepSettled ==
    ASSUME SettledInv, Calm, NEW p \in Proc,
           \/ AddCreate(p) \/ MetadataSnapshot(p) \/ MetadataSet(p)
           \/ Pause(p) \/ Resume(p) \/ Remove(p)
    PROVE  Control' /\ NotClosed' /\ Settled'
  <1> USE DEF PC, EngineRemovePC, EngineAddPC, Adding
  <1>0. /\ target[p] \in Hash /\ pc[p] # "idle" /\ TypeInv
        /\ StatementRuns(p) /\ ~StatementFails(p)
    BY DEF SettledInv, TypeInv, TypeOK, Targeted, Calm, StatementRuns, StatementFails,
           AddCreate, MetadataSnapshot, MetadataSet,
           Pause, PauseSnapshot, PauseSetBytes, PauseSetPaused,
           Resume, ResumeGet, ResumeSetPaused, ResumeRollback,
           Remove, RemoveGet, RemoveIsComplete, RemoveDelete
  <1>e. downloading' = downloading /\ handle' = handle
    BY DEF engineRest, clientVars, AddCreate, MetadataSnapshot, MetadataSet,
           Pause, PauseSnapshot, PauseSetBytes, PauseSetPaused,
           Resume, ResumeGet, ResumeSetPaused, ResumeRollback,
           Remove, RemoveGet, RemoveIsComplete, RemoveDelete
  <1>h. PICK h \in Hash : h = target[p]
    BY <1>0
  <1>f. /\ frame[p].snap.length \in {0, Length}
        /\ frame[p].snap.bytes \in 0..Length
        /\ frame[p].source \in Magnet \cup {"file"}
    BY <1>0 DEF TypeInv, TypeOK, Frame
  <1> DEFINE Same == \A g \in Hash : Unpaused(g)' <=> Unpaused(g)
             Others == \A g \in Hash : g # h => (Unpaused(g)' <=> Unpaused(g))
  <1>g. /\ table' = table => Same
        /\ \A magnet \in Magnet : Create(target[p], magnet) => Others
        /\ SetMetadata(target[p], frame[p].snap.length) => Same
        /\ SetBytesCompleted(target[p], frame[p].snap.bytes) => Same
        /\ SetPaused(target[p], FALSE) => Others
        /\ SetPaused(target[p], TRUE) => Others /\ ~Unpaused(h)'
        /\ Delete(target[p]) => Others /\ ~Unpaused(h)'
    BY <1>0, <1>f, <1>h, Flags
  <1>m. ~Managed(target[p]) /\ table' = table => ~Unpaused(h)'
    BY <1>h DEF Unpaused, Managed
  <1> HIDE DEF Same, Others
  (* The three shapes of these steps: nothing changes for the flags and    *)
  (* nobody counted on the handler, ...                                    *)
  <1>a. ASSUME Same, ~Settling(p),
               \/ Return(p)
               \/ \E next \in PC \ ({"idle", "add.create"} \cup EngineAddPC) :
                     /\ Goto(p, next)
                     /\ next \in {"resume.get", "resume.setPaused"} => op[p] = "resume"
        PROVE  Control' /\ NotClosed' /\ Settled'
    <2>1. CASE Return(p)
      BY <1>0, <1>h, <1>e, <1>a, <2>1, ReturnControl, KeepSettled DEF Same
    <2>2. ASSUME NEW next \in PC \ ({"idle", "add.create"} \cup EngineAddPC), Goto(p, next),
                 next \in {"resume.get", "resume.setPaused"} => op[p] = "resume"
          PROVE  Control' /\ NotClosed' /\ Settled'
      BY <1>0, <1>h, <1>e, <1>a, <2>2, GotoControl, KeepSettled DEF Same
    <2> QED BY <1>a, <2>1, <2>2
  (* ... or the torrent is left without a row that is not paused.          *)
  <1>b. ASSUME Others \/ Same, ~Unpaused(h)', Return(p)
        PROVE  Control' /\ NotClosed' /\ Settled'
    BY <1>h, <1>e, <1>b, ReturnControl, KeepSettled DEF Same, Others
  <1>1. CASE AddCreate(p)
    <2>0. (IF frame[p].source = "file" THEN "bare" ELSE frame[p].source) \in Magnet
      BY <1>f DEF Magnet
    <2>1. pc[p] = "add.create" /\ target[p] \in downloading
      BY <1>1 DEF AddCreate, SettledInv, NotClosed
    <2>2. CASE Return(p) /\ table' = table
      BY <1>a, <1>g, <2>1, <2>2 DEF Settling
    <2>3. CASE Others /\ Goto(p, "metadata.snapshot")
      BY <1>0, <1>h, <1>e, <2>1, <2>3, GotoControl, KeepSettled DEF Others
    <2> QED BY <1>0, <1>1, <1>g, <2>0, <2>2, <2>3 DEF AddCreate
  <1>2. CASE MetadataSnapshot(p)
    BY <1>2, <1>a, <1>g DEF MetadataSnapshot, Settling
  <1>3. CASE MetadataSet(p)
    BY <1>3, <1>a, <1>g DEF MetadataSet, Settling
  <1>4. CASE PauseSnapshot(p)
    BY <1>4, <1>a, <1>g DEF PauseSnapshot, Settling
  <1>5. CASE PauseSetBytes(p)
    BY <1>5, <1>a, <1>g DEF PauseSetBytes, Settling
  <1>6. CASE PauseSetPaused(p)
    BY <1>0, <1>6, <1>b, <1>g, <1>m DEF PauseSetPaused
  <1>7. CASE ResumeGet(p)
    <2>1. op[p] = "resume"
      BY <1>7 DEF ResumeGet, SettledInv, Calls
    <2> QED BY <1>7, <1>a, <1>g, <2>1 DEF ResumeGet, Settling
  <1>8. CASE ResumeSetPaused(p)
    <2>1. CASE Return(p) /\ table' = table
      BY <1>8, <1>a, <1>g, <2>1 DEF ResumeSetPaused, Settling
    <2>2. CASE Others /\ Goto(p, "engine.clientAdd")
      <3>1. op[p] \in {"add", "resume", "restore"}
        BY <1>8 DEF ResumeSetPaused, SettledInv, Calls
      <3> QED BY <1>0, <1>h, <1>e, <2>2, <3>1, GotoControl, KeepSettled DEF Others, Settling
    <2> QED BY <1>0, <1>8, <1>g, <2>1, <2>2 DEF ResumeSetPaused
  <1>9. CASE ResumeRollback(p)
    BY <1>0, <1>9, <1>b, <1>g, <1>m DEF ResumeRollback
  <1>10. CASE RemoveGet(p)
    BY <1>10, <1>a, <1>g DEF RemoveGet, Settling
  <1>11. CASE RemoveIsComplete(p)
    BY <1>11, <1>a, <1>g DEF RemoveIsComplete, Settling
  <1>12. CASE RemoveDelete(p)
    BY <1>0, <1>12, <1>b, <1>g, <1>m DEF RemoveDelete
  <1> QED BY <1>1, <1>2, <1>3, <1>4, <1>5, <1>6, <1>7, <1>8, <1>9, <1>10, <1>11, <1>12
          DEF Pause, Resume, Remove

(* A request begins in an idle goroutine: it was not counted on, and one   *)
(* that adds finds its torrent to itself and keeps it so.                  *)
LEMMA RequestSettled ==
    ASSUME SettledInv, Calm, NEW p \in Req, Request(p)
    PROVE  Control' /\ NotClosed' /\ Settled'
  <1> USE DEF PC, EngineAddPC, Adding
  <1>0. p \in Proc
    BY DEF Proc
  <1>1. PICK o \in {"add", "pause", "resume", "remove"}, h \in Hash,
             first \in {"engine.clientAdd", "pause.snapshot", "resume.get", "remove.get"} :
            /\ \E locals : Begin(p, o, h, first, locals)
            /\ first = "engine.clientAdd" => o = "add"
            /\ first = "resume.get" => o = "resume"
    BY DEF Request, AddRequest, PauseRequest, ResumeRequest, RemoveRequest
  <1>2. /\ MayBegin(p, o, h) /\ pc[p] = "idle"
        /\ up' = up /\ table' = table /\ cancelled' = cancelled
        /\ downloading' = downloading /\ handle' = handle
    BY <1>1 DEF Begin, MayBegin, engineRest, clientVars
  <1>3. /\ pc'[p] = first /\ op'[p] = o /\ target'[p] = h
        /\ \A q \in Proc : q # p => /\ pc'[q] = pc[q]
                                    /\ op'[q] = op[q]
                                    /\ target'[q] = target[q]
    BY <1>0, <1>1 DEF Begin, SettledInv, TypeInv, TypeOK, EngineTypeOK
  <1>4. \A q \in Proc : target[q] = h => o # "add" /\ op[q] # "add"
    BY <1>2 DEF MayBegin, Calm
  <1>5. \A q \in Proc : op[q] = "restore" => pc[q] = "idle"
    BY <1>2 DEF MayBegin, Serving, SettledInv, Calls
  <1>6. Calls'
    BY <1>1, <1>3 DEF Calls, SettledInv
  <1>7. Alone'
    <2> SUFFICES ASSUME NEW q \in Proc, NEW r \in Proc, q # r, pc'[q] # "idle",
                        op'[q] \in {"add", "restore"}
                 PROVE  target'[r] # target'[q]
      BY DEF Alone
    <2>1. CASE q = p
      BY <1>3, <1>4, <2>1
    <2>2. CASE r = p
      BY <1>3, <1>4, <1>5, <2>2
    <2>3. CASE q # p /\ r # p
      BY <1>3, <2>3 DEF SettledInv, Alone
    <2> QED BY <2>1, <2>2, <2>3
  <1>8. NotClosed'
    BY <1>2, <1>3 DEF NotClosed, SettledInv
  <1>9. Settled'
    <2>1. \A q \in Proc : Settling(q) => q # p
      BY <1>2 DEF Settling
    <2>2. \A q \in Proc : q # p => (Settling(q)' <=> Settling(q))
      BY <1>2, <1>3 DEF Settling
    <2> QED BY <1>2, <1>3, <2>1, <2>2 DEF SettledInv, Settled, Unpaused, Managed
  <1> QED BY <1>2, <1>6, <1>7, <1>8, <1>9 DEF Control, SettledInv

LEMMA ServerSettled ==
    ASSUME SettledInv, Calm, Restore \/ Crash \/ Peers \/ \E p \in Req : Cancel(p)
    PROVE  Control' /\ NotClosed' /\ Settled'
  <1> USE DEF PC, EngineAddPC, Adding
  <1>1. CASE Restore
    <2> DEFINE rows == {h \in Hash : Unpaused(h)}
    <2>1. /\ pc' = [p \in Proc |-> IF p \in rows THEN "engine.clientAdd" ELSE "idle"]
          /\ op' = [p \in Proc |-> IF p \in rows THEN "restore" ELSE "none"]
          /\ target' = [p \in Proc |-> IF p \in rows THEN p ELSE Nil]
          /\ table' = table /\ cancelled' = {}
      BY <1>1 DEF Restore, SettledInv
    <2>2. \A h \in Hash : Unpaused(h)' => h \in rows
      BY <2>1 DEF Unpaused, Managed
    <2>3. rows \subseteq Hash
      OBVIOUS
    <2> HIDE DEF rows
    <2>4. Calls'
      BY <2>1, <2>3 DEF Calls
    <2>5. Alone'
      BY <2>1, <2>3, NilAssumption DEF Alone
    <2>6. NotClosed'
      BY <2>1 DEF NotClosed
    <2>7. \A h \in rows : h \in Proc /\ target'[h] = h /\ Settling(h)'
      BY <2>1, <2>3 DEF Settling, Proc
    <2>8. Settled'
      BY <2>2, <2>7 DEF Settled, Proc
    <2> QED BY <2>1, <2>4, <2>5, <2>6, <2>8 DEF Control
  <1>2. CASE Crash
    BY <1>2 DEF Crash, Control, Calls, Alone, NotClosed, Settled
  <1>3. CASE Peers
    <2>1. /\ table' = table /\ downloading' = downloading /\ handle' = handle
          /\ target' = target /\ UNCHANGED serviceVars
      BY <1>3 DEF Peers, MetadataArrives, PieceArrives
    <2>2. \A p \in Proc : Settling(p)' <=> Settling(p)
      BY <2>1 DEF Settling, serviceVars
    <2>3. Settled'
      BY <2>1, <2>2 DEF SettledInv, Settled, serviceVars, Unpaused, Managed
    <2> QED BY <2>1, <2>3 DEF SettledInv, Control, Calls, Alone, NotClosed, serviceVars
  <1>4. ~ \E p \in Req : Cancel(p)
    BY DEF Cancel, Calm
  <1> QED BY <1>1, <1>2, <1>3, <1>4

(* The handlers' discipline, as an invariant of the specification.         *)
LEMMA SettledInvariant == ASSUME Calm PROVE Spec => []SettledInv
  <1>1. Init => SettledInv
    BY TypeInit, NilAssumption
    DEF Init, SettledInv, Calls, Alone, NotClosed, Settled, EngineInit, EngineAddPC, Adding
  <1>2. SettledInv /\ [Next]_vars => SettledInv'
    <2> SUFFICES ASSUME SettledInv, [Next]_vars PROVE SettledInv'
      OBVIOUS
    <2>1. TypeInv'
      BY TypeStep DEF SettledInv
    <2>2. ASSUME NEW p \in Proc, Step(p) PROVE Control' /\ NotClosed' /\ Settled'
      BY <2>2, EngineAddSettled, EngineRemoveSettled, ServiceStepSettled DEF Step
    <2>3. CASE UNCHANGED vars
      <3>1. \A p \in Proc : Settling(p)' <=> Settling(p)
        BY <2>3 DEF Settling, vars, engineVars, serviceVars
      <3>2. Settled'
        BY <2>3, <3>1 DEF SettledInv, Settled, vars, engineVars, clientVars, serviceVars,
                          Unpaused, Managed
      <3> QED BY <2>1, <2>3, <3>2 DEF SettledInv, Calls, Alone, NotClosed,
                                      vars, engineVars, clientVars, serviceVars
    <2>4. CASE Next
      <3>1. Control' /\ NotClosed' /\ Settled'
        BY <2>2, <2>4, RequestSettled, ServerSettled DEF Next
      <3> QED BY <2>1, <3>1 DEF SettledInv, Control
    <2> QED BY <2>3, <2>4
  <1> QED BY <1>1, <1>2, PTL DEF Spec

(* Once the calls about a torrent have returned, its row says it is not    *)
(* paused only if the engine downloads it, however pauses, resumes and     *)
(* removals of it overlapped and wherever the process died: the order of   *)
(* the calls in Pause, Resume and Remove is enough, without a lock.        *)
THEOREM UnpausedDownloads == ASSUME Calm PROVE Spec => []UnpausedIsDownloading
  <1>1. SettledInv => UnpausedIsDownloading
    BY DEF SettledInv, Settled, UnpausedIsDownloading, Quiet
  <1> QED BY <1>1, SettledInvariant, PTL
=============================================================================
