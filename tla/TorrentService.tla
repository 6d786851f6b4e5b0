---------------------------- MODULE TorrentService ----------------------------
(***************************************************************************)
(* TorrentService (internal/server/service/torrent.go) over the torrent    *)
(* table and the engine, with the server's start and crash                 *)
(* (internal/server/server.go).                                            *)
(*                                                                         *)
(* A handler is a goroutine of Req that runs one of the service's          *)
(* operations; every call it makes into the repository or the client is    *)
(* one action, so handlers interleave between any two calls.  pc names the *)
(* call the goroutine makes next, prefixed by the function that makes it.  *)
(* The read-only operations (Get, List, Files) change nothing.             *)
(***************************************************************************)
EXTENDS TorrentRepository, Engine

CONSTANTS
    Overlap,    \* operations that may run while another of them is running on
                \* the same torrent; the others have the torrent to themselves
    ReAdd,      \* whether clients add torrents that are already managed
    Faults      \* the failures that happen

Op == {"add", "pause", "resume", "remove", "restore"}

ASSUME EnvironmentAssumption ==
    /\ Overlap \subseteq Op
    /\ ReAdd \in BOOLEAN
    /\ Faults \subseteq {"cancel", "database", "disk", "crash"}

VARIABLES
    up,         \* the server process runs
    pc,         \* the call a goroutine makes next
    op,         \* the operation it runs, "none" between requests
    cancelled,  \* goroutines whose context is cancelled
    frame       \* the handler's local variables

serviceVars == <<up, pc, op, cancelled, frame>>
vars == <<table, engineVars, serviceVars>>

(* source: what AddMagnet or AddFile is given; deleteFiles: the flag, then *)
(* actuallyDeleteFiles; rowComplete: the persisted row's answer to         *)
(* isComplete; path: the name read by engine.Remove is the content's path; *)
(* snap: the last Snapshot; piece: the next piece to verify; asked: what a *)
(* removal was asked for, and whether the content was whole when it came   *)
(* (history, no step reads it).                                            *)
Frame == [source : Magnet \cup {"file"}, deleteFiles : BOOLEAN,
          rowComplete : BOOLEAN, path : BOOLEAN,
          snap : [length : {0, Length}, bytes : 0..Length],
          piece : 1..Length, asked : {"none", "delete", "keep", "keepwhole"}]

EmptyFrame == [source |-> "bare", deleteFiles |-> FALSE, rowComplete |-> FALSE,
               path |-> FALSE, snap |-> [length |-> 0, bytes |-> 0],
               piece |-> 1, asked |-> "none"]

EngineAddPC == {"engine.clientAdd", "engine.gotInfo", "engine.queueCheck",
                "engine.awaitCheck", "engine.downloadAll", "engine.dropFailed"}
EngineRemovePC == {"engine.find", "engine.drop", "engine.erase"}
PC == {"idle"} \cup EngineAddPC \cup EngineRemovePC \cup
      {"add.create", "metadata.snapshot", "metadata.set",
       "pause.snapshot", "pause.setBytes", "pause.setPaused",
       "resume.get", "resume.setPaused", "resume.rollback",
       "remove.get", "remove.isComplete", "remove.delete"}

TypeOK ==
    /\ RepositoryTypeOK
    /\ EngineTypeOK
    /\ up \in BOOLEAN
    /\ pc \in [Proc -> PC]
    /\ op \in [Proc -> Op \cup {"none"}]
    /\ cancelled \subseteq Proc
    /\ frame \in [Proc -> Frame]

Init ==
    /\ RepositoryInit
    /\ EngineInit
    /\ up = FALSE
    /\ pc = [p \in Proc |-> "idle"]
    /\ op = [p \in Proc |-> "none"]
    /\ cancelled = {}
    /\ frame = [p \in Proc |-> EmptyFrame]

(* A goroutine goes on to its next call ...                                *)
Goto(p, next) ==
    /\ pc' = [pc EXCEPT ![p] = next]
    /\ UNCHANGED <<up, op, cancelled, target>>

(* ... or its handler returns and its locals are gone.                     *)
Return(p) ==
    /\ pc' = [pc EXCEPT ![p] = "idle"]
    /\ op' = [op EXCEPT ![p] = "none"]
    /\ target' = [target EXCEPT ![p] = Nil]
    /\ frame' = [frame EXCEPT ![p] = EmptyFrame]
    /\ cancelled' = cancelled \ {p}
    /\ UNCHANGED up

(* The engine without target, which Goto and Return set.                   *)
engineRest == <<clientVars, disk, handle, leaked>>

(* A statement fails when its context is cancelled or the database errs.   *)
StatementRuns(p) == p \notin cancelled
StatementFails(p) == p \in cancelled \/ "database" \in Faults

-----------------------------------------------------------------------------
(* Requests.  HTTP is served once every restore goroutine has returned.    *)

Serving == up /\ \A h \in Hash : pc[h] = "idle"

MayBegin(p, o, h) ==
    /\ Serving
    /\ pc[p] = "idle"
    /\ \A q \in Proc : target[q] = h => {o, op[q]} \subseteq Overlap

Begin(p, o, h, first, locals) ==
    /\ MayBegin(p, o, h)
    /\ pc' = [pc EXCEPT ![p] = first]
    /\ op' = [op EXCEPT ![p] = o]
    /\ target' = [target EXCEPT ![p] = h]
    /\ frame' = [frame EXCEPT ![p] = locals]
    /\ UNCHANGED <<table, engineRest, up, cancelled>>

AddRequest(p, h, source) ==
    /\ ReAdd \/ ~Managed(h)
    /\ Begin(p, "add", h, "engine.clientAdd", [EmptyFrame EXCEPT !.source = source])

PauseRequest(p, h) == Begin(p, "pause", h, "pause.snapshot", EmptyFrame)

ResumeRequest(p, h) == Begin(p, "resume", h, "resume.get", EmptyFrame)

RemoveRequest(p, h, deleteFiles) ==
    Begin(p, "remove", h, "remove.get",
          [EmptyFrame EXCEPT !.deleteFiles = deleteFiles,
                             !.asked = CASE deleteFiles -> "delete"
                                         [] ~deleteFiles /\ disk[h] = Length -> "keepwhole"
                                         [] ~deleteFiles /\ disk[h] < Length -> "keep"])

(* The client of a request goes away: its context is cancelled.            *)
Cancel(p) ==
    /\ "cancel" \in Faults
    /\ pc[p] # "idle"
    /\ p \notin cancelled
    /\ cancelled' = cancelled \cup {p}
    /\ UNCHANGED <<table, engineVars, up, pc, op, frame>>

-----------------------------------------------------------------------------
(* engine.AddMagnet and engine.AddFile, called by AddMagnet, AddFile,      *)
(* Resume and Restore.                                                     *)

(* Where their callers go on from success and from an error.               *)
Added(p) == IF op[p] = "add" THEN "add.create" ELSE "metadata.snapshot"

AddFails(p) ==
    IF op[p] = "resume"
    THEN Goto(p, "resume.rollback") /\ UNCHANGED frame
    ELSE Return(p)

EngineClientAdd(p) ==
    /\ pc[p] = "engine.clientAdd"
    /\ ClientAdd(p, target[p], frame[p].source)
    /\ Goto(p, "engine.gotInfo")
    /\ UNCHANGED <<table, frame>>

(* Mutant: the wait does not look at the context.                          *)
EngineGotInfoUncancelled(p) ==
    /\ pc[p] = "engine.gotInfo"
    /\ GotInfo(p)
    /\ Goto(p, "engine.queueCheck")
    /\ UNCHANGED <<table, engineRest, frame>>

EngineGotInfo(p) ==
    /\ pc[p] = "engine.gotInfo"
    /\ \/ GotInfo(p) /\ Goto(p, "engine.queueCheck")
       \/ p \in cancelled /\ Goto(p, "engine.dropFailed")
    /\ UNCHANGED <<table, engineRest, frame>>

EngineQueueCheck(p) ==
    /\ pc[p] = "engine.queueCheck"
    /\ QueueCheck(p)
    /\ Goto(p, IF handle[p] = "open" THEN "engine.awaitCheck" ELSE "engine.dropFailed")
    /\ UNCHANGED <<table, frame>>

(* Mutant: the loop over the pieces runs once too often.                   *)
EngineCheckDoneOffByOne(p) ==
    /\ pc[p] = "engine.awaitCheck"
    /\ CheckPiece(p, frame[p].piece)
    /\ \/ /\ frame[p].piece > Length
          /\ Goto(p, "engine.downloadAll")
          /\ UNCHANGED frame
       \/ /\ frame[p].piece <= Length
          /\ Goto(p, "engine.queueCheck")
          /\ frame' = [frame EXCEPT ![p].piece = @ + 1]
    /\ UNCHANGED table

(* The check ends, and the next piece's begins, ...                        *)
EngineCheckDone(p) ==
    /\ pc[p] = "engine.awaitCheck"
    /\ CheckPiece(p, frame[p].piece)
    /\ \/ /\ frame[p].piece = Length
          /\ Goto(p, "engine.downloadAll")
          /\ UNCHANGED frame
       \/ /\ frame[p].piece < Length
          /\ Goto(p, "engine.queueCheck")
          /\ frame' = [frame EXCEPT ![p].piece = @ + 1]
    /\ UNCHANGED table

(* ... or the wait ends with the context or with the torrent.              *)
EngineCheckAborted(p) ==
    /\ pc[p] = "engine.awaitCheck"
    /\ p \in cancelled \/ handle[p] # "open"
    /\ Goto(p, "engine.dropFailed")
    /\ UNCHANGED <<table, engineRest, frame>>

EngineDropFailed(p) ==
    /\ pc[p] = "engine.dropFailed"
    /\ Drop(p)
    /\ AddFails(p)
    /\ UNCHANGED table

EngineDownloadAll(p) ==
    /\ pc[p] = "engine.downloadAll"
    /\ DownloadAll(p)
    /\ Goto(p, Added(p))
    /\ UNCHANGED <<table, frame>>

EngineAdd(p) ==
    \/ EngineClientAdd(p) \/ EngineGotInfo(p) \/ EngineQueueCheck(p)
    \/ EngineCheckDone(p) \/ EngineCheckAborted(p)
    \/ EngineDropFailed(p) \/ EngineDownloadAll(p)

-----------------------------------------------------------------------------
(* engine.Remove, called by Pause and Remove.                              *)

Removed(p) == IF op[p] = "pause" THEN "pause.setPaused" ELSE "remove.delete"

(* Mutant: a torrent whose files are kept is not dropped.                  *)
EngineFindKeepsTracking(p) ==
    /\ pc[p] = "engine.find"
    /\ Find(p, target[p])
    /\ Goto(p, IF target[p] \in tracked /\ frame[p].deleteFiles
               THEN "engine.drop" ELSE Removed(p))
    /\ frame' = [frame EXCEPT ![p].path = NameIsPath(target[p])]
    /\ UNCHANGED table

(* find and t.Name().  ErrNotFound falls through in both callers.          *)
EngineFind(p) ==
    /\ pc[p] = "engine.find"
    /\ Find(p, target[p])
    /\ Goto(p, IF target[p] \in tracked THEN "engine.drop" ELSE Removed(p))
    /\ frame' = [frame EXCEPT ![p].path = NameIsPath(target[p])]
    /\ UNCHANGED table

(* Mutant: when the files are removed, the torrent is not dropped first.   *)
EngineDropForgotten(p) ==
    /\ pc[p] = "engine.drop"
    /\ \/ /\ frame[p].deleteFiles
          /\ handle' = [handle EXCEPT ![p] = "nil"]
          /\ UNCHANGED <<clientVars, disk, leaked>>
       \/ ~frame[p].deleteFiles /\ Drop(p)
    /\ Goto(p, IF frame[p].deleteFiles /\ frame[p].path THEN "engine.erase" ELSE Removed(p))
    /\ UNCHANGED <<table, frame>>

EngineDrop(p) ==
    /\ pc[p] = "engine.drop"
    /\ Drop(p)
    /\ Goto(p, IF frame[p].deleteFiles /\ frame[p].path THEN "engine.erase" ELSE Removed(p))
    /\ UNCHANGED <<table, frame>>

EngineErase(p) ==
    /\ pc[p] = "engine.erase"
    /\ \/ /\ Erase(target[p], 0)
          /\ Goto(p, Removed(p))
          /\ UNCHANGED frame
       \/ /\ "disk" \in Faults
          /\ \E n \in 0..disk[target[p]] : Erase(target[p], n)
          /\ Return(p)
    /\ UNCHANGED table

EngineRemove(p) == EngineFind(p) \/ EngineDrop(p) \/ EngineErase(p)

-----------------------------------------------------------------------------
(* AddMagnet and AddFile after the engine: persist.                        *)

(* The magnet that AddFile persists has no dn.  An existing row and a      *)
(* failed statement return an error and leave the torrent in the engine.   *)
AddCreate(p) ==
    /\ pc[p] = "add.create"
    /\ \/ /\ StatementRuns(p)
          /\ Create(target[p], IF frame[p].source = "file" THEN "bare" ELSE frame[p].source)
          /\ Goto(p, "metadata.snapshot")
          /\ UNCHANGED frame
       \/ /\ StatementFails(p) \/ Managed(target[p])
          /\ Return(p)
          /\ UNCHANGED table
    /\ UNCHANGED engineRest

(* persistMetadata, the tail of adding, resuming and restoring.            *)
MetadataSnapshot(p) ==
    /\ pc[p] = "metadata.snapshot"
    /\ ~leaked
    /\ \/ /\ target[p] \in tracked
          /\ Goto(p, "metadata.set")
          /\ \E snap \in Snapshot(target[p]) : frame' = [frame EXCEPT ![p].snap = snap]
       \/ target[p] \notin tracked /\ Return(p)
    /\ UNCHANGED <<table, engineRest>>

MetadataSet(p) ==
    /\ pc[p] = "metadata.set"
    /\ \/ StatementRuns(p) /\ SetMetadata(target[p], frame[p].snap.length)
       \/ (StatementFails(p) \/ ~Managed(target[p])) /\ UNCHANGED table
    /\ Return(p)
    /\ UNCHANGED engineRest

-----------------------------------------------------------------------------
(* Pause.                                                                  *)

PauseSnapshot(p) ==
    /\ pc[p] = "pause.snapshot"
    /\ ~leaked
    /\ \/ /\ target[p] \in tracked
          /\ Goto(p, "pause.setBytes")
          /\ \E snap \in Snapshot(target[p]) : frame' = [frame EXCEPT ![p].snap = snap]
       \/ target[p] \notin tracked /\ Goto(p, "engine.find") /\ UNCHANGED frame
    /\ UNCHANGED <<table, engineRest>>

PauseSetBytes(p) ==
    /\ pc[p] = "pause.setBytes"
    /\ \/ StatementRuns(p) /\ SetBytesCompleted(target[p], frame[p].snap.bytes)
       \/ (StatementFails(p) \/ ~Managed(target[p])) /\ UNCHANGED table
    /\ Goto(p, "engine.find")
    /\ UNCHANGED <<engineRest, frame>>

PauseSetPaused(p) ==
    /\ pc[p] = "pause.setPaused"
    /\ \/ StatementRuns(p) /\ SetPaused(target[p], TRUE)
       \/ (StatementFails(p) \/ ~Managed(target[p])) /\ UNCHANGED table
    /\ Return(p)
    /\ UNCHANGED engineRest

(* Mutant: the flag is set before the torrent is removed from the engine,  *)
(* in the order Resume has.                                                *)
PauseFlagFirst(p) ==
    \/ PauseSnapshot(p)
    \/ /\ pc[p] = "pause.setBytes"
       /\ \/ StatementRuns(p) /\ SetPaused(target[p], TRUE)
          \/ (StatementFails(p) \/ ~Managed(target[p])) /\ UNCHANGED table
       /\ Goto(p, "engine.find")
       /\ UNCHANGED <<engineRest, frame>>
    \/ /\ pc[p] = "pause.setPaused"
       /\ Return(p)
       /\ UNCHANGED <<table, engineRest>>

Pause(p) == PauseSnapshot(p) \/ PauseSetBytes(p) \/ PauseSetPaused(p)

-----------------------------------------------------------------------------
(* Resume.                                                                 *)

ResumeGet(p) ==
    /\ pc[p] = "resume.get"
    /\ \/ /\ StatementRuns(p) /\ Managed(target[p])
          /\ Goto(p, "resume.setPaused")
          /\ frame' = [frame EXCEPT ![p].source = table[target[p]].magnet]
       \/ (StatementFails(p) \/ ~Managed(target[p])) /\ Return(p)
    /\ UNCHANGED <<table, engineRest>>

(* Mutant: an error of SetPaused is logged and Resume goes on.             *)
ResumeSetPausedIgnoresError(p) ==
    /\ pc[p] = "resume.setPaused"
    /\ \/ StatementRuns(p) /\ SetPaused(target[p], FALSE)
       \/ (StatementFails(p) \/ ~Managed(target[p])) /\ UNCHANGED table
    /\ Goto(p, "engine.clientAdd")
    /\ UNCHANGED <<engineRest, frame>>

ResumeSetPaused(p) ==
    /\ pc[p] = "resume.setPaused"
    /\ \/ /\ StatementRuns(p)
          /\ SetPaused(target[p], FALSE)
          /\ Goto(p, "engine.clientAdd")
          /\ UNCHANGED frame
       \/ /\ StatementFails(p) \/ ~Managed(target[p])
          /\ Return(p)
          /\ UNCHANGED table
    /\ UNCHANGED engineRest

(* The rollback runs with the request's own context.                       *)
ResumeRollback(p) ==
    /\ pc[p] = "resume.rollback"
    /\ \/ StatementRuns(p) /\ SetPaused(target[p], TRUE)
       \/ (StatementFails(p) \/ ~Managed(target[p])) /\ UNCHANGED table
    /\ Return(p)
    /\ UNCHANGED engineRest

Resume(p) == ResumeGet(p) \/ ResumeSetPaused(p) \/ ResumeRollback(p)

-----------------------------------------------------------------------------
(* Remove.                                                                 *)

RemoveGet(p) ==
    /\ pc[p] = "remove.get"
    /\ \/ /\ StatementRuns(p) /\ Managed(target[p])
          /\ Goto(p, "remove.isComplete")
          /\ LET row == table[target[p]] IN
             frame' = [frame EXCEPT ![p].rowComplete = row.length > 0 /\ row.bytes >= row.length]
       \/ (StatementFails(p) \/ ~Managed(target[p])) /\ Return(p)
    /\ UNCHANGED <<table, engineRest>>

(* Mutant: the row alone decides.                                          *)
IsCompleteByRow(p, live) == frame[p].rowComplete

(* isComplete: the live snapshot when it knows the length, or else the row. *)
IsComplete(p, live) ==
    IF target[p] \in tracked /\ live.length > 0
    THEN live.bytes >= live.length
    ELSE frame[p].rowComplete

RemoveIsComplete(p) ==
    /\ pc[p] = "remove.isComplete"
    /\ ~leaked
    /\ \E live \in Snapshot(target[p]) :
           frame' = [frame EXCEPT ![p].deleteFiles = @ \/ ~IsComplete(p, live)]
    /\ Goto(p, "engine.find")
    /\ UNCHANGED <<table, engineRest>>

(* torrents.Delete, then pieces.Forget (see module PieceRepository).       *)
RemoveDelete(p) ==
    /\ pc[p] = "remove.delete"
    /\ \/ StatementRuns(p) /\ Delete(target[p])
       \/ (StatementFails(p) \/ ~Managed(target[p])) /\ UNCHANGED table
    /\ Return(p)
    /\ UNCHANGED engineRest

Remove(p) == RemoveGet(p) \/ RemoveIsComplete(p) \/ RemoveDelete(p)

-----------------------------------------------------------------------------
(* The server's life.                                                      *)

(* server.Run up to Restore, which starts a goroutine for each row that is *)
(* not paused.                                                             *)
Restore ==
    /\ ~up
    /\ up' = TRUE
    /\ LET rows == {h \in Hash : Unpaused(h)} IN
       /\ pc' = [p \in Proc |-> IF p \in rows THEN "engine.clientAdd" ELSE "idle"]
       /\ op' = [p \in Proc |-> IF p \in rows THEN "restore" ELSE "none"]
       /\ target' = [p \in Proc |-> IF p \in rows THEN p ELSE Nil]
       /\ frame' = [p \in Proc |-> IF p \in rows
                                   THEN [EmptyFrame EXCEPT !.source = table[p].magnet]
                                   ELSE EmptyFrame]
    /\ UNCHANGED <<table, engineRest, cancelled>>

(* The process dies: the table and the files remain.                       *)
Crash ==
    /\ "crash" \in Faults
    /\ up
    /\ up' = FALSE
    /\ EngineStart
    /\ pc' = [p \in Proc |-> "idle"]
    /\ op' = [p \in Proc |-> "none"]
    /\ target' = [p \in Proc |-> Nil]
    /\ cancelled' = {}
    /\ frame' = [p \in Proc |-> EmptyFrame]
    /\ UNCHANGED <<table, disk>>

-----------------------------------------------------------------------------

(* What a goroutine does next.                                             *)
Step(p) ==
    \/ EngineAdd(p) \/ EngineRemove(p)
    \/ AddCreate(p) \/ MetadataSnapshot(p) \/ MetadataSet(p)
    \/ Pause(p) \/ Resume(p) \/ Remove(p)

Request(p) ==
    \E h \in Hash :
        \/ \E source \in Magnet \cup {"file"} : AddRequest(p, h, source)
        \/ PauseRequest(p, h)
        \/ ResumeRequest(p, h)
        \/ \E deleteFiles \in BOOLEAN : RemoveRequest(p, h, deleteFiles)

Peers ==
    \E h \in Hash : (MetadataArrives(h) \/ PieceArrives(h)) /\ UNCHANGED <<table, serviceVars>>

Next ==
    \/ \E p \in Proc : Step(p)
    \/ \E p \in Req : Request(p) \/ Cancel(p)
    \/ Peers
    \/ Restore
    \/ Crash

Spec == Init /\ [][Next]_vars

(* Goroutines are scheduled, a server that is down is started, and every   *)
(* client gives up in the end (pkg/client/client.go has a 30 s timeout).   *)
Fairness ==
    /\ \A p \in Proc : WF_vars(Step(p))
    /\ \A p \in Req : WF_vars(Cancel(p))
    /\ WF_vars(Restore)

FairSpec == Spec /\ Fairness

-----------------------------------------------------------------------------
(* Properties.                                                             *)

(* No goroutine is working on h.                                           *)
Quiet(h) == \A p \in Proc : target[p] # h

(* The flag never promises work nobody does: once the calls about a torrent *)
(* have returned, a row that is not paused belongs to a torrent the engine  *)
(* is downloading.  Pause drops before it sets the flag and Resume clears   *)
(* the flag before it adds, so this survives any overlap of the two with    *)
(* each other and with Remove, and a crash between any two steps.           *)
UnpausedIsDownloading ==
    up => \A h \in Hash : Quiet(h) /\ Unpaused(h) => h \in downloading

(* "Paused torrents stay DB-only until the user resumes them" (Restore):   *)
(* the engine tracks no torrent whose row is paused.                       *)
PausedIsStopped == \A h \in Hash : Quiet(h) /\ Paused(h) => h \notin tracked

(* The engine has a torrent that no row shows, and no add is about to      *)
(* create one.                                                             *)
Orphan(h) ==
    /\ h \in tracked
    /\ ~Managed(h)
    /\ \A p \in Proc : target[p] = h => op[p] # "add"

(* The engine never works on a torrent that the user cannot see and was    *)
(* not told about: pauses, removals, resumes, restores and crashes orphan  *)
(* nothing; only the persist of an add can, by failing after the engine    *)
(* started the torrent, and that add returns an error.                     *)
OrphansAreReported ==
    [][\A h \in Hash : ~Orphan(h) /\ Orphan(h)'
           => \E p \in Req : target[p] = h /\ pc[p] = "add.create"]_vars

(* A tracked torrent never believes in content that engine.Remove erased:  *)
(* the object is dropped before its files are removed.                     *)
HaveIsOnDisk == \A h \in Hash : have[h] <= disk[h]

(* Remove "is only respected when the torrent has completed": a request to *)
(* keep the files of a torrent that was complete when the request came     *)
(* never gets to erasing them, whichever of the live snapshot and the      *)
(* persisted row isComplete had to go by.                                  *)
KeepIsRespected ==
    \A p \in Req : pc[p] = "engine.erase" => frame[p].asked # "keepwhole"

(* Remove: content "is always removed when the torrent is incomplete": a   *)
(* removal that decided to remove the files leaves no partial content      *)
(* behind when it deletes the row.                                         *)
PartialsAreRemoved ==
    [][\A p \in Req :
           /\ pc[p] = "remove.delete" /\ frame[p].deleteFiles
           /\ Managed(target[p]) /\ table'[target[p]] = NoRow
           => disk[target[p]] \in {0, Length}]_vars

(* Resume: "If engine.AddMagnet fails, the flag is rolled back to true":   *)
(* the row of a resume that returns with an error says paused again.       *)
FailedResumeIsPaused ==
    [][\A p \in Req :
           pc[p] = "resume.rollback" /\ pc'[p] = "idle" /\ up' /\ Managed(target[p])
           => table'[target[p]].paused]_vars

(* Drop is "always safe": no call returns with the client's lock held,     *)
(* which would stop every later request, because its torrent was closed    *)
(* under it.                                                               *)
LockIsReleased == ~leaked

(* Every request returns, if only because its client gave up.              *)
RequestReturns == \A p \in Req : pc[p] # "idle" ~> pc[p] = "idle"

(* The start-up is not serialised by a slow torrent: a restore whose       *)
(* metadata is known verifies its pieces and returns, whatever the         *)
(* restores of other torrents wait for.                                    *)
RestoreProceeds ==
    \A h \in Hash : (pc[h] # "idle" /\ h \in info) ~> pc[h] = "idle"
=============================================================================
