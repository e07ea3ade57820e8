--------------------------- MODULE FirmwareDepot ----------------------------
(***************************************************************************)
(* One depot of the firmware server (gizclaw/firmware): a directory per    *)
(* channel, and a metadata record in the key-value store.  Uploads,        *)
(* releases, rollbacks and info changes run one at a time under the        *)
(* depot's lock.  They move directories one rename at a time, in the       *)
(* arbitrary order of Go's maps, and write the metadata last; every step   *)
(* may fail, also those that undo, and the server may crash anywhere.      *)
(*                                                                         *)
(* A build stands for the files of a release and for its version.          *)
(***************************************************************************)
EXTENDS Integers, FiniteSets

CONSTANTS
  Builds, NoBuild,
  MaxDepotOps    \* bound: operations in one behaviour

ASSUME DepotAssumption == Builds \subseteq Nat /\ NoBuild \notin Builds /\ MaxDepotOps \in Nat

Channels == {"rollback", "stable", "beta", "testing"}

VARIABLES
  meta,    \* the metadata record: channel -> build
  dirs,    \* channel directories
  baks,    \* .bak-<channel> directories
  olds,    \* <channel>.old directories
  op,      \* the operation that holds the depot's lock
  nops,    \* operations begun
  torn     \* history: an operation ended with what it moved not moved back

depotVars == <<meta, dirs, baks, olds, op, nops, torn>>

Empty == [c \in Channels |-> NoBuild]
NoOp == [kind |-> "none"]

validateVersionOrder(r) ==
  /\ r["stable"] # NoBuild /\ r["beta"] # NoBuild => r["beta"] >= r["stable"]
  /\ r["beta"] # NoBuild /\ r["testing"] # NoBuild => r["testing"] >= r["beta"]

(* Any depot that uploads can have built *)
DepotInit ==
  /\ meta \in {m \in [Channels -> Builds \cup {NoBuild}] : validateVersionOrder(m)}
  /\ dirs = meta /\ baks = Empty /\ olds = Empty
  /\ op = NoOp /\ nops = 0
  /\ torn = FALSE

(* lockDepot *)
Begin(o) == op = NoOp /\ op' = o /\ nops < MaxDepotOps /\ nops' = nops + 1

(* scanRelease: the metadata has a release and the files are the ones it names *)
scanRelease(c) == meta[c] # NoBuild /\ dirs[c] = meta[c]
StableIntact == meta["stable"] # NoBuild => scanRelease("stable")

(* The operation ends here; whatever it moved stays *)
Abandon == op' = NoOp /\ torn' = (torn \/ dirs # meta)

-----------------------------------------------------------------------------
(* uploadTar *)
uploadTar(c, b) ==
  /\ Begin([kind |-> "upload", at |-> "swap", chan |-> c, build |-> b, current |-> meta])
  /\ olds' = [olds EXCEPT ![c] = NoBuild]
  /\ UNCHANGED <<meta, dirs, baks, torn>>

UploadSwap ==
  /\ op.kind = "upload" /\ op.at = "swap"
  /\ olds' = [olds EXCEPT ![op.chan] = dirs[op.chan]]
  /\ dirs' = [dirs EXCEPT ![op.chan] = NoBuild]
  /\ op' = [op EXCEPT !.at = "place"]
  /\ UNCHANGED <<meta, baks, torn>>

UploadSwapFails ==
  /\ op.kind = "upload" /\ op.at = "swap"
  /\ op' = NoOp
  /\ UNCHANGED <<meta, dirs, baks, olds, torn>>

UploadPlace ==
  /\ op.kind = "upload" /\ op.at = "place"
  /\ dirs' = [dirs EXCEPT ![op.chan] = op.build]
  /\ op' = [op EXCEPT !.at = "meta"]
  /\ UNCHANGED <<meta, baks, olds, torn>>

(* The new directory is removed and the swapped one put back.  Errors are ignored: only
   an undo that fails may leave the depot torn. *)
UploadUndo ==
  /\ op' = NoOp
  /\ \/ /\ dirs' = [dirs EXCEPT ![op.chan] = olds[op.chan]]
        /\ olds' = [olds EXCEPT ![op.chan] = NoBuild]
        /\ UNCHANGED torn
     \/ /\ dirs' \in {dirs, [dirs EXCEPT ![op.chan] = NoBuild]}
        /\ torn' = (torn \/ dirs' # meta)
        /\ UNCHANGED olds

UploadPlaceFails ==
  /\ op.kind = "upload" /\ op.at = "place"
  /\ UploadUndo
  /\ UNCHANGED <<meta, baks>>

UploadNext == [op.current EXCEPT ![op.chan] = op.build]

UploadMeta ==
  /\ op.kind = "upload" /\ op.at = "meta"
  /\ \/ /\ validateVersionOrder(UploadNext)
        /\ meta' = UploadNext
        /\ olds' = [olds EXCEPT ![op.chan] = NoBuild]
        /\ op' = NoOp
        /\ UNCHANGED <<dirs, torn>>
     \/ UploadUndo /\ UNCHANGED meta
  /\ UNCHANGED baks

-----------------------------------------------------------------------------
(* releaseDepot and rollbackDepot: what they need, and what moves where *)
releaseDepot ==
  /\ scanRelease("beta") /\ scanRelease("testing") /\ StableIntact
  /\ Begin([kind |-> "release", at |-> "backup", current |-> meta,
            todo |-> Channels, applied |-> {}])
  /\ UNCHANGED <<meta, dirs, baks, olds, torn>>

rollbackDepot ==
  /\ scanRelease("rollback") /\ StableIntact
  /\ Begin([kind |-> "rollback", at |-> "backup", current |-> meta,
            todo |-> {"stable", "rollback"}, applied |-> {}])
  /\ UNCHANGED <<meta, dirs, baks, olds, torn>>

Paths(kind) == IF kind = "release" THEN Channels ELSE {"stable", "rollback"}

(* layout: where the directory of each target comes from *)
Layout(kind) ==
  IF kind = "release" THEN [t \in {"stable", "beta", "rollback"} |->
       CASE t = "stable" -> "beta" [] t = "beta" -> "testing" [] t = "rollback" -> "stable"]
  ELSE [t \in {"stable", "rollback"} |-> IF t = "stable" THEN "rollback" ELSE "stable"]

NextMeta(kind, cur) == [c \in Channels |->
  CASE c \in DOMAIN Layout(kind) -> cur[Layout(kind)[c]]
    [] c \notin DOMAIN Layout(kind) /\ c \in Paths(kind) -> NoBuild
    [] OTHER -> cur[c]]

Switching(where) == op.kind \in {"release", "rollback"} /\ op.at = where

(* prepareSwitch, first loop: every directory becomes a backup.  An error returns
   at once: what was moved stays moved. *)
BackupChannel(c) ==
  /\ Switching("backup") /\ c \in op.todo
  /\ baks' = [baks EXCEPT ![c] = dirs[c]]
  /\ dirs' = [dirs EXCEPT ![c] = NoBuild]
  /\ op' = IF op.todo = {c} THEN [op EXCEPT !.at = "layout", !.todo = DOMAIN Layout(op.kind)]
           ELSE [op EXCEPT !.todo = @ \ {c}]
  /\ UNCHANGED <<meta, olds, torn>>

BackupFails(c) ==
  /\ Switching("backup") /\ c \in op.todo
  /\ baks' \in {baks, [baks EXCEPT ![c] = NoBuild]}
  /\ Abandon
  /\ UNCHANGED <<meta, dirs, olds>>

(* Second loop: the backups take their new places *)
ApplyLayout(t) ==
  /\ Switching("layout") /\ t \in op.todo
  /\ LET src == Layout(op.kind)[t]
         rest == [op EXCEPT !.todo = @ \ {t},
                            !.applied = IF baks[src] = NoBuild THEN @ ELSE @ \cup {t},
                            !.at = IF op.todo = {t} THEN "manifest" ELSE @]
     IN /\ op' = rest
        /\ IF baks[src] = NoBuild THEN UNCHANGED <<dirs, baks>>
           ELSE /\ dirs' = [dirs EXCEPT ![t] = baks[src]]
                /\ baks' = [baks EXCEPT ![src] = NoBuild]
  /\ UNCHANGED <<meta, olds, torn>>

Undo == op' = [op EXCEPT !.at = "unapply"]

LayoutFails ==
  /\ Switching("layout") /\ \E t \in op.todo : baks[Layout(op.kind)[t]] # NoBuild
  /\ Undo
  /\ UNCHANGED <<meta, dirs, baks, olds, torn>>

(* rewriteManifestChannel, for every channel; only errors matter here *)
RewriteManifests ==
  /\ Switching("manifest")
  /\ Undo \/ op' = [op EXCEPT !.at = "meta"]
  /\ UNCHANGED <<meta, dirs, baks, olds, torn>>

(* mutant: the order of the versions is not validated *)
writeDepotMetadataUnordered ==
  /\ Switching("meta")
  /\ meta' = NextMeta(op.kind, op.current)
  /\ op' = [op EXCEPT !.at = "cleanup"]
  /\ UNCHANGED <<dirs, baks, olds, torn>>

writeDepotMetadata ==
  /\ Switching("meta") /\ validateVersionOrder(NextMeta(op.kind, op.current))
  /\ meta' = NextMeta(op.kind, op.current)
  /\ op' = [op EXCEPT !.at = "cleanup"]
  /\ UNCHANGED <<dirs, baks, olds, torn>>

MetadataFails ==
  /\ Switching("meta")
  /\ Undo
  /\ UNCHANGED <<meta, dirs, baks, olds, torn>>

cleanupBackups ==
  /\ Switching("cleanup")
  /\ baks' = [c \in Channels |-> IF c \in Paths(op.kind) THEN NoBuild ELSE baks[c]]
  /\ op' = NoOp
  /\ UNCHANGED <<meta, dirs, olds, torn>>

(* mutant: restore forgets the directories that already have their new place *)
RestoreAppliedNone(t) ==
  /\ Switching("unapply") /\ t \in op.applied
  /\ op' = [op EXCEPT !.applied = @ \ {t}]
  /\ UNCHANGED <<meta, dirs, baks, olds, torn>>

(* restore: the applied renames are taken back, then the backups; errors are ignored *)
RestoreApplied(t) ==
  /\ Switching("unapply") /\ t \in op.applied
  /\ op' = [op EXCEPT !.applied = @ \ {t}]
  /\ \/ /\ baks' = [baks EXCEPT ![Layout(op.kind)[t]] = dirs[t]]
        /\ dirs' = [dirs EXCEPT ![t] = NoBuild]
        /\ UNCHANGED torn
     \/ torn' = TRUE /\ UNCHANGED <<baks, dirs>>
  /\ UNCHANGED <<meta, olds>>

RestoreBackups ==
  /\ Switching("unapply") /\ op.applied = {}
  /\ LET back == {c \in Paths(op.kind) : baks[c] # NoBuild /\ dirs[c] = NoBuild} IN
     \E done \in SUBSET back :
       /\ dirs' = [c \in Channels |-> IF c \in done THEN baks[c] ELSE dirs[c]]
       /\ baks' = [c \in Channels |-> IF c \in done THEN NoBuild ELSE baks[c]]
       /\ torn' = (torn \/ done # back)
  /\ op' = NoOp
  /\ UNCHANGED <<meta, olds>>

-----------------------------------------------------------------------------
(* PutDepotInfo stores the record it read with another info, under the lock *)
PutDepotInfo ==
  /\ Begin([kind |-> "info", at |-> "meta", current |-> meta])
  /\ UNCHANGED <<meta, dirs, baks, olds, torn>>

PutDepotInfoWrite ==
  /\ op.kind = "info"
  /\ meta' = op.current
  /\ op' = NoOp
  /\ UNCHANGED <<dirs, baks, olds, torn>>

DepotCrash ==
  /\ op # NoOp
  /\ Abandon
  /\ UNCHANGED <<meta, dirs, baks, olds>>

OpStarts ==
  \/ \E c \in Channels, b \in Builds : uploadTar(c, b)
  \/ releaseDepot \/ rollbackDepot \/ PutDepotInfo

OpStep ==
  \/ UploadSwap \/ UploadSwapFails \/ UploadPlace \/ UploadPlaceFails \/ UploadMeta
  \/ \E c \in Channels : \/ BackupChannel(c) \/ BackupFails(c)
                         \/ ApplyLayout(c) \/ RestoreApplied(c)
  \/ LayoutFails \/ RewriteManifests \/ writeDepotMetadata \/ MetadataFails
  \/ cleanupBackups \/ RestoreBackups \/ PutDepotInfoWrite
  \/ DepotCrash

DepotNext == OpStarts \/ (OpStep /\ UNCHANGED nops)

DepotSpec == DepotInit /\ [][DepotNext]_depotVars

-----------------------------------------------------------------------------
(* Types of the directories and of the metadata, whose versions stay in order. *)
DepotTypeOK ==
  /\ \A m \in {meta, dirs, baks, olds} : m \in [Channels -> Builds \cup {NoBuild}]
  /\ validateVersionOrder(meta)

(* Between operations the users see the directories, during one the metadata; once the
   two could not be brought together again, only the metadata counts. *)
Seen == IF op = NoOp /\ ~torn THEN dirs ELSE meta

Abstract == INSTANCE AtomicDepot WITH releases <- Seen

(* The depot is changed completely or not at all by every upload, release and rollback:
   when the lock is released, directories and metadata agree on the old releases or on
   the new ones, whichever rename, manifest or metadata write failed, and the metadata
   alone does always.  Only three ends leave the directories torn: a crash, an undo that
   fails itself, and an error in the first loop of prepareSwitch, which has no undo. *)
ImplementsAtomicDepot == Abstract!Spec
=============================================================================
