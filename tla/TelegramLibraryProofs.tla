------------------------- MODULE TelegramLibraryProofs -------------------------
(* Proofs about TelegramLibrary, for any number of stickers, packs and users  *)
(* and whichever sweeps run: type correctness, that imported stickers mirror  *)
(* the shared rows, that every file belongs to a row, that an import leaves   *)
(* out no subscriber, and that it only takes away what left the Telegram set. *)
EXTENDS TelegramLibrary, TLAPS

RowTypes == [status : RowStatus, tp : TpIds \union {None}, key : Keys \union {None}]
PackTypes == [status : RowStatus, tp : TpIds \union {None}, owner : Users \union {None}]

LEMMA RowWithStatus ==
  ASSUME NEW row \in RowTypes, NEW status \in RowStatus
  PROVE  [row EXCEPT !.status = status] \in RowTypes
BY DEF RowTypes

LEMMA SweepAt == TypeOK => \A s \in AllSweeps : sweep[s] \in SweepStates
BY DEF TypeOK

LEMMA SweepUpdate ==
  ASSUME TypeOK, NEW s \in AllSweeps, NEW state \in SweepStates, sweep' = [sweep EXCEPT ![s] = state]
  PROVE  sweep' \in [AllSweeps -> SweepStates]
BY DEF TypeOK

(* The Telegram packs. *)
LEMMA TpsType ==
  ASSUME TypeOK, Next
  PROVE  tps' \in [TpIds -> {"unused", "present", "gone"}]
<1> USE DEF TypeOK, db, storage, processes
<1>1. CASE CmdCreateTp BY <1>1 DEF CmdCreateTp
<1>2. CASE OrphanTp BY <1>2 DEF OrphanTp, ItemDone, SweepIdle
<1>3. CASE RetentionPasses \/ (\E p \in PackIds : DeletePack(p)) \/ (\E u \in Users :
    CmdLookup(u)) \/ CmdCreatePack \/ CmdCreateJob \/ ImpLoad \/ ImpFetch \/ (\E k \in Keys :
    ImpSticker(k)) \/ ImpReadStale \/ ImpReadSubscribers \/ ImpCommit \/ ImpAbort \/ ImpRollback
    \/ ImpPurge \/ ImpThrow \/ ImpCount \/ ImpCleanUp \/ SweepFails \/ OrphanList \/ OrphanRead \/ OrphanFiles
    \/ OrphanRows \/ StaleList \/ StaleFile \/ StaleRow \/ StickersList \/ StickersDelete \/
    PacksList \/ PacksRead \/ PacksStickers \/ PacksDelete
  BY <1>3 DEF RetentionPasses, DeletePack, CmdLookup, CmdCreatePack, CmdCreateJob, ImpLoad,
      ImpFetch, ImpSticker, ImpReadStale, ImpReadSubscribers, ImpCommit, ImpAbort, ImpRollback,
      ImpPurge, ImpThrow, ImpCount, ImpCleanUp, SweepFails, OrphanList, OrphanRead, OrphanFiles, OrphanRows,
      StaleList, StaleFile, StaleRow, StickersList, StickersDelete, PacksList, PacksRead,
      PacksStickers, PacksDelete, StartSweep
<1> QED BY <1>1, <1>2, <1>3 DEF Next, Import, Sweep

(* The files. *)
LEMMA UnlinkEffect ==
  ASSUME strays \subseteq files, NEW ids, Unlink(ids)
  PROVE  /\ files' \subseteq files /\ strays' \subseteq files'
         /\ \A r \in files' : r \in ids \/ r \in strays => r \in strays'
         /\ strays' \subseteq strays \union ids
BY DEF Unlink

LEMMA FilesType ==
  ASSUME TypeOK, Next
  PROVE  files' \subseteq RowIds /\ strays' \subseteq files'
<1> USE DEF TypeOK, db, storage, processes
<1>1. ASSUME NEW k \in Keys, ImpSticker(k) PROVE files' \subseteq RowIds /\ strays' \subseteq files'
  BY <1>1 DEF ImpSticker
<1>2. ASSUME NEW ids, Unlink(ids) PROVE files' \subseteq RowIds /\ strays' \subseteq files'
  BY <1>2, UnlinkEffect
<1>3. CASE ImpRollback BY <1>2, <1>3 DEF ImpRollback
<1>4. CASE ImpPurge BY <1>2, <1>4 DEF ImpPurge
<1>5. CASE OrphanFiles BY <1>2, <1>5 DEF OrphanFiles
<1>6. CASE StaleFile BY <1>2, <1>6 DEF StaleFile
<1>7. CASE ImpThrow BY <1>7 DEF ImpThrow
<1>8. CASE ImpCommit BY <1>8 DEF ImpCommit
<1>9. CASE RetentionPasses \/ (\E p \in PackIds : DeletePack(p)) \/ (\E u \in Users :
    CmdLookup(u)) \/ CmdCreateTp \/ CmdCreatePack \/ CmdCreateJob \/ ImpLoad \/ ImpFetch \/
    ImpReadStale \/ ImpReadSubscribers \/ ImpAbort \/ ImpCount \/ ImpCleanUp \/
    SweepFails \/ OrphanList \/ OrphanRead \/ OrphanRows \/ OrphanTp \/ StaleList \/ StaleRow \/
    StickersList \/ StickersDelete \/ PacksList \/ PacksRead \/ PacksStickers \/ PacksDelete
  BY <1>9 DEF RetentionPasses, DeletePack, CmdLookup, CmdCreateTp, CmdCreatePack, CmdCreateJob,
      ImpLoad, ImpFetch, ImpReadStale, ImpReadSubscribers, ImpAbort, ImpCount,
      ImpCleanUp, SweepFails, OrphanList, OrphanRead, OrphanRows, OrphanTp, StaleList, StaleRow,
      StickersList, StickersDelete, PacksList, PacksRead, PacksStickers, PacksDelete, StartSweep
<1> QED BY <1>1, <1>3, <1>4, <1>5, <1>6, <1>7, <1>8, <1>9 DEF Next, Import, Sweep

(* The shared rows. *)
LEMMA RowsType ==
  ASSUME TypeOK, Next
  PROVE  rows' \in [RowIds -> RowTypes]
<1> USE DEF TypeOK, RowTypes, db, storage, processes
<1>1. CASE RetentionPasses
  <2>1. ASSUME NEW r \in RowIds PROVE rows'[r] \in RowTypes
    <3> DEFINE status == IF rows[r].status = "deleted" THEN "expired" ELSE rows[r].status
    <3>1. rows[r] \in RowTypes OBVIOUS
    <3>2. status \in RowStatus BY <3>1 DEF RowStatus, Existing
    <3>3. rows'[r] = [rows[r] EXCEPT !.status = status] BY <1>1 DEF RetentionPasses
    <3> HIDE DEF status
    <3> QED BY <3>1, <3>2, <3>3, RowWithStatus
  <2> QED BY <1>1, <2>1 DEF RetentionPasses
<1>2. CASE ImpCommit
  <2>1. rows' = RowsAfterImport BY <1>2 DEF ImpCommit
  <2>2. ASSUME NEW r \in RowIds PROVE rows'[r] \in RowTypes
    <3>1. rows[r] \in RowTypes OBVIOUS
    <3>2. CASE r \in NewRows
      <4> DEFINE key == CHOOSE k \in Keys : <<k, r>> \in imp.new
      <4>1. imp.new \subseteq Keys \X RowIds /\ imp.tp \in TpIds \union {None} BY DEF ImpStates
      <4>2. \E k \in Keys : <<k, r>> \in imp.new
        <5>1. PICK n \in imp.new : n[2] = r BY <3>2 DEF NewRows
        <5>2. n = <<n[1], r>> /\ n[1] \in Keys BY <4>1, <5>1
        <5> QED BY <5>1, <5>2
      <4>3. key \in Keys BY <4>2
      <4>4. rows'[r] = [status |-> "live", tp |-> imp.tp, key |-> key]
        BY <2>1, <3>2 DEF RowsAfterImport
      <4> HIDE DEF key
      <4> QED BY <4>1, <4>3, <4>4 DEF RowStatus, Existing
    <3>3. CASE r \notin NewRows
      <4>1. rows'[r] \in {rows[r], [rows[r] EXCEPT !.status = "live"], [rows[r] EXCEPT !.status = "deleted"]}
        BY <2>1, <3>3 DEF RowsAfterImport
      <4>2. "live" \in RowStatus /\ "deleted" \in RowStatus BY DEF RowStatus, Existing
      <4>3. /\ [rows[r] EXCEPT !.status = "live"] \in RowTypes
            /\ [rows[r] EXCEPT !.status = "deleted"] \in RowTypes
        BY <3>1, <4>2, RowWithStatus
      <4> QED BY <3>1, <4>1, <4>3
    <3> QED BY <3>2, <3>3
  <2> QED BY <2>1, <2>2 DEF RowsAfterImport
<1>3. CASE OrphanRows
  <2>1. ASSUME NEW r \in RowIds PROVE rows'[r] \in RowTypes
    <3>1. rows[r] \in RowTypes OBVIOUS
    <3>2. rows'[r] \in {rows[r], [rows[r] EXCEPT !.status = "gone"]} BY <1>3 DEF OrphanRows
    <3> QED BY <3>1, <3>2, RowWithStatus DEF RowStatus
  <2> QED BY <1>3, <2>1 DEF OrphanRows
<1>4. CASE StaleRow
  <2>1. rows' \in {rows, [rows EXCEPT ![sweep["stale"].item].status = "gone"]} BY <1>4 DEF StaleRow
  <2>2. CASE rows' = rows BY <2>2
  <2>3. CASE rows' = [rows EXCEPT ![sweep["stale"].item].status = "gone"]
    <3>1. "gone" \in RowStatus BY DEF RowStatus
    <3> QED BY <2>3, <3>1, ZenonT(60)
  <2> QED BY <2>1, <2>2, <2>3
<1>5. CASE (\E p \in PackIds : DeletePack(p)) \/ (\E u \in Users : CmdLookup(u)) \/ CmdCreateTp \/
    CmdCreatePack \/ CmdCreateJob \/ ImpLoad \/ ImpFetch \/ (\E k \in Keys : ImpSticker(k)) \/
    ImpReadStale \/ ImpReadSubscribers \/ ImpAbort \/ ImpRollback \/ ImpPurge \/ ImpThrow \/ ImpCount \/
    ImpCleanUp \/ SweepFails \/ OrphanList \/ OrphanRead \/ OrphanFiles \/ OrphanTp \/ StaleList
    \/ StaleFile \/ StickersList \/ StickersDelete \/ PacksList \/ PacksRead \/ PacksStickers \/
    PacksDelete
  BY <1>5 DEF DeletePack, CmdLookup, CmdCreateTp, CmdCreatePack, CmdCreateJob, ImpLoad, ImpFetch,
      ImpSticker, ImpReadStale, ImpReadSubscribers, ImpAbort, ImpRollback, ImpPurge, ImpThrow, ImpCount,
      ImpCleanUp, SweepFails, OrphanList, OrphanRead, OrphanFiles, OrphanTp, StaleList, StaleFile,
      StickersList, StickersDelete, PacksList, PacksRead, PacksStickers, PacksDelete, StartSweep
<1> QED BY <1>1, <1>2, <1>3, <1>4, <1>5 DEF Next, Import, Sweep

(* The packs. *)
LEMMA PacksType ==
  ASSUME TypeOK, Next
  PROVE  packs' \in [PackIds -> PackTypes]
<1> USE DEF TypeOK, PackTypes, RowStatus, Existing, db, storage, processes, CmdStates
<1>1. CASE RetentionPasses BY <1>1, ZenonT(60) DEF RetentionPasses
<1>2. ASSUME NEW p \in PackIds, DeletePack(p) PROVE packs' \in [PackIds -> PackTypes] BY <1>2 DEF
    DeletePack
<1>3. CASE CmdCreatePack
  <2>1. CASE packs' = packs BY <2>1
  <2>2. CASE \E p \in PackIds : packs' = [packs EXCEPT ![p] = [status |-> "live", tp |-> cmd.tp, owner |-> cmd.user]]
    <3>1. [status |-> "live", tp |-> cmd.tp, owner |-> cmd.user] \in PackTypes OBVIOUS
    <3> QED BY <2>2, <3>1
  <2> QED BY <1>3, <2>1, <2>2 DEF CmdCreatePack
<1>4. CASE ImpCleanUp BY <1>4, ZenonT(60) DEF ImpCleanUp, ImpIdle
<1>5. CASE PacksDelete BY <1>5, ZenonT(60) DEF PacksDelete, ItemDone, SweepIdle
<1>6. CASE (\E u \in Users : CmdLookup(u)) \/ CmdCreateTp \/ CmdCreateJob \/ ImpLoad \/ ImpFetch
    \/ (\E k \in Keys : ImpSticker(k)) \/ ImpReadStale \/ ImpReadSubscribers \/ ImpCommit \/
    ImpAbort \/ ImpRollback \/ ImpPurge \/ ImpThrow \/ ImpCount \/ SweepFails \/ OrphanList \/ OrphanRead \/
    OrphanFiles \/ OrphanRows \/ OrphanTp \/ StaleList \/ StaleFile \/ StaleRow \/ StickersList \/
    StickersDelete \/ PacksList \/ PacksRead \/ PacksStickers
  BY <1>6 DEF CmdLookup, CmdCreateTp, CmdCreateJob, ImpLoad, ImpFetch, ImpSticker, ImpReadStale,
      ImpReadSubscribers, ImpCommit, ImpAbort, ImpRollback, ImpPurge, ImpThrow, ImpCount, SweepFails, OrphanList,
      OrphanRead, OrphanFiles, OrphanRows, OrphanTp, StaleList, StaleFile, StaleRow,
      StickersList, StickersDelete, PacksList, PacksRead, PacksStickers, StartSweep
<1> QED BY <1>1, <1>2, <1>3, <1>4, <1>5, <1>6 DEF Next, Import, Sweep

(* The sticker rows. *)
LEMMA StickersType ==
  ASSUME TypeOK, Next
  PROVE  stickers' \in [PackIds \X RowIds -> Existing \union {"none"}]
<1> USE DEF TypeOK, Existing, db, storage, processes
<1>1. CASE RetentionPasses BY <1>1 DEF RetentionPasses
<1>2. ASSUME NEW p \in PackIds, DeletePack(p) PROVE stickers' \in [PackIds \X RowIds -> Existing
    \union {"none"}] BY <1>2 DEF DeletePack
<1>3. CASE ImpCommit BY <1>3 DEF ImpCommit, ImpGoTo, RowsAfterImport, StickersAfterImport, NewRows
<1>4. CASE StickersDelete BY <1>4 DEF StickersDelete, SweepIdle
<1>5. CASE PacksStickers BY <1>5 DEF PacksStickers, SweepGoTo
<1>6. CASE (\E u \in Users : CmdLookup(u)) \/ CmdCreateTp \/ CmdCreatePack \/ CmdCreateJob \/
    ImpLoad \/ ImpFetch \/ (\E k \in Keys : ImpSticker(k)) \/ ImpReadStale \/ ImpReadSubscribers
    \/ ImpAbort \/ ImpRollback \/ ImpPurge \/ ImpThrow \/ ImpCount \/ ImpCleanUp \/ SweepFails \/ OrphanList
    \/ OrphanRead \/ OrphanFiles \/ OrphanRows \/ OrphanTp \/ StaleList \/ StaleFile \/ StaleRow
    \/ StickersList \/ PacksList \/ PacksRead \/ PacksDelete
  BY <1>6 DEF CmdLookup, CmdCreateTp, CmdCreatePack, CmdCreateJob, ImpLoad, ImpFetch, ImpSticker,
      ImpReadStale, ImpReadSubscribers, ImpAbort, ImpRollback, ImpPurge, ImpThrow, ImpCount, ImpCleanUp,
      SweepFails, OrphanList, OrphanRead, OrphanFiles, OrphanRows, OrphanTp, StaleList, StaleFile,
      StaleRow, StickersList, PacksList, PacksRead, PacksDelete, StartSweep
<1> QED BY <1>1, <1>2, <1>3, <1>4, <1>5, <1>6 DEF Next, Import, Sweep

(* The command and its job. *)
LEMMA CmdType ==
  ASSUME TypeOK, Next
  PROVE  cmd' \in CmdStates /\ job' \in PackIds \union {None}
<1> USE DEF TypeOK, CmdStates, db, storage, processes, LivePacksOf, Present, OwnPacks
<1>1. ASSUME NEW u \in Users, CmdLookup(u) PROVE cmd' \in CmdStates /\ job' \in PackIds \union
    {None} BY <1>1 DEF CmdLookup
<1>2. CASE CmdCreateTp BY <1>2 DEF CmdCreateTp
<1>3. CASE CmdCreatePack
  <2>1. CASE cmd' = CmdIdle BY <1>3, <2>1 DEF CmdCreatePack, CmdIdle
  <2>2. CASE \E p \in PackIds : cmd' = [cmd EXCEPT !.pc = "createJob", !.pack = p]
    BY <1>3, <2>2 DEF CmdCreatePack
  <2> QED BY <1>3, <2>1, <2>2 DEF CmdCreatePack
<1>4. CASE CmdCreateJob BY <1>4 DEF CmdCreateJob, CmdIdle
<1>5. CASE ImpLoad BY <1>5 DEF ImpLoad, ImpIdle
<1>6. CASE ImpPurge \/ ImpThrow
  <2>1. imp.pack \in PackIds \union {None} BY DEF ImpStates
  <2>2. Requeued \in PackIds \union {None} BY <2>1 DEF Requeued
  <2> HIDE DEF Requeued
  <2> QED BY <1>6, <2>2 DEF ImpPurge, ImpThrow
<1>7. CASE RetentionPasses \/ (\E p \in PackIds : DeletePack(p)) \/ ImpFetch \/ (\E k \in Keys :
    ImpSticker(k)) \/ ImpReadStale \/ ImpReadSubscribers \/ ImpCommit \/ ImpAbort \/ ImpRollback
    \/ ImpCount \/ ImpCleanUp \/ SweepFails \/ OrphanList \/ OrphanRead \/ OrphanFiles
    \/ OrphanRows \/ OrphanTp \/ StaleList \/ StaleFile \/ StaleRow \/ StickersList \/
    StickersDelete \/ PacksList \/ PacksRead \/ PacksStickers \/ PacksDelete
  BY <1>7 DEF RetentionPasses, DeletePack, ImpFetch, ImpSticker, ImpReadStale, ImpReadSubscribers,
      ImpCommit, ImpAbort, ImpRollback, ImpCount, ImpCleanUp, SweepFails, OrphanList,
      OrphanRead, OrphanFiles, OrphanRows, OrphanTp, StaleList, StaleFile, StaleRow, StickersList,
      StickersDelete, PacksList, PacksRead, PacksStickers, PacksDelete, StartSweep
<1> QED BY <1>1, <1>2, <1>3, <1>4, <1>5, <1>6, <1>7 DEF Next, Import, Sweep

(* The import handler. *)
LEMMA ImpType ==
  ASSUME TypeOK, Next
  PROVE  imp' \in ImpStates
<1> USE DEF TypeOK, ImpStates, db, storage, processes, LivePacksOf, RowsOf
<1>1. CASE ImpLoad BY <1>1 DEF ImpLoad, ImpIdle
<1>2. CASE ImpFetch BY <1>2, ZenonT(60) DEF ImpFetch, ImpGoTo
<1>3. ASSUME NEW k \in Keys, ImpSticker(k) PROVE imp' \in ImpStates
  <2>1. imp.todo \ {k} \subseteq Keys OBVIOUS
  <2>2. CASE \E r \in RowIds : imp' = [imp EXCEPT !.todo = @ \ {k}, !.new = @ \union {<<k, r>>}]
    <3>1. PICK r \in RowIds : imp' = [imp EXCEPT !.todo = @ \ {k}, !.new = @ \union {<<k, r>>}]
      BY <2>2
    <3>2. imp.new \union {<<k, r>>} \subseteq Keys \X RowIds OBVIOUS
    <3> QED BY <2>1, <3>1, <3>2
  <2>3. CASE imp' = [imp EXCEPT !.todo = @ \ {k}] BY <2>1, <2>3
  <2>4. CASE \E known \in SUBSET RowIds :
              imp' = [imp EXCEPT !.todo = @ \ {k}, !.restored = @ \union {r \in known : rows[r].status # "live"}]
    <3>1. PICK known \in SUBSET RowIds :
            imp' = [imp EXCEPT !.todo = @ \ {k}, !.restored = @ \union {r \in known : rows[r].status # "live"}]
      BY <2>4
    <3>2. imp.restored \union {r \in known : rows[r].status # "live"} \subseteq RowIds OBVIOUS
    <3> QED BY <2>1, <3>1, <3>2
  <2>5. {r \in RowsOf(imp.tp) : rows[r].key = k} \in SUBSET RowIds OBVIOUS
  <2> QED BY <1>3, <2>2, <2>3, <2>4, <2>5 DEF ImpSticker
<1>4. CASE ImpReadStale BY <1>4 DEF ImpReadStale
<1>5. CASE ImpReadSubscribers BY <1>5 DEF ImpReadSubscribers
<1>6. CASE ImpCommit BY <1>6 DEF ImpCommit, ImpGoTo, RowsAfterImport, StickersAfterImport, NewRows
<1>7. CASE ImpAbort BY <1>7 DEF ImpAbort, ImpGoTo
<1>8. CASE ImpRollback BY <1>8 DEF ImpRollback, ImpGoTo
<1>9. CASE ImpPurge \/ ImpThrow BY <1>9 DEF ImpPurge, ImpThrow, ImpIdle
<1>10. CASE ImpCount
  <2>1. CASE imp' = ImpIdle BY <2>1 DEF ImpIdle
  <2>2. CASE imp' = [imp EXCEPT !.pc = "cleanup"] BY <2>2
  <2> QED BY <1>10, <2>1, <2>2 DEF ImpCount, ImpGoTo
<1>11. CASE ImpCleanUp BY <1>11 DEF ImpCleanUp, ImpIdle
<1>12. CASE RetentionPasses \/ (\E p \in PackIds : DeletePack(p)) \/ (\E u \in Users :
    CmdLookup(u)) \/ CmdCreateTp \/ CmdCreatePack \/ CmdCreateJob \/ SweepFails \/ OrphanList \/
    OrphanRead \/ OrphanFiles \/ OrphanRows \/ OrphanTp \/ StaleList \/ StaleFile \/ StaleRow \/
    StickersList \/ StickersDelete \/ PacksList \/ PacksRead \/ PacksStickers \/ PacksDelete
  BY <1>12 DEF RetentionPasses, DeletePack, CmdLookup, CmdCreateTp, CmdCreatePack, CmdCreateJob,
      SweepFails, OrphanList, OrphanRead, OrphanFiles, OrphanRows, OrphanTp, StaleList, StaleFile,
      StaleRow, StickersList, StickersDelete, PacksList, PacksRead, PacksStickers, PacksDelete,
      StartSweep
<1> QED BY <1>1, <1>2, <1>3, <1>4, <1>5, <1>6, <1>7, <1>8, <1>9, <1>10, <1>11, <1>12 DEF Next,
    Import, Sweep

(* The sweeps. *)
LEMMA SweepType ==
  ASSUME TypeOK, Next
  PROVE  sweep' \in [AllSweeps -> SweepStates]
<1> USE DEF TypeOK, SweepStates, Items, AllSweeps, db, storage, processes, RowsOf
<1>1. CASE OrphanList BY <1>1 DEF OrphanList, StartSweep, SweepIdle
<1>2. CASE OrphanRead
  <2>1. sweep["orphan"] \in SweepStates BY SweepAt
  <2>2. PICK x \in sweep["orphan"].todo :
          sweep' = [sweep EXCEPT !["orphan"] =
                      [pc |-> "files", todo |-> sweep["orphan"].todo \ {x}, item |-> x, read |-> RowsOf(x)]]
    BY <1>2 DEF OrphanRead
  <2>3. x \in Items BY <2>1 DEF SweepStates
  <2>4. sweep["orphan"].todo \ {x} \in SUBSET Items BY <2>1 DEF SweepStates
  <2>5. RowsOf(x) \subseteq RowIds BY DEF RowsOf
  <2>6. [pc |-> "files", todo |-> sweep["orphan"].todo \ {x}, item |-> x, read |-> RowsOf(x)] \in SweepStates
    BY <2>3, <2>4, <2>5 DEF SweepStates
  <2> QED BY <2>2, <2>6 DEF TypeOK, AllSweeps
<1>3. CASE OrphanFiles
  <2>1. sweep["orphan"] \in SweepStates BY SweepAt
  <2>2. sweep' = [sweep EXCEPT !["orphan"].pc = "rows"] BY <1>3 DEF OrphanFiles, SweepGoTo
  <2> QED BY <2>1, <2>2 DEF TypeOK, SweepStates, AllSweeps
<1>4. CASE OrphanRows
  <2>1. sweep["orphan"] \in SweepStates BY SweepAt
  <2>2. sweep' = [sweep EXCEPT !["orphan"].pc = "tp"] BY <1>4 DEF OrphanRows, SweepGoTo
  <2> QED BY <2>1, <2>2 DEF TypeOK, SweepStates, AllSweeps
<1>5. CASE OrphanTp BY <1>5 DEF OrphanTp, ItemDone, SweepIdle
<1>6. CASE StaleList BY <1>6 DEF StaleList, StartSweep, SweepIdle
<1>7. CASE StaleFile
  <2>1. sweep["stale"] \in SweepStates BY SweepAt
  <2>2. PICK x \in sweep["stale"].todo :
          sweep' = [sweep EXCEPT !["stale"].pc = "rows", !["stale"].item = x, !["stale"].todo = @ \ {x}]
    BY <1>7 DEF StaleFile
  <2>3. x \in Items BY <2>1 DEF SweepStates
  <2>4. sweep["stale"].todo \ {x} \in SUBSET Items BY <2>1 DEF SweepStates
  <2> QED BY <2>1, <2>2, <2>3, <2>4 DEF TypeOK, SweepStates, AllSweeps
<1>8. CASE StaleRow BY <1>8 DEF StaleRow, ItemDone, SweepIdle
<1>9. CASE StickersList BY <1>9 DEF StickersList, StartSweep, SweepIdle
<1>10. CASE StickersDelete
  <2>1. sweep["stickers"] \in SweepStates BY SweepAt
  <2>2. CASE sweep' = [sweep EXCEPT !["stickers"] = SweepIdle] BY <2>2 DEF SweepIdle
  <2>3. CASE \E x : sweep' = [sweep EXCEPT !["stickers"].todo = @ \ {x}]
    <3>1. PICK x : sweep' = [sweep EXCEPT !["stickers"].todo = @ \ {x}] BY <2>3
    <3>2. sweep["stickers"].todo \ {x} \in SUBSET Items BY <2>1 DEF SweepStates
    <3> QED BY <2>1, <3>1, <3>2 DEF TypeOK, SweepStates, AllSweeps
  <2> QED BY <1>10, <2>2, <2>3 DEF StickersDelete
<1>11. CASE PacksList BY <1>11 DEF PacksList, StartSweep, SweepIdle
<1>12. CASE PacksRead
  <2>1. sweep["packs"] \in SweepStates BY SweepAt
  <2>2. PICK x \in sweep["packs"].todo :
          sweep' = [sweep EXCEPT !["packs"].pc = "rows", !["packs"].item = x, !["packs"].todo = @ \ {x}]
    BY <1>12 DEF PacksRead
  <2>3. x \in Items BY <2>1 DEF SweepStates
  <2>4. sweep["packs"].todo \ {x} \in SUBSET Items BY <2>1 DEF SweepStates
  <2> QED BY <2>1, <2>2, <2>3, <2>4 DEF TypeOK, SweepStates, AllSweeps
<1>13. CASE PacksStickers BY <1>13, SMTT(30) DEF PacksStickers, SweepGoTo
<1>14. CASE PacksDelete BY <1>14 DEF PacksDelete, ItemDone, SweepIdle
<1>15. CASE RetentionPasses \/ (\E p \in PackIds : DeletePack(p)) \/ (\E u \in Users :
    CmdLookup(u)) \/ CmdCreateTp \/ CmdCreatePack \/ CmdCreateJob \/ ImpLoad \/ ImpFetch \/ (\E k
    \in Keys : ImpSticker(k)) \/ ImpReadStale \/ ImpReadSubscribers \/ ImpCommit \/ ImpAbort \/
    ImpRollback \/ ImpPurge \/ ImpThrow \/ ImpCount \/ ImpCleanUp
  BY <1>15 DEF RetentionPasses, DeletePack, CmdLookup, CmdCreateTp, CmdCreatePack, CmdCreateJob,
      ImpLoad, ImpFetch, ImpSticker, ImpReadStale, ImpReadSubscribers, ImpCommit, ImpAbort,
      ImpRollback, ImpPurge, ImpThrow, ImpCount, ImpCleanUp
<1>16. CASE SweepFails BY <1>16, LibraryAssumption DEF SweepFails, SweepIdle
<1> QED BY <1>1, <1>2, <1>3, <1>4, <1>5, <1>6, <1>7, <1>8, <1>9, <1>10, <1>11, <1>12,
    <1>13, <1>14, <1>15, <1>16 DEF Next, Import, Sweep

LEMMA InitTypeOK == Init => TypeOK
<1> SUFFICES ASSUME Init PROVE TypeOK OBVIOUS
<1> USE DEF Init
<1>1. /\ tps \in [TpIds -> {"unused", "present", "gone"}]
      /\ rows \in [RowIds -> [status : RowStatus, tp : TpIds \union {None}, key : Keys \union {None}]]
      /\ files \subseteq RowIds
      /\ packs \in [PackIds -> [status : RowStatus, tp : TpIds \union {None}, owner : Users \union {None}]]
  BY DEF RowStatus
<1>2. stickers \in [PackIds \X RowIds -> Existing \union {"none"}] OBVIOUS
<1>3. cmd \in CmdStates /\ job \in PackIds \union {None} BY DEF CmdStates, CmdIdle
<1>4. imp \in ImpStates BY DEF ImpStates, ImpIdle
<1>5. sweep \in [AllSweeps -> SweepStates] BY DEF SweepStates, SweepIdle
<1> QED BY <1>1, <1>2, <1>3, <1>4, <1>5 DEF TypeOK

LEMMA NextTypeOK == TypeOK /\ [Next]_vars => TypeOK'
<1> SUFFICES ASSUME TypeOK, [Next]_vars PROVE TypeOK' OBVIOUS
<1>1. CASE Next
  BY <1>1, TpsType, FilesType, RowsType, PacksType, StickersType, CmdType, ImpType, SweepType
  DEF TypeOK, RowTypes, PackTypes
<1>2. CASE UNCHANGED vars BY <1>2 DEF TypeOK, vars
<1> QED BY <1>1, <1>2

(* Every variable keeps its type; in particular the foreign keys of a row name
   rows of the right table or nothing. *)
THEOREM TypeCorrect == Spec => []TypeOK
BY InitTypeOK, NextTypeOK, PTL DEF Spec

(***************************************************************************)
(* The invariant behind MirrorsSharedRows. What an import read before its  *)
(* transaction is still true of the rows it writes in one respect: they    *)
(* are rows of its own Telegram pack.                                      *)
(***************************************************************************)

(* Rows the import restores or retires are rows of its Telegram pack. *)
OwnRows ==
  \A r \in imp.restored \union imp.stale : rows[r].tp = imp.tp /\ rows[r].status # "unused"

(* The ids it is about to create rows under are still unused. *)
NewRowsUnused ==
  imp.pc \in {"fetch", "phase1", "transaction", "fanOut"} =>
    \A r \in NewRows : rows[r].status = "unused"

(* The packs it writes to have been created for its Telegram pack. *)
OwnSubscribers ==
  \A p \in imp.subscribers : packs[p].tp = imp.tp /\ packs[p].status # "unused"

(* An id without a row, or without a pack, has no sticker. *)
NothingBeforeCreation ==
  \A p \in PackIds, r \in RowIds :
    rows[r].status = "unused" \/ packs[p].status = "unused" => ~Live(p, r)

(* Until the transaction ends, its list of subscribers names every live pack
   that has something to lose. *)
NoSubscriberMissed ==
  imp.pc = "fanOut" =>
    \A p \in PackIds, r \in RowIds :
      Live(p, r) /\ packs[p].status = "live" /\ packs[p].tp = imp.tp => p \in imp.subscribers

MirrorInv ==
  /\ TypeOK
  /\ MirrorsSharedRows
  /\ OwnRows
  /\ NewRowsUnused
  /\ OwnSubscribers
  /\ NothingBeforeCreation
  /\ NoSubscriberMissed

(* What the actions of the import handler leave alone of its state. *)
LEMMA FetchKeeps ==
  ASSUME TypeOK, ImpFetch
  PROVE  /\ imp'.pc # "fanOut" /\ imp'.tp = imp.tp /\ imp'.new = imp.new
         /\ imp'.restored = imp.restored /\ imp'.stale = imp.stale
         /\ imp'.subscribers = imp.subscribers
<1>1. CASE imp' = [imp EXCEPT !.pc = "count"] BY <1>1 DEF TypeOK, ImpStates
<1>2. CASE \E served \in SUBSET Keys :
            imp' = [imp EXCEPT !.pc = "phase1", !.fetched = served, !.todo = served]
  BY <1>2 DEF TypeOK, ImpStates
<1> QED BY <1>1, <1>2 DEF ImpFetch, ImpGoTo

LEMMA StickerKeeps ==
  ASSUME TypeOK, NEW k \in Keys, ImpSticker(k)
  PROVE  /\ imp'.pc # "fanOut" /\ imp'.tp = imp.tp
         /\ imp'.restored \subseteq imp.restored \union RowsOf(imp.tp) /\ imp'.stale = imp.stale
         /\ imp'.subscribers = imp.subscribers
<1>1. CASE \E r \in RowIds : imp' = [imp EXCEPT !.todo = @ \ {k}, !.new = @ \union {<<k, r>>}]
  BY <1>1 DEF TypeOK, ImpStates, ImpSticker
<1>2. CASE imp' = [imp EXCEPT !.todo = @ \ {k}] BY <1>2 DEF TypeOK, ImpStates, ImpSticker
<1>3. CASE \E known \in SUBSET RowsOf(imp.tp) :
            imp' = [imp EXCEPT !.todo = @ \ {k}, !.restored = @ \union {r \in known : rows[r].status # "live"}]
  <2>1. PICK known \in SUBSET RowsOf(imp.tp) :
          imp' = [imp EXCEPT !.todo = @ \ {k}, !.restored = @ \union {r \in known : rows[r].status # "live"}]
    BY <1>3
  <2>2. imp'.restored = imp.restored \union {r \in known : rows[r].status # "live"}
    BY <2>1 DEF TypeOK, ImpStates
  <2> QED BY <2>1, <2>2 DEF TypeOK, ImpStates, ImpSticker
<1>4. {r \in RowsOf(imp.tp) : rows[r].key = k} \in SUBSET RowsOf(imp.tp) OBVIOUS
<1> QED BY <1>1, <1>2, <1>3, <1>4 DEF ImpSticker

LEMMA StickerNews ==
  ASSUME TypeOK, NEW k \in Keys, ImpSticker(k)
  PROVE  \/ imp'.new = imp.new
         \/ \E r \in RowIds : rows[r].status = "unused" /\ imp'.new = imp.new \union {<<k, r>>}
<1>1. CASE \E r \in RowIds :
              /\ rows[r].status = "unused"
              /\ imp' = [imp EXCEPT !.todo = @ \ {k}, !.new = @ \union {<<k, r>>}]
  BY <1>1 DEF TypeOK, ImpStates
<1>2. CASE imp' = [imp EXCEPT !.todo = @ \ {k}] BY <1>2 DEF TypeOK, ImpStates
<1>3. CASE \E known \in SUBSET RowsOf(imp.tp) :
            imp' = [imp EXCEPT !.todo = @ \ {k}, !.restored = @ \union {r \in known : rows[r].status # "live"}]
  BY <1>3 DEF TypeOK, ImpStates
<1>4. {r \in RowsOf(imp.tp) : rows[r].key = k} \in SUBSET RowsOf(imp.tp) OBVIOUS
<1> QED BY <1>1, <1>2, <1>3, <1>4 DEF ImpSticker

LEMMA CountKeeps ==
  ASSUME TypeOK, ImpCount
  PROVE  \/ imp' = ImpIdle
         \/ /\ imp'.pc # "fanOut" /\ imp'.tp = imp.tp
            /\ imp'.restored = imp.restored /\ imp'.stale = imp.stale
            /\ imp'.subscribers = imp.subscribers
<1>1. CASE imp' = [imp EXCEPT !.pc = "cleanup"] BY <1>1 DEF TypeOK, ImpStates
<1> QED BY <1>1 DEF ImpCount, ImpGoTo

LEMMA CreatePackEffect ==
  ASSUME CmdCreatePack
  PROVE  \/ UNCHANGED packs
         \/ \E p \in PackIds :
              /\ packs[p].status = "unused"
              /\ packs' = [packs EXCEPT ![p] = [status |-> "live", tp |-> cmd.tp, owner |-> cmd.user]]
BY DEF CmdCreatePack

(* What the transaction does to one shared row, and to one sticker row. *)
LEMMA RowAfterImport ==
  ASSUME TypeOK, NEW r \in RowIds
  PROVE  \/ r \in NewRows /\ RowsAfterImport[r].status = "live" /\ RowsAfterImport[r].tp = imp.tp
         \/ /\ r \in imp.restored /\ RowsAfterImport[r].status = "live"
            /\ RowsAfterImport[r].tp = rows[r].tp
         \/ /\ r \in imp.stale /\ rows[r].status \in Existing /\ RowsAfterImport[r].status = "deleted"
            /\ RowsAfterImport[r].tp = rows[r].tp
         \/ /\ RowsAfterImport[r] = rows[r]
            /\ r \notin imp.stale \/ rows[r].status \notin Existing
<1>1. rows[r] \in [status : RowStatus, tp : TpIds \union {None}, key : Keys \union {None}]
  BY DEF TypeOK
<1> QED BY <1>1 DEF RowsAfterImport

LEMMA StickerAfterImport ==
  ASSUME NEW p \in PackIds, NEW r \in RowIds, StickersAfterImport[<<p, r>>] = "live"
  PROVE  \/ /\ p \in imp.subscribers
            /\ RowsAfterImport[r].status = "live" /\ RowsAfterImport[r].tp = imp.tp
         \/ p \notin imp.subscribers /\ Live(p, r)
         \/ /\ p \in imp.subscribers /\ Live(p, r) /\ r \notin imp.stale
            /\ ~(RowsAfterImport[r].status = "live" /\ RowsAfterImport[r].tp = imp.tp)
BY DEF StickersAfterImport, Live

(* The rows of an import keep their Telegram pack. *)
LEMMA OwnRowsStep ==
  ASSUME TypeOK, TypeOK', OwnRows, Next
  PROVE  OwnRows'
<1> USE DEF TypeOK, RowStatus, Existing, CmdStates, ImpStates, db, storage, processes, OwnRows
<1>1. CASE RetentionPasses BY <1>1 DEF RetentionPasses
<1>2. CASE ImpLoad BY <1>2 DEF ImpLoad, ImpIdle
<1>3. CASE ImpFetch
  BY <1>3, FetchKeeps DEF ImpFetch
<1>4. ASSUME NEW k \in Keys, ImpSticker(k) PROVE OwnRows'
  BY <1>4, StickerKeeps DEF ImpSticker, RowsOf
<1>5. CASE ImpReadStale BY <1>5, ZenonT(60) DEF ImpReadStale, RowsOf
<1>6. CASE ImpReadSubscribers BY <1>6 DEF ImpReadSubscribers
<1>7. CASE ImpCommit BY <1>7 DEF ImpCommit, ImpGoTo, RowsAfterImport, NewRows
<1>8. CASE ImpAbort BY <1>8 DEF ImpAbort, ImpGoTo
<1>9. CASE ImpRollback BY <1>9 DEF ImpRollback, ImpGoTo
<1>10. CASE ImpPurge \/ ImpThrow BY <1>10 DEF ImpPurge, ImpThrow, ImpIdle
<1>11. CASE ImpCount
  <2>1. CASE imp' = ImpIdle BY <1>11, <2>1 DEF ImpCount, ImpIdle
  <2>2. CASE imp' # ImpIdle BY <1>11, <2>2, CountKeeps DEF ImpCount
  <2> QED BY <2>1, <2>2
<1>12. CASE ImpCleanUp BY <1>12 DEF ImpCleanUp, ImpIdle
<1>13. CASE OrphanRows BY <1>13 DEF OrphanRows
<1>14. CASE StaleRow BY <1>14 DEF StaleRow
<1>15. CASE (\E p \in PackIds : DeletePack(p)) \/ (\E u \in Users : CmdLookup(u)) \/ CmdCreateTp
    \/ CmdCreatePack \/ CmdCreateJob
  <2>1. UNCHANGED <<rows, imp>> BY <1>15 DEF DeletePack, CmdLookup, CmdCreateTp, CmdCreatePack,
      CmdCreateJob
  <2> QED BY <2>1
<1>16. CASE SweepFails \/ OrphanList \/ OrphanRead \/ OrphanFiles \/ OrphanTp \/ StaleList \/
    StaleFile \/ StickersList \/ StickersDelete \/ PacksList \/ PacksRead \/ PacksStickers \/
    PacksDelete
  <2>1. UNCHANGED <<rows, imp>> BY <1>16 DEF SweepFails, OrphanList, OrphanRead, OrphanFiles,
      OrphanTp, StaleList, StaleFile, StickersList, StickersDelete, PacksList, PacksRead,
      PacksStickers, PacksDelete, StartSweep
  <2> QED BY <2>1
<1> QED BY <1>1, <1>2, <1>3, <1>4, <1>5, <1>6, <1>7, <1>8, <1>9, <1>10, <1>11, <1>12, <1>13,
    <1>14, <1>15, <1>16 DEF Next, Import, Sweep

(* A new id stays unused until its row is created. *)
LEMMA NewRowsUnusedStep ==
  ASSUME TypeOK, TypeOK', NewRowsUnused, Next
  PROVE  NewRowsUnused'
<1> USE DEF TypeOK, RowStatus, Existing, CmdStates, ImpStates, db, storage, processes, NewRowsUnused,
    NewRows
<1>1. CASE RetentionPasses BY <1>1 DEF RetentionPasses
<1>2. CASE ImpLoad BY <1>2 DEF ImpLoad, ImpIdle
<1>3. CASE ImpFetch
  BY <1>3, FetchKeeps DEF ImpFetch
<1>4. ASSUME NEW k \in Keys, ImpSticker(k) PROVE NewRowsUnused'
  <2>1. imp.pc = "phase1" /\ UNCHANGED rows BY <1>4 DEF ImpSticker
  <2>2. CASE imp'.new = imp.new BY <2>1, <2>2
  <2>3. ASSUME NEW r \in RowIds, rows[r].status = "unused", imp'.new = imp.new \union {<<k, r>>}
        PROVE  NewRowsUnused'
    <3>1. ASSUME NEW q \in NewRows' PROVE q \in NewRows \/ q = r
      <4>1. PICK n \in imp'.new : q = n[2] BY DEF NewRows
      <4>2. CASE n \in imp.new BY <4>1, <4>2
      <4>3. CASE n = <<k, r>> BY <4>1, <4>3
      <4> QED BY <2>3, <4>2, <4>3
    <3> QED BY <2>1, <2>3, <3>1
  <2>4. \/ imp'.new = imp.new
        \/ \E r \in RowIds : rows[r].status = "unused" /\ imp'.new = imp.new \union {<<k, r>>}
    BY <1>4, StickerNews
  <2> QED BY <2>2, <2>3, <2>4
<1>5. CASE ImpReadStale BY <1>5 DEF ImpReadStale
<1>6. CASE ImpReadSubscribers BY <1>6 DEF ImpReadSubscribers
<1>7. CASE ImpCommit BY <1>7 DEF ImpCommit, ImpGoTo
<1>8. CASE ImpAbort BY <1>8 DEF ImpAbort, ImpGoTo
<1>9. CASE ImpRollback BY <1>9 DEF ImpRollback, ImpGoTo
<1>10. CASE ImpPurge \/ ImpThrow BY <1>10 DEF ImpPurge, ImpThrow, ImpIdle
<1>11. CASE ImpCount
  <2>1. imp'.pc \in {"idle", "cleanup"} BY <1>11 DEF ImpCount, ImpIdle, ImpGoTo
  <2> QED BY <2>1
<1>12. CASE ImpCleanUp BY <1>12 DEF ImpCleanUp, ImpIdle
<1>13. CASE OrphanRows BY <1>13 DEF OrphanRows, RowsOf
<1>14. CASE StaleRow BY <1>14 DEF StaleRow
<1>15. CASE (\E p \in PackIds : DeletePack(p)) \/ (\E u \in Users : CmdLookup(u)) \/ CmdCreateTp
    \/ CmdCreatePack \/ CmdCreateJob
  <2>1. UNCHANGED <<rows, imp>> BY <1>15 DEF DeletePack, CmdLookup, CmdCreateTp, CmdCreatePack,
      CmdCreateJob
  <2> QED BY <2>1
<1>16. CASE SweepFails \/ OrphanList \/ OrphanRead \/ OrphanFiles \/ OrphanTp \/ StaleList \/
    StaleFile \/ StickersList \/ StickersDelete \/ PacksList \/ PacksRead \/ PacksStickers \/
    PacksDelete
  <2>1. UNCHANGED <<rows, imp>> BY <1>16 DEF SweepFails, OrphanList, OrphanRead, OrphanFiles,
      OrphanTp, StaleList, StaleFile, StickersList, StickersDelete, PacksList, PacksRead,
      PacksStickers, PacksDelete, StartSweep
  <2> QED BY <2>1
<1> QED BY <1>1, <1>2, <1>3, <1>4, <1>5, <1>6, <1>7, <1>8, <1>9, <1>10, <1>11, <1>12, <1>13,
    <1>14, <1>15, <1>16 DEF Next, Import, Sweep

(* The subscribers of an import keep their Telegram pack. *)
LEMMA OwnSubscribersStep ==
  ASSUME TypeOK, TypeOK', OwnSubscribers, Next
  PROVE  OwnSubscribers'
<1> USE DEF TypeOK, RowStatus, Existing, CmdStates, ImpStates, db, storage, processes, OwnSubscribers
<1>1. CASE RetentionPasses BY <1>1 DEF RetentionPasses
<1>2. ASSUME NEW p \in PackIds, DeletePack(p) PROVE OwnSubscribers' BY <1>2 DEF DeletePack
<1>3. CASE CmdCreatePack
  <2>1. UNCHANGED <<tps, rows, stickers, imp>> BY <1>3 DEF CmdCreatePack
  <2>2. CASE UNCHANGED packs BY <2>1, <2>2
  <2>3. ASSUME NEW p \in PackIds, packs[p].status = "unused",
               packs' = [packs EXCEPT ![p] = [status |-> "live", tp |-> cmd.tp, owner |-> cmd.user]]
        PROVE  OwnSubscribers'
    BY <2>1, <2>3
  <2> QED BY <1>3, <2>2, <2>3, CreatePackEffect
<1>4. CASE ImpLoad BY <1>4 DEF ImpLoad, ImpIdle
<1>5. CASE ImpFetch
  BY <1>5, FetchKeeps DEF ImpFetch
<1>6. ASSUME NEW k \in Keys, ImpSticker(k) PROVE OwnSubscribers'
  BY <1>6, StickerKeeps DEF ImpSticker, RowsOf
<1>7. CASE ImpReadStale BY <1>7 DEF ImpReadStale
<1>8. CASE ImpReadSubscribers BY <1>8 DEF ImpReadSubscribers, LivePacksOf
<1>9. CASE ImpCommit BY <1>9 DEF ImpCommit, ImpGoTo
<1>10. CASE ImpAbort BY <1>10 DEF ImpAbort, ImpGoTo
<1>11. CASE ImpRollback BY <1>11 DEF ImpRollback, ImpGoTo
<1>12. CASE ImpPurge \/ ImpThrow BY <1>12 DEF ImpPurge, ImpThrow, ImpIdle
<1>13. CASE ImpCount
  <2>1. CASE imp' = ImpIdle BY <1>13, <2>1 DEF ImpCount, ImpIdle
  <2>2. CASE imp' # ImpIdle BY <1>13, <2>2, CountKeeps DEF ImpCount
  <2> QED BY <2>1, <2>2
<1>14. CASE ImpCleanUp BY <1>14 DEF ImpCleanUp, ImpIdle
<1>15. CASE PacksDelete BY <1>15 DEF PacksDelete
<1>16. CASE (\E u \in Users : CmdLookup(u)) \/ CmdCreateTp \/ CmdCreateJob
  <2>1. UNCHANGED <<packs, imp>> BY <1>16 DEF CmdLookup, CmdCreateTp, CmdCreateJob
  <2> QED BY <2>1
<1>17. CASE SweepFails \/ OrphanList \/ OrphanRead \/ OrphanFiles \/ OrphanRows \/ OrphanTp \/
    StaleList \/ StaleFile \/ StaleRow \/ StickersList \/ StickersDelete \/ PacksList \/ PacksRead
    \/ PacksStickers
  <2>1. UNCHANGED <<packs, imp>> BY <1>17 DEF SweepFails, OrphanList, OrphanRead, OrphanFiles,
      OrphanRows, OrphanTp, StaleList, StaleFile, StaleRow, StickersList, StickersDelete,
      PacksList, PacksRead, PacksStickers, StartSweep
  <2> QED BY <2>1
<1> QED BY <1>1, <1>2, <1>3, <1>4, <1>5, <1>6, <1>7, <1>8, <1>9, <1>10, <1>11, <1>12, <1>13,
    <1>14, <1>15, <1>16, <1>17 DEF Next, Import, Sweep

(* Stickers appear only where there is a row and a pack. *)
LEMMA NothingBeforeCreationStep ==
  ASSUME TypeOK, TypeOK', OwnRows, OwnSubscribers, NothingBeforeCreation, Next
  PROVE  NothingBeforeCreation'
<1> USE DEF TypeOK, RowStatus, Existing, CmdStates, ImpStates, db, storage, processes, OwnRows,
    OwnSubscribers, NothingBeforeCreation, Live
<1>1. CASE RetentionPasses BY <1>1 DEF RetentionPasses
<1>2. ASSUME NEW p \in PackIds, DeletePack(p) PROVE NothingBeforeCreation' BY <1>2 DEF DeletePack
<1>3. CASE CmdCreatePack
  <2>1. UNCHANGED <<tps, rows, stickers, imp>> BY <1>3 DEF CmdCreatePack
  <2>2. CASE UNCHANGED packs BY <2>1, <2>2
  <2>3. ASSUME NEW p \in PackIds, packs[p].status = "unused",
               packs' = [packs EXCEPT ![p] = [status |-> "live", tp |-> cmd.tp, owner |-> cmd.user]]
        PROVE  NothingBeforeCreation'
    BY <2>1, <2>3
  <2> QED BY <1>3, <2>2, <2>3, CreatePackEffect
<1>4. CASE ImpCommit
  <2> SUFFICES ASSUME NEW p \in PackIds, NEW r \in RowIds,
                      rows'[r].status = "unused" \/ packs'[p].status = "unused", Live(p, r)'
               PROVE  FALSE
    OBVIOUS
  <2>1. /\ rows' = RowsAfterImport /\ packs' = packs
        /\ StickersAfterImport[<<p, r>>] = "live"
    BY <1>4 DEF ImpCommit
  <2>2. rows'[r].status = "unused" => rows[r].status = "unused"
    BY <2>1, RowAfterImport
  <2> QED BY <2>1, <2>2, StickerAfterImport
<1>5. CASE ImpCleanUp BY <1>5 DEF ImpCleanUp
<1>6. CASE OrphanRows BY <1>6 DEF OrphanRows
<1>7. CASE StaleRow BY <1>7 DEF StaleRow
<1>8. CASE StickersDelete BY <1>8 DEF StickersDelete
<1>9. CASE PacksStickers BY <1>9 DEF PacksStickers
<1>10. CASE PacksDelete BY <1>10 DEF PacksDelete
<1>11. CASE (\E u \in Users : CmdLookup(u)) \/ CmdCreateTp \/ CmdCreateJob
  <2>1. UNCHANGED <<rows, packs, stickers>> BY <1>11 DEF CmdLookup, CmdCreateTp, CmdCreateJob
  <2> QED BY <2>1
<1>12. CASE ImpLoad \/ ImpFetch \/ (\E k \in Keys : ImpSticker(k)) \/ ImpReadStale \/
    ImpReadSubscribers \/ ImpAbort \/ ImpRollback \/ ImpPurge \/ ImpThrow \/ ImpCount
  <2>1. UNCHANGED <<rows, packs, stickers>> BY <1>12 DEF ImpLoad, ImpFetch, ImpSticker,
      ImpReadStale, ImpReadSubscribers, ImpAbort, ImpRollback, ImpPurge, ImpThrow, ImpCount
  <2> QED BY <2>1
<1>13. CASE SweepFails \/ OrphanList \/ OrphanRead \/ OrphanFiles \/ OrphanTp \/ StaleList \/
    StaleFile \/ StickersList \/ PacksList \/ PacksRead
  <2>1. UNCHANGED <<rows, packs, stickers>> BY <1>13 DEF SweepFails, OrphanList, OrphanRead,
      OrphanFiles, OrphanTp, StaleList, StaleFile, StickersList, PacksList, PacksRead, StartSweep
  <2> QED BY <2>1
<1> QED BY <1>1, <1>2, <1>3, <1>4, <1>5, <1>6, <1>7, <1>8, <1>9, <1>10, <1>11, <1>12, <1>13 DEF
    Next, Import, Sweep

(* No pack gets its first sticker while an import fans out. *)
LEMMA NoSubscriberMissedStep ==
  ASSUME TypeOK, TypeOK', NothingBeforeCreation, NoSubscriberMissed, Next
  PROVE  NoSubscriberMissed'
<1> USE DEF TypeOK, RowStatus, Existing, CmdStates, ImpStates, db, storage, processes,
    NothingBeforeCreation, NoSubscriberMissed, Live
<1>1. CASE RetentionPasses BY <1>1 DEF RetentionPasses
<1>2. ASSUME NEW p \in PackIds, DeletePack(p) PROVE NoSubscriberMissed' BY <1>2 DEF DeletePack
<1>3. CASE CmdCreatePack
  <2>1. UNCHANGED <<tps, rows, stickers, imp>> BY <1>3 DEF CmdCreatePack
  <2>2. CASE UNCHANGED packs BY <2>1, <2>2
  <2>3. ASSUME NEW p \in PackIds, packs[p].status = "unused",
               packs' = [packs EXCEPT ![p] = [status |-> "live", tp |-> cmd.tp, owner |-> cmd.user]]
        PROVE  NoSubscriberMissed'
    BY <2>1, <2>3
  <2> QED BY <1>3, <2>2, <2>3, CreatePackEffect
<1>4. CASE ImpLoad BY <1>4 DEF ImpLoad, ImpIdle
<1>5. CASE ImpFetch
  BY <1>5, FetchKeeps DEF ImpFetch
<1>6. ASSUME NEW k \in Keys, ImpSticker(k) PROVE NoSubscriberMissed'
  BY <1>6, StickerKeeps DEF ImpSticker, RowsOf
<1>7. CASE ImpReadStale BY <1>7 DEF ImpReadStale
<1>8. CASE ImpReadSubscribers BY <1>8 DEF ImpReadSubscribers, LivePacksOf
<1>9. CASE ImpCommit BY <1>9 DEF ImpCommit, ImpGoTo
<1>10. CASE ImpAbort BY <1>10 DEF ImpAbort, ImpGoTo
<1>11. CASE ImpRollback BY <1>11 DEF ImpRollback, ImpGoTo
<1>12. CASE ImpPurge \/ ImpThrow BY <1>12 DEF ImpPurge, ImpThrow, ImpIdle
<1>13. CASE ImpCount
  <2>1. CASE imp' = ImpIdle BY <1>13, <2>1 DEF ImpCount, ImpIdle
  <2>2. CASE imp' # ImpIdle BY <1>13, <2>2, CountKeeps DEF ImpCount
  <2> QED BY <2>1, <2>2
<1>14. CASE ImpCleanUp BY <1>14 DEF ImpCleanUp, ImpIdle
<1>15. CASE StickersDelete BY <1>15 DEF StickersDelete
<1>16. CASE PacksStickers BY <1>16 DEF PacksStickers
<1>17. CASE PacksDelete BY <1>17 DEF PacksDelete
<1>18. CASE (\E u \in Users : CmdLookup(u)) \/ CmdCreateTp \/ CmdCreateJob
  <2>1. UNCHANGED <<packs, stickers, imp>> BY <1>18 DEF CmdLookup, CmdCreateTp, CmdCreateJob
  <2> QED BY <2>1
<1>19. CASE SweepFails \/ OrphanList \/ OrphanRead \/ OrphanFiles \/ OrphanRows \/ OrphanTp \/
    StaleList \/ StaleFile \/ StaleRow \/ StickersList \/ PacksList \/ PacksRead
  <2>1. UNCHANGED <<packs, stickers, imp>> BY <1>19 DEF SweepFails, OrphanList, OrphanRead,
      OrphanFiles, OrphanRows, OrphanTp, StaleList, StaleFile, StaleRow, StickersList, PacksList,
      PacksRead, StartSweep
  <2> QED BY <2>1
<1> QED BY <1>1, <1>2, <1>3, <1>4, <1>5, <1>6, <1>7, <1>8, <1>9, <1>10, <1>11, <1>12, <1>13,
    <1>14, <1>15, <1>16, <1>17, <1>18, <1>19 DEF Next, Import, Sweep

(* An import changes a shared row and the stickers of all live subscribers in one step; a sweep only removes. *)
LEMMA MirrorStep ==
  ASSUME MirrorInv, TypeOK', Next
  PROVE  MirrorsSharedRows'
<1> USE DEF TypeOK, RowStatus, Existing, CmdStates, ImpStates, db, storage, processes, MirrorInv,
    MirrorsSharedRows, OwnRows, NewRowsUnused, OwnSubscribers, NothingBeforeCreation,
    NoSubscriberMissed, Live
<1>1. CASE RetentionPasses BY <1>1 DEF RetentionPasses
<1>2. ASSUME NEW p \in PackIds, DeletePack(p) PROVE MirrorsSharedRows' BY <1>2 DEF DeletePack
<1>3. CASE CmdCreatePack
  <2>1. UNCHANGED <<tps, rows, stickers, imp>> BY <1>3 DEF CmdCreatePack
  <2>2. CASE UNCHANGED packs BY <2>1, <2>2
  <2>3. ASSUME NEW p \in PackIds, packs[p].status = "unused",
               packs' = [packs EXCEPT ![p] = [status |-> "live", tp |-> cmd.tp, owner |-> cmd.user]]
        PROVE  MirrorsSharedRows'
    BY <2>1, <2>3
  <2> QED BY <1>3, <2>2, <2>3, CreatePackEffect
<1>4. CASE ImpCommit
  <2> SUFFICES ASSUME NEW p \in PackIds, NEW r \in RowIds,
                      Live(p, r)', packs'[p].status = "live"
               PROVE  /\ rows'[r].tp = packs'[p].tp
                      /\ rows'[r].status \in Existing => rows'[r].status = "live"
    OBVIOUS
  <2>1. /\ imp.pc = "fanOut"
        /\ rows' = RowsAfterImport /\ packs' = packs
        /\ StickersAfterImport[<<p, r>>] = "live"
    BY <1>4 DEF ImpCommit
  <2>2. CASE /\ p \in imp.subscribers
             /\ RowsAfterImport[r].status = "live" /\ RowsAfterImport[r].tp = imp.tp
    BY <2>1, <2>2
  <2>3. CASE p \notin imp.subscribers /\ Live(p, r)
    <3>1. rows[r].tp = packs[p].tp /\ packs[p].tp # imp.tp BY <2>1, <2>3
    <3>2. r \notin imp.stale /\ r \notin imp.restored BY <3>1
    <3>3. r \notin NewRows BY <2>1, <2>3
    <3> QED BY <2>1, <2>3, <3>1, <3>2, <3>3, RowAfterImport
  <2>4. CASE /\ p \in imp.subscribers /\ Live(p, r) /\ r \notin imp.stale
             /\ ~(RowsAfterImport[r].status = "live" /\ RowsAfterImport[r].tp = imp.tp)
    <3>1. rows[r].tp = imp.tp /\ packs[p].tp = imp.tp BY <2>1, <2>4
    <3> QED BY <2>1, <2>4, <3>1, RowAfterImport
  <2> QED BY <2>1, <2>2, <2>3, <2>4, StickerAfterImport
<1>5. CASE ImpCleanUp BY <1>5 DEF ImpCleanUp
<1>6. CASE OrphanRows BY <1>6 DEF OrphanRows
<1>7. CASE StaleRow BY <1>7 DEF StaleRow
<1>8. CASE StickersDelete BY <1>8 DEF StickersDelete
<1>9. CASE PacksStickers BY <1>9 DEF PacksStickers
<1>10. CASE PacksDelete BY <1>10 DEF PacksDelete
<1>11. CASE (\E u \in Users : CmdLookup(u)) \/ CmdCreateTp \/ CmdCreateJob
  <2>1. UNCHANGED <<rows, packs, stickers>> BY <1>11 DEF CmdLookup, CmdCreateTp, CmdCreateJob
  <2> QED BY <2>1
<1>12. CASE ImpLoad \/ ImpFetch \/ (\E k \in Keys : ImpSticker(k)) \/ ImpReadStale \/
    ImpReadSubscribers \/ ImpAbort \/ ImpRollback \/ ImpPurge \/ ImpThrow \/ ImpCount
  <2>1. UNCHANGED <<rows, packs, stickers>> BY <1>12 DEF ImpLoad, ImpFetch, ImpSticker,
      ImpReadStale, ImpReadSubscribers, ImpAbort, ImpRollback, ImpPurge, ImpThrow, ImpCount
  <2> QED BY <2>1
<1>13. CASE SweepFails \/ OrphanList \/ OrphanRead \/ OrphanFiles \/ OrphanTp \/ StaleList \/
    StaleFile \/ StickersList \/ PacksList \/ PacksRead
  <2>1. UNCHANGED <<rows, packs, stickers>> BY <1>13 DEF SweepFails, OrphanList, OrphanRead,
      OrphanFiles, OrphanTp, StaleList, StaleFile, StickersList, PacksList, PacksRead, StartSweep
  <2> QED BY <2>1
<1> QED BY <1>1, <1>2, <1>3, <1>4, <1>5, <1>6, <1>7, <1>8, <1>9, <1>10, <1>11, <1>12, <1>13 DEF
    Next, Import, Sweep

LEMMA MirrorInductive == MirrorInv /\ [Next]_vars => MirrorInv'
<1> SUFFICES ASSUME MirrorInv, [Next]_vars PROVE MirrorInv' OBVIOUS
<1>1. TypeOK' BY NextTypeOK DEF MirrorInv
<1>2. CASE Next
  BY <1>1, <1>2, OwnRowsStep, NewRowsUnusedStep, OwnSubscribersStep, NothingBeforeCreationStep,
     NoSubscriberMissedStep, MirrorStep DEF MirrorInv
<1>3. CASE UNCHANGED vars
  BY <1>1, <1>3 DEF MirrorInv, vars, MirrorsSharedRows, OwnRows, NewRowsUnused, NewRows, OwnSubscribers,
     NothingBeforeCreation, NoSubscriberMissed, Live
<1> QED BY <1>2, <1>3

LEMMA MirrorKept == Spec => []MirrorInv
<1>1. Init => MirrorInv
  <2> SUFFICES ASSUME Init PROVE MirrorInv OBVIOUS
  <2>1. TypeOK BY InitTypeOK
  <2>2. \A p \in PackIds, r \in RowIds : ~Live(p, r) BY DEF Init, Live
  <2>3. imp.pc # "fanOut" /\ imp.new = {} /\ imp.restored = {} /\ imp.stale = {}
        /\ imp.subscribers = {}
    BY DEF Init, ImpIdle
  <2> QED BY <2>1, <2>2, <2>3 DEF MirrorInv, MirrorsSharedRows, OwnRows, NewRowsUnused, NewRows, OwnSubscribers,
     NothingBeforeCreation, NoSubscriberMissed
<1> QED BY <1>1, MirrorInductive, PTL DEF Spec

(* Whichever sweeps run, and however they interleave with imports and
   deletions, a live sticker of a live pack follows its shared row. *)
THEOREM MirrorCorrect == Spec => []MirrorsSharedRows
<1>1. MirrorInv => MirrorsSharedRows BY DEF MirrorInv
<1> QED BY <1>1, MirrorKept, PTL

-----------------------------------------------------------------------------
(***************************************************************************)
(* Files. FilesAreOwned needs what the sweeps know of the rows they are    *)
(* about to delete: the file of each has been deleted and nothing stores   *)
(* it again, or it is a stray. The sweep of stale rows names its victims;  *)
(* the sweep of orphaned packs deletes the rows it finds, among them those *)
(* an import has added since.                                              *)
(***************************************************************************)

Used == {r \in RowIds : rows[r].status # "unused"}

StaleVictims ==
  /\ sweep["stale"].todo \subseteq Used
  /\ sweep["stale"].pc = "rows" =>
       sweep["stale"].item \in Used /\ (sweep["stale"].item \in files => sweep["stale"].item \in strays)

OrphanVictims ==
  \A r \in files : rows[r].status \in Existing /\ rows[r].tp = sweep["orphan"].item =>
    /\ sweep["orphan"].pc = "files" => r \in strays \union sweep["orphan"].read
    /\ sweep["orphan"].pc = "rows" => r \in strays

FilesInv == FilesAreOwned /\ StaleVictims /\ OrphanVictims

PendingPcs == {"phase1", "transaction", "fanOut", "rollback"}

(* What no step does to the rows but the sweeps of shared rows: a row that
   exists goes on existing, and its id is not unused again. *)
LEMMA RowsPersist ==
  ASSUME TypeOK, NewRowsUnused, Next, ~OrphanRows, ~StaleRow
  PROVE  /\ \A r \in RowIds : rows[r].status \in Existing => rows'[r].status \in Existing
         /\ Used \subseteq Used'
<1> USE DEF TypeOK, RowStatus, Existing, db, storage, processes, Used
<1>1. CASE RetentionPasses BY <1>1 DEF RetentionPasses
<1>2. CASE ImpCommit
  <2>1. rows' = RowsAfterImport /\ \A r \in imp.restored : rows[r].status \in Existing BY <1>2 DEF ImpCommit
  <2> QED BY <2>1, RowAfterImport
<1>3. CASE (\E p \in PackIds : DeletePack(p)) \/ (\E u \in Users : CmdLookup(u)) \/ CmdCreateTp
    \/ CmdCreatePack \/ CmdCreateJob
  BY <1>3 DEF DeletePack, CmdLookup, CmdCreateTp, CmdCreatePack, CmdCreateJob
<1>4. CASE ImpLoad \/ ImpFetch \/ (\E k \in Keys : ImpSticker(k)) \/ ImpReadStale \/
    ImpReadSubscribers \/ ImpAbort \/ ImpRollback \/ ImpPurge \/ ImpThrow \/ ImpCount \/ ImpCleanUp
  BY <1>4 DEF ImpLoad, ImpFetch, ImpSticker, ImpReadStale, ImpReadSubscribers, ImpAbort, ImpRollback,
     ImpPurge, ImpThrow, ImpCount, ImpCleanUp
<1>5. CASE SweepFails \/ OrphanList \/ OrphanRead \/ OrphanFiles \/ OrphanTp \/ StaleList \/
    StaleFile \/ StickersList \/ StickersDelete \/ PacksList \/ PacksRead \/ PacksStickers \/ PacksDelete
  BY <1>5 DEF SweepFails, OrphanList, OrphanRead, OrphanFiles, OrphanTp, StaleList, StaleFile, StickersList,
     StickersDelete, PacksList, PacksRead, PacksStickers, PacksDelete, StartSweep
<1> QED BY <1>1, <1>2, <1>3, <1>4, <1>5 DEF Next, Import, Sweep

(* Files are stored under unused ids only. *)
LEMMA FilesAdded ==
  ASSUME TypeOK, Next
  PROVE  \A r \in files' : r \in files \/ rows[r].status = "unused"
<1> USE DEF db, storage, processes
<1>1. ASSUME NEW k \in Keys, ImpSticker(k) PROVE \A r \in files' : r \in files \/ rows[r].status = "unused"
  <2>1. files' = files \/ \E r \in RowIds : rows[r].status = "unused" /\ files' = files \union {r}
    BY <1>1 DEF ImpSticker
  <2> QED BY <2>1
<1>2. CASE ImpRollback \/ ImpPurge \/ ImpThrow \/ OrphanFiles \/ StaleFile
  BY <1>2 DEF ImpRollback, ImpPurge, ImpThrow, OrphanFiles, StaleFile, Unlink
<1>3. CASE RetentionPasses \/ (\E p \in PackIds : DeletePack(p)) \/ (\E u \in Users : CmdLookup(u)) \/ CmdCreateTp
    \/ CmdCreatePack \/ CmdCreateJob
  BY <1>3 DEF RetentionPasses, DeletePack, CmdLookup, CmdCreateTp, CmdCreatePack, CmdCreateJob
<1>4. CASE ImpLoad \/ ImpFetch \/ ImpReadStale \/ ImpReadSubscribers \/ ImpCommit \/ ImpAbort \/ ImpCount \/ ImpCleanUp
  BY <1>4 DEF ImpLoad, ImpFetch, ImpReadStale, ImpReadSubscribers, ImpCommit, ImpAbort, ImpCount, ImpCleanUp
<1>5. CASE SweepFails \/ OrphanList \/ OrphanRead \/ OrphanRows \/ OrphanTp \/ StaleList \/ StaleRow \/
    StickersList \/ StickersDelete \/ PacksList \/ PacksRead \/ PacksStickers \/ PacksDelete
  BY <1>5 DEF SweepFails, OrphanList, OrphanRead, OrphanRows, OrphanTp, StaleList, StaleRow, StickersList,
     StickersDelete, PacksList, PacksRead, PacksStickers, PacksDelete, StartSweep
<1> QED BY <1>1, <1>2, <1>3, <1>4, <1>5 DEF Next, Import, Sweep

(* A stray stays one as long as its file does. *)
LEMMA StraysStay ==
  ASSUME TypeOK, Next, NEW r \in strays, r \in files'
  PROVE  r \in strays'
<1> USE DEF db, storage, processes
<1>1. ASSUME NEW k \in Keys, ImpSticker(k) PROVE r \in strays' BY <1>1 DEF ImpSticker
<1>2. CASE ImpRollback \/ ImpPurge \/ OrphanFiles \/ StaleFile
  <2>1. ASSUME NEW ids, Unlink(ids) PROVE r \in strays' BY <2>1, UnlinkEffect DEF TypeOK
  <2> QED BY <1>2, <2>1 DEF ImpRollback, ImpPurge, OrphanFiles, StaleFile
<1>3. CASE ImpCommit \/ ImpThrow BY <1>3 DEF ImpCommit, ImpThrow
<1>4. CASE RetentionPasses \/ (\E p \in PackIds : DeletePack(p)) \/ (\E u \in Users : CmdLookup(u)) \/ CmdCreateTp
    \/ CmdCreatePack \/ CmdCreateJob
  BY <1>4 DEF RetentionPasses, DeletePack, CmdLookup, CmdCreateTp, CmdCreatePack, CmdCreateJob
<1>5. CASE ImpLoad \/ ImpFetch \/ ImpReadStale \/ ImpReadSubscribers \/ ImpAbort \/ ImpCount \/ ImpCleanUp
  BY <1>5 DEF ImpLoad, ImpFetch, ImpReadStale, ImpReadSubscribers, ImpAbort, ImpCount, ImpCleanUp
<1>6. CASE SweepFails \/ OrphanList \/ OrphanRead \/ OrphanRows \/ OrphanTp \/ StaleList \/ StaleRow \/
    StickersList \/ StickersDelete \/ PacksList \/ PacksRead \/ PacksStickers \/ PacksDelete
  BY <1>6 DEF SweepFails, OrphanList, OrphanRead, OrphanRows, OrphanTp, StaleList, StaleRow, StickersList,
     StickersDelete, PacksList, PacksRead, PacksStickers, PacksDelete, StartSweep
<1> QED BY <1>1, <1>2, <1>3, <1>4, <1>5, <1>6 DEF Next, Import, Sweep

(* Only the transaction of an import adds rows; no row changes its Telegram pack. *)
LEMMA RowsAdded ==
  ASSUME TypeOK, Next, NEW r \in RowIds, rows'[r].status \in Existing
  PROVE  \/ rows[r].status \in Existing /\ rows'[r].tp = rows[r].tp
         \/ ImpCommit /\ r \in NewRows /\ rows'[r].tp = imp.tp
<1> USE DEF TypeOK, Existing, RowStatus, db, storage, processes
<1>1. CASE RetentionPasses BY <1>1 DEF RetentionPasses
<1>2. CASE ImpCommit
  <2>1. rows' = RowsAfterImport /\ \A q \in imp.restored : rows[q].status \in Existing BY <1>2 DEF ImpCommit
  <2> QED BY <1>2, <2>1, RowAfterImport
<1>3. CASE OrphanRows BY <1>3 DEF OrphanRows
<1>4. CASE StaleRow BY <1>4 DEF StaleRow
<1>5. CASE (\E p \in PackIds : DeletePack(p)) \/ (\E u \in Users : CmdLookup(u)) \/ CmdCreateTp
    \/ CmdCreatePack \/ CmdCreateJob
  BY <1>5 DEF DeletePack, CmdLookup, CmdCreateTp, CmdCreatePack, CmdCreateJob
<1>6. CASE ImpLoad \/ ImpFetch \/ (\E k \in Keys : ImpSticker(k)) \/ ImpReadStale \/
    ImpReadSubscribers \/ ImpAbort \/ ImpRollback \/ ImpPurge \/ ImpThrow \/ ImpCount \/ ImpCleanUp
  BY <1>6 DEF ImpLoad, ImpFetch, ImpSticker, ImpReadStale, ImpReadSubscribers, ImpAbort, ImpRollback,
     ImpPurge, ImpThrow, ImpCount, ImpCleanUp
<1>7. CASE SweepFails \/ OrphanList \/ OrphanRead \/ OrphanFiles \/ OrphanTp \/ StaleList \/
    StaleFile \/ StickersList \/ StickersDelete \/ PacksList \/ PacksRead \/ PacksStickers \/ PacksDelete
  BY <1>7 DEF SweepFails, OrphanList, OrphanRead, OrphanFiles, OrphanTp, StaleList, StaleFile, StickersList,
     StickersDelete, PacksList, PacksRead, PacksStickers, PacksDelete, StartSweep
<1> QED BY <1>1, <1>2, <1>3, <1>4, <1>5, <1>6, <1>7 DEF Next, Import, Sweep

(* The sweep of orphaned packs, and everything else that happens meanwhile. *)
LEMMA OrphanSweepStep ==
  ASSUME TypeOK, Next
  PROVE  \/ UNCHANGED <<sweep["orphan"].pc, sweep["orphan"].item, sweep["orphan"].read>>
         \/ sweep'["orphan"].pc \notin {"files", "rows"}
         \/ /\ sweep'["orphan"].pc = "files" /\ UNCHANGED <<rows, files, strays>>
            /\ sweep'["orphan"].read = RowsOf(sweep'["orphan"].item)
         \/ /\ sweep["orphan"].pc = "files" /\ sweep'["orphan"].pc = "rows" /\ UNCHANGED rows
            /\ sweep'["orphan"].item = sweep["orphan"].item
            /\ Unlink(sweep["orphan"].read)
<1> USE DEF TypeOK, AllSweeps, SweepIdle, SweepStates, db, storage, processes
<1>1. CASE OrphanList
  <2> DEFINE list == {t \in TpIds : tps[t] = "present" /\ LivePacksOf(t) = {}}
  <2>1. sweep' = [sweep EXCEPT !["orphan"] = [SweepIdle EXCEPT !.pc = "next", !.todo = list]]
    BY <1>1 DEF OrphanList, StartSweep
  <2> HIDE DEF list
  <2> QED BY <2>1
<1>2. CASE OrphanRead
  <2>1. PICK t \in sweep["orphan"].todo :
          sweep' = [sweep EXCEPT !["orphan"] =
                      [pc |-> "files", todo |-> sweep["orphan"].todo \ {t}, item |-> t, read |-> RowsOf(t)]]
    BY <1>2 DEF OrphanRead
  <2>2. sweep'["orphan"].pc = "files" /\ sweep'["orphan"].item = t /\ sweep'["orphan"].read = RowsOf(t)
    <3> HIDE DEF RowsOf
    <3> QED BY <2>1
  <2>3. UNCHANGED <<rows, files, strays>> BY <1>2 DEF OrphanRead
  <2> QED BY <2>2, <2>3
<1>3. CASE OrphanFiles
  <2>1. sweep["orphan"].pc = "files" /\ Unlink(sweep["orphan"].read) /\ UNCHANGED rows
        /\ sweep' = [sweep EXCEPT !["orphan"].pc = "rows"]
    BY <1>3 DEF OrphanFiles, SweepGoTo
  <2>2. sweep'["orphan"].pc = "rows" /\ sweep'["orphan"].item = sweep["orphan"].item BY <2>1
  <2> HIDE DEF TypeOK
  <2> QED BY <2>1, <2>2
<1>4. CASE OrphanRows BY <1>4 DEF OrphanRows, SweepGoTo
<1>5. CASE OrphanTp BY <1>5 DEF OrphanTp, ItemDone
<1>6. CASE StaleList \/ StickersList \/ PacksList BY <1>6 DEF StaleList, StickersList, PacksList, StartSweep
<1>7. CASE StaleFile \/ StaleRow BY <1>7 DEF StaleFile, StaleRow, ItemDone
<1>8. CASE PacksRead \/ PacksStickers \/ PacksDelete
  BY <1>8 DEF PacksRead, PacksStickers, PacksDelete, ItemDone, SweepGoTo
<1>9. CASE StickersDelete BY <1>9 DEF StickersDelete
<1>10. CASE SweepFails
  <2>1. PICK s \in AllSweeps : sweep' = [sweep EXCEPT ![s] = SweepIdle] BY <1>10, LibraryAssumption DEF SweepFails
  <2> QED BY <2>1
<1>11. CASE RetentionPasses \/ (\E p \in PackIds : DeletePack(p)) \/ (\E u \in Users : CmdLookup(u)) \/ CmdCreateTp
    \/ CmdCreatePack \/ CmdCreateJob
  BY <1>11 DEF RetentionPasses, DeletePack, CmdLookup, CmdCreateTp, CmdCreatePack, CmdCreateJob
<1>12. CASE Import
  BY <1>12 DEF Import, ImpLoad, ImpFetch, ImpSticker, ImpReadStale, ImpReadSubscribers, ImpCommit, ImpAbort,
     ImpRollback, ImpPurge, ImpThrow, ImpCount, ImpCleanUp
<1> QED BY <1>1, <1>2, <1>3, <1>4, <1>5, <1>6, <1>7, <1>8, <1>9, <1>10, <1>11, <1>12 DEF Next, Sweep

(* The sweep of stale rows, and everything else that happens meanwhile. *)
LEMMA StaleSweepStep ==
  ASSUME TypeOK, Next
  PROVE  \/ UNCHANGED <<sweep["stale"].todo, sweep["stale"].pc, sweep["stale"].item>>
         \/ sweep'["stale"].pc # "rows" /\ sweep'["stale"].todo \subseteq sweep["stale"].todo \union Used
         \/ /\ sweep'["stale"].pc = "rows" /\ StaleFile
            /\ sweep'["stale"].item \in sweep["stale"].todo /\ sweep'["stale"].todo \subseteq sweep["stale"].todo
            /\ Unlink({sweep'["stale"].item})
<1> USE DEF TypeOK, AllSweeps, SweepIdle, SweepStates, db, storage, processes
<1>1. CASE StaleList
  <2> DEFINE list == {r \in RowIds : rows[r].status = "expired" /\ \A p \in PackIds : stickers[<<p, r>>] # "live"}
  <2>1. sweep' = [sweep EXCEPT !["stale"] = [SweepIdle EXCEPT !.pc = "next", !.todo = list]]
    BY <1>1 DEF StaleList, StartSweep
  <2>2. list \subseteq Used BY DEF Used
  <2> HIDE DEF list
  <2> QED BY <2>1, <2>2
<1>2. CASE StaleFile
  <2>1. PICK r \in sweep["stale"].todo :
          /\ Unlink({r})
          /\ sweep' = [sweep EXCEPT !["stale"].pc = "rows", !["stale"].item = r, !["stale"].todo = @ \ {r}]
    BY <1>2 DEF StaleFile
  <2>2. sweep'["stale"].pc = "rows" /\ sweep'["stale"].item = r /\ sweep'["stale"].todo \subseteq sweep["stale"].todo
    BY <2>1
  <2> QED BY <1>2, <2>1, <2>2
<1>3. CASE StaleRow BY <1>3 DEF StaleRow, ItemDone
<1>4. CASE OrphanList \/ StickersList \/ PacksList BY <1>4 DEF OrphanList, StickersList, PacksList, StartSweep
<1>5. CASE OrphanRead \/ OrphanFiles \/ OrphanRows \/ OrphanTp
  BY <1>5 DEF OrphanRead, OrphanFiles, OrphanRows, OrphanTp, ItemDone, SweepGoTo
<1>6. CASE PacksRead \/ PacksStickers \/ PacksDelete
  BY <1>6 DEF PacksRead, PacksStickers, PacksDelete, ItemDone, SweepGoTo
<1>7. CASE StickersDelete BY <1>7 DEF StickersDelete
<1>8. CASE SweepFails
  <2>1. PICK s \in AllSweeps : sweep' = [sweep EXCEPT ![s] = SweepIdle] BY <1>8, LibraryAssumption DEF SweepFails
  <2> QED BY <2>1
<1>9. CASE RetentionPasses \/ (\E p \in PackIds : DeletePack(p)) \/ (\E u \in Users : CmdLookup(u)) \/ CmdCreateTp
    \/ CmdCreatePack \/ CmdCreateJob
  BY <1>9 DEF RetentionPasses, DeletePack, CmdLookup, CmdCreateTp, CmdCreatePack, CmdCreateJob
<1>10. CASE Import
  BY <1>10 DEF Import, ImpLoad, ImpFetch, ImpSticker, ImpReadStale, ImpReadSubscribers, ImpCommit, ImpAbort,
     ImpRollback, ImpPurge, ImpThrow, ImpCount, ImpCleanUp
<1> QED BY <1>1, <1>2, <1>3, <1>4, <1>5, <1>6, <1>7, <1>8, <1>9, <1>10 DEF Next, Sweep

(* What becomes of the rows the import is about to create. *)
LEMMA PendingStep ==
  ASSUME TypeOK, NewRowsUnused, Next, NEW r \in files, r \in files' \ strays', r \in NewRows, imp.pc \in PendingPcs
  PROVE  rows'[r].status \in Existing \/ (r \in NewRows' /\ imp'.pc \in PendingPcs)
<1> USE DEF TypeOK, ImpStates, NewRows, PendingPcs, db, storage, processes, ImpGoTo
<1>1. CASE RetentionPasses BY <1>1 DEF RetentionPasses, Nothing
<1>2. ASSUME NEW k \in Keys, ImpSticker(k) PROVE r \in NewRows' /\ imp'.pc \in PendingPcs
  <2>1. imp'.pc = imp.pc BY <1>2 DEF ImpSticker
  <2>2. imp.new \subseteq imp'.new BY <1>2, StickerNews
  <2> QED BY <2>1, <2>2
<1>3. CASE ImpReadStale BY <1>3 DEF ImpReadStale
<1>4. CASE ImpReadSubscribers BY <1>4 DEF ImpReadSubscribers
<1>5. CASE ImpCommit BY <1>5 DEF ImpCommit, RowsAfterImport, Existing
<1>6. CASE ImpAbort BY <1>6 DEF ImpAbort
<1>7. CASE ImpRollback
  <2>1. Unlink(NewRows) BY <1>7 DEF ImpRollback
  <2>2. r \in strays'
    <3> HIDE DEF NewRows
    <3> QED BY <2>1, UnlinkEffect
  <2> QED BY <2>2
<1>8. CASE ImpThrow BY <1>8 DEF ImpThrow
<1>9. CASE ImpLoad \/ ImpFetch \/ ImpPurge \/ ImpCount \/ ImpCleanUp
  BY <1>9 DEF ImpLoad, ImpFetch, ImpPurge, ImpCount, ImpCleanUp
<1>10. CASE (\E p \in PackIds : DeletePack(p)) \/ (\E u \in Users : CmdLookup(u)) \/ CmdCreateTp
    \/ CmdCreatePack \/ CmdCreateJob
  BY <1>10 DEF DeletePack, CmdLookup, CmdCreateTp, CmdCreatePack, CmdCreateJob
<1>11. CASE Sweep
  BY <1>11 DEF Sweep, SweepFails, OrphanList, OrphanRead, OrphanFiles, OrphanRows, OrphanTp, StaleList, StaleFile,
     StaleRow, StickersList, StickersDelete, PacksList, PacksRead, PacksStickers, PacksDelete, StartSweep
<1> QED BY <1>1, <1>2, <1>3, <1>4, <1>5, <1>6, <1>7, <1>8, <1>9, <1>10, <1>11 DEF Next, Import

(* A file that is new is that of a row the import is about to create. *)
LEMMA NewFilePending ==
  ASSUME TypeOK, Next, NEW r \in files', r \notin files
  PROVE  r \in NewRows' /\ imp'.pc \in PendingPcs
<1> USE DEF db, storage, processes
<1>1. ASSUME NEW k \in Keys, ImpSticker(k) PROVE r \in NewRows' /\ imp'.pc \in PendingPcs
  <2>1. files' = files \union {r} /\ imp' = [imp EXCEPT !.todo = @ \ {k}, !.new = @ \union {<<k, r>>}] /\ imp.pc = "phase1"
    BY <1>1 DEF ImpSticker
  <2>2. <<k, r>> \in imp'.new /\ imp'.pc = "phase1" BY <2>1 DEF TypeOK, ImpStates
  <2> QED BY <2>2 DEF NewRows, PendingPcs
<1>2. CASE ImpRollback \/ ImpPurge \/ ImpThrow \/ OrphanFiles \/ StaleFile
  BY <1>2 DEF ImpRollback, ImpPurge, ImpThrow, OrphanFiles, StaleFile, Unlink
<1>3. CASE RetentionPasses \/ (\E p \in PackIds : DeletePack(p)) \/ (\E u \in Users : CmdLookup(u)) \/ CmdCreateTp
    \/ CmdCreatePack \/ CmdCreateJob
  BY <1>3 DEF RetentionPasses, DeletePack, CmdLookup, CmdCreateTp, CmdCreatePack, CmdCreateJob
<1>4. CASE ImpLoad \/ ImpFetch \/ ImpReadStale \/ ImpReadSubscribers \/ ImpCommit \/ ImpAbort \/ ImpCount \/ ImpCleanUp
  BY <1>4 DEF ImpLoad, ImpFetch, ImpReadStale, ImpReadSubscribers, ImpCommit, ImpAbort, ImpCount, ImpCleanUp
<1>5. CASE SweepFails \/ OrphanList \/ OrphanRead \/ OrphanRows \/ OrphanTp \/ StaleList \/ StaleRow \/
    StickersList \/ StickersDelete \/ PacksList \/ PacksRead \/ PacksStickers \/ PacksDelete
  BY <1>5 DEF SweepFails, OrphanList, OrphanRead, OrphanRows, OrphanTp, StaleList, StaleRow, StickersList,
     StickersDelete, PacksList, PacksRead, PacksStickers, PacksDelete, StartSweep
<1> QED BY <1>1, <1>2, <1>3, <1>4, <1>5 DEF Next, Import, Sweep

LEMMA FilesStep == MirrorInv /\ FilesInv /\ [Next]_vars => FilesInv'
<1> SUFFICES ASSUME MirrorInv, FilesInv, [Next]_vars PROVE FilesInv' OBVIOUS
<1>1. TypeOK /\ NewRowsUnused /\ FilesAreOwned /\ StaleVictims /\ OrphanVictims BY DEF MirrorInv, FilesInv
<1>2. CASE UNCHANGED vars
  BY <1>2 DEF vars, FilesInv, FilesAreOwned, StaleVictims, OrphanVictims, Used, NewRows
<1>3. ASSUME Next PROVE FilesInv'
  <2>1. \A r \in strays : r \in files' => r \in strays' BY <1>1, <1>3, StraysStay
  <2>2. \A r \in files' : r \in files \/ rows[r].status = "unused" BY <1>1, <1>3, FilesAdded
  <2>3. \A r \in files' : r \in RowIds BY <1>1, <1>3, FilesType
  <2>4. ASSUME NEW r \in RowIds, rows[r].status \in Existing, r \in files' \ strays'
        PROVE  rows'[r].status \in Existing
    <3>1. r \in files \ strays BY <2>1, <2>2, <2>4 DEF Existing
    <3>2. CASE StaleRow BY <1>1, <2>4, <3>1, <3>2 DEF StaleRow, TypeOK, StaleVictims
    <3>3. CASE OrphanRows BY <1>1, <2>4, <3>1, <3>3 DEF OrphanRows, TypeOK, OrphanVictims, RowsOf
    <3>4. CASE ~StaleRow /\ ~OrphanRows BY <1>1, <1>3, <2>4, <3>4, RowsPersist
    <3> QED BY <3>2, <3>3, <3>4
  <2>5. Used \subseteq Used'
    <3>1. CASE StaleRow BY <1>1, <3>1 DEF StaleRow, TypeOK, Used
    <3>2. CASE OrphanRows BY <1>1, <3>2 DEF OrphanRows, TypeOK, Used
    <3>3. CASE ~StaleRow /\ ~OrphanRows BY <1>1, <1>3, <3>3, RowsPersist
    <3> QED BY <3>1, <3>2, <3>3
  <2>6. FilesAreOwned'
    <3> SUFFICES ASSUME NEW r \in files', r \notin strays'
                 PROVE  rows'[r].status \in Existing \/ (r \in NewRows' /\ imp'.pc \in PendingPcs)
      BY DEF FilesAreOwned, PendingPcs
    <3>1. r \in RowIds /\ r \notin strays BY <2>1, <2>3
    <3>2. CASE r \notin files BY <1>1, <1>3, <3>2, NewFilePending
    <3>3. CASE rows[r].status \in Existing BY <2>4, <3>1, <3>3
    <3>4. CASE r \in files /\ r \in NewRows /\ imp.pc \in PendingPcs BY <1>1, <1>3, <3>4, PendingStep
    <3> QED BY <1>1, <3>1, <3>2, <3>3, <3>4 DEF FilesAreOwned, PendingPcs
  <2>7. StaleVictims'
    <3>1. CASE UNCHANGED <<sweep["stale"].todo, sweep["stale"].pc, sweep["stale"].item>>
      BY <1>1, <2>1, <2>2, <2>5, <3>1 DEF StaleVictims, Used
    <3>2. CASE sweep'["stale"].pc # "rows" /\ sweep'["stale"].todo \subseteq sweep["stale"].todo \union Used
      BY <1>1, <2>5, <3>2 DEF StaleVictims
    <3>3. CASE /\ sweep'["stale"].pc = "rows" /\ StaleFile
               /\ sweep'["stale"].item \in sweep["stale"].todo /\ sweep'["stale"].todo \subseteq sweep["stale"].todo
               /\ Unlink({sweep'["stale"].item})
      <4>1. sweep'["stale"].item \in files' => sweep'["stale"].item \in strays'
        BY <1>1, <3>3, UnlinkEffect DEF TypeOK
      <4> QED BY <1>1, <2>5, <3>3, <4>1 DEF StaleVictims
    <3> QED BY <1>1, <1>3, <3>1, <3>2, <3>3, StaleSweepStep
  <2>8. OrphanVictims'
    <3> SUFFICES ASSUME NEW r \in files', rows'[r].status \in Existing, rows'[r].tp = sweep'["orphan"].item
                 PROVE  /\ sweep'["orphan"].pc = "files" => r \in strays' \union sweep'["orphan"].read
                        /\ sweep'["orphan"].pc = "rows" => r \in strays'
      BY DEF OrphanVictims
    <3>1. r \in RowIds BY <2>3
    <3>2. CASE UNCHANGED <<sweep["orphan"].pc, sweep["orphan"].item, sweep["orphan"].read>>
      <4>1. CASE rows[r].status \in Existing /\ rows'[r].tp = rows[r].tp
        <5>1. r \in files BY <2>2, <4>1 DEF Existing
        <5> QED BY <1>1, <2>1, <3>2, <4>1, <5>1 DEF OrphanVictims
      <4>2. CASE ImpCommit /\ r \in NewRows /\ rows'[r].tp = imp.tp
        <5>1. files' = files /\ strays' = strays \union IF OrphanSweepsAt(imp.tp) THEN NewRows \intersect files ELSE {}
          BY <4>2 DEF ImpCommit
        <5> QED BY <3>2, <4>2, <5>1 DEF OrphanSweepsAt
      <4> QED BY <1>1, <1>3, <3>1, <4>1, <4>2, RowsAdded
    <3>3. CASE /\ sweep'["orphan"].pc = "files" /\ UNCHANGED <<rows, files, strays>>
               /\ sweep'["orphan"].read = RowsOf(sweep'["orphan"].item)
      BY <3>1, <3>3 DEF RowsOf
    <3>4. CASE /\ sweep["orphan"].pc = "files" /\ sweep'["orphan"].pc = "rows" /\ UNCHANGED rows
               /\ sweep'["orphan"].item = sweep["orphan"].item
               /\ Unlink(sweep["orphan"].read)
      <4>1. r \in files BY <2>2, <3>4 DEF Existing
      <4>2. r \in strays \union sweep["orphan"].read BY <1>1, <3>4, <4>1 DEF OrphanVictims
      <4> QED BY <1>1, <3>4, <4>2, UnlinkEffect DEF TypeOK
    <3> QED BY <1>1, <1>3, <3>2, <3>3, <3>4, OrphanSweepStep
  <2> QED BY <2>6, <2>7, <2>8 DEF FilesInv
<1> QED BY <1>2, <1>3

(* Whichever sweeps run and whatever fails: a file on storage that belongs
   neither to a shared row nor to the import in progress has been left there by a
   deletion that failed, by an import that threw, or by a sweep of orphaned packs
   that an import overtook. *)
THEOREM NoFileLeftBehind == Spec => []FilesAreOwned
<1>1. Init => FilesInv
  BY DEF Init, FilesInv, FilesAreOwned, StaleVictims, OrphanVictims, SweepIdle, AllSweeps
<1>2. MirrorInv /\ FilesInv /\ [Next]_vars => FilesInv' BY FilesStep
<1>3. FilesInv => FilesAreOwned BY DEF FilesInv
<1> QED BY <1>1, <1>2, <1>3, MirrorKept, PTL DEF Spec

-----------------------------------------------------------------------------
(***************************************************************************)
(* Subscribers. At most one TelegramPack row of the set is present, and it *)
(* is the one every existing shared row belongs to: so the rows an import  *)
(* commits are all there is to show. An import under way has been told     *)
(* which TelegramPack it is for.                                           *)
(***************************************************************************)

OnePresent ==
  /\ \A t, u \in Present : t = u
  /\ cmd.pc = "createTp" => Present = {}
  /\ \A r \in RowIds : rows[r].status \in Existing => rows[r].tp \in Present
  /\ imp.pc # "idle" => imp.tp \in TpIds

(* An import keeps its Telegram pack to its end. *)
LEMMA ImpTpStep ==
  ASSUME TypeOK, Import, imp.pc # "idle" => imp.tp \in TpIds
  PROVE  imp'.pc # "idle" => imp'.tp \in TpIds
<1> USE DEF TypeOK, ImpStates
<1>1. CASE ImpLoad
  <2>1. CASE imp' = ImpIdle BY <2>1 DEF ImpIdle
  <2>2. CASE PackLinked(job) /\ imp' = [ImpIdle EXCEPT !.pc = "fetch", !.pack = job, !.tp = packs[job].tp]
    <3>1. imp'.tp = packs[job].tp BY <2>2 DEF ImpIdle
    <3>2. job \in PackIds BY <1>1 DEF ImpLoad
    <3> QED BY <2>2, <3>1, <3>2 DEF PackLinked
  <2> QED BY <1>1, <2>1, <2>2 DEF ImpLoad
<1>2. CASE ImpFetch BY <1>2, FetchKeeps DEF ImpFetch
<1>3. ASSUME NEW k \in Keys, ImpSticker(k) PROVE imp'.tp \in TpIds BY <1>3, StickerKeeps DEF ImpSticker
<1>4. CASE ImpReadStale BY <1>4 DEF ImpReadStale
<1>5. CASE ImpReadSubscribers BY <1>5 DEF ImpReadSubscribers
<1>6. CASE ImpCommit BY <1>6 DEF ImpCommit, ImpGoTo
<1>7. CASE ImpAbort BY <1>7 DEF ImpAbort, ImpGoTo
<1>8. CASE ImpRollback BY <1>8 DEF ImpRollback, ImpGoTo
<1>9. CASE ImpPurge \/ ImpThrow \/ ImpCleanUp BY <1>9 DEF ImpPurge, ImpThrow, ImpCleanUp, ImpIdle
<1>10. CASE ImpCount
  <2>1. CASE imp' = ImpIdle BY <2>1 DEF ImpIdle
  <2>2. CASE imp' # ImpIdle BY <1>10, <2>2, CountKeeps DEF ImpCount
  <2> QED BY <2>1, <2>2
<1> QED BY <1>1, <1>2, <1>3, <1>4, <1>5, <1>6, <1>7, <1>8, <1>9, <1>10 DEF Import

LEMMA OnePresentStep ==
  ASSUME TypeOK, OnePresent, [Next]_vars
  PROVE  OnePresent'
<1> USE DEF TypeOK, CmdStates, OnePresent, Present, db, storage, processes
<1>1. CASE CmdCreateTp
  <2>1. PICK t \in TpIds :
          tps[t] = "unused" /\ tps' = [tps EXCEPT ![t] = "present"] /\ cmd' = [cmd EXCEPT !.pc = "createPack", !.tp = t]
    BY <1>1 DEF CmdCreateTp
  <2>2. Present = {} /\ UNCHANGED <<rows, imp>> BY <1>1 DEF CmdCreateTp
  <2>3. cmd'.pc = "createPack" BY <2>1
  <2>4. Present' = {t} BY <2>1, <2>2
  <2> QED BY <2>2, <2>3, <2>4
<1>2. ASSUME NEW u \in Users, CmdLookup(u) PROVE OnePresent'
  <2>1. cmd'.pc = "createTp" => Present = {} BY <1>2 DEF CmdLookup
  <2> QED BY <1>2, <2>1 DEF CmdLookup
<1>3. CASE CmdCreatePack \/ CmdCreateJob
  <2>1. UNCHANGED <<tps, rows, imp>> BY <1>3 DEF CmdCreatePack, CmdCreateJob
  <2>2. CASE cmd' = CmdIdle BY <2>1, <2>2 DEF CmdIdle
  <2>3. CASE \E p \in PackIds : cmd' = [cmd EXCEPT !.pc = "createJob", !.pack = p] BY <2>1, <2>3
  <2> QED BY <1>3, <2>2, <2>3 DEF CmdCreatePack, CmdCreateJob
<1>4. CASE ImpCommit
  <2>1. /\ UNCHANGED <<tps, cmd>> /\ rows' = RowsAfterImport /\ tps[imp.tp] = "present"
        /\ \A r \in imp.restored : rows[r].status \in Existing
    BY <1>4 DEF ImpCommit
  <2>2. imp.tp \in Present BY <1>4, <2>1 DEF ImpCommit
  <2>3. ASSUME NEW r \in RowIds, rows'[r].status \in Existing PROVE rows'[r].tp \in Present
    BY <2>1, <2>2, <2>3, RowAfterImport DEF Existing, RowStatus
  <2>4. imp'.pc # "idle" => imp'.tp \in TpIds BY <1>4, ImpTpStep DEF Import
  <2> QED BY <2>1, <2>3, <2>4
<1>5. CASE OrphanTp
  <2>1. UNCHANGED <<rows, cmd, imp>> BY <1>5 DEF OrphanTp
  <2>2. CASE tps' = tps BY <2>1, <2>2
  <2>3. CASE RowsOf(sweep["orphan"].item) = {} /\ tps' = [tps EXCEPT ![sweep["orphan"].item] = "gone"]
    BY <2>1, <2>3 DEF RowsOf
  <2> QED BY <1>5, <2>2, <2>3 DEF OrphanTp
<1>6. CASE RetentionPasses BY <1>6, ZenonT(60) DEF RetentionPasses, Existing, RowStatus
<1>7. CASE OrphanRows BY <1>7 DEF OrphanRows, Existing
<1>8. CASE StaleRow BY <1>8 DEF StaleRow, Existing
<1>9. CASE (\E p \in PackIds : DeletePack(p)) \/ UNCHANGED vars BY <1>9 DEF DeletePack, vars
<1>10. CASE ImpLoad \/ ImpFetch \/ (\E k \in Keys : ImpSticker(k)) \/ ImpReadStale \/ ImpReadSubscribers \/ ImpAbort
    \/ ImpRollback \/ ImpPurge \/ ImpThrow \/ ImpCount \/ ImpCleanUp
  <2>1. UNCHANGED <<tps, rows, cmd>> /\ (imp'.pc # "idle" => imp'.tp \in TpIds)
    BY <1>10, ImpTpStep DEF Import, ImpLoad, ImpFetch, ImpSticker, ImpReadStale, ImpReadSubscribers, ImpAbort, ImpRollback, ImpPurge, ImpThrow,
       ImpCount, ImpCleanUp
  <2> QED BY <2>1
<1>11. CASE SweepFails \/ OrphanList \/ OrphanRead \/ OrphanFiles \/ StaleList \/ StaleFile \/
    StickersList \/ StickersDelete \/ PacksList \/ PacksRead \/ PacksStickers \/ PacksDelete
  <2>1. UNCHANGED <<tps, rows, cmd, imp>>
    BY <1>11 DEF SweepFails, OrphanList, OrphanRead, OrphanFiles, StaleList, StaleFile, StickersList,
       StickersDelete, PacksList, PacksRead, PacksStickers, PacksDelete, StartSweep
  <2> QED BY <2>1
<1> QED BY <1>1, <1>2, <1>3, <1>4, <1>5, <1>6, <1>7, <1>8, <1>9, <1>10, <1>11 DEF Next, Import, Sweep

(* Whenever an import commits, every live pack that shows anything of the set
   shows all of it. *)
THEOREM NoSubscriberLeftOut == Spec => SubscribersAgree
<1>1. Init => OnePresent BY DEF Init, OnePresent, Present, CmdIdle, ImpIdle, Existing
<1>2. ASSUME MirrorInv, OnePresent, Next, ImportCommits, NEW p \in PackIds, NEW r \in RowIds, NEW q \in RowIds,
             Live(p, r)', packs'[p].status = "live", rows'[q].status = "live", rows'[q].tp = packs'[p].tp
      PROVE  Live(p, q)'
  <2>1. ImpCommit
    <3> USE <1>2 DEF ImportCommits, db, storage, processes, MirrorInv
    <3>1. ~RetentionPasses /\ ~ImpLoad /\ ~ImpFetch /\ ~ImpReadStale /\ ~ImpReadSubscribers /\ ~ImpRollback /\ ~ImpPurge
          /\ ~ImpThrow /\ ~ImpCount /\ ~ImpCleanUp /\ (\A k \in Keys : ~ImpSticker(k))
      BY DEF RetentionPasses, Nothing, ImpLoad, ImpFetch, ImpReadStale, ImpReadSubscribers, ImpRollback, ImpPurge, ImpThrow,
         ImpCount, ImpCleanUp, ImpSticker, ImpIdle
    <3>2. ~ImpAbort BY DEF ImpAbort, ImpGoTo, TypeOK, ImpStates
    <3>3. CASE (\E d \in PackIds : DeletePack(d)) \/ (\E u \in Users : CmdLookup(u)) \/ CmdCreateTp
              \/ CmdCreatePack \/ CmdCreateJob
      BY <3>3 DEF DeletePack, CmdLookup, CmdCreateTp, CmdCreatePack, CmdCreateJob
    <3>4. CASE Sweep
      BY <3>4 DEF Sweep, SweepFails, OrphanList, OrphanRead, OrphanFiles, OrphanRows, OrphanTp, StaleList, StaleFile,
         StaleRow, StickersList, StickersDelete, PacksList, PacksRead, PacksStickers, PacksDelete, StartSweep
    <3> QED BY <3>1, <3>2, <3>3, <3>4 DEF Next, Import
  <2>2. /\ UNCHANGED <<tps, packs>> /\ rows' = RowsAfterImport /\ stickers' = StickersAfterImport
        /\ tps[imp.tp] = "present" /\ imp.pc = "fanOut"
    BY <2>1 DEF ImpCommit
  <2>3. OnePresent' BY <1>2, OnePresentStep DEF MirrorInv
  <2>4. rows'[q].tp \in Present' BY <1>2, <2>3 DEF OnePresent, Existing
  <2>5. packs[p].tp \in TpIds /\ tps[packs[p].tp] = "present" BY <1>2, <2>2, <2>4 DEF Present
  <2>6. packs[p].tp = imp.tp BY <1>2, <2>2, <2>5 DEF OnePresent, Present
  <2>7. CASE p \in imp.subscribers
    <3>1. packs[p].tp = imp.tp BY <1>2, <2>7 DEF MirrorInv, OwnSubscribers
    <3>2. stickers'[<<p, q>>] = "live" BY <1>2, <2>2, <2>7, <3>1 DEF StickersAfterImport
    <3> QED BY <3>2 DEF Live
  <2>8. CASE p \notin imp.subscribers
    <3>1. stickers'[<<p, r>>] = stickers[<<p, r>>] BY <2>2, <2>8 DEF StickersAfterImport
    <3>2. Live(p, r) BY <1>2, <3>1 DEF Live
    <3> QED BY <1>2, <2>2, <2>6, <2>8, <3>2 DEF MirrorInv, NoSubscriberMissed
  <2> QED BY <2>7, <2>8
<1>3. MirrorInv /\ OnePresent /\ [Next]_vars =>
        [ImportCommits =>
           \A p \in PackIds, r, q \in RowIds :
             Live(p, r)' /\ packs'[p].status = "live" /\ rows'[q].status = "live" /\ rows'[q].tp = packs'[p].tp
               => Live(p, q)']_vars
  BY <1>2
<1>4. MirrorInv /\ OnePresent /\ [Next]_vars => OnePresent' BY OnePresentStep DEF MirrorInv
<1> QED BY <1>1, <1>3, <1>4, MirrorKept, PTL DEF Spec, SubscribersAgree

-----------------------------------------------------------------------------
(***************************************************************************)
(* What may disappear from a live pack. What an import retires is not in   *)
(* the set it fetched, and what the sweep of expired packs empties never   *)
(* comes to life again.                                                    *)
(***************************************************************************)

StaleUnserved ==
  imp.pc \in {"transaction", "fanOut"} => \A r \in imp.stale : rows[r].key \notin imp.fetched

Buried == {p \in PackIds : packs[p].status \notin {"unused", "live"}}

PackVictims ==
  /\ sweep["packs"].todo \subseteq Buried
  /\ sweep["packs"].pc \in {"rows", "pack"} => sweep["packs"].item \in Buried

LEMMA StaleUnservedStep ==
  ASSUME TypeOK, StaleUnserved, [Next]_vars
  PROVE  StaleUnserved'
<1> USE DEF TypeOK, ImpStates, StaleUnserved, db, storage, processes
<1>1. CASE RetentionPasses BY <1>1 DEF RetentionPasses, Nothing
<1>2. CASE ImpReadStale BY <1>2 DEF ImpReadStale, RowsOf
<1>3. CASE ImpReadSubscribers BY <1>3 DEF ImpReadSubscribers
<1>4. CASE OrphanRows BY <1>4 DEF OrphanRows
<1>5. CASE StaleRow BY <1>5 DEF StaleRow
<1>6. CASE ImpLoad \/ ImpFetch \/ (\E k \in Keys : ImpSticker(k)) \/ ImpCommit \/ ImpAbort \/ ImpRollback \/ ImpPurge
    \/ ImpThrow \/ ImpCount \/ ImpCleanUp
  <2>1. imp'.pc \notin {"transaction", "fanOut"}
    <3>1. CASE ImpLoad BY <3>1 DEF ImpLoad, ImpIdle
    <3>2. CASE ImpFetch BY <3>2 DEF ImpFetch, ImpGoTo
    <3>3. CASE \E k \in Keys : ImpSticker(k) BY <3>3 DEF ImpSticker
    <3>4. CASE ImpCommit BY <3>4 DEF ImpCommit, ImpGoTo
    <3>5. CASE ImpAbort
      <4>1. imp'.pc = IF NewRows = {} THEN "count" ELSE "rollback"
        <5> HIDE DEF NewRows
        <5> QED BY <3>5 DEF ImpAbort, ImpGoTo
      <4> QED BY <4>1
    <3>6. CASE ImpRollback BY <3>6 DEF ImpRollback, ImpGoTo
    <3>7. CASE ImpPurge \/ ImpThrow BY <3>7 DEF ImpPurge, ImpThrow, ImpIdle
    <3>8. CASE ImpCount
      <4>1. imp' = ImpIdle \/ ImpGoTo("cleanup") BY <3>8 DEF ImpCount
      <4> QED BY <4>1 DEF ImpGoTo, ImpIdle
    <3>9. CASE ImpCleanUp BY <3>9 DEF ImpCleanUp, ImpIdle
    <3> QED BY <1>6, <3>1, <3>2, <3>3, <3>4, <3>5, <3>6, <3>7, <3>8, <3>9
  <2> QED BY <2>1
<1>7. CASE (\E p \in PackIds : DeletePack(p)) \/ (\E u \in Users : CmdLookup(u)) \/ CmdCreateTp
    \/ CmdCreatePack \/ CmdCreateJob \/ UNCHANGED vars
  <2>1. UNCHANGED <<rows, imp>>
    BY <1>7 DEF DeletePack, CmdLookup, CmdCreateTp, CmdCreatePack, CmdCreateJob, vars
  <2> QED BY <2>1
<1>8. CASE SweepFails \/ OrphanList \/ OrphanRead \/ OrphanFiles \/ OrphanTp \/ StaleList \/ StaleFile \/
    StickersList \/ StickersDelete \/ PacksList \/ PacksRead \/ PacksStickers \/ PacksDelete
  <2>1. UNCHANGED <<rows, imp>>
    BY <1>8 DEF SweepFails, OrphanList, OrphanRead, OrphanFiles, OrphanTp, StaleList, StaleFile, StickersList,
       StickersDelete, PacksList, PacksRead, PacksStickers, PacksDelete, StartSweep
  <2> QED BY <2>1
<1> QED BY <1>1, <1>2, <1>3, <1>4, <1>5, <1>6, <1>7, <1>8 DEF Next, Import, Sweep

(* Packs are not brought back. *)
LEMMA BuriedStay == ASSUME TypeOK, [Next]_vars PROVE Buried \subseteq Buried'
<1> USE DEF TypeOK, RowStatus, Existing, Buried, db, storage, processes
<1>1. CASE RetentionPasses BY <1>1 DEF RetentionPasses
<1>2. ASSUME NEW p \in PackIds, DeletePack(p) PROVE Buried \subseteq Buried' BY <1>2 DEF DeletePack
<1>3. CASE CmdCreatePack BY <1>3, CreatePackEffect
<1>4. CASE ImpCleanUp BY <1>4 DEF ImpCleanUp
<1>5. CASE PacksDelete BY <1>5 DEF PacksDelete
<1>6. CASE (\E u \in Users : CmdLookup(u)) \/ CmdCreateTp \/ CmdCreateJob \/ UNCHANGED vars
  BY <1>6 DEF CmdLookup, CmdCreateTp, CmdCreateJob, vars
<1>7. CASE ImpLoad \/ ImpFetch \/ (\E k \in Keys : ImpSticker(k)) \/ ImpReadStale \/ ImpReadSubscribers \/ ImpCommit
    \/ ImpAbort \/ ImpRollback \/ ImpPurge \/ ImpThrow \/ ImpCount
  BY <1>7 DEF ImpLoad, ImpFetch, ImpSticker, ImpReadStale, ImpReadSubscribers, ImpCommit, ImpAbort, ImpRollback,
     ImpPurge, ImpThrow, ImpCount
<1>8. CASE SweepFails \/ OrphanList \/ OrphanRead \/ OrphanFiles \/ OrphanRows \/ OrphanTp \/ StaleList \/ StaleFile
    \/ StaleRow \/ StickersList \/ StickersDelete \/ PacksList \/ PacksRead \/ PacksStickers
  BY <1>8 DEF SweepFails, OrphanList, OrphanRead, OrphanFiles, OrphanRows, OrphanTp, StaleList, StaleFile, StaleRow,
     StickersList, StickersDelete, PacksList, PacksRead, PacksStickers, StartSweep
<1> QED BY <1>1, <1>2, <1>3, <1>4, <1>5, <1>6, <1>7, <1>8 DEF Next, Import, Sweep

LEMMA PackVictimsStep ==
  ASSUME TypeOK, PackVictims, [Next]_vars
  PROVE  PackVictims'
<1> USE DEF TypeOK, AllSweeps, SweepIdle, SweepStates, PackVictims, db, storage, processes
<1>1. Buried \subseteq Buried' BY BuriedStay
<1>2. CASE PacksList
  <2> DEFINE list == {p \in PackIds : packs[p].status = "expired"}
  <2>1. sweep' = [sweep EXCEPT !["packs"] = [SweepIdle EXCEPT !.pc = "next", !.todo = list]]
    BY <1>2 DEF PacksList, StartSweep
  <2>2. list \subseteq Buried BY DEF Buried
  <2> HIDE DEF list
  <2> QED BY <1>1, <2>1, <2>2
<1>3. CASE PacksRead BY <1>1, <1>3 DEF PacksRead
<1>4. CASE PacksStickers BY <1>1, <1>4 DEF PacksStickers, SweepGoTo
<1>5. CASE PacksDelete BY <1>1, <1>5 DEF PacksDelete, ItemDone
<1>6. CASE OrphanList \/ StaleList \/ StickersList
  BY <1>1, <1>6 DEF OrphanList, StaleList, StickersList, StartSweep
<1>7. CASE OrphanRead \/ OrphanFiles \/ OrphanRows \/ OrphanTp
  BY <1>1, <1>7 DEF OrphanRead, OrphanFiles, OrphanRows, OrphanTp, ItemDone, SweepGoTo
<1>8. CASE StaleFile \/ StaleRow BY <1>1, <1>8 DEF StaleFile, StaleRow, ItemDone
<1>9. CASE StickersDelete BY <1>1, <1>9 DEF StickersDelete
<1>10. CASE SweepFails
  <2>1. PICK s \in AllSweeps : sweep' = [sweep EXCEPT ![s] = SweepIdle] BY <1>10, LibraryAssumption DEF SweepFails
  <2> QED BY <1>1, <2>1
<1>11. CASE RetentionPasses \/ (\E p \in PackIds : DeletePack(p)) \/ (\E u \in Users : CmdLookup(u)) \/ CmdCreateTp
    \/ CmdCreatePack \/ CmdCreateJob \/ UNCHANGED vars
  BY <1>1, <1>11 DEF RetentionPasses, DeletePack, CmdLookup, CmdCreateTp, CmdCreatePack, CmdCreateJob, vars
<1>12. CASE Import
  BY <1>1, <1>12 DEF Import, ImpLoad, ImpFetch, ImpSticker, ImpReadStale, ImpReadSubscribers, ImpCommit, ImpAbort,
     ImpRollback, ImpPurge, ImpThrow, ImpCount, ImpCleanUp
<1> QED BY <1>2, <1>3, <1>4, <1>5, <1>6, <1>7, <1>8, <1>9, <1>10, <1>11, <1>12 DEF Next, Sweep

(* "they only disappear when removed from the Telegram pack or when the whole
   pack is deleted": whichever sweeps run and whatever fails, a live pack loses a
   sticker to the transaction of an import that did not find it in the set, but
   for the stickers that the sweep of expired ones had listed before an import
   restored them. *)
THEOREM OnlyRemovedDisappear == Spec => DisappearOnlyWhenRemoved
<1>1. Init => StaleUnserved /\ PackVictims
  BY DEF Init, StaleUnserved, PackVictims, ImpIdle, SweepIdle, AllSweeps
<1>2. ASSUME TypeOK, StaleUnserved, PackVictims, [Next]_vars, NEW p \in PackIds, NEW r \in RowIds, Live(p, r), ~Live(p, r)'
      PROVE  \/ packs'[p].status # "live"
             \/ ImportCommits /\ r \in imp.stale /\ rows[r].key \notin imp.fetched
             \/ <<p, r>> \in sweep["stickers"].todo
  <2> USE DEF Live, TypeOK, db, storage, processes
  <2>1. CASE RetentionPasses BY <1>2, <2>1 DEF RetentionPasses
  <2>2. ASSUME NEW d \in PackIds, DeletePack(d) PROVE packs'[p].status # "live" BY <1>2, <2>2 DEF DeletePack
  <2>3. CASE ImpCommit
    <3>1. r \in imp.stale /\ imp.pc = "fanOut" BY <1>2, <2>3 DEF ImpCommit, StickersAfterImport
    <3>2. ImportCommits BY <2>3, <3>1 DEF ImpCommit, ImpGoTo, ImportCommits, ImpStates
    <3> QED BY <1>2, <3>1, <3>2 DEF StaleUnserved
  <2>4. CASE StickersDelete BY <1>2, <2>4 DEF StickersDelete
  <2>5. CASE PacksStickers
    <3>1. p = sweep["packs"].item /\ packs' = packs BY <1>2, <2>5 DEF PacksStickers
    <3> QED BY <1>2, <2>5, <3>1 DEF PacksStickers, PackVictims, Buried
  <2>6. CASE (\E u \in Users : CmdLookup(u)) \/ CmdCreateTp \/ CmdCreatePack \/ CmdCreateJob \/ UNCHANGED vars
    BY <1>2, <2>6 DEF CmdLookup, CmdCreateTp, CmdCreatePack, CmdCreateJob, vars
  <2>7. CASE ImpLoad \/ ImpFetch \/ (\E k \in Keys : ImpSticker(k)) \/ ImpReadStale \/ ImpReadSubscribers \/ ImpAbort
      \/ ImpRollback \/ ImpPurge \/ ImpThrow \/ ImpCount \/ ImpCleanUp
    BY <1>2, <2>7 DEF ImpLoad, ImpFetch, ImpSticker, ImpReadStale, ImpReadSubscribers, ImpAbort, ImpRollback,
       ImpPurge, ImpThrow, ImpCount, ImpCleanUp
  <2>8. CASE SweepFails \/ OrphanList \/ OrphanRead \/ OrphanFiles \/ OrphanRows \/ OrphanTp \/ StaleList \/ StaleFile
      \/ StaleRow \/ StickersList \/ PacksList \/ PacksRead \/ PacksDelete
    BY <1>2, <2>8 DEF SweepFails, OrphanList, OrphanRead, OrphanFiles, OrphanRows, OrphanTp, StaleList, StaleFile,
       StaleRow, StickersList, PacksList, PacksRead, PacksDelete, StartSweep
  <2> QED BY <1>2, <2>1, <2>2, <2>3, <2>4, <2>5, <2>6, <2>7, <2>8 DEF Next, Import, Sweep
<1>3. TypeOK /\ StaleUnserved /\ PackVictims /\ [Next]_vars =>
        [\A p \in PackIds, r \in RowIds :
           Live(p, r) /\ ~Live(p, r)' =>
             \/ packs'[p].status # "live"
             \/ ImportCommits /\ r \in imp.stale /\ rows[r].key \notin imp.fetched
             \/ <<p, r>> \in sweep["stickers"].todo]_vars
  BY <1>2
<1>4. TypeOK /\ StaleUnserved /\ PackVictims /\ [Next]_vars => (StaleUnserved /\ PackVictims)'
  BY StaleUnservedStep, PackVictimsStep
<1> QED BY <1>1, <1>3, <1>4, TypeCorrect, PTL DEF Spec, DisappearOnlyWhenRemoved
=============================================================================
