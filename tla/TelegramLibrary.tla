--------------------------- MODULE TelegramLibrary ---------------------------
(***************************************************************************)
(* The shared library behind imported packs: one Telegram sticker set, the *)
(* TelegramPack and TelegramSticker rows and files the bot keeps of it, and *)
(* the packs of the users who imported it. Imports write the shared rows   *)
(* and fan the changes out to every subscriber pack; daily sweeps purge    *)
(* what nobody needs any more. They run in the same worker process, on     *)
(* queues of their own, and interleave at every await.                     *)
(*                                                                         *)
(* A TelegramSticker row is named by its id, which is also the name of its *)
(* file. A Sticker row is named by its pack and the TelegramSticker row it *)
(* was created for. Its telegramStickerId is ON DELETE SET NULL, so it has *)
(* become null exactly when that row is gone; the same holds for           *)
(* Pack.telegramPackId.                                                    *)
(***************************************************************************)
EXTENDS FiniteSets

CONSTANTS
  Keys,        \* file_unique_id of the stickers Telegram may serve
  RowIds,      \* ids for TelegramSticker rows and their files
  TpIds,       \* ids for TelegramPack rows
  PackIds,     \* ids for Pack rows
  Users,
  Sweeps,      \* the sweeps that run: a subset of AllSweeps
  Faults,      \* what may go wrong: a subset of AllFaults
  None

AllSweeps == {"orphan", "stale", "stickers", "packs"}
AllFaults == {"unlink", "throw"}

ASSUME LibraryAssumption ==
  /\ Sweeps \subseteq AllSweeps /\ Faults \subseteq AllFaults
  /\ None \notin Keys \union RowIds \union TpIds \union PackIds \union Users

(* "expired": soft-deleted for longer than hardDeleteRetentionMs. *)
Existing == {"live", "deleted", "expired"}
RowStatus == Existing \union {"unused", "gone"}

VARIABLES
  tps,         \* TelegramPack rows
  rows,        \* TelegramSticker rows
  files,       \* ids whose file is on storage
  strays,      \* those of them that are known to be left behind, see Unlink
  packs,       \* Pack rows of users who imported the set
  stickers,    \* Sticker rows of those packs
  cmd,         \* the import command being handled
  job,         \* pack of the ImportJob that waits in the queue
  imp,         \* the import handler
  sweep        \* one state per sweep

db == <<tps, rows, packs, stickers>>
storage == <<files, strays>>
processes == <<cmd, job, imp, sweep>>
vars == <<tps, rows, files, strays, packs, stickers, cmd, job, imp, sweep>>

CmdIdle == [pc |-> "idle", user |-> None, tp |-> None, pack |-> None]
ImpIdle == [pc |-> "idle", pack |-> None, tp |-> None, fetched |-> {},
            todo |-> {}, new |-> {}, restored |-> {}, stale |-> {}, subscribers |-> {}]
SweepIdle == [pc |-> "idle", todo |-> {}, item |-> None, read |-> {}]

Items == TpIds \union RowIds \union PackIds \union (PackIds \X RowIds)

CmdStates ==
  [pc : {"idle", "createTp", "createPack", "createJob"}, user : Users \union {None},
   tp : TpIds \union {None}, pack : PackIds \union {None}]
ImpStates ==
  [pc : {"idle", "fetch", "phase1", "transaction", "fanOut", "purge", "rollback", "count", "cleanup"},
   pack : PackIds \union {None}, tp : TpIds \union {None}, fetched : SUBSET Keys, todo : SUBSET Keys,
   new : SUBSET (Keys \X RowIds), restored : SUBSET RowIds, stale : SUBSET RowIds,
   subscribers : SUBSET PackIds]
SweepStates ==
  [pc : {"idle", "next", "files", "rows", "tp", "pack"}, todo : SUBSET Items,
   item : Items \union {None}, read : SUBSET RowIds]

TypeOK ==
  /\ tps \in [TpIds -> {"unused", "present", "gone"}]
  /\ rows \in [RowIds -> [status : RowStatus, tp : TpIds \union {None}, key : Keys \union {None}]]
  /\ files \subseteq RowIds /\ strays \subseteq files
  /\ packs \in [PackIds -> [status : RowStatus, tp : TpIds \union {None}, owner : Users \union {None}]]
  /\ stickers \in [PackIds \X RowIds -> Existing \union {"none"}]
  /\ cmd \in CmdStates
  /\ job \in PackIds \union {None}
  /\ imp \in ImpStates
  /\ sweep \in [AllSweeps -> SweepStates]

Init ==
  /\ tps = [t \in TpIds |-> "unused"]
  /\ rows = [r \in RowIds |-> [status |-> "unused", tp |-> None, key |-> None]]
  /\ files = {} /\ strays = {}
  /\ packs = [p \in PackIds |-> [status |-> "unused", tp |-> None, owner |-> None]]
  /\ stickers = [s \in PackIds \X RowIds |-> "none"]
  /\ cmd = CmdIdle /\ job = None /\ imp = ImpIdle
  /\ sweep = [s \in AllSweeps |-> SweepIdle]

-----------------------------------------------------------------------------
(* Queries. Slips the properties guard against stand just before the
   definition they are a slip of, and are not part of the specification. *)

RowsOf(t) == {r \in RowIds : rows[r].status \in Existing /\ rows[r].tp = t}
LivePacksOf(t) == {p \in PackIds : packs[p].status = "live" /\ packs[p].tp = t}
PackLinked(p) == packs[p].tp # None /\ tps[packs[p].tp] = "present"

(* An ImportJob in one of activeImportJobStatuses; FAILED, ROLLING_BACK and
   COMPLETED jobs are not active. *)
ImportActive ==
  job # None \/ imp.pc \in {"fetch", "phase1", "transaction", "fanOut", "purge"}

(* Deletes files, as deleteStickerFile and the rollback do: a deletion that
   fails is logged and forgotten, and the file stays. *)
Unlink(ids) ==
  \E kept \in SUBSET (ids \intersect files) :
    /\ kept # {} => "unlink" \in Faults
    /\ files' = files \ (ids \ kept)
    /\ strays' = (strays \ ids) \union kept

-----------------------------------------------------------------------------
(* The outside world. *)

Nothing == cmd.pc = "idle" /\ job = None /\ imp.pc = "idle"
             /\ \A s \in AllSweeps : sweep[s].pc = "idle"

(* The retention period passes; no handler is in flight for that long. *)
RetentionPasses ==
  LET Expire(status) == IF status = "deleted" THEN "expired" ELSE status
  IN  /\ Nothing
      /\ rows' = [r \in RowIds |-> [rows[r] EXCEPT !.status = Expire(@)]]
      /\ packs' = [p \in PackIds |-> [packs[p] EXCEPT !.status = Expire(@)]]
      /\ stickers' = [s \in PackIds \X RowIds |-> Expire(stickers[s])]
      /\ UNCHANGED <<tps, storage, processes>>

(* /delete-pack, confirmed: one transaction soft-deletes the pack and its
   stickers; the files of imported stickers are shared and stay. *)
DeletePack(p) ==
  /\ packs[p].status = "live"
  /\ packs' = [packs EXCEPT ![p].status = "deleted"]
  /\ stickers' = [s \in PackIds \X RowIds |->
                    IF s[1] = p /\ stickers[s] = "live" THEN "deleted" ELSE stickers[s]]
  /\ UNCHANGED <<tps, rows, storage, processes>>

-----------------------------------------------------------------------------
(* /import-telegram-pack. *)

Present == {t \in TpIds : tps[t] = "present"}
OwnPacks(u, t) == {p \in LivePacksOf(t) : packs[p].owner = u}

(* One command is handled at a time; it starts only while ids are left. *)
CmdLookup(u) ==
  /\ cmd.pc = "idle"
  /\ ~ImportActive
  /\ \/ /\ Present = {}
        /\ \E t \in TpIds, p \in PackIds : tps[t] = "unused" /\ packs[p].status = "unused"
        /\ cmd' = [pc |-> "createTp", user |-> u, tp |-> None, pack |-> None]
     \/ \E t \in Present :
          /\ OwnPacks(u, t) = {}
          /\ \E p \in PackIds : packs[p].status = "unused"
          /\ cmd' = [pc |-> "createPack", user |-> u, tp |-> t, pack |-> None]
     \/ \E t \in Present : \E p \in OwnPacks(u, t) :
          cmd' = [pc |-> "createJob", user |-> u, tp |-> t, pack |-> p]
  /\ UNCHANGED <<db, storage, job, imp, sweep>>

CmdCreateTp ==
  /\ cmd.pc = "createTp"
  /\ \E t \in TpIds :
       /\ tps[t] = "unused"
       /\ tps' = [tps EXCEPT ![t] = "present"]
       /\ cmd' = [cmd EXCEPT !.pc = "createPack", !.tp = t]
  /\ UNCHANGED <<rows, storage, packs, stickers, job, imp, sweep>>

(* The foreign key refuses a pack whose Telegram pack was swept away after the
   command read it. *)
CmdCreatePack ==
  /\ cmd.pc = "createPack"
  /\ IF tps[cmd.tp] = "present"
       THEN \E p \in PackIds :
              /\ packs[p].status = "unused"
              /\ packs' = [packs EXCEPT ![p] = [status |-> "live", tp |-> cmd.tp, owner |-> cmd.user]]
              /\ cmd' = [cmd EXCEPT !.pc = "createJob", !.pack = p]
       ELSE cmd' = CmdIdle /\ UNCHANGED packs
  /\ UNCHANGED <<tps, rows, storage, stickers, job, imp, sweep>>

CmdCreateJob ==
  /\ cmd.pc = "createJob"
  /\ job' = cmd.pack
  /\ cmd' = CmdIdle
  /\ UNCHANGED <<db, storage, imp, sweep>>

-----------------------------------------------------------------------------
(* telegramImportQueueHandler. *)

ImpGoTo(await) == imp' = [imp EXCEPT !.pc = await]

(* The handler ends at once when the pack lost its Telegram pack. *)
ImpLoad ==
  /\ job # None
  /\ imp.pc = "idle"
  /\ job' = None
  /\ imp' = IF PackLinked(job)
              THEN [ImpIdle EXCEPT !.pc = "fetch", !.pack = job, !.tp = packs[job].tp]
              ELSE ImpIdle
  /\ UNCHANGED <<db, storage, cmd, sweep>>

(* getStickerSet answers with what its owner keeps in the set at the moment; a
   failed request and an empty set both fail the job. *)
ImpFetch ==
  /\ imp.pc = "fetch"
  /\ \/ \E served \in SUBSET Keys \ {{}} :
          imp' = [imp EXCEPT !.pc = "phase1", !.fetched = served, !.todo = served]
     \/ ImpGoTo("count")
  /\ UNCHANGED <<db, storage, cmd, job, sweep>>

(* processSticker, to the outcomes SetSync allows: the bot has a row for the
   sticker, even a soft-deleted one, and the file is not downloaded again; or
   it has none, and the file is stored under the id of a row to create; or the
   sticker is skipped or fails. Nothing here touches a row. *)
ImpSticker(k) ==
  LET known == {r \in RowsOf(imp.tp) : rows[r].key = k}
  IN  /\ imp.pc = "phase1"
      /\ k \in imp.todo
      /\ \/ /\ known # {}
            /\ imp' = [imp EXCEPT !.todo = @ \ {k},
                         !.restored = @ \union {r \in known : rows[r].status # "live"}]
            /\ UNCHANGED files
         \/ /\ known = {}
            /\ \E r \in RowIds :
                 /\ rows[r].status = "unused" /\ r \notin files
                 /\ files' = files \union {r}
                 /\ imp' = [imp EXCEPT !.todo = @ \ {k}, !.new = @ \union {<<k, r>>}]
         \/ /\ imp' = [imp EXCEPT !.todo = @ \ {k}]
            /\ UNCHANGED files
      /\ UNCHANGED <<db, strays, cmd, job, sweep>>

(* Slip: everything this import did not touch counts as removed. *)
ImpReadUntouched ==
  /\ imp.pc = "phase1"
  /\ imp.todo = {}
  /\ imp' = [imp EXCEPT !.pc = "transaction",
               !.stale = {r \in RowsOf(imp.tp) : rows[r].status = "live"}]
  /\ UNCHANGED <<db, storage, cmd, job, sweep>>

ImpReadStale ==
  /\ imp.pc = "phase1"
  /\ imp.todo = {}
  /\ imp' = [imp EXCEPT !.pc = "transaction",
               !.stale = {r \in RowsOf(imp.tp) : rows[r].status = "live" /\ rows[r].key \notin imp.fetched}]
  /\ UNCHANGED <<db, storage, cmd, job, sweep>>

NewRows == {n[2] : n \in imp.new}

(* Slip: the new rows get their file's id for a file_unique_id. *)
RowsKeyedByFile ==
  [r \in RowIds |->
     IF r \in NewRows THEN [status |-> "live", tp |-> imp.tp, key |-> r]
     ELSE IF r \in imp.restored THEN [rows[r] EXCEPT !.status = "live"] ELSE rows[r]]

RowsAfterImport ==
  [r \in RowIds |->
     IF r \in NewRows
       THEN [status |-> "live", tp |-> imp.tp, key |-> CHOOSE k \in Keys : <<k, r>> \in imp.new]
     ELSE IF r \in imp.restored THEN [rows[r] EXCEPT !.status = "live"]
     ELSE IF r \in imp.stale /\ rows[r].status \in Existing THEN [rows[r] EXCEPT !.status = "deleted"]
     ELSE rows[r]]

(* Slip: only the shared rows are soft-deleted. *)
StickersNeverRemoved ==
  LET after == RowsAfterImport
  IN  [s \in PackIds \X RowIds |->
         IF s[1] \in imp.subscribers /\ after[s[2]].status = "live" /\ after[s[2]].tp = imp.tp
           THEN "live" ELSE stickers[s]]

(* Slip: only the pack the import was started for is updated. *)
StickersOfInitiator ==
  LET after == RowsAfterImport
  IN  [s \in PackIds \X RowIds |->
         IF s[1] # imp.pack \/ s[1] \notin imp.subscribers THEN stickers[s]
         ELSE IF after[s[2]].status = "live" /\ after[s[2]].tp = imp.tp THEN "live"
         ELSE IF s[2] \in imp.stale /\ stickers[s] = "live" THEN "deleted"
         ELSE stickers[s]]

(* Every live subscriber pack gets a row for each live shared row, has its
   soft-deleted rows for them restored, and loses those for stale ones. *)
StickersAfterImport ==
  LET after == RowsAfterImport
      liveRows == {r \in RowIds : after[r].status = "live" /\ after[r].tp = imp.tp}
  IN  [s \in PackIds \X RowIds |->
         IF s[1] \notin imp.subscribers THEN stickers[s]
         ELSE IF s[2] \in liveRows THEN "live"
         ELSE IF s[2] \in imp.stale /\ stickers[s] = "live" THEN "deleted"
         ELSE stickers[s]]

(* Phase 2 is one transaction at READ COMMITTED. It lists the subscriber packs
   and then writes to each of them; a pack deleted in between is written to
   all the same. *)
ImpReadSubscribers ==
  /\ imp.pc = "transaction"
  /\ imp' = [imp EXCEPT !.pc = "fanOut", !.subscribers = LivePacksOf(imp.tp)]
  /\ UNCHANGED <<db, storage, cmd, job, sweep>>

(* The sweep of orphaned packs has listed the files of this set and has yet to
   delete its rows: the file of a row added now is not among them. *)
OrphanSweepsAt(t) == sweep["orphan"].pc \in {"files", "rows"} /\ sweep["orphan"].item = t

(* The transaction fails when the Telegram pack or a row to update is gone,
   and may fail for any other reason. *)
ImpCommit ==
  /\ imp.pc = "fanOut"
  /\ tps[imp.tp] = "present"
  /\ \A r \in imp.restored : rows[r].status \in Existing
  /\ rows' = RowsAfterImport
  /\ stickers' = StickersAfterImport
  /\ strays' = strays \union IF OrphanSweepsAt(imp.tp) THEN NewRows \intersect files ELSE {}
  /\ ImpGoTo("purge")
  /\ UNCHANGED <<tps, files, packs, cmd, job, sweep>>

ImpAbort ==
  /\ imp.pc = "fanOut"
  /\ ImpGoTo(IF NewRows = {} THEN "count" ELSE "rollback")
  /\ UNCHANGED <<db, storage, cmd, job, sweep>>

(* Slip: nothing is unlinked. *)
ImpRollbackNothing ==
  /\ imp.pc = "rollback"
  /\ ImpGoTo("count")
  /\ UNCHANGED <<db, storage, cmd, job, sweep>>

ImpRollback ==
  /\ imp.pc = "rollback"
  /\ Unlink(NewRows)
  /\ ImpGoTo("count")
  /\ UNCHANGED <<db, cmd, job, sweep>>

(* pg-boss delivers the job of an attempt that threw again, to an import of its
   own if nobody asked for another one meanwhile. *)
Requeued == IF job = None /\ cmd = CmdIdle THEN imp.pack ELSE job

(* The files of the stickers that left the set are deleted at once; their rows
   stay, soft-deleted. The update that completes the job may be refused, and
   then the job is delivered again. *)
ImpPurge ==
  /\ imp.pc = "purge"
  /\ Unlink(imp.stale)
  /\ imp' = ImpIdle
  /\ job' \in {job} \union (IF "throw" \in Faults THEN {Requeued} ELSE {})
  /\ UNCHANGED <<db, cmd, sweep>>

(* cleanUpFreshlyCreatedPack, in two awaits, after the job became FAILED. *)
ImpCount ==
  /\ imp.pc = "count"
  /\ IF \E r \in RowIds : stickers[<<imp.pack, r>>] = "live" THEN imp' = ImpIdle ELSE ImpGoTo("cleanup")
  /\ UNCHANGED <<db, storage, cmd, job, sweep>>

ImpCleanUp ==
  /\ imp.pc = "cleanup"
  /\ packs' = [packs EXCEPT ![imp.pack].status = "deleted"]
  /\ imp' = ImpIdle
  /\ UNCHANGED <<tps, rows, storage, stickers, cmd, job, sweep>>

(* An await outside the handler's try blocks rejects, or its process dies: the
   files stored so far are forgotten. So are those that workers left behind by a
   throw store later, taken here to be stored before it. *)
ImpThrow ==
  /\ "throw" \in Faults
  /\ imp.pc # "idle"
  /\ strays' = strays \union {r \in NewRows \intersect files : rows[r].status \notin Existing}
  /\ imp' = ImpIdle
  /\ job' = Requeued
  /\ UNCHANGED <<db, files, cmd, sweep>>

Import ==
  \/ ImpThrow \/ ImpLoad \/ ImpFetch \/ (\E k \in Keys : ImpSticker(k)) \/ ImpReadStale \/ ImpReadSubscribers
  \/ ImpCommit \/ ImpAbort \/ ImpRollback
  \/ ImpPurge \/ ImpCount \/ ImpCleanUp

-----------------------------------------------------------------------------
(* The sweeps. Each reads the list of its victims once and works through it. *)

StartSweep(s, list) ==
  /\ s \in Sweeps
  /\ sweep[s].pc = "idle"
  /\ list # {}
  /\ sweep' = [sweep EXCEPT ![s] = [SweepIdle EXCEPT !.pc = "next", !.todo = list]]
  /\ UNCHANGED <<db, storage, cmd, job, imp>>

SweepGoTo(s, await) == sweep' = [sweep EXCEPT ![s].pc = await]

ItemDone(s) ==
  sweep' = [sweep EXCEPT ![s] = IF @.todo = {} THEN SweepIdle
                                ELSE [SweepIdle EXCEPT !.pc = "next", !.todo = sweep[s].todo]]

(* Slip: soft-deleted subscribers count. *)
OrphanListUnreferenced ==
  StartSweep("orphan", {t \in TpIds : tps[t] = "present"
                          /\ \A p \in PackIds : packs[p].status \in Existing => packs[p].tp # t})

(* cleanupOrphanedTelegramPacks *)
OrphanList == StartSweep("orphan", {t \in TpIds : tps[t] = "present" /\ LivePacksOf(t) = {}})

(* Slip: only the files of soft-deleted rows are deleted. *)
OrphanReadDeleted ==
  /\ sweep["orphan"].pc = "next"
  /\ \E t \in sweep["orphan"].todo :
       sweep' = [sweep EXCEPT !["orphan"] =
                   [pc |-> "files", todo |-> @.todo \ {t}, item |-> t,
                    read |-> {r \in RowsOf(t) : rows[r].status # "live"}]]
  /\ UNCHANGED <<db, storage, cmd, job, imp>>

OrphanRead ==
  /\ sweep["orphan"].pc = "next"
  /\ \E t \in sweep["orphan"].todo :
       sweep' = [sweep EXCEPT !["orphan"] = [pc |-> "files", todo |-> @.todo \ {t}, item |-> t, read |-> RowsOf(t)]]
  /\ UNCHANGED <<db, storage, cmd, job, imp>>

OrphanFiles ==
  /\ sweep["orphan"].pc = "files"
  /\ Unlink(sweep["orphan"].read)
  /\ SweepGoTo("orphan", "rows")
  /\ UNCHANGED <<db, cmd, job, imp>>

OrphanRows ==
  /\ sweep["orphan"].pc = "rows"
  /\ rows' = [r \in RowIds |-> IF r \in RowsOf(sweep["orphan"].item)
                               THEN [rows[r] EXCEPT !.status = "gone"] ELSE rows[r]]
  /\ SweepGoTo("orphan", "tp")
  /\ UNCHANGED <<tps, storage, packs, stickers, cmd, job, imp>>

(* The delete is refused, and the refusal swallowed, if rows were added. *)
OrphanTp ==
  /\ sweep["orphan"].pc = "tp"
  /\ tps' = IF RowsOf(sweep["orphan"].item) = {} THEN [tps EXCEPT ![sweep["orphan"].item] = "gone"] ELSE tps
  /\ ItemDone("orphan")
  /\ UNCHANGED <<rows, storage, packs, stickers, cmd, job, imp>>

(* hardDeleteStaleTelegramStickers *)
StaleList ==
  StartSweep("stale", {r \in RowIds : rows[r].status = "expired"
                                        /\ \A p \in PackIds : stickers[<<p, r>>] # "live"})

StaleFile ==
  /\ sweep["stale"].pc = "next"
  /\ \E r \in sweep["stale"].todo :
       /\ Unlink({r})
       /\ sweep' = [sweep EXCEPT !["stale"].pc = "rows", !["stale"].item = r, !["stale"].todo = @ \ {r}]
  /\ UNCHANGED <<db, cmd, job, imp>>

StaleRow ==
  /\ sweep["stale"].pc = "rows"
  /\ rows' = IF rows[sweep["stale"].item].status \in Existing
               THEN [rows EXCEPT ![sweep["stale"].item].status = "gone"] ELSE rows
  /\ ItemDone("stale")
  /\ UNCHANGED <<tps, storage, packs, stickers, cmd, job, imp>>

(* hardDeleteOldStickers: hardDeleteSticker leaves the files of imported
   stickers alone. *)
StickersList ==
  StartSweep("stickers", {s \in PackIds \X RowIds : stickers[s] = "expired"})

StickersDelete ==
  /\ sweep["stickers"].pc = "next"
  /\ \E s \in sweep["stickers"].todo :
       /\ stickers' = [stickers EXCEPT ![s] = "none"]
       /\ IF sweep["stickers"].todo = {s}
            THEN sweep' = [sweep EXCEPT !["stickers"] = SweepIdle]
            ELSE sweep' = [sweep EXCEPT !["stickers"].todo = @ \ {s}]
  /\ UNCHANGED <<tps, rows, storage, packs, cmd, job, imp>>

(* hardDeleteOldPacks *)
PacksList == StartSweep("packs", {p \in PackIds : packs[p].status = "expired"})

PacksRead ==
  /\ sweep["packs"].pc = "next"
  /\ \E p \in sweep["packs"].todo :
       sweep' = [sweep EXCEPT !["packs"].pc = "rows", !["packs"].item = p, !["packs"].todo = @ \ {p}]
  /\ UNCHANGED <<db, storage, cmd, job, imp>>

(* Slip: only soft-deleted stickers are removed with the pack. *)
PacksDeletedStickers ==
  /\ sweep["packs"].pc = "rows"
  /\ stickers' = [s \in PackIds \X RowIds |->
                    IF s[1] = sweep["packs"].item /\ stickers[s] # "live" THEN "none" ELSE stickers[s]]
  /\ SweepGoTo("packs", "pack")
  /\ UNCHANGED <<tps, rows, storage, packs, cmd, job, imp>>

(* The pack's sticker rows go one by one, live ones included; nothing adds rows to a pack that is
   past its retention, so they are taken together here. *)
PacksStickers ==
  /\ sweep["packs"].pc = "rows"
  /\ stickers' = [s \in PackIds \X RowIds |-> IF s[1] = sweep["packs"].item THEN "none" ELSE stickers[s]]
  /\ SweepGoTo("packs", "pack")
  /\ UNCHANGED <<tps, rows, storage, packs, cmd, job, imp>>

(* The foreign key refuses, unnoticed, to delete a pack that has stickers. *)
PacksDelete ==
  /\ sweep["packs"].pc = "pack"
  /\ packs' = IF \A r \in RowIds : stickers[<<sweep["packs"].item, r>>] = "none"
                THEN [packs EXCEPT ![sweep["packs"].item].status = "gone"] ELSE packs
  /\ ItemDone("packs")
  /\ UNCHANGED <<tps, rows, storage, stickers, cmd, job, imp>>

(* A sweep rejects or dies in the middle of an item: what it has done stays
   done, the list is forgotten, and the next start reads it anew. *)
SweepFails ==
  /\ \E s \in Sweeps : sweep[s].pc \notin {"idle", "next"} /\ sweep' = [sweep EXCEPT ![s] = SweepIdle]
  /\ UNCHANGED <<db, storage, cmd, job, imp>>

Sweep ==
  \/ SweepFails
  \/ OrphanList \/ OrphanRead \/ OrphanFiles \/ OrphanRows \/ OrphanTp
  \/ StaleList \/ StaleFile \/ StaleRow
  \/ StickersList \/ StickersDelete
  \/ PacksList \/ PacksRead \/ PacksStickers \/ PacksDelete

Next ==
  \/ RetentionPasses
  \/ \E p \in PackIds : DeletePack(p)
  \/ \E u \in Users : CmdLookup(u)
  \/ CmdCreateTp \/ CmdCreatePack \/ CmdCreateJob
  \/ Import
  \/ Sweep

Spec == Init /\ [][Next]_vars

(* The daily jobs run, every await of a handler settles, a job is delivered again
   a few times only, and sweeps do not fail for ever: what looks like a failure in
   the end is a delete that was refused, or found nothing, and was the last. *)
FairSpec ==
  /\ Spec
  /\ WF_vars(Import)
  /\ WF_vars(OrphanList \/ OrphanRead \/ OrphanFiles \/ OrphanRows \/ OrphanTp)
  /\ WF_vars(StaleList \/ StaleFile \/ StaleRow)
  /\ WF_vars(StickersList \/ StickersDelete)
  /\ WF_vars(PacksList \/ PacksRead \/ PacksStickers \/ PacksDelete)
  /\ <>[][imp # ImpIdle /\ imp' = ImpIdle => UNCHANGED job]_vars
  /\ <>[][SweepFails => OrphanTp \/ StaleRow \/ PacksDelete]_vars

-----------------------------------------------------------------------------

Live(p, r) == stickers[<<p, r>>] = "live"

(* Imported stickers mirror the shared rows: a live sticker of a live pack
   belongs to a shared row of the pack's own Telegram set and, unless a sweep
   deleted that row, the row is live too. *)
MirrorsSharedRows ==
  \A p \in PackIds, r \in RowIds : Live(p, r) /\ packs[p].status = "live" =>
    /\ rows[r].tp = packs[p].tp
    /\ rows[r].status \in Existing => rows[r].status = "live"

(* Subscribers never drift apart: whenever an import commits, its own or another
   user's, every live pack that some import has filled shows every live sticker
   of the set. *)
ImportCommits == imp.pc = "fanOut" /\ imp'.pc = "purge"
SubscribersAgree ==
  [][ImportCommits =>
       \A p \in PackIds, r, q \in RowIds :
         Live(p, r)' /\ packs'[p].status = "live" /\ rows'[q].status = "live" /\ rows'[q].tp = packs'[p].tp
           => Live(p, q)']_vars

(* No file is left behind without a cause: one on storage is the file of an
   existing row or of a row the import in progress is about to create, unless its
   last deletion failed, its import threw, or its row was created behind the back
   of the sweep of orphaned packs. *)
FilesAreOwned ==
  \A r \in files \ strays :
    rows[r].status \in Existing \/ (r \in NewRows /\ imp.pc \in {"phase1", "transaction", "fanOut", "rollback"})

(* "Imported stickers mirror the Telegram set; they only disappear when
   removed from the Telegram pack or when the whole pack is deleted": while their
   pack lives, by the transaction of an import that did not find them in the set.
   The sweep of expired stickers breaks this for a sticker an import restored
   after the sweep had listed it. *)
DisappearOnlyWhenRemoved ==
  [][\A p \in PackIds, r \in RowIds :
       Live(p, r) /\ ~Live(p, r)' =>
         \/ packs'[p].status # "live"
         \/ ImportCommits /\ r \in imp.stale /\ rows[r].key \notin imp.fetched
         \/ <<p, r>> \in sweep["stickers"].todo]_vars

(* Nothing is kept for ever: a Telegram pack nobody subscribes to goes with its
   rows unless somebody subscribes again, and so do expired shared rows unless an
   import restores them. *)
AbandonedSetsGo ==
  \A t \in TpIds : (tps[t] = "present" /\ LivePacksOf(t) = {}) ~> (tps[t] = "gone" \/ LivePacksOf(t) # {})
ExpiredRowsGo == \A r \in RowIds : (rows[r].status = "expired") ~> (rows[r].status \in {"live", "gone"})

-----------------------------------------------------------------------------
(* What a comment of the code promises and the code does not keep. *)

(* "leaving rows behind pointing at files we just deleted would produce a pack
   that re-imports successfully but shows broken images". *)
LiveStickerHasFile ==
  \A p \in PackIds, r \in RowIds : Live(p, r) /\ packs[p].status = "live" /\ rows[r].status = "live" => r \in files
=============================================================================
