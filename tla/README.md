# Fantastick: a TLA+ model of the sticker bot

Fantastick is a Discord bot that lets users send stickers of their own packs, and of packs imported
from Telegram, as messages. This directory models its stateful core in TLA+: modules translated from
the TypeScript under `src/src`, TLC configurations that check them on small instances, and proofs
that the TLAPS proof system checks for every value of the constants. `PROJECT.json` lists the same
things for a tool: components, runs, the lines every definition stands for, hazards, theorems.

Contents: [1 The system](#1-the-system) · [2 How the modules are written](#2-how-the-modules-are-written) ·
[3 The modules and their runs](#3-the-modules-and-their-runs) · [4 Findings](#4-findings) ·
[5 Known exposures](#5-known-exposures) · [6 What is proved](#6-what-is-proved) ·
[7 What is only model-checked](#7-what-is-only-model-checked) · [8 Not modelled](#8-not-modelled) ·
[9 Plan](#9-plan)

To check a module: `tlc -workers 2 -config MCImportPool.cfg MCImportPool`; to check the proofs:
`tlapm ImportPoolProofs.tla`.

## 1 The system

Processes: Discord *shard* processes run the commands, buttons and modals; one *queue worker* process
runs the pg-boss queues. All share one Postgres database (Prisma, READ COMMITTED), a file storage
(a local directory or an upload API) and, optionally, an OpenSearch index. Telegram's and Discord's
APIs are outside. Inside a process JavaScript interleaves handlers at every `await`.

| Component | State | Operations | Talks to | Correct means |
|---|---|---|---|---|
| Import command (`commands/import-telegram-pack`) | `TelegramPack`, `Pack`, `ImportJob` rows | look up, check for an active import, create rows, send to queue | queue | one import of a set at a time; a refusal means an import is in progress |
| Import handler, phase 1 (`telegram-import.queue-handler` 161-327) | shared counters, index, `createdFiles`, renderer, job row | worker pool: look up, download, convert, store | Telegram, storage, ffmpeg/Chromium, database | every sticker handled once, counted once, known to the rollback |
| Import handler, phase 2 (328-475) | `TelegramSticker`, `Sticker`, `Pack` rows | one transaction: shared rows, subscriber packs, ratings; then purge or rollback of files | database, storage | subscriber packs mirror the shared rows; files belong to rows |
| Job life cycle (`classes/queue-manager`, pg-boss) | pg-boss jobs, `ImportJob.status` | deliver, expire after 15 min, retry twice, fail | import handler | jobs end; repeated attempts do no harm |
| Sweeps (`cleanup-orphaned…`, `hard-delete-…`) | soft-deleted rows, files | daily: list, delete files, delete rows | database, storage | nothing in use is deleted, nothing abandoned stays |
| Publishing (`publish.component-handler`, edit-pack modal) | `Pack.public`, `Sticker.nsfwOverride` | review, confirm, edit, delete | import handler through the rows | one public copy per set; nothing unrated is published |
| Owned packs (create-pack, create-/edit-/replace-/delete-sticker modals, reorder) | `Pack`, `Sticker`, files | create, rename, replace, reorder, soft-delete | search index, storage | names unique in their scope, orders distinct, one file per sticker |
| Search index (`utils/search`, `services/searchable-store`) | OpenSearch documents | sync after each write, reconcile every 15 min | database | no result the user may not see; the index converges |
| Sent messages (`record-sticker-messages`, `update-message`, sticker button) | `StickerMessage` rows, usage counts | record, delete, refresh, recompute | Discord, queue | messages of a deleted sticker go; "up to date" is true; the counts converge |
| Review, mass edit and pack pages (`publish`, `mass-edit`, `pack-page` component handlers) | sticker ids and page numbers in custom ids | step, jump, edit, replace, clamp, slice | database | nobody is led past a sticker; no blank page |
| Search ranking | - | filter, rank, merge | index or Postgres | both back ends agree |
| Discord glue, feed, registration, localization, scripts | - | I/O and text | Discord | not modelled |

What makes it hard: handlers of different users, and the sweeps, interleave at every await; checks are
made awaits before the writes they guard; READ COMMITTED lets a transaction see different states in
its statements; files live outside the transaction; pg-boss delivers at least once and starts a job
over while its first attempt still runs; Telegram sets change between imports. Each place where one of
these bites is an entry of `hazards` in `PROJECT.json` with the properties that cover it.

## 2 How the modules are written

- An action is the code from one `await` to the next; a `pc` names the await. Consecutive awaits that
  touch nothing another process reads are one action, and a comment says so where it matters.
- A guard comes from the code's conditions, a failed call is an alternative of the step.
- A transaction is one step when its statements read rows only through what it wrote itself;
  where the code reads a list and writes by it later (subscriber packs, the published copy) the read
  and the commit are two steps, which READ COMMITTED allows.
- Rows are named by an element of a finite set of ids; a row that is deleted is `"gone"`, one that
  never existed `"unused"`. The size of the set of ids is the bound on how often something is created.
- Payloads (names, captions, images, Discord replies) are left out unless a property needs them.
- Operators introduced by a comment "Slip:" are not part of the specification: each is a plausible
  mistake in the definition that follows it, substituted to see that a property notices.
- Properties stand at the end of their module. The last section of a module, if it is headed "What a
  comment (message) of the code promises and the code does not keep", is refuted by a run.

## 3 The modules and their runs

### SetSync and ImportPool: phase 1 of an import

`SetSync` says what phase 1 promises: every sticker of the set is settled once, a file is stored only
for stickers the bot does not have and at most once, and the phase drains only when nothing is open.
`ImportPool` is the worker pool of `telegramImportQueueHandler`: `nextIndex`, the three counters, the
two "conversion disabled" flags, the renderer, and for each worker the await it is in. `TakeEntry` is
`nextIndex++` with the code up to the first await, `Lookup`…`RecordFile` are `processSticker`,
`SettleAs` the tail its branches share, `Reported` the update of the job row landing (updates of
different workers overtake each other), `Throw` any await outside the inner try/catch rejecting:
`Promise.all` rejects, the renderer is closed, and the workers that remain carry on. Nobody resets the
progress columns of the job row, so a retry starts with what the attempt before left in them:
`Unwritten` is that, whatever it is.

- `import_pool` (`MCImportPool.cfg`, 4.1 M states): 3 stickers of every kind and row state, 2 workers,
  hosts with and without ffmpeg and Chromium. Three stickers on two workers are the smallest pool in
  which a worker takes a second sticker while the other is anywhere in its first one. Checks
  `DrainedIsComplete`, `RowShowsThisAttempt` (a number this attempt has written to the job row is never
  ahead of it, and when phase 2 starts no number of an earlier attempt is left, except in `failed` if
  nothing was stored and nothing failed), and the refinement `ImplementsSetSync`: `Abstract ==
  INSTANCE SetSync WITH ...` maps the pool's state to the abstract one. What the refinement rests on
  is proved but not run: `OneWorkerPerSticker`, `CountersAgree`, `RendererOpenForConversion`.

Left out: the throttled edits of the Discord progress message, whose errors the code swallows.

### TelegramLibrary: shared rows, subscriber packs and the sweeps

State: `tps`, `rows`, `packs`, `stickers` (the four tables), `files`, and the state of one import
command, one queued job, one import handler and the four sweeps. `Imp…` are the handler's steps
(phase 1 reduced to what `SetSync` allows: a row is found, a file is stored, or the sticker is skipped
or fails), `ImpReadSubscribers`/`ImpCommit`/`ImpAbort` the phase 2 transaction, `ImpPurge` and
`ImpRollback` the file deletions after it. `Orphan…`, `Stale…`, `Stickers…`, `Packs…` are the sweeps,
step by step, with the foreign keys (`ON DELETE SET NULL`, and the deletes that are refused and whose
refusal is swallowed). `SweepFails` ends a sweep in the middle of an item, what it did staying done;
`StartSweep` is the daily schedule, the send at startup, or pg-boss's retry. `served \in SUBSET Keys`
in `ImpFetch` is the Telegram owner changing the set between imports. `RetentionPasses` is the
retention period: it fires only when no handler is in flight, since no handler runs for days.

Constant `Faults` chooses what goes wrong besides the transactions and the sweeps, which always may:
`"unlink"`, a file deletion that fails, is logged and forgotten (`Unlink`, in the rollback, the purge and
the sweeps), and `"throw"`, an await of the import that rejects outside its `try` blocks, or a process
that dies (`ImpThrow`; and in `ImpPurge` the update that completes the job). pg-boss then delivers the job
again (`Requeued`), here unless somebody asked for another import meanwhile: attempts side by side are
the subject of `ImportJobs`. `strays` is a ghost: the files left behind by those two faults, and those of
rows that an import adds while the orphan sweep is between its list of the set's files and its delete of
all the set's rows. Files that the workers a throw left behind store later are taken to be stored before it.

Constant `Sweeps` chooses which sweeps run, because with all four on, the exposures of section 5 occur
and would mask everything else; each run says what it includes.

- `library_mirror` (6.7 M states): 2 sticker keys, 2 row ids, 2 packs of 2 users, the sweep of expired
  stickers, both faults. Two keys let one sticker stay while the other leaves and returns; two users give a
  subscriber the import was not started for. Checks `MirrorsSharedRows`, `SubscribersAgree` (whenever
  an import commits, every live pack that some import has filled shows every live sticker of the
  set), `FilesAreOwned` (every file but the `strays` has a row or an import that is about to create it),
  `DisappearOnlyWhenRemoved` (from a live pack, a sticker goes by the commit of an import whose fetched
  set it is not in, or by the sweep of expired stickers that had listed it).
- `library_sweeps` (`FairSpec`, 1.1 M states): the orphan, stale-sticker and pack sweeps, failing now and
  then, over 2 packs of one user and a set of two stickers of which one row is kept: the second sticker
  lets the first leave the set. `AbandonedSetsGo`, and `ExpiredRowsGo`, also when a pack deleted in the
  middle of an import kept a live sticker for a shared row; and `FilesAreOwned` with the sweep of orphaned
  packs at work. The run is without `Faults`, for its time limit; the liveness properties with imports
  that throw (1.8 M states), and the safety properties with one pack, all four sweeps and both faults
  (3.8 M states), were checked once.
- `library_restore`: refutes `LiveStickerHasFile`.

Fairness: weak fairness of the import handler (every await of it settles: requests have time limits,
and pg-boss expires what does not), of the start of each sweep (its daily schedule, while its list is
not empty) and of each sweep's steps. A user's commands are not fair. A job is delivered again at most
twice, so from some point on no import leaves one behind: `<>[][... => UNCHANGED job]_vars`. Sweeps may
fail, but not for ever, since each is retried and scheduled anew every day: `<>[][SweepFails => ...]_vars`, where the
right-hand side admits the last delete of a sweep that is refused, a step that looks like a failure.

### PublishPack: publishing imported packs

State: per pack its visibility, its sticker rows, which of them carry a rating, and the await of its
owner's `publishConfirm` and edit-pack handlers; phase 2 of an import of the set. `PublishPackRead`,
`PublishStickers`, `PublishExisting`, `PublishUpdate` are the three reads and the write of
`publishConfirm`, `IndexAllows` the partial unique index `Pack_telegramPackId_public_unique`.

`overlapped` is a ghost: it is set when a handler starts while another one is in flight and cleared
when one starts alone. `PublishedIsReviewed` and `CreatedNeverExposed` are claimed only while it is
false: with overlap the code's checks are out of date when they are used (section 5), so the claim is
what sequential use of every handler guarantees, over every sequence of handlers, aborted ones
included. `OnePublishedCopy` is claimed for every interleaving; so is
`OwnEditsSurvive`, which is proved and not run.

- `publish` (2.6 M states): 2 owners, 2 stickers. Two owners compete for the public copy; two stickers
  let one be rated and the other not, removed and the other kept.
- `publish_restored`: refutes `ImportExposesNothingUnrated`.

### ImportJobs: commands, deliveries, retries, crashes

State: `ImportJob.status`, pg-boss's jobs (`queue`, with the number of tries), every attempt of the
handler, command handlers, packs, rows and files, a file being named by the attempt that stored it.
`Faults` says what may go wrong: a send that fails, an await that throws, an attempt that outlives its
expiry and runs on beside its successor, a crash of the worker process, a file deletion of a rollback
that is logged and forgotten. Two ghosts remember history: `undeleted` the files a rollback failed to
delete, `raced` the pairs of commands one of which made its check for an active import between the
other's check and the creation of the other's job.

- `jobs_faults`: one command, three tries, two stickers, all faults: `RowsHaveFiles`, `NoLeakOnReturn`,
  and `RefusedOnlyInProgress`: a job that blocks later imports without anybody at work on it is one
  that a fault struck. Three tries are what retryLimit 2 allows, and up to three attempts run side by
  side (1.8 M states).
- `jobs_fair` (`FairSpec`, 0.5 M states): two commands that interleave freely, two tries; sends and
  deletions that fail, throws, crashes. `OneImport` (unless pg-boss started one of two over or the two
  raced) and `JobsEnd` (every import ends COMPLETED or
  FAILED unless something befell that import itself).

Fairness: a command handler that has begun goes on, the worker polls the queue, pg-boss's monitor
notices late jobs, every await of a handler settles. Faults are not fair, and `Throw` and `Crash` may
happen at every step.

### SearchIndex: the OpenSearch index, its syncs and its reconcile

State: the rows a document is made of (`packs`, `stickers`, `face`), the documents (`index`), the
handlers that write (`writer`), one reconcile and one search. `face` is everything a query looks at
in a sticker besides its pack; only whether a query accepts it matters. `CreateSticker` to
`ImportStickers` are the writes that go through the searchable store, one transaction each; what they
touched is then synced pack by pack, `SyncRead` reading Postgres and `SyncSend` reaching the index,
with anything in between. `RelabelUnsynced` and `PurgeSticker` bypass the store, as in the code.
`ReconcileRead`/`ReconcileSend` alternate over the batches, `ReconcileScan` is the scroll,
`ReconcileDelete` the deletion of what was not seen live. A sync request that fails may have been
applied in part (`SyncFails`); the reconcile's too, and ends the run. The order of ids is the order of
results; the order by usage is left out.

`drifted` and `alone` are ghosts. `drifted` is set by what only a reconcile repairs: a request that
failed, a sync that overlapped with another or with a reconcile, a write without a sync. `alone` says
that nothing was written and no request failed since the reconcile in progress began; the end of such
a reconcile clears `drifted`. `AtRestCurrent` is therefore two claims: the syncs by themselves lose nothing, and an
undisturbed reconcile repairs any index.

- `search_index` (`FairSpec`, 0.46 M states): 2 stickers in 2 packs, one of the user who searches, one
  sticker there before the index; 2 handlers, 2 writes, 1 fault, batches of 1. One sticker per batch
  makes the cursor move, and lets its row be deleted under it; 2 handlers sync in either order. Checks
  `AtRestCurrent`, `SearchesAgree` and `Converges`. That a search shows only what its user may see is no
  property here: candidates are read again under the visibility filter in the query whose rows are shown.

Fairness: a sync and a reconcile that have begun go on, since every request has a time limit; the
schedule starts a reconcile every 15 minutes. `Converges` needs `MaxWrites` and `MaxFaults` only as
"writes and faults cease": after the last of them, one whole reconcile follows.

### OwnedPack: packs that users make

State: the Pack and Sticker rows of packs that were not imported, the files on storage, and for each
modal or command in flight the await it is in with what it has read. `CreatePack…`, `EditPack…`,
`DeletePack…` are the pack modals, `Create…`, `Edit…`, `Replace…`, `Delete…` the sticker modals,
`ReorderRead`, `ReorderSelect` and `ReorderCommit` `/reorder-sticker`: the statement that locks sorts
the rows it saw when it began (`Ranks`), waits, and drops rows that were deleted meanwhile (`Listed`).
`PurgeSticker` and `PurgePack` are the sweeps of expired rows, one row or pack at a time. `Fail` is any
await that rejects or a process that dies, and a file deletion that fails is only logged (`Delete`).

Two ghosts say how much is claimed. `disturbed` is set once handlers overlap or fail: names and files
are claimed until then. `loose` holds the packs in which stickers may share a place; it grows by a
purge, overlapping creations, and an overlapped reorder that missed a new sticker, and shrinks by the
next reorder. So `OrdersDistinct` says that nothing else may do harm: deletions, failures, or a reorder
between the count and the creation. `LiveHasFile` is claimed for every interleaving.

- `owned_pack` (0.8 M states): up to 3 stickers and 2 packs, 3 names, 2 files, 2 handlers at a time,
  3 in all: the smallest numbers with which a reorder has a bystander, two handlers overlap, and a
  third sees what they left. Names are symmetric. Four handlers in all (10 M states) were checked once
  and gave nothing new. Checks `OrdersDistinct`, `LiveHasFile`, `NamesDistinct`, `FilesReferenced`
  and `ReorderMovesOne`.

Left out: which user owns a row (the handlers refuse what is not the user's own), visibility and
rating (`PublishPack`), descriptions, the index sync after each write (`SearchIndex`), and handlers at
work on a live sticker of a deleted pack in the moment that pack is purged.

### PackScreens: review, mass edit and pack pages

State: one message with buttons and what it shows (`screen`), the pack's live stickers in their order
(`list`) with their ratings, and for each press the await its handler is in with what it has read.
`OpenSticker`, `OpenPages` are the commands, `Press` the buttons and the modals, `StepSticker` the
step from the sticker on show, `ReadList` the read of the list that the answer is computed from,
`CountPages`/`FindPage` the two queries of a page, `Submit` to `ReplaceFile` the modals, `ConfirmCheck`
and `ConfirmWrite` the Publish button as far as its own message shows it, `Respond` the answer, which
replaces whatever the message shows by then. `Delete`, `Insert`, `MoveToFront` and `Rate` are other
handlers at work on the pack.

`seen` and `excused` follow one walk from the first sticker on; `steady` tells, for each press,
whether what it read has changed since.

- `pack_screens` (2.1 M states): packs of 0 to 3 stickers, 2 to a page, 2 presses in flight, one change by others;
  stickers and presses are symmetric. Three stickers give a walk an inner one and the pages a short
  last page; two presses answer in either order. Two changes did not finish within a quarter of an
  hour. Checks `NothingPassedOver`, `PageNeverBlank`, `UntouchedRatingsStay`.

Left out: texts and images, the checks of who may press, and stickers whose name is unfit for
publishing, which count as unrated.

### StickerMessages: messages on Discord and their rows

State: the stickers' rows, the messages on Discord, the `StickerMessage` rows that remember them, the
presses of the Refresh and Delete buttons and the Update Message command, the delete-sticker modal,
the delete jobs in the `update-message` queue, the hourly recompute and the `StickerUsage` rows.
`Send` and `PostToFeed` show a sticker, `Record` is the insert after Discord returned the message's
id. `Change` is any write to the sticker, with Prisma's `@updatedAt`. `PressButton`, `UpdateMessage`,
`ReadSticker`, `EditMessage`, `Mark` are the handlers await by await. `ListMessages`, `SoftDelete`,
`SendJobs` are the modal, `Fetch`, `DeleteMessage`, `MarkDeleted` the queue's handler, `WorkerDies`
pg-boss handing a job out again. `DropRows`, `HardDelete` are `hardDeleteSticker`, 30 days later, when
nobody is busy with the sticker any more. `Count` and `Write` are the recompute.

`overlapped` holds the messages a change of their sticker met half way, in a send, in a refresh or in
the second of the mark; `excused` those whose deletion a fault struck. What they excuse is listed in
section 5.

- `sticker_messages` (1.3 M states): one sticker, one message, two presses, two tries, three seconds,
  two changes. All the properties are about one message and its sticker, and messages meet only in
  the count; two presses are what it takes for one to mark what another has made old. Two messages with
  one press (3.8 M states) were checked for safety once. Checks `UpToDateShown`, `ListedMessagesGo`,
  `UsageConverges`.

Fairness: the modal that has begun its sends goes on, pg-boss hands jobs out and the handler's calls
settle (any of them may also kill the worker, `WorkerDies`, which is not fair), and the schedule
starts the recompute every hour. Presses are not fair.

Left out: messages with several stickers (the code sends none), the pack's rating, which decides
about the spoiler, the queue's action `update`, which nobody sends, and Sticker Details, which only
displays.

## 4 Findings

Each is the counterexample of a run that is expected to find one.

1. `library_restore`: a sticker that leaves the Telegram set has its file purged at once; when it comes
   back, its row counts as downloaded and it is shown without a file.
2. `publish_restored`: a never-rated sticker that left the set before its pack was published returns
   into the public pack unrated, because only created rows count as new.

## 5 Known exposures

Interleavings the models contain, seen as TLC counterexamples of stronger properties during
development, and a few cases the models exclude. No property of a passing run claims their absence.

- `hardDeleteStaleTelegramStickers` lists its victims once. An import that restores one afterwards
  loses the row and the file; `MirrorsSharedRows` therefore exempts rows that were swept away.
- `hardDeleteOldStickers` deletes by an id listed earlier: a sticker an import restored meanwhile goes.
- `cleanupOrphanedTelegramPacks`: a user who subscribes after the list was made keeps a live pack whose
  `telegramPackId` becomes NULL; a sticker imported after the set's files were listed loses its row but
  not its file (`strays`).
- A file whose deletion fails is logged and forgotten: after a rollback, a purge or a sweep it stays on
  storage without a row (`strays` in `TelegramLibrary`, `undeleted` in `ImportJobs`).
- The progress columns of the job row are never reset: a retry shows the numbers of the attempt before
  until its own first update lands, `failed` until a sticker is stored or fails. Workers that a throw
  left behind go on writing the row beside the retry's. Nothing in the code reads the columns.
- `publishConfirm` validates two awaits before it writes: a rating reset, or an import committed, in
  between is published. The edit-pack modal writes the visibility it read and can re-publish a pack
  that an import or another tab made private in between.
- After the last retry nobody marks the `ImportJob` FAILED: an import that threw or crashed keeps its
  active status, and the check for an import in progress refuses the user's and the set's next ones.
  `RefusedOnlyInProgress` says that nothing but a fault does this.
- A retry that starts after a slow first attempt completed sets the finished job back to FETCHING.
- A rating can be put back to the pack default in a pack that is already public.
- Two `/import-telegram-pack` commands in two shards can both pass the check for an active import and
  create two jobs of one set (`raced`); rows and files still agree (`RowsHaveFiles`).
- An attempt that is cut off (thrown, crashed) forgets the files it stored; the retry stores them
  again, and the first copies stay on storage (`strays`; in `ImportJobs` the attempt is `"lost"`).
- FAILED is written before `cleanUpFreshlyCreatedPack`; the user's next import, let in by it, may find
  the pack and lose it to the cleanup.
- One video sticker that ffmpeg rejects with "Could not find codec parameters" is taken for a missing
  Chromium (`TakenForMissingChromium` in `ImportPool`, handler line 272): the rest of the animated
  stickers is skipped, and line 171 tells the user that ffmpeg or Chromium was not found.
- Two syncs of one pack may reach the index in the opposite order of their reads, and a batch of the
  reconcile may arrive after the sync of a later write: the index keeps the older document, or that of
  a deleted sticker, until the next reconcile. Searches read every candidate from the
  database again before they show it, so a sticker can be hidden by this, not exposed.
- The reconcile pages with `cursor` and `skip: 1`. If the cursor's sticker is deleted between two
  batches, the skip falls on the next live sticker: its document is taken for stale and deleted, and
  it cannot be found for 15 minutes. The same befalls a sticker created or restored behind the cursor.
- An import that changes only the emoji of a Telegram sticker changes the display name of the stickers
  that mirror it without a sync, although `searchable-store.ts:5-7` says that everything the index
  depends on flows through the store.
- Two reorders of one pack that overlap: the second one's `SELECT ... ORDER BY ... FOR UPDATE` has
  sorted the rows before it waits for the locks, so it writes the order it saw and the first move is
  lost, although both users read that their sticker was moved. If a sticker was created in between
  that only the first reorder saw, two stickers share a place (`loose`).
- A new sticker's place is the number of the pack's rows: after a purge, or when two are created at
  once, two stickers share a place until the next reorder.
- Names are counted and then written, and no unique index stands behind the count: two modals at once
  can take one name (`NamesDistinct` is claimed while `~disturbed`). Renaming counts deleted stickers
  too and answers "already exists in this pack"; creating does not count them.
- Two replacements of one sticker at once both delete the file they read first; the file that lost
  stays on storage. So does a file stored for a modal that then fails.
- With the upload API, a sticker "replaced" by its own URL loses its file: the URL is taken as given,
  then the previous file, which is the same, is deleted. In `OwnedPack` a URL is never one of the bot's
  own files (`External`).
- A step of the review or of the mass edit reads the sticker on show and then the list: if that sticker
  is deleted in between, the walk ends early with "Done". The pages go by position, so a deletion
  while somebody pages moves a sticker to a page already seen; so does a rating that hides a sticker from
  a preview, or one put in before the end.
- On an empty pack "every sticker is rated" is true, so Publish is offered, and then refused.
- A metadata modal writes every field it was filled in with: of two that are open for one sticker, the
  later undoes what the earlier changed, also in fields its user left alone.
- "Already up to date" compares the sticker's `updatedAt` with the row's, both kept in whole seconds, and
  the row's is the time of the write, not of the read: a change while a send or a refresh is under
  way, or in the second of the mark, is not noticed until the next change. A change of the pack's
  rating alone is never noticed (not modelled).
- A message recorded after `/delete-sticker` has read its list stays. So do all of them if the post to
  the feed (delete-sticker.modal-handler.ts:131) or the process fails before the sends, which
  nothing repeats.
- A worker that dies after Discord deleted the message and before the row is marked finds on the retry
  that both calls fail; the row stays live and is counted until the sticker is purged.
- The delete through the webhook passes the id of the interaction where Discord expects that of the
  application (update-message.queue-handler.ts:35), so it is taken to fail or succeed freely, and the
  channel delete is what can be relied on. The action `update`, which nobody sends, swaps message and
  channel id at line 123.
- The Delete button's refusal to anyone but the sender uses `followUp` before the interaction was
  deferred (sticker-button.component-handler.ts:39).

## 6 What is proved

For all values of the constants, from the named assumptions in the modules (`PoolAssumption`,
`LibraryAssumption`, `JobsAssumption`, `SearchAssumption`, `OwnedAssumption`,
`MessagesAssumption`, `ScreensAssumption`). Each theorem follows from `Init => IInv`,
`IInv /\ [Next]_vars => IInv'` and `IInv => property`; each conjunct of an invariant has its own
lemma with one step per action. An action property follows from `IInv /\ [Next]_vars => A`. No
theorem has a further hypothesis.

- `ImportPoolProofs`: `TypeCorrect`, `NoStickerTwice`, `CountersCorrect`, `DrainCorrect`,
  `RendererCorrect`, `JobRowCorrect`, `Implementation` (every step of the pool is a step of `SetSync`
  or a stutter). The invariant is strengthened by: entries at or above `nextIndex` are open; an open
  entry below it is held by exactly one worker; a worker in `saved` has its file stored and not yet
  recorded; values in flight to the job row are at most the counters; a sticker that is settled as stored
  or failed has its update in flight or landed (`RowShowsThisAttempt` speaks of the moment none is left).
- `TelegramLibraryProofs`: `TypeCorrect`, `MirrorCorrect`: the mirror invariant with all four sweeps
  and any number of ids. The strengthening relates what the import remembers (`new`, `restored`,
  `stale`, `subscribers`) to the rows at the time it commits.
  `NoFileLeftBehind` (`FilesInv`), with every sweep and fault: the sweep of stale stickers removes a file
  before its row, so between the two its victim has none but a stray (`StaleVictims`), and what it listed
  are rows that are never unused again. The sweep of orphaned packs removes the files it listed and then
  every row of the set, so between the two every row of the set is one it listed, or its file is a stray
  (`OrphanVictims`).
  `NoSubscriberLeftOut` (`OnePresent`): one Telegram pack at most is present, and every existing row is
  of it; only therefore is what the import commits all there is to show. `OnlyRemovedDisappear`:
  what an import retires is not in the set it fetched (`StaleUnserved`); what it commits restores every
  other sticker; and what the sweep of expired
  packs empties stays buried (`PackVictims`).
- `PublishPackProofs`: `TypeCorrect`, `OneCopy`, `EditsSurvive`, `Reviewed`, `NothingNewExposed`. The
  last two need that, without overlap, what a handler in flight has read still holds: for the publish
  button the ratings (`ReadsHold`), for an import the subscribers and which of them are public
  (`ImportKnows`).
- `ImportJobsProofs`: `TypeCorrect`, `FilesPresent`, `NothingLeaked`, `RowsKept`. The strengthening
  ties each attempt's `new` to the files it stored, and rows to attempts that have committed.
  `RefusedForAReason` (`StatusInv`): a job is PENDING until one of its attempts starts, and any other
  active status is one whose attempt is at work or has died. `OneImportAtATime` (`TurnInv`): beside
  a command that has passed its check, every active job has been retried or is of a command it raced
  with; a job that has not been retried, and waits for its first attempt, is active already, so no first
  attempt makes a second job active behind the check.
- `SearchIndexProofs`: `TypeCorrect` and `AtRest`. `AtRestCurrent` says nothing while something is
  under way, so the invariant does: `SyncsCover` accounts for every document that is not what it
  should be by the one sync that will repair it, `ReconcileCovers` for what an undisturbed reconcile
  has seen up to its cursor, indexed, and found stale. The batch step needs that `FirstOf` is closed
  downwards, a fact about cardinalities. `BothSearchesAgree` speaks of what is shown, but must hold
  from the moment the index answers (`FreshAgrees`): an index that is current then gives what Postgres
  gives, verifying removes nothing, and any write ends the claim.
- `OwnedPackProofs`: `TypeCorrect`, `ShownHaveFiles`, `PlacesApart`. `ShownHaveFiles` needs that no file
  belongs to two rows, to a row and a handler about to write it, or to two such handlers, and that what
  a handler is about to delete is no live row's file. `PlacesApart` needs three facts (`OrderInv`): every
  place in a pack lies below the number of its rows, a handler about to create has counted just that
  number, and a reorder that is not stale has listed everything but what lies behind. Then a reorder
  gives `0 .. n-1` to the `n` it lists (`PlacesDistinct`: it sorts by a key) and stays below the rest.
  `OneMoves`: the listed stickers get the places of the sorted list with the one taken out and put back
  beside its target, and if none overtook it the rows still carry the order it sorted (`Sorted`).
  `NoTwoOfOneName` (`NamesInv`): the name a handler has checked is still free when it writes, because it
  is the only one at work. `NoFileForgotten` (`CarryInv`, `RefInv`): every await tells which file a
  handler holds and which it will delete; where it says the row is replaced, the old file is among
  the latter, and what it drops when it ends is in the row.
- `StickerMessagesProofs`: `TypeCorrect` and `UpToDateHolds`, for any number of stickers, messages and
  presses. The invariant (`ShownInv`) says that a message that is not overlapped and does not show its
  sticker as it is has a row older than the sticker, and that no handler is about to renew that row.
  It needs that the clock is behind no timestamp (`ClockInv`) and that what a handler read of a row is
  no newer than the row (`StepInv`).

- `PackScreensProofs`: `TypeCorrect`, `UnchangedModalsChangeNothing`, `NoBlankPage`, `EveryStickerIsShown`,
  for any stickers, page size and number of presses. `TypeOK` says that a position is never past the
  total shown with it, which needs that a counted total is at least one (`Answered`).
  `UntouchedRatingsStay` needs that what a modal was filled in with is the rating until somebody
  rates (`FilledInv`). `PageNeverBlank` needs that a count that is still fresh is that of the stickers
  to show (`CountInv`), and that no page of it is empty: division rounded up (`Division`), and that
  the stickers to show have the ranks `0 .. n-1`, each once (`EveryRank`, by counting). For
  `NothingPassedOver` the invariant follows the walk: whatever stands before the sticker on show, or
  before the one a handler is at, was shown or is excused (`StickerWalk`); and all that ranks before the
  page on show, or before the page a handler will ask for, was shown or is excused, and the pages
  counted have not become fewer (`PageWalk`). `KindInv` says that a handler that steps through pages
  is never one that steps through stickers. Removing a sticker keeps the order of the rest, and one
  added at the end ranks last (`Removed`, `Inserted`, `Appended`).

## 7 What is only model-checked

Liveness (`AbandonedSetsGo`, `ExpiredRowsGo`, `JobsEnd`, `Converges`, `ListedMessagesGo`,
`UsageConverges`): the prover does not handle fairness. Every other property of a passing run has a
theorem. The findings are counterexamples on small instances and
need no proof.

## 8 Not modelled

Discord, Telegram, ffmpeg, Chromium and pg-boss are outside the repository: their calls succeed or
fail in the ways the code tells apart. Command registration, localization, embeds and help texts are
data. The one-off scripts run with the bot idle. Pixels and encodings are out of scope. Prisma's
connection handling is taken to be at-most-once per call: a call that fails has not been applied.
The ranking of search results by usage (`compareStickerRank`) and `computeTgsRenderPlan` are pure
functions with unit tests of their own (`search-parity.test.ts`, `convert-sticker-to-gif.test.ts`).
A second queue-worker process beside the first is not modelled; overlapping attempts of one job are.

## 9 Plan

In order of importance, the modules and what is still to come of each:

| Module | Subject | State |
|---|---|---|
| `SetSync`, `ImportPool` | phase 1 and its abstract specification | done, safety and refinement proved |
| `TelegramLibrary` | shared rows, subscribers, sweeps that fail and are retried | done, safety proved |
| `PublishPack` | publishing and ratings | done, safety proved |
| `ImportJobs` | commands, queue, attempts | done, safety proved |
| `SearchIndex` | syncs after commit, lost syncs, reconcile, searching | done, safety proved |
| `OwnedPack` | creating packs and stickers, names, orders, files | done, safety proved |
| `PackScreens` | review, mass edit, pack pages | done, safety proved |
| `StickerMessages` | sent messages, their deletion and refresh, usage counts | done, safety proved |

Compositions: `ImportPool` refines `SetSync`; `TelegramLibrary` uses phase 1 in the form `SetSync`
allows; `SearchIndex` measures the index-backed search by the one that reads Postgres.

To come: that phase 1 as `TelegramLibrary` and `ImportJobs` use it is what `SetSync` allows, stated as
refinements and proved like `Implementation`.
