----------------------------- MODULE ImportPool -----------------------------
(***************************************************************************)
(* Phase 1 of telegramImportQueueHandler: a pool of async workers walks    *)
(* the sticker set, looks every sticker up in the database and downloads,  *)
(* converts and stores the ones the bot does not have yet.                 *)
(*                                                                         *)
(* JavaScript runs each worker without preemption between two awaits, so   *)
(* one action is the code from one await to the next; pc[w] names the      *)
(* await worker w is suspended in. A rejected await leaves the worker's    *)
(* promise rejected: Promise.all rejects at once, the finally block closes *)
(* the renderer, and the workers that are still suspended carry on.        *)
(***************************************************************************)
EXTENDS Integers, FiniteSets

CONSTANTS
  Total,              \* stickers in the set (the handler returns early on 0)
  ImportConcurrency   \* importConcurrency

ASSUME PoolAssumption ==
  /\ Total \in Nat \ {0}
  /\ ImportConcurrency \in Nat \ {0}

Entries == 0 .. Total - 1
Workers == 1 .. (IF ImportConcurrency < Total THEN ImportConcurrency ELSE Total)

Kinds == {"static", "animated", "video"}
RowStates == {"absent", "current", "changed"}
Inputs == [kind : Kinds, row : RowStates]
Outcomes == {"open", "existing", "created", "failed", "skipped"}

(* The awaits in which a worker holds an entry it has not settled yet. *)
Holding == {"lookup", "getFile", "download", "convert", "save", "saved"}
PCs == Holding \union {"free", "report", "done", "threw"}

(* A column an update of the job row leaves alone; of the row, one no update of
   this attempt has written: it shows what the row was created with, or what an
   earlier attempt of the job left in it. *)
Unwritten == -1

VARIABLES
  input,      \* per entry: its kind, and the bot's row for it
  ffmpeg,     \* the host has ffmpeg
  chromium,   \* the host has a Chromium that launches
  phase,      \* "pool" until Promise.all settles, then "drained" or "threw"
  nextIndex,
  pc,
  at,         \* the entry each worker took last
  tgsOff,     \* tgsConversionDisabled
  webmOff,    \* webmConversionDisabled
  renderer,
  completed,
  failedCount,
  skippedAnimatedCount,
  created,    \* createdFiles and createTelegramStickerRecords, by entry
  updated,    \* updateTelegramStickerRecords, by entry
  stored,     \* files written to storage, by entry
  write,      \* the update of the job row each worker last sent
  jobRow,     \* what this attempt made of the job's completed and failed columns
  outcome     \* history: how each entry was settled

host == <<input, ffmpeg, chromium>>
results == <<created, updated>>
counters == <<completed, failedCount, skippedAnimatedCount>>
vars == <<input, ffmpeg, chromium, phase, nextIndex, pc, at, tgsOff, webmOff,
          renderer, completed, failedCount, skippedAnimatedCount, created,
          updated, stored, write, jobRow, outcome>>

JobColumns == [completed : Nat \union {Unwritten}, failed : Nat \union {Unwritten}]

TypeOK ==
  /\ input \in [Entries -> Inputs]
  /\ ffmpeg \in BOOLEAN /\ chromium \in BOOLEAN
  /\ phase \in {"pool", "drained", "threw"}
  /\ nextIndex \in 0 .. Total
  /\ pc \in [Workers -> PCs]
  /\ at \in [Workers -> Entries]
  /\ tgsOff \in BOOLEAN /\ webmOff \in BOOLEAN
  /\ renderer \in {"none", "open", "closed"}
  /\ completed \in Nat /\ failedCount \in Nat /\ skippedAnimatedCount \in Nat
  /\ created \subseteq Entries /\ updated \subseteq Entries /\ stored \subseteq Entries
  /\ write \in [Workers -> JobColumns]
  /\ jobRow \in JobColumns
  /\ outcome \in [Entries -> Outcomes]

HasAnimated == \E e \in Entries : input[e].kind = "animated"

(* The renderer is launched only if the set has an animated sticker; a launch
   that fails disables .tgs conversion for the whole import. Neither FETCHING
   nor IMPORTING, written before the pool starts, touches the two columns. *)
Init ==
  /\ input \in [Entries -> Inputs]
  /\ ffmpeg \in BOOLEAN /\ chromium \in BOOLEAN
  /\ phase = "pool"
  /\ nextIndex = 0
  /\ pc = [w \in Workers |-> "free"]
  /\ at = [w \in Workers |-> 0]
  /\ tgsOff = (HasAnimated /\ ~chromium)
  /\ renderer = IF HasAnimated /\ chromium THEN "open" ELSE "none"
  /\ webmOff = FALSE
  /\ completed = 0 /\ failedCount = 0 /\ skippedAnimatedCount = 0
  /\ created = {} /\ updated = {} /\ stored = {}
  /\ write = [w \in Workers |-> [completed |-> Unwritten, failed |-> Unwritten]]
  /\ jobRow = [completed |-> Unwritten, failed |-> Unwritten]
  /\ outcome = [e \in Entries |-> "open"]

-----------------------------------------------------------------------------

GoTo(w, await) == pc' = [pc EXCEPT ![w] = await]

(* Slips the properties guard against stand just before the definition they
   are a slip of, and are not part of the specification. *)

(* The tail every branch of processSticker shares: completed++ and the update
   of the job row, sent with the values of this moment. *)
SettleAs(w, e, result, failedColumn) ==
  /\ outcome' = [outcome EXCEPT ![e] = result]
  /\ completed' = completed + 1
  /\ write' = [write EXCEPT ![w] = [completed |-> completed + 1, failed |-> failedColumn]]
  /\ GoTo(w, "report")

(* Slip: the check forgets to ask for the sticker's kind. *)
AnyConversionDisabled(e) == tgsOff \/ webmOff

ConversionDisabled(e) ==
  \/ input[e].kind = "animated" /\ tgsOff
  \/ input[e].kind = "video" /\ webmOff

(* runWorker takes the next entry and enters processSticker. *)
TakeEntry(w) ==
  /\ pc[w] = "free"
  /\ nextIndex < Total
  /\ nextIndex' = nextIndex + 1
  /\ at' = [at EXCEPT ![w] = nextIndex]

Lookup(w) ==
  /\ TakeEntry(w)
  /\ ~ConversionDisabled(nextIndex)
  /\ GoTo(w, "lookup")
  /\ UNCHANGED <<host, phase, tgsOff, webmOff, renderer, counters, results, stored,
                 write, jobRow, outcome>>

Skip(w) ==
  /\ TakeEntry(w)
  /\ ConversionDisabled(nextIndex)
  /\ skippedAnimatedCount' = skippedAnimatedCount + 1
  /\ SettleAs(w, nextIndex, "skipped", Unwritten)
  /\ UNCHANGED <<host, phase, tgsOff, webmOff, renderer, failedCount, results, stored, jobRow>>

FoundRow(w) ==
  /\ pc[w] = "lookup"
  /\ input[at[w]].row # "absent"
  /\ updated' = IF input[at[w]].row = "changed" THEN updated \union {at[w]} ELSE updated
  /\ SettleAs(w, at[w], "existing", Unwritten)
  /\ UNCHANGED <<host, phase, nextIndex, at, tgsOff, webmOff, renderer, failedCount,
                 skippedAnimatedCount, created, stored, jobRow>>

NoRow(w) ==
  /\ pc[w] = "lookup"
  /\ input[at[w]].row = "absent"
  /\ GoTo(w, "getFile")
  /\ UNCHANGED <<host, phase, nextIndex, at, tgsOff, webmOff, renderer, counters, results,
                 stored, write, jobRow, outcome>>

GotFilePath(w) ==
  /\ pc[w] = "getFile"
  /\ GoTo(w, "download")
  /\ UNCHANGED <<host, phase, nextIndex, at, tgsOff, webmOff, renderer, counters, results,
                 stored, write, jobRow, outcome>>

FailAs(w) ==
  /\ failedCount' = failedCount + 1
  /\ SettleAs(w, at[w], "failed", failedCount + 1)

GetFileFails(w) ==
  /\ pc[w] = "getFile"
  /\ FailAs(w)
  /\ UNCHANGED <<host, phase, nextIndex, at, tgsOff, webmOff, renderer, skippedAnimatedCount,
                 results, stored, jobRow>>

Downloaded(w) ==
  /\ pc[w] = "download"
  /\ GoTo(w, IF input[at[w]].kind = "static" THEN "save" ELSE "convert")
  /\ UNCHANGED <<host, phase, nextIndex, at, tgsOff, webmOff, renderer, counters, results,
                 stored, write, jobRow, outcome>>

Converted(w) ==
  /\ pc[w] = "convert"
  /\ ffmpeg
  /\ GoTo(w, "save")
  /\ UNCHANGED <<host, phase, nextIndex, at, tgsOff, webmOff, renderer, counters, results,
                 stored, write, jobRow, outcome>>

(* isFfmpegUnavailableError: spawning ffmpeg or ffprobe fails with ENOENT. *)
FfmpegMissing(w) ==
  /\ pc[w] = "convert"
  /\ ~ffmpeg
  /\ tgsOff' = TRUE /\ webmOff' = TRUE
  /\ skippedAnimatedCount' = skippedAnimatedCount + 1
  /\ SettleAs(w, at[w], "skipped", failedCount)
  /\ UNCHANGED <<host, phase, nextIndex, at, renderer, failedCount, results, stored, jobRow>>

(* isChromiumUnavailableError looks for a phrase in the message of any
   conversion error, and the message of a failed ffmpeg command carries what
   ffmpeg wrote to stderr, "Could not find codec parameters" included. *)
TakenForMissingChromium(w) ==
  /\ pc[w] = "convert"
  /\ ffmpeg
  /\ tgsOff' = TRUE
  /\ skippedAnimatedCount' = skippedAnimatedCount + 1
  /\ SettleAs(w, at[w], "skipped", failedCount)
  /\ UNCHANGED <<host, phase, nextIndex, at, webmOff, renderer, failedCount, results, stored,
                 jobRow>>

ConversionFails(w) ==
  /\ pc[w] = "convert"
  /\ FailAs(w)
  /\ UNCHANGED <<host, phase, nextIndex, at, tgsOff, webmOff, renderer, skippedAnimatedCount,
                 results, stored, jobRow>>

(* saveStickerFile: the file is on storage before its promise resolves. *)
SaveFile(w) ==
  /\ pc[w] = "save"
  /\ stored' = stored \union {at[w]}
  /\ GoTo(w, "saved")
  /\ UNCHANGED <<host, phase, nextIndex, at, tgsOff, webmOff, renderer, counters, results,
                 write, jobRow, outcome>>

(* Slip: the row is recorded and the file is not pushed onto createdFiles. *)
RecordNothing(w) ==
  /\ pc[w] = "saved"
  /\ SettleAs(w, at[w], "created", failedCount)
  /\ UNCHANGED <<host, phase, nextIndex, at, tgsOff, webmOff, renderer, failedCount,
                 skippedAnimatedCount, results, stored, jobRow>>

(* Slip: stickers are numbered from one. *)
RecordFileFromOne(w) ==
  /\ pc[w] = "saved"
  /\ created' = created \union {at[w] + 1}
  /\ SettleAs(w, at[w], "created", failedCount)
  /\ UNCHANGED <<host, phase, nextIndex, at, tgsOff, webmOff, renderer, failedCount,
                 skippedAnimatedCount, updated, stored, jobRow>>

RecordFile(w) ==
  /\ pc[w] = "saved"
  /\ created' = created \union {at[w]}
  /\ SettleAs(w, at[w], "created", failedCount)
  /\ UNCHANGED <<host, phase, nextIndex, at, tgsOff, webmOff, renderer, failedCount,
                 skippedAnimatedCount, updated, stored, jobRow>>

(* Slip: a column the update does not mention is overwritten too. *)
ColumnOverwritten(old, new) == new

Column(old, new) == IF new = Unwritten THEN old ELSE new

(* The update of the job row lands. The workers' updates travel on separate
   connections of the pool, so they land in any order. *)
Reported(w) ==
  /\ pc[w] = "report"
  /\ jobRow' = [completed |-> Column(jobRow.completed, write[w].completed),
                failed |-> Column(jobRow.failed, write[w].failed)]
  /\ GoTo(w, "free")
  /\ UNCHANGED <<host, phase, nextIndex, at, tgsOff, webmOff, renderer, counters, results,
                 stored, write, outcome>>

WorkerEnds(w) ==
  /\ pc[w] = "free"
  /\ nextIndex = Total
  /\ GoTo(w, "done")
  /\ UNCHANGED <<host, phase, nextIndex, at, tgsOff, webmOff, renderer, counters, results,
                 stored, write, jobRow, outcome>>

CloseRenderer == renderer' = IF renderer = "open" THEN "closed" ELSE renderer

(* An await nothing catches rejects: a database call, the file download or
   saveStickerFile. *)
Throw(w) ==
  /\ pc[w] \in {"lookup", "download", "save", "report"}
  /\ GoTo(w, "threw")
  /\ phase' = "threw"
  /\ CloseRenderer
  /\ UNCHANGED <<host, nextIndex, at, tgsOff, webmOff, counters, results, stored, write,
                 jobRow, outcome>>

(* Promise.all resolves. *)
Drain ==
  /\ phase = "pool"
  /\ \A w \in Workers : pc[w] = "done"
  /\ phase' = "drained"
  /\ CloseRenderer
  /\ UNCHANGED <<host, nextIndex, pc, at, tgsOff, webmOff, counters, results, stored, write,
                 jobRow, outcome>>

Step(w) ==
  \/ Lookup(w) \/ Skip(w)
  \/ FoundRow(w) \/ NoRow(w)
  \/ GotFilePath(w) \/ GetFileFails(w)
  \/ Downloaded(w)
  \/ Converted(w) \/ FfmpegMissing(w) \/ TakenForMissingChromium(w) \/ ConversionFails(w)
  \/ SaveFile(w) \/ RecordFile(w)
  \/ Reported(w)
  \/ WorkerEnds(w)

Next ==
  \/ \E w \in Workers : Step(w) \/ Throw(w)
  \/ Drain

Spec == Init /\ [][Next]_vars

-----------------------------------------------------------------------------

SettledAs(o) == {e \in Entries : outcome[e] = o}
Settled == {e \in Entries : outcome[e] # "open"}

(* nextIndex++ hands every sticker to one worker: two workers never process
   the same sticker, and a sticker in progress has not been settled. *)
OneWorkerPerSticker ==
  \A w \in Workers : pc[w] \in Holding =>
    /\ outcome[at[w]] = "open"
    /\ \A v \in Workers \ {w} : pc[v] \in Holding => at[v] # at[w]

(* The counters the progress bar and the summary are built from agree with
   what happened to the stickers, whichever of the five branches of
   processSticker settled them. *)
CountersAgree ==
  /\ completed = Cardinality(Settled)
  /\ failedCount = Cardinality(SettledAs("failed"))
  /\ skippedAnimatedCount = Cardinality(SettledAs("skipped"))

(* Phase 2 starts only after Promise.all resolves. By then every sticker has
   been settled, and createdFiles names every file this delivery wrote, so
   that the rollback of phase 2 can delete them all. *)
DrainedIsComplete ==
  phase = "drained" =>
    /\ completed = Total
    /\ created = stored
    /\ created = SettledAs("created")

(* convertTgsToGif gets renderer!, and the finally block closes the renderer:
   while the import goes on, an animated sticker that reaches conversion finds
   the renderer launched and not closed. *)
RendererOpenForConversion ==
  \A w \in Workers :
    pc[w] = "convert" /\ input[at[w]].kind = "animated" /\ phase # "threw"
      => renderer = "open"

(* The job row comes to show this attempt and nothing it has not done. A retry
   finds the columns as an earlier attempt left them, the workers' updates
   overtake each other, and most of them leave failed alone: still, none shows
   more stickers done, or failed, than there are, and when phase 2 starts the
   columns are this attempt's, failed at least if a sticker was stored or
   failed. *)
RowShowsThisAttempt ==
  /\ jobRow.completed <= completed
  /\ jobRow.failed <= failedCount
  /\ phase = "drained" =>
       /\ jobRow.completed # Unwritten
       /\ SettledAs("created") \union SettledAs("failed") # {} => jobRow.failed # Unwritten

(* The pool carries out SetSync: no sticker is settled twice, no file is
   stored twice or for a sticker the bot already has, and the phase drains
   only when nothing is left open. *)
Abstract == INSTANCE SetSync
  WITH Total <- Total, input <- input, outcome <- outcome, stored <- stored, phase <- phase
ImplementsSetSync == Abstract!Spec
=============================================================================
