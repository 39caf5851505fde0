------------------------------- MODULE ImportJobs -------------------------------
(***************************************************************************)
(* The life of an import of one Telegram sticker set: the command that     *)
(* creates the packs and the ImportJob row, the pg-boss queue that         *)
(* delivers the job at least once, and the handler that works on it. An    *)
(* attempt that throws, that outlives its expiry or that dies with its     *)
(* process is followed by another one of the same job; an expired attempt  *)
(* goes on beside its successor.                                           *)
(*                                                                         *)
(* A command names the ImportJob and the Pack it creates. A file is named  *)
(* by the attempt that stored it and the sticker it is of. Subscribers,    *)
(* restored and removed stickers and the sweeps are the subject of         *)
(* TelegramLibrary; of the sweep that takes a Telegram pack away, only     *)
(* what an attempt then finds is here.                                     *)
(***************************************************************************)
EXTENDS Integers

CONSTANTS
  Commands,   \* uses of /import-telegram-pack for the set
  Issuer,     \* the user behind each command
  Keys,       \* the stickers of the set
  MaxTries,   \* pg-boss's retryLimit + 1
  Faults,     \* what may go wrong: a subset of AllFaults
  None

AllFaults == {"send", "throw", "expire", "crash", "delete"}

ASSUME JobsAssumption ==
  /\ MaxTries \in Nat \ {0}
  /\ Faults \subseteq AllFaults
  /\ None \notin Commands \union (Commands \X (1 .. MaxTries))

VARIABLES
  known,      \* the TelegramPack row exists
  packs,      \* Pack rows
  filled,     \* packs with live stickers
  rows,       \* for each sticker, the attempt its TelegramSticker row is of
  files,      \* files on storage
  status,     \* ImportJob.status
  cmd,        \* command handlers
  queue,      \* pg-boss jobs
  handler,    \* attempts of telegramImportQueueHandler
  raced,      \* history: commands one of which made its check while the other,
              \* past its own, had not created its job
  undeleted   \* history: files a rollback failed to delete

history == <<raced, undeleted>>
vars == <<known, packs, filled, rows, files, status, cmd, queue, handler, raced, undeleted>>

Attempts == Commands \X (1 .. MaxTries)

ActiveStatuses == {"PENDING", "FETCHING", "IMPORTING", "FINALIZING"}
FinalStatuses == {"COMPLETED", "FAILED"}
Statuses == ActiveStatuses \union FinalStatuses \union {"none", "ROLLING_BACK"}

Unborn == [pc |-> "none", todo |-> {}, new |-> {}]
Busy == {"start", "fetch", "phase1", "transaction", "rollback", "count", "cleanup", "complete"}

CmdStates ==
  [pc : {"new", "check", "telegramPack", "pack", "job", "send", "done"},
   known : BOOLEAN, pack : Commands \union {None}]
QueueStates == [state : {"none", "waiting", "active", "done", "failed"}, tries : 0 .. MaxTries]
HandlerStates == [pc : Busy \union {"none", "ended", "lost"}, todo : SUBSET Keys, new : SUBSET Keys]

HistoryOK ==
  /\ raced \subseteq SUBSET Commands
  /\ undeleted \subseteq Attempts \X Keys

TypeOK ==
  /\ known \in BOOLEAN
  /\ packs \in [Commands -> {"none", "live", "deleted"}]
  /\ filled \subseteq Commands
  /\ rows \in [Keys -> Attempts \union {None}]
  /\ files \subseteq Attempts \X Keys
  /\ status \in [Commands -> Statuses]
  /\ cmd \in [Commands -> CmdStates]
  /\ queue \in [Commands -> QueueStates]
  /\ handler \in [Attempts -> HandlerStates]
  /\ HistoryOK

Init ==
  /\ known = FALSE
  /\ packs = [c \in Commands |-> "none"]
  /\ filled = {}
  /\ rows = [k \in Keys |-> None]
  /\ files = {}
  /\ status = [c \in Commands |-> "none"]
  /\ cmd = [c \in Commands |-> [pc |-> "new", known |-> FALSE, pack |-> None]]
  /\ queue = [c \in Commands |-> [state |-> "none", tries |-> 0]]
  /\ handler = [a \in Attempts |-> Unborn]
  /\ raced = {} /\ undeleted = {}

Active(c) == status[c] \in ActiveStatuses
Running(a) == handler[a].pc \in Busy

(* The attempt pg-boss waits for, rather than one it has given up. *)
Current(a) == queue[a[1]].state = "active" /\ queue[a[1]].tries = a[2]

-----------------------------------------------------------------------------
(* importTelegramPackCommand.handle *)

CmdGoTo(c, await) == cmd' = [cmd EXCEPT ![c].pc = await]
OwnPacks(c) == {p \in Commands : packs[p] = "live" /\ Issuer[p] = Issuer[c]}

CmdLookup(c) ==
  /\ cmd[c].pc = "new"
  /\ \E pack \in OwnPacks(c) \union {None} :
       /\ pack = None => OwnPacks(c) = {}
       /\ cmd' = [cmd EXCEPT ![c] = [pc |-> "check", known |-> known, pack |-> pack]]
  /\ UNCHANGED <<known, packs, filled, rows, files, status, queue, handler, history>>

(* Commands that have found no import and not created their own job yet. *)
Checked == {d \in Commands : cmd[d].pc \in {"telegramPack", "pack", "job"}}

PassCheck(c) ==
  /\ CmdGoTo(c, IF cmd[c].known THEN "pack" ELSE "telegramPack")
  /\ raced' = raced \union {{c, d} : d \in Checked}

(* Slip: a job that waits in the queue is not yet active. *)
CmdCheckStarted(c) ==
  /\ cmd[c].pc = "check"
  /\ IF \E d \in Commands : Active(d) /\ status[d] # "PENDING"
       THEN CmdGoTo(c, "done") /\ UNCHANGED raced
       ELSE PassCheck(c)
  /\ UNCHANGED <<known, packs, filled, rows, files, status, queue, handler, undeleted>>

(* No import of the user's own, none of the set. *)
CmdCheck(c) ==
  /\ cmd[c].pc = "check"
  /\ IF \E d \in Commands : Active(d)
       THEN CmdGoTo(c, "done") /\ UNCHANGED raced
       ELSE PassCheck(c)
  /\ UNCHANGED <<known, packs, filled, rows, files, status, queue, handler, undeleted>>

(* The name is unique: the second of two commands to create the row throws. *)
CmdCreateTelegramPack(c) ==
  /\ cmd[c].pc = "telegramPack"
  /\ CmdGoTo(c, IF known THEN "done" ELSE "pack")
  /\ known' = TRUE
  /\ UNCHANGED <<packs, filled, rows, files, status, queue, handler, history>>

CmdPack(c) ==
  /\ cmd[c].pc = "pack"
  /\ IF cmd[c].pack = None
       THEN /\ packs' = [packs EXCEPT ![c] = "live"]
            /\ cmd' = [cmd EXCEPT ![c].pc = "job", ![c].pack = c]
       ELSE CmdGoTo(c, "job") /\ UNCHANGED packs
  /\ UNCHANGED <<known, filled, rows, files, status, queue, handler, history>>

CmdJob(c) ==
  /\ cmd[c].pc = "job"
  /\ status' = [status EXCEPT ![c] = "PENDING"]
  /\ CmdGoTo(c, "send")
  /\ UNCHANGED <<known, packs, filled, rows, files, queue, handler, history>>

CmdSend(c) ==
  /\ cmd[c].pc = "send"
  /\ queue' = [queue EXCEPT ![c].state = "waiting"]
  /\ CmdGoTo(c, "done")
  /\ UNCHANGED <<known, packs, filled, rows, files, status, handler, history>>

(* The send fails, or the process ends before it. *)
CmdSendFails(c) ==
  /\ "send" \in Faults
  /\ cmd[c].pc = "send"
  /\ CmdGoTo(c, "done")
  /\ UNCHANGED <<known, packs, filled, rows, files, status, queue, handler, history>>

Command(c) ==
  \/ CmdLookup(c) \/ CmdCheck(c) \/ CmdCreateTelegramPack(c) \/ CmdPack(c) \/ CmdJob(c) \/ CmdSend(c)
  \/ CmdSendFails(c)

-----------------------------------------------------------------------------
(* pg-boss: one worker fetches one job at a time. *)

Deliver(c) ==
  LET a == <<c, queue[c].tries + 1>>
  IN  /\ queue[c].state = "waiting"
      /\ \A b \in Attempts : ~(Current(b) /\ Running(b))
      /\ queue' = [queue EXCEPT ![c] = [state |-> "active", tries |-> @.tries + 1]]
      /\ handler' = [handler EXCEPT ![a].pc = "start"]
      /\ UNCHANGED <<known, packs, filled, rows, files, status, cmd, history>>

(* Slip: the retries are not counted. *)
RetryForEver(c) == [queue EXCEPT ![c].state = IF @ = "active" THEN "waiting" ELSE @]

Retry(c) == [queue EXCEPT ![c].state = IF queue[c].tries < MaxTries THEN "waiting" ELSE "failed"]

(* A job that takes too long is retried or failed, its handler runs on; so is
   one whose process died. *)
Expire(c) ==
  /\ queue[c].state = "active"
  /\ "expire" \in Faults \/ ~Running(<<c, queue[c].tries>>)
  /\ queue' = Retry(c)
  /\ UNCHANGED <<known, packs, filled, rows, files, status, cmd, handler, history>>

Crash ==
  /\ "crash" \in Faults
  /\ \E a \in Attempts : Running(a)
  /\ handler' = [a \in Attempts |-> IF Running(a) THEN [handler[a] EXCEPT !.pc = "lost"] ELSE handler[a]]
  /\ UNCHANGED <<known, packs, filled, rows, files, status, cmd, queue, history>>

-----------------------------------------------------------------------------
(* telegramImportQueueHandler *)

Pack(a) == cmd[a[1]].pack
SetStatus(a, s) == status' = [status EXCEPT ![a[1]] = s]
GoTo(a, await) == handler' = [handler EXCEPT ![a].pc = await]

(* The handler returns; pg-boss completes the job unless it has given up. *)
Return(a) ==
  /\ GoTo(a, "ended")
  /\ queue' = IF Current(a) THEN [queue EXCEPT ![a[1]].state = "done"] ELSE queue

(* An await that is not guarded rejects, and so does the handler. *)
Throw(a) ==
  /\ "throw" \in Faults
  /\ Running(a)
  /\ GoTo(a, "lost")
  /\ queue' = IF Current(a) THEN Retry(a[1]) ELSE queue
  /\ UNCHANGED <<known, packs, filled, rows, files, status, cmd, history>>

(* The job is there, for no pack is old enough to be swept away with its jobs.
   Its pack has lost its Telegram pack if the sweep of orphaned ones listed it
   before the pack was created or after it was deleted. *)
Start(a) ==
  /\ handler[a].pc = "start"
  /\ \/ SetStatus(a, "FETCHING") /\ GoTo(a, "fetch") /\ UNCHANGED queue
     \/ SetStatus(a, "FAILED") /\ Return(a)
  /\ UNCHANGED <<known, packs, filled, rows, files, cmd, history>>

(* Slip: a set Telegram does not know is only logged. *)
FetchLogged(a) ==
  /\ handler[a].pc = "fetch"
  /\ \/ /\ SetStatus(a, "IMPORTING")
        /\ handler' = [handler EXCEPT ![a].pc = "phase1", ![a].todo = Keys]
     \/ GoTo(a, "count") /\ UNCHANGED status
  /\ UNCHANGED <<known, packs, filled, rows, files, cmd, queue, history>>

Fetch(a) ==
  /\ handler[a].pc = "fetch"
  /\ \/ /\ SetStatus(a, "IMPORTING")
        /\ handler' = [handler EXCEPT ![a].pc = "phase1", ![a].todo = Keys]
     \/ SetStatus(a, "FAILED") /\ GoTo(a, "count")
  /\ UNCHANGED <<known, packs, filled, rows, files, cmd, queue, history>>

(* A sticker is found, is skipped or fails, or has its file stored. *)
Sticker(a, k) ==
  /\ handler[a].pc = "phase1"
  /\ k \in handler[a].todo
  /\ \/ /\ handler' = [handler EXCEPT ![a].todo = @ \ {k}]
        /\ UNCHANGED files
     \/ /\ rows[k] = None
        /\ handler' = [handler EXCEPT ![a].todo = @ \ {k}, ![a].new = @ \union {k}]
        /\ files' = files \union {<<a, k>>}
  /\ UNCHANGED <<known, packs, filled, rows, status, cmd, queue, history>>

Finalize(a) ==
  /\ handler[a].pc = "phase1"
  /\ handler[a].todo = {}
  /\ SetStatus(a, "FINALIZING")
  /\ GoTo(a, "transaction")
  /\ UNCHANGED <<known, packs, filled, rows, files, cmd, queue, history>>

(* The transaction creates the rows, which are unique, and fills every live
   pack of the set. *)
Commit(a) ==
  /\ handler[a].pc = "transaction"
  /\ \A k \in handler[a].new : rows[k] = None
  /\ rows' = [k \in Keys |-> IF k \in handler[a].new THEN a ELSE rows[k]]
  /\ filled' = IF \E k \in Keys : rows'[k] # None THEN filled \union {p \in Commands : packs[p] = "live"} ELSE filled
  /\ GoTo(a, "complete")
  /\ UNCHANGED <<known, packs, files, status, cmd, queue, history>>

Abort(a) ==
  /\ handler[a].pc = "transaction"
  /\ IF handler[a].new = {}
       THEN SetStatus(a, "FAILED") /\ GoTo(a, "count")
       ELSE SetStatus(a, "ROLLING_BACK") /\ GoTo(a, "rollback")
  /\ UNCHANGED <<known, packs, filled, rows, files, cmd, queue, history>>

(* Slip: files are named by their sticker, whoever stored them. *)
RollbackByName(a) ==
  /\ handler[a].pc = "rollback"
  /\ files' = {f \in files : f[2] \notin handler[a].new}
  /\ SetStatus(a, "FAILED")
  /\ GoTo(a, "count")
  /\ UNCHANGED <<known, packs, filled, rows, cmd, queue, history>>

(* Slip: the last file is passed over. *)
RollbackAllButOne(a) ==
  /\ handler[a].pc = "rollback"
  /\ \E k \in handler[a].new : files' = files \ ({a} \X (handler[a].new \ {k}))
  /\ SetStatus(a, "FAILED")
  /\ GoTo(a, "count")
  /\ UNCHANGED <<known, packs, filled, rows, cmd, queue, history>>

(* A deletion that fails is logged, and the next file's turn comes. *)
Rollback(a) ==
  /\ handler[a].pc = "rollback"
  /\ \E left \in SUBSET ({a} \X handler[a].new) :
       /\ left # {} => "delete" \in Faults
       /\ files' = files \ (({a} \X handler[a].new) \ left)
       /\ undeleted' = undeleted \union left
  /\ SetStatus(a, "FAILED")
  /\ GoTo(a, "count")
  /\ UNCHANGED <<known, packs, filled, rows, cmd, queue, raced>>

(* cleanUpFreshlyCreatedPack: two awaits. *)
Count(a) ==
  /\ handler[a].pc = "count"
  /\ IF Pack(a) \in filled THEN Return(a) ELSE GoTo(a, "cleanup") /\ UNCHANGED queue
  /\ UNCHANGED <<known, packs, filled, rows, files, status, cmd, history>>

CleanUp(a) ==
  /\ handler[a].pc = "cleanup"
  /\ packs' = [packs EXCEPT ![Pack(a)] = "deleted"]
  /\ Return(a)
  /\ UNCHANGED <<known, filled, rows, files, status, cmd, history>>

Complete(a) ==
  /\ handler[a].pc = "complete"
  /\ SetStatus(a, "COMPLETED")
  /\ Return(a)
  /\ UNCHANGED <<known, packs, filled, rows, files, cmd, history>>

Handle(a) ==
  \/ Start(a) \/ Fetch(a) \/ (\E k \in Keys : Sticker(a, k)) \/ Finalize(a) \/ Commit(a) \/ Abort(a)
  \/ Rollback(a) \/ Count(a) \/ CleanUp(a) \/ Complete(a)

-----------------------------------------------------------------------------

(* All commands are used up and nothing is left to do. *)
Over ==
  /\ \A c \in Commands : cmd[c].pc = "done" /\ queue[c].state \in {"none", "done", "failed"}
  /\ \A a \in Attempts : ~Running(a)
  /\ UNCHANGED vars

Next ==
  \/ \E c \in Commands : Command(c) \/ Deliver(c) \/ Expire(c)
  \/ \E a \in Attempts : Handle(a) \/ Throw(a)
  \/ Crash
  \/ Over

Spec == Init /\ [][Next]_vars

(* A command that is being handled goes on, the worker fetches what waits,
   pg-boss notices jobs that run late, and every await of a handler settles. *)
FairSpec ==
  /\ Spec
  /\ \A c \in Commands : WF_vars(cmd[c].pc # "new" /\ Command(c)) /\ WF_vars(Deliver(c)) /\ WF_vars(Expire(c))
  /\ \A a \in Attempts : WF_vars(Handle(a))

-----------------------------------------------------------------------------

(* A TelegramSticker row points at a file that is there, whatever attempts
   run beside each other and whichever of them roll back. *)
RowsHaveFiles == \A k \in Keys : rows[k] # None => <<rows[k], k>> \in files

(* No attempt that ends, completed or failed, forgets a file: one it stored has
   its row, or the attempt tried to delete it and could not. *)
NoLeakOnReturn ==
  \A a \in Attempts, k \in Keys :
    handler[a].pc = "ended" /\ <<a, k>> \in files => rows[k] = a \/ <<a, k>> \in undeleted

(* telegramPackId_telegramFileUniqueId is unique: once a sticker has a row,
   no other attempt replaces it. *)
RowsStay == [][\A k \in Keys : rows[k] # None => rows'[k] = rows[k]]_vars

(* "An import is already in progress for this Telegram pack": the check and the
   creation of the job are separate awaits, so two imports of the set may be
   active; but then pg-boss has started one of them over, or one command made
   its check between the other's check and the creation of its job. No other
   order of commands, sends, deliveries and failures gets two through. *)
Retried(c) == queue[c].tries > 1
OneImport ==
  \A c, d \in Commands : Active(c) /\ Active(d) => c = d \/ Retried(c) \/ Retried(d) \/ {c, d} \in raced

(* Every ImportJob ends, unless its send failed or one of its attempts threw or
   died: what befalls another import of the set does not keep it. *)
Struck(c) ==
  \/ cmd[c].pc = "done" /\ queue[c].state = "none"
  \/ \E n \in 1 .. MaxTries : handler[<<c, n>>].pc = "lost"
JobsEnd == \A c \in Commands : status[c] = "PENDING" ~> (status[c] \in FinalStatuses \/ Struck(c))

(* "You already have an import in progress. Please wait for it to finish": a
   job that makes commands be refused is one that somebody works on or will
   work on, unless its send failed or one of its attempts threw or died. *)
RefusedOnlyInProgress ==
  \A c \in Commands : Active(c) =>
    \/ cmd[c].pc = "send"
    \/ queue[c].state \in {"waiting", "active"}
    \/ \E n \in 1 .. MaxTries : Running(<<c, n>>)
    \/ Struck(c)
=============================================================================
