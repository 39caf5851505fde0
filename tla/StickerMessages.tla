---------------------------- MODULE StickerMessages ----------------------------
(***************************************************************************)
(* Messages that show a sticker and the StickerMessage rows that remember  *)
(* them: sent by /sticker or to the feed, refreshed or deleted from the    *)
(* message, deleted by the queue when their sticker is deleted with its    *)
(* messages, and counted by the hourly recompute of the usage statistics.  *)
(*                                                                         *)
(* Every message shows one sticker, as those the code sends do. What it    *)
(* shows is the version of the sticker's own row; the pack's rating, which *)
(* decides about the spoiler, is left out. Messages are one user's, so     *)
(* StickerUsage has one row per sticker.                                   *)
(*                                                                         *)
(* Variables that are not the code's: overlapped, whose refresh or send    *)
(* took place in the second of, or around, a change of the sticker;        *)
(* excused, where a fault excuses that a message stays; now, the clock in  *)
(* seconds, up to MaxTime; a sticker changes up to MaxVersion times.       *)
(***************************************************************************)
EXTENDS Integers, FiniteSets

CONSTANTS
  Stickers,
  Messages,
  Presses,      \* buttons and commands that may be in flight
  RateLimit,    \* updateRateLimitMinutes
  MaxTries,     \* attempts pg-boss makes at a job
  MaxTime,
  MaxVersion,
  None

ASSUME MessagesAssumption ==
  /\ RateLimit \in Nat /\ MaxTries \in Nat \ {0} /\ MaxTime \in Nat /\ MaxVersion \in Nat
  /\ IsFiniteSet(Messages)
  /\ None \notin Stickers \union Messages

VARIABLES
  now,
  sticker,      \* Sticker rows
  message,      \* messages on Discord
  row,          \* StickerMessage rows
  press,        \* sticker-button handler, Update Message command
  deletion,     \* delete-sticker modal handler
  job,          \* delete jobs in the update-message queue
  stats,        \* update-sticker-usage-stats handler
  usage,        \* StickerUsage rows
  overlapped, excused

vars == <<now, sticker, message, row, press, deletion, job, stats, usage, overlapped, excused>>

Pressed(pc, m, found, version) ==
  [pc |-> pc, op |-> "update", msg |-> m, found |-> found, version |-> version, since |-> 0]
NoPress == Pressed("idle", None, FALSE, 0)
Idle == [pc |-> "idle", counts |-> [s \in Stickers |-> 0]]

TypeOK ==
  /\ now \in 0 .. MaxTime
  /\ sticker \in [Stickers -> [state : {"live", "deleted", "gone"}, version : 0 .. MaxVersion, updatedAt : 0 .. MaxTime]]
  /\ message \in [Messages -> [state : {"unsent", "shown", "lost"}, sticker : Stickers \union {None},
                               version : 0 .. MaxVersion, feed : BOOLEAN]]
  /\ row \in [Messages -> [state : {"none", "live", "deleted", "swept"}, updatedAt : 0 .. MaxTime]]
  /\ \A m \in Messages : row[m].state # "none" => message[m].sticker \in Stickers
  /\ press \in [Presses -> [pc : {"idle", "read", "edit", "mark", "upToDate"}, op : {"refresh", "update"},
                            msg : Messages \union {None}, found : BOOLEAN, version : 0 .. MaxVersion, since : 0 .. MaxTime]]
  /\ \A p \in Presses : press[p].pc \in {"read", "edit", "mark"} => press[p].msg \in Messages
  /\ deletion \in [Stickers -> [pc : {"idle", "listed", "send", "over"}, listed : SUBSET Messages, with : BOOLEAN]]
  /\ job \in [Messages -> [state : {"none", "queued", "active", "mark", "done", "failed"}, tries : 0 .. MaxTries]]
  /\ stats.pc \in {"idle", "write"} /\ stats.counts \in [Stickers -> 0 .. Cardinality(Messages)]
  /\ usage \in [Stickers -> 0 .. Cardinality(Messages)]
  /\ \A s \in Stickers : sticker[s].state = "gone" => usage[s] = 0
  /\ overlapped \subseteq Messages /\ excused \subseteq Messages

Init ==
  /\ now = 0
  /\ sticker = [s \in Stickers |-> [state |-> "live", version |-> 0, updatedAt |-> 0]]
  /\ message = [m \in Messages |-> [state |-> "unsent", sticker |-> None, version |-> 0, feed |-> FALSE]]
  /\ row = [m \in Messages |-> [state |-> "none", updatedAt |-> 0]]
  /\ press = [p \in Presses |-> NoPress]
  /\ deletion = [s \in Stickers |-> [pc |-> "idle", listed |-> {}, with |-> FALSE]]
  /\ job = [m \in Messages |-> [state |-> "none", tries |-> 0]]
  /\ stats = Idle
  /\ usage = [s \in Stickers |-> 0]
  /\ overlapped = {} /\ excused = {}

Exists(m) == row[m].state \in {"live", "deleted"}
Of(s) == {m \in Messages : message[m].sticker = s}
RowsOf(s) == {m \in Of(s) : Exists(m)}

(* The rows that /delete-sticker lists and that the statistics count. *)
Listed(s) == {m \in Of(s) : row[m].state = "live" /\ ~message[m].feed}

(* Slip: deleted messages count. *)
CountedAll(s) == {m \in RowsOf(s) : ~message[m].feed}

Counted(s) == Listed(s)

Tick ==
  /\ now < MaxTime
  /\ now' = now + 1
  /\ UNCHANGED <<sticker, message, row, press, deletion, job, stats, usage, overlapped, excused>>

-----------------------------------------------------------------------------
(* Sending: the sticker is read and shown, and the message is recorded with the
   id Discord gave it. A sender that dies takes no further step. *)

Show(m, s, feed) ==
  /\ message[m].state = "unsent"
  /\ message' = [message EXCEPT ![m] = [state |-> "shown", sticker |-> s, version |-> sticker[s].version, feed |-> feed]]
  /\ UNCHANGED <<now, sticker, row, press, deletion, job, stats, usage, overlapped, excused>>

(* /sticker *)
Send(m, s) == sticker[s].state = "live" /\ Show(m, s, FALSE)

(* The feed also tells of a sticker that has just been deleted. *)
PostToFeed(m, s) == sticker[s].state # "gone" /\ Show(m, s, TRUE)

(* recordStickerMessages; Prisma sets updatedAt on creation too. The insert
   fails on the foreign key when the sticker has been hard-deleted. *)
Record(m) ==
  /\ message[m].state = "shown" /\ row[m].state = "none"
  /\ sticker[message[m].sticker].state # "gone"
  /\ row' = [row EXCEPT ![m] = [state |-> "live", updatedAt |-> now]]
  /\ excused' = IF deletion[message[m].sticker].pc = "idle" THEN excused ELSE excused \union {m}
  /\ UNCHANGED <<now, sticker, message, press, deletion, job, stats, usage, overlapped>>

-----------------------------------------------------------------------------
(* The sticker's own row: its file, its description, its rating. *)

(* Handlers that are about to show, or to vouch for, what they have read. *)
Holding(m) ==
  \/ message[m].state = "shown" /\ row[m].state = "none"
  \/ \E p \in Presses : press[p].pc \in {"edit", "mark"} /\ press[p].msg = m /\ press[p].found

(* Slip: the change does not go through Prisma, which sets updatedAt. *)
ChangeUndated(s) ==
  /\ sticker[s].state = "live" /\ sticker[s].version < MaxVersion
  /\ sticker' = [sticker EXCEPT ![s].version = @ + 1]
  /\ overlapped' = overlapped \union {m \in Of(s) : Holding(m) \/ row[m].updatedAt = now}
  /\ UNCHANGED <<now, message, row, press, deletion, job, stats, usage, excused>>

Change(s) ==
  /\ sticker[s].state = "live" /\ sticker[s].version < MaxVersion
  /\ sticker' = [sticker EXCEPT ![s] = [state |-> "live", version |-> @.version + 1, updatedAt |-> now]]
  /\ overlapped' = overlapped \union {m \in Of(s) : Holding(m) \/ row[m].updatedAt = now}
  /\ UNCHANGED <<now, message, row, press, deletion, job, stats, usage, excused>>

-----------------------------------------------------------------------------
(* The buttons and the command on a message. *)

Outdated(s, since) == sticker[s].updatedAt > since

StartPress(p, r) ==
  /\ press[p].pc \in {"idle", "upToDate"}
  /\ press' = [press EXCEPT ![p] = r]
  /\ UNCHANGED <<now, sticker, message, row, deletion, job, stats, usage, overlapped, excused>>
Reading(op, m) ==
  [pc |-> "read", op |-> op, msg |-> m, found |-> FALSE, version |-> 0, since |-> row[m].updatedAt]

(* The Refresh and the Delete button look the rows up by message, whether they
   are marked deleted or not. *)
PressButton(p, m, deleteOnly) ==
  /\ message[m].state = "shown" /\ Exists(m)
  /\ ~deleteOnly => now - row[m].updatedAt >= RateLimit
  /\ StartPress(p, IF deleteOnly THEN Pressed("edit", m, FALSE, 0) ELSE Reading("refresh", m))

(* Update Message leaves feed messages out. *)
UpdateMessage(p, m) ==
  /\ message[m].state = "shown" /\ Exists(m) /\ ~message[m].feed
  /\ StartPress(p, Reading("update", m))

ReadSticker(p) ==
  LET s == message[press[p].msg].sticker
      found == sticker[s].state = "live"
  IN  /\ press[p].pc = "read"
      /\ press' = [press EXCEPT ![p] =
           IF press[p].op = "update" /\ found /\ ~Outdated(s, press[p].since)
             THEN Pressed("upToDate", None, FALSE, 0)
             ELSE Pressed("edit", press[p].msg, found, sticker[s].version)]
      /\ UNCHANGED <<now, sticker, message, row, deletion, job, stats, usage, overlapped, excused>>

(* What is said of the message no longer matters. *)
Lose(m) ==
  /\ message' = [message EXCEPT ![m].state = "lost"]
  /\ overlapped' = overlapped \ {m} /\ excused' = excused \ {m}

(* Without a sticker to show the message is deleted. Discord refuses both once
   the message has gone, and the handler throws. *)
EditMessage(p) ==
  LET m == press[p].msg
  IN  /\ press[p].pc = "edit"
      /\ press' = [press EXCEPT ![p] = IF message[m].state = "shown" THEN Pressed("mark", m, press[p].found, 0) ELSE NoPress]
      /\ \/ /\ message[m].state = "shown" /\ press[p].found
            /\ message' = [message EXCEPT ![m].version = press[p].version]
            /\ overlapped' = IF press[p].version = sticker[message[m].sticker].version THEN overlapped \ {m}
                                                                                    ELSE overlapped \union {m}
            /\ UNCHANGED excused
         \/ /\ message[m].state = "shown" /\ ~press[p].found
            /\ Lose(m)
         \/ message[m].state = "lost" /\ UNCHANGED <<message, overlapped, excused>>
      /\ UNCHANGED <<now, sticker, row, deletion, job, stats, usage>>

Mark(p) ==
  LET m == press[p].msg
  IN  /\ press[p].pc = "mark"
      /\ press' = [press EXCEPT ![p] = NoPress]
      /\ row' = [row EXCEPT ![m] = [state |-> IF press[p].found THEN @.state ELSE "deleted", updatedAt |-> now]]
      /\ UNCHANGED <<now, sticker, message, deletion, job, stats, usage, overlapped, excused>>

PressDies(p) ==
  /\ press[p].pc \in {"edit", "mark"}
  /\ press' = [press EXCEPT ![p] = NoPress]
  /\ UNCHANGED <<now, sticker, message, row, deletion, job, stats, usage, overlapped, excused>>

-----------------------------------------------------------------------------
(* /delete-sticker, with or without the messages. *)

ListMessages(s, with) ==
  /\ deletion[s].pc = "idle" /\ sticker[s].state = "live"
  /\ deletion' = [deletion EXCEPT ![s] = [pc |-> "listed", listed |-> IF with THEN Listed(s) ELSE {}, with |-> with]]
  /\ UNCHANGED <<now, sticker, message, row, press, job, stats, usage, overlapped, excused>>

SoftDelete(s) ==
  /\ deletion[s].pc = "listed"
  /\ deletion' = [deletion EXCEPT ![s].pc = "send"]
  /\ sticker' = [sticker EXCEPT ![s] = [state |-> "deleted", version |-> @.version, updatedAt |-> now]]
  /\ UNCHANGED <<now, message, row, press, job, stats, usage, overlapped, excused>>

(* The sends run side by side, and any of them may fail. *)
SendJobs(s) ==
  /\ deletion[s].pc = "send"
  /\ \E sent \in SUBSET deletion[s].listed :
       /\ job' = [m \in Messages |-> IF m \in sent THEN [state |-> "queued", tries |-> 0] ELSE job[m]]
       /\ excused' = excused \union (deletion[s].listed \ sent)
  /\ deletion' = [deletion EXCEPT ![s] = [pc |-> "over", listed |-> {}, with |-> FALSE]]
  /\ UNCHANGED <<now, sticker, message, row, press, stats, usage, overlapped>>

(* The handler dies or throws; between the deletion and the sends a failure to
   answer or to post to the feed is enough. *)
DeletionDies(s) ==
  /\ deletion[s].pc \in {"listed", "send"}
  /\ deletion' = [deletion EXCEPT ![s] = [pc |-> "over", listed |-> {}, with |-> FALSE]]
  /\ excused' = excused \union deletion[s].listed
  /\ UNCHANGED <<now, sticker, message, row, press, job, stats, usage, overlapped>>

-----------------------------------------------------------------------------
(* The update-message queue: action "delete", the only one that is sent. *)

Fetch(m) ==
  /\ job[m].state = "queued"
  /\ job' = [job EXCEPT ![m] = [state |-> "active", tries |-> @.tries + 1]]
  /\ UNCHANGED <<now, sticker, message, row, press, deletion, stats, usage, overlapped, excused>>

(* Slip: the second attempt is left out. *)
FirstAttempt(webhook, channel) == webhook

(* runAttempts: the webhook of the interaction, whose token expires, then the
   bot's own right to the channel. *)
Attempts(webhook, channel) == webhook \/ channel

Ended(state) == [state |-> state, tries |-> 0]
Retried(m) == IF job[m].tries < MaxTries THEN [job[m] EXCEPT !.state = "queued"] ELSE Ended("failed")

(* When both fail the job is over, and the row stays as it is. *)
DeleteMessage(m) ==
  /\ job[m].state = "active"
  /\ \E webhook, channel \in BOOLEAN :
       IF message[m].state = "shown" /\ Attempts(webhook, channel)
         THEN /\ job' = [job EXCEPT ![m].state = "mark"]
              /\ Lose(m)
         ELSE /\ job' = [job EXCEPT ![m] = Ended("done")]
              /\ excused' = IF webhook \/ channel THEN excused ELSE excused \union {m}
              /\ UNCHANGED <<message, overlapped>>
  /\ UNCHANGED <<now, sticker, row, press, deletion, stats, usage>>

MarkDeleted(m) ==
  /\ job[m].state = "mark"
  /\ row' = [row EXCEPT ![m] = [state |-> "deleted", updatedAt |-> now]]
  /\ job' = [job EXCEPT ![m] = Ended("done")]
  /\ UNCHANGED <<now, sticker, message, press, deletion, stats, usage, overlapped, excused>>

(* The worker dies; pg-boss expires the job and hands it out again. *)
WorkerDies(m) ==
  /\ job[m].state \in {"active", "mark"}
  /\ job' = [job EXCEPT ![m] = Retried(m)]
  /\ excused' = IF job[m].tries < MaxTries THEN excused ELSE excused \union {m}
  /\ UNCHANGED <<now, sticker, message, row, press, deletion, stats, usage, overlapped>>

-----------------------------------------------------------------------------
(* Sweeps of stickers deleted 30 days ago: by then whoever was busy with the
   sticker has ended. *)

Retired(s) ==
  /\ sticker[s].state = "deleted" /\ deletion[s].pc \in {"idle", "over"}
  /\ \A m \in Of(s) : job[m].state \notin {"queued", "active", "mark"} /\ \A p \in Presses : press[p].msg # m

(* hardDeleteSticker: the rows first, then the sticker, unless a row has come
   back; its StickerUsage rows go with it. *)
DropRows(s) ==
  /\ Retired(s) /\ RowsOf(s) # {}
  /\ row' = [m \in Messages |-> IF m \in RowsOf(s) THEN [row[m] EXCEPT !.state = "swept"] ELSE row[m]]
  /\ UNCHANGED <<now, sticker, message, press, deletion, job, stats, usage, overlapped, excused>>

HardDelete(s) ==
  /\ Retired(s) /\ RowsOf(s) = {}
  /\ sticker' = [sticker EXCEPT ![s].state = "gone"]
  /\ usage' = [usage EXCEPT ![s] = 0]
  /\ UNCHANGED <<now, message, row, press, deletion, job, stats, overlapped, excused>>

-----------------------------------------------------------------------------
(* The hourly recompute of StickerUsage: counted outside the transaction that
   writes. *)

Count ==
  /\ stats.pc = "idle"
  /\ stats' = [pc |-> "write", counts |-> [s \in Stickers |-> Cardinality(Counted(s))]]
  /\ UNCHANGED <<now, sticker, message, row, press, deletion, job, usage, overlapped, excused>>

(* Slip: the counts are added to those that are there. *)
WriteAdding ==
  /\ stats.pc = "write"
  /\ stats' = Idle
  /\ usage' = IF \A s \in Stickers : stats.counts[s] > 0 => sticker[s].state # "gone"
                THEN [s \in Stickers |-> usage[s] + stats.counts[s]] ELSE usage
  /\ UNCHANGED <<now, sticker, message, row, press, deletion, job, overlapped, excused>>

(* A sticker that is no longer there fails the transaction, the delete with it. *)
Write ==
  /\ stats.pc = "write"
  /\ stats' = Idle
  /\ usage' = IF \A s \in Stickers : stats.counts[s] > 0 => sticker[s].state # "gone" THEN stats.counts ELSE usage
  /\ UNCHANGED <<now, sticker, message, row, press, deletion, job, overlapped, excused>>

-----------------------------------------------------------------------------
Next ==
  \/ Tick
  \/ \E m \in Messages :
       \/ \E s \in Stickers : Send(m, s) \/ PostToFeed(m, s)
       \/ Record(m)
       \/ Fetch(m) \/ DeleteMessage(m) \/ MarkDeleted(m) \/ WorkerDies(m)
  \/ \E p \in Presses :
       \/ \E m \in Messages : UpdateMessage(p, m) \/ \E deleteOnly \in BOOLEAN : PressButton(p, m, deleteOnly)
       \/ ReadSticker(p) \/ EditMessage(p) \/ Mark(p) \/ PressDies(p)
  \/ \E s \in Stickers :
       \/ Change(s) \/ SoftDelete(s) \/ SendJobs(s) \/ DeletionDies(s) \/ DropRows(s) \/ HardDelete(s)
       \/ \E with \in BOOLEAN : ListMessages(s, with)
  \/ Count \/ Write

(* A handler that has not died goes on; pg-boss hands jobs out and starts the
   recompute every hour. *)
Fairness ==
  /\ \A s \in Stickers : WF_vars(SendJobs(s))
  /\ \A m \in Messages : WF_vars(Fetch(m)) /\ WF_vars(DeleteMessage(m)) /\ WF_vars(MarkDeleted(m))
  /\ WF_vars(Count) /\ WF_vars(Write)

Spec == Init /\ [][Next]_vars /\ Fairness

-----------------------------------------------------------------------------
(* Update Message says "already up to date" only of a message that shows the
   sticker as it is, unless the sticker changed while a send or a refresh of the
   message was under way, or in the second it was recorded in. *)
UpToDateShown ==
  [][\A p \in Presses : press[p].pc = "read" /\ press'[p].pc = "upToDate" =>
       LET m == press[p].msg
       IN  message[m].state = "lost" \/ m \in overlapped \/ message[m].version = sticker[message[m].sticker].version]_vars

(* When a sticker is deleted with its messages, every message recorded for it
   goes, unless it was recorded after the list was read, the handler or the last
   attempt of the job died, its send failed, or Discord refused both ways. *)
ListedMessagesGo ==
  \A s \in Stickers, m \in Messages :
    deletion[s].pc = "send" /\ deletion[s].with /\ m \in Listed(s) ~> message[m].state = "lost" \/ m \in excused

(* Once no more messages come and go, the statistics count the messages that
   are there, whatever was deleted while they were computed. *)
UsageConverges == <>[](\A s \in Stickers : usage[s] = Cardinality({m \in Of(s) : row[m].state = "live" /\ ~message[m].feed}))
=============================================================================
