------------------------ MODULE StickerMessagesProofs ------------------------
(***************************************************************************)
(* TypeOK and UpToDateShown hold for any stickers, messages, handlers and  *)
(* bounds.                                                                 *)
(***************************************************************************)
EXTENDS StickerMessages, FiniteSetTheorems, TLAPS

(* The clock is never behind a timestamp, and a row stands for a message that
   was sent. *)
ClockInv ==
  /\ \A s \in Stickers : sticker[s].updatedAt <= now
  /\ \A m \in Messages : row[m].updatedAt <= now
  /\ \A m \in Messages : message[m].state # "unsent" => message[m].sticker \in Stickers
  /\ \A m \in Messages : row[m].state # "none" => message[m].state # "unsent"

(* What the handlers that are under way rely on. *)
StepInv ==
  /\ \A p \in Presses : press[p].pc = "read" => row[press[p].msg].state # "none"
  /\ \A p \in Presses : press[p].pc = "read" => press[p].since <= row[press[p].msg].updatedAt
  /\ \A p \in Presses : press[p].pc \in {"edit", "mark"} => row[press[p].msg].state # "none"
  /\ \A p \in Presses : press[p].pc = "mark" /\ ~press[p].found => message[press[p].msg].state = "lost"
  /\ \A m \in Messages : job[m].state = "mark" => message[m].state = "lost"
  /\ \A m \in Messages : job[m].state = "queued" => job[m].tries < MaxTries

Current(m) == message[m].version = sticker[message[m].sticker].version
Marking(m) == \E p \in Presses : press[p].pc = "mark" /\ press[p].msg = m
Older(m) == row[m].state # "none" /\ row[m].updatedAt < sticker[message[m].sticker].updatedAt

(* A message that does not show its sticker as it is has a row older than the
   sticker, which no handler is about to renew. *)
ShownInv ==
  \A m \in Messages :
    message[m].state = "shown" /\ m \notin overlapped => Current(m) \/ (Older(m) /\ ~Marking(m))

PressType == [pc : {"idle", "read", "edit", "mark", "upToDate"}, op : {"refresh", "update"},
              msg : Messages \union {None}, found : BOOLEAN, version : 0 .. MaxVersion, since : 0 .. MaxTime]
PressOK == press \in [Presses -> PressType] /\ \A p \in Presses : press[p].pc \in {"read", "edit", "mark"} => press[p].msg \in Messages

LEMMA Zero == 0 \in 0 .. MaxVersion
BY MessagesAssumption

LEMMA PressedType ==
  ASSUME NEW pc \in {"idle", "edit", "mark", "upToDate"}, NEW m \in Messages \union {None}, NEW found \in BOOLEAN,
         NEW version \in 0 .. MaxVersion
  PROVE  /\ Pressed(pc, m, found, version) \in PressType
         /\ Pressed(pc, m, found, version).pc = pc
         /\ Pressed(pc, m, found, version).msg = m
BY MessagesAssumption DEF Pressed, PressType

LEMMA IdleType == NoPress \in PressType /\ NoPress.pc = "idle"
<1> None \in Messages \union {None}
  OBVIOUS
<1>1. PICK f \in BOOLEAN : f = FALSE
  OBVIOUS
<1>2. Pressed("idle", None, f, 0) \in PressType /\ Pressed("idle", None, f, 0).pc = "idle"
  BY Zero, PressedType
<1> QED BY <1>1, <1>2, Zenon DEF NoPress

LEMMA EditType ==
  ASSUME NEW m \in Messages, NEW found \in BOOLEAN, NEW v \in 0 .. MaxVersion
  PROVE  /\ Pressed("edit", m, found, v) \in PressType /\ Pressed("edit", m, found, v).msg = m
         /\ Pressed("upToDate", None, FALSE, 0) \in PressType /\ Pressed("upToDate", None, FALSE, 0).pc = "upToDate"
<1>1. Pressed("edit", m, found, v) \in PressType /\ Pressed("edit", m, found, v).msg = m
  <2> m \in Messages \union {None}
    OBVIOUS
  <2> QED BY PressedType
<1>2. Pressed("upToDate", None, FALSE, 0) \in PressType /\ Pressed("upToDate", None, FALSE, 0).pc = "upToDate"
  <2> None \in Messages \union {None}
    OBVIOUS
  <2>1. PICK f \in BOOLEAN : f = FALSE
    OBVIOUS
  <2>2. Pressed("upToDate", None, f, 0) \in PressType /\ Pressed("upToDate", None, f, 0).pc = "upToDate"
    BY Zero, PressedType
  <2> QED BY <2>1, <2>2, Zenon
<1> QED BY <1>1, <1>2

LEMMA ReadingType ==
  ASSUME TypeOK, NEW m \in Messages, NEW op \in {"refresh", "update"}
  PROVE  Reading(op, m) \in PressType /\ Reading(op, m).msg = m
BY Zero DEF Reading, PressType, TypeOK

MessageRecord == [state : {"unsent", "shown", "lost"}, sticker : Stickers \union {None}, version : 0 .. MaxVersion, feed : BOOLEAN]

LEMMA MessageType ==
  ASSUME NEW r \in MessageRecord, NEW v \in 0 .. MaxVersion
  PROVE  /\ [r EXCEPT !.state = "lost"] \in MessageRecord /\ [r EXCEPT !.version = v] \in MessageRecord
         /\ [r EXCEPT !.state = "lost"].sticker = r.sticker /\ [r EXCEPT !.version = v].sticker = r.sticker
BY Zenon DEF MessageRecord

StickerOK ==
  /\ sticker \in [Stickers -> [state : {"live", "deleted", "gone"}, version : 0 .. MaxVersion, updatedAt : 0 .. MaxTime]]
  /\ \A s \in Stickers : sticker[s].state = "gone" => usage[s] = 0

LEMMA TypeStep ==
  ASSUME TypeOK, ClockInv, StepInv, [Next]_vars
  PROVE  TypeOK'
<1> USE MessagesAssumption DEF TypeOK
<1>1. ASSUME Tick PROVE TypeOK'
  BY <1>1 DEF Tick
<1>2. ASSUME NEW m \in Messages, NEW s \in Stickers, Send(m, s) PROVE TypeOK'
  BY <1>2 DEF Send, Show
<1>3. ASSUME NEW m \in Messages, NEW s \in Stickers, PostToFeed(m, s) PROVE TypeOK'
  BY <1>3 DEF PostToFeed, Show
<1>4. ASSUME NEW m \in Messages, Record(m) PROVE TypeOK'
  BY <1>4 DEF Record, ClockInv
<1>5. ASSUME NEW m \in Messages, Fetch(m) PROVE TypeOK'
  BY <1>5 DEF Fetch, StepInv
<1>6. ASSUME NEW m \in Messages, DeleteMessage(m) PROVE TypeOK'
  <2>1. job' \in [Messages -> [state : {"none", "queued", "active", "mark", "done", "failed"}, tries : 0 .. MaxTries]]
    <3>1. \/ job' = [job EXCEPT ![m] = [state |-> "mark", tries |-> job[m].tries]]
          \/ job' = [job EXCEPT ![m] = [state |-> "done", tries |-> 0]]
      <4>1. [job[m] EXCEPT !.state = "mark"] = [state |-> "mark", tries |-> job[m].tries]
        OBVIOUS
      <4>2. \/ job' = [job EXCEPT ![m] = [job[m] EXCEPT !.state = "mark"]]
            \/ job' = [job EXCEPT ![m] = Ended("done")]
        BY <1>6 DEF DeleteMessage
      <4> QED BY <4>1, <4>2 DEF Ended
    <3>2. job[m].tries \in 0 .. MaxTries /\ 0 \in 0 .. MaxTries
      OBVIOUS
    <3> QED BY <3>1, <3>2
  <2>2. /\ message' \in [Messages -> [state : {"unsent", "shown", "lost"}, sticker : Stickers \union {None},
                                      version : 0 .. MaxVersion, feed : BOOLEAN]]
        /\ \A n \in Messages : message'[n].sticker = message[n].sticker
    <3>1. [message[m] EXCEPT !.state = "lost"] \in MessageRecord /\ [message[m] EXCEPT !.state = "lost"].sticker = message[m].sticker
      BY MessageType DEF MessageRecord
    <3>2. CASE message' = [message EXCEPT ![m] = [message[m] EXCEPT !.state = "lost"]]
      BY <3>1, <3>2 DEF MessageRecord
    <3> QED BY <1>6, <3>2 DEF DeleteMessage, Lose
  <2>3. overlapped' \subseteq Messages /\ excused' \subseteq Messages
    BY <1>6 DEF DeleteMessage, Lose
  <2> QED BY <1>6, <2>1, <2>2, <2>3 DEF DeleteMessage
<1>7. ASSUME NEW m \in Messages, MarkDeleted(m) PROVE TypeOK'
  BY <1>7 DEF MarkDeleted, Ended, ClockInv, StepInv
<1>8. ASSUME NEW m \in Messages, WorkerDies(m) PROVE TypeOK'
  BY <1>8 DEF WorkerDies, Retried, Ended
<1>9. ASSUME NEW p \in Presses, NEW m \in Messages, NEW deleteOnly \in BOOLEAN, PressButton(p, m, deleteOnly) PROVE TypeOK'
  <2>1. PICK r \in PressType : press' = [press EXCEPT ![p] = r] /\ r.msg = m
    <3>1. CASE deleteOnly
      <4>1. Pressed("edit", m, FALSE, 0) \in PressType /\ Pressed("edit", m, FALSE, 0).msg = m
        BY Zero, EditType
      <4>2. press' = [press EXCEPT ![p] = Pressed("edit", m, FALSE, 0)]
        BY <1>9, <3>1 DEF PressButton, StartPress
      <4> QED BY <4>1, <4>2
    <3>2. CASE ~deleteOnly
      <4>1. Reading("refresh", m) \in PressType /\ Reading("refresh", m).msg = m
        BY ReadingType
      <4>2. press' = [press EXCEPT ![p] = Reading("refresh", m)]
        BY <1>9, <3>2 DEF PressButton, StartPress
      <4> QED BY <4>1, <4>2
    <3> QED BY <3>1, <3>2
  <2>2. PressOK'
    BY <2>1 DEF PressOK, PressType
  <2> QED BY <1>9, <2>2 DEF PressButton, StartPress, PressOK, PressType
<1>10. ASSUME NEW p \in Presses, NEW m \in Messages, UpdateMessage(p, m) PROVE TypeOK'
  <2>1. PICK r \in PressType : press' = [press EXCEPT ![p] = r] /\ r.msg = m
    BY <1>10, ReadingType DEF UpdateMessage, StartPress
  <2>2. PressOK'
    BY <2>1 DEF PressOK, PressType
  <2> QED BY <1>10, <2>2 DEF UpdateMessage, StartPress, PressOK, PressType
<1>11. ASSUME NEW p \in Presses, ReadSticker(p) PROVE TypeOK'
  <2>1. press[p].msg \in Messages /\ message[press[p].msg].sticker \in Stickers
    BY <1>11 DEF ReadSticker, ClockInv, StepInv
  <2> DEFINE s == message[press[p].msg].sticker
             found == sticker[s].state = "live"
  <2>2. /\ Pressed("upToDate", None, FALSE, 0) \in PressType
        /\ Pressed("edit", press[p].msg, found, sticker[s].version) \in PressType
        /\ Pressed("edit", press[p].msg, found, sticker[s].version).msg = press[p].msg
        /\ Pressed("upToDate", None, FALSE, 0).pc = "upToDate"
    <3> found \in BOOLEAN /\ sticker[s].version \in 0 .. MaxVersion
      BY <2>1
    <3> HIDE DEF found
    <3> QED BY <2>1, EditType
  <2>3. PICK r \in PressType : press' = [press EXCEPT ![p] = r] /\ (r.pc \in {"read", "edit", "mark"} => r.msg \in Messages)
    <3>1. CASE press' = [press EXCEPT ![p] = Pressed("upToDate", None, FALSE, 0)]
      BY <3>1, <2>2
    <3>2. CASE press' = [press EXCEPT ![p] = Pressed("edit", press[p].msg, found, sticker[s].version)]
      BY ZenonT(60), <3>2, <2>2, <2>1
    <3> QED BY <1>11, <3>1, <3>2 DEF ReadSticker
  <2>4. PressOK'
    BY <2>3 DEF PressOK, PressType
  <2> QED BY <1>11, <2>4 DEF ReadSticker, PressOK, PressType
<1>12. ASSUME NEW p \in Presses, EditMessage(p) PROVE TypeOK'
  <2>1. press[p].msg \in Messages
    BY <1>12 DEF EditMessage
  <2>2. PICK r \in PressType : press' = [press EXCEPT ![p] = r] /\ (r.pc \in {"read", "edit", "mark"} => r.msg \in Messages)
    <3>1. CASE message[press[p].msg].state = "shown"
      <4>1. Pressed("mark", press[p].msg, press[p].found, 0) \in PressType /\ Pressed("mark", press[p].msg, press[p].found, 0).msg = press[p].msg
        <5> press[p].found \in BOOLEAN
          OBVIOUS
        <5> QED BY <2>1, PressedType
      <4> QED BY <1>12, <3>1, <4>1, <2>1 DEF EditMessage
    <3>2. CASE message[press[p].msg].state # "shown"
      <4>1. NoPress \in PressType /\ NoPress.pc = "idle"
        BY IdleType
      <4> QED BY <1>12, <3>2, <4>1 DEF EditMessage
    <3> QED BY <3>1, <3>2
  <2>3. PressOK'
    BY <2>2 DEF PressOK, PressType
  <2>4. /\ message' \in [Messages -> [state : {"unsent", "shown", "lost"}, sticker : Stickers \union {None},
                                      version : 0 .. MaxVersion, feed : BOOLEAN]]
        /\ \A n \in Messages : message'[n].sticker = message[n].sticker
    <3> DEFINE m == press[p].msg
    <3>1. /\ [message[m] EXCEPT !.state = "lost"] \in MessageRecord /\ [message[m] EXCEPT !.version = press[p].version] \in MessageRecord
          /\ [message[m] EXCEPT !.state = "lost"].sticker = message[m].sticker
          /\ [message[m] EXCEPT !.version = press[p].version].sticker = message[m].sticker
      BY <2>1, MessageType DEF MessageRecord
    <3>2. CASE message' = [message EXCEPT ![m] = [message[m] EXCEPT !.version = press[p].version]]
      BY <2>1, <3>1, <3>2 DEF MessageRecord
    <3>3. CASE message' = [message EXCEPT ![m] = [message[m] EXCEPT !.state = "lost"]]
      BY <2>1, <3>1, <3>3 DEF MessageRecord
    <3> QED BY <1>12, <3>2, <3>3 DEF EditMessage, Lose
  <2>5. overlapped' \subseteq Messages /\ excused' \subseteq Messages
    BY <1>12, <2>1 DEF EditMessage, Lose
  <2> QED BY <1>12, <2>3, <2>4, <2>5 DEF EditMessage, PressOK, PressType
<1>13. ASSUME NEW p \in Presses, Mark(p) PROVE TypeOK'
  BY <1>13 DEF Mark, NoPress, Pressed, ClockInv, StepInv
<1>14. ASSUME NEW p \in Presses, PressDies(p) PROVE TypeOK'
  BY <1>14 DEF PressDies, NoPress, Pressed
<1>15. ASSUME NEW s \in Stickers, Change(s) PROVE TypeOK'
  <2>1. StickerOK'
    <3>1. sticker' \in [Stickers -> [state : {"live", "deleted", "gone"}, version : 0 .. MaxVersion, updatedAt : 0 .. MaxTime]]
      BY <1>15 DEF Change
    <3>2. \A t \in Stickers : sticker'[t].state = sticker[t].state /\ usage' = usage
      BY <1>15 DEF Change
    <3> QED BY <3>1, <3>2 DEF StickerOK
  <2>2. overlapped' \subseteq Messages
    BY <1>15 DEF Change, Of
  <2> QED BY <1>15, <2>1, <2>2 DEF Change, StickerOK
<1>16. ASSUME NEW s \in Stickers, SoftDelete(s) PROVE TypeOK'
  <2>1. StickerOK'
    <3>1. sticker' \in [Stickers -> [state : {"live", "deleted", "gone"}, version : 0 .. MaxVersion, updatedAt : 0 .. MaxTime]]
      BY <1>16 DEF SoftDelete
    <3>2. \A t \in Stickers : (sticker'[t].state = "gone" => sticker[t].state = "gone") /\ usage' = usage
      BY <1>16 DEF SoftDelete
    <3> QED BY <3>1, <3>2 DEF StickerOK
  <2>2. deletion' \in [Stickers -> [pc : {"idle", "listed", "send", "over"}, listed : SUBSET Messages, with : BOOLEAN]]
    BY SMTT(40), <1>16 DEF SoftDelete
  <2> QED BY <1>16, <2>1, <2>2 DEF SoftDelete, StickerOK
<1>17. ASSUME NEW s \in Stickers, SendJobs(s) PROVE TypeOK'
  BY <1>17 DEF SendJobs
<1>18. ASSUME NEW s \in Stickers, DeletionDies(s) PROVE TypeOK'
  BY <1>18 DEF DeletionDies
<1>19. ASSUME NEW s \in Stickers, DropRows(s) PROVE TypeOK'
  BY <1>19 DEF DropRows, Retired, RowsOf, Of, Exists
<1>20. ASSUME NEW s \in Stickers, HardDelete(s) PROVE TypeOK'
  <2>1. StickerOK' /\ usage' \in [Stickers -> 0 .. Cardinality(Messages)]
    <3>1. Cardinality(Messages) \in Nat
      BY FS_CardinalityType
    <3> QED BY SMTT(40), <1>20, <3>1 DEF HardDelete, StickerOK
  <2> QED BY <1>20, <2>1 DEF HardDelete, StickerOK
<1>21. ASSUME NEW s \in Stickers, NEW with \in BOOLEAN, ListMessages(s, with) PROVE TypeOK'
  BY <1>21 DEF ListMessages, Listed, Of
<1>22. ASSUME Count PROVE TypeOK'
  <2>1. \A s \in Stickers : Cardinality(Counted(s)) \in 0 .. Cardinality(Messages)
    <3> SUFFICES ASSUME NEW s \in Stickers PROVE Cardinality(Counted(s)) \in 0 .. Cardinality(Messages)
      OBVIOUS
    <3>1. Counted(s) \subseteq Messages
      BY DEF Counted, Listed, Of
    <3> QED BY <3>1, FS_Subset, FS_CardinalityType
  <2>2. stats'.pc = "write" /\ stats'.counts \in [Stickers -> 0 .. Cardinality(Messages)]
    BY <1>22, <2>1 DEF Count
  <2> QED BY <1>22, <2>2 DEF Count
<1>23. ASSUME Write PROVE TypeOK'
  <2>1. stats'.pc = "idle" /\ stats'.counts \in [Stickers -> 0 .. Cardinality(Messages)]
    BY <1>23, FS_CardinalityType DEF Write, Idle
  <2>2. usage' \in [Stickers -> 0 .. Cardinality(Messages)]
    BY <1>23 DEF Write
  <2>3. \A s \in Stickers : sticker[s].state = "gone" => usage'[s] = 0
    BY <1>23, FS_CardinalityType DEF Write
  <2> QED BY <1>23, <2>1, <2>2, <2>3 DEF Write
<1>24. CASE UNCHANGED vars
  BY <1>24 DEF vars
<1> QED
  BY <1>1, <1>2, <1>3, <1>4, <1>5, <1>6, <1>7, <1>8, <1>9, <1>10, <1>11, <1>12, <1>13, <1>14, <1>15, <1>16, <1>17, <1>18, <1>19, <1>20, <1>21, <1>22, <1>23, <1>24 DEF Next

LEMMA LoseEffect ==
  ASSUME TypeOK, NEW m \in Messages, Lose(m)
  PROVE  \A n \in Messages :
           /\ message'[n].sticker = message[n].sticker /\ message'[n].version = message[n].version
           /\ message'[n].state = IF n = m THEN "lost" ELSE message[n].state
BY DEF Lose, TypeOK

LEMMA EditEffect ==
  ASSUME TypeOK, NEW m \in Messages, NEW v, message' = [message EXCEPT ![m].version = v]
  PROVE  \A n \in Messages :
           /\ message'[n].sticker = message[n].sticker /\ message'[n].state = message[n].state
           /\ message'[n].version = IF n = m THEN v ELSE message[n].version
BY DEF TypeOK

(* A message keeps its sticker, and only one that is shown is lost. *)
Kept(n) ==
  /\ message'[n].sticker = message[n].sticker
  /\ message'[n].state = message[n].state \/ (message[n].state = "shown" /\ message'[n].state = "lost")

LEMMA DeleteKeeps ==
  ASSUME TypeOK, NEW m \in Messages, DeleteMessage(m)
  PROVE  \A n \in Messages : Kept(n)
<1>1. CASE message[m].state = "shown" /\ Lose(m)
  BY <1>1, LoseEffect DEF Kept
<1>2. CASE UNCHANGED message
  BY <1>2 DEF Kept
<1> QED BY <1>1, <1>2 DEF DeleteMessage

LEMMA EditKeeps ==
  ASSUME TypeOK, NEW p \in Presses, EditMessage(p)
  PROVE  \A n \in Messages : Kept(n)
<1> DEFINE m == press[p].msg
<1>0. m \in Messages
  BY DEF EditMessage, TypeOK
<1>1. CASE message[m].state = "shown" /\ Lose(m)
  BY <1>0, <1>1, LoseEffect DEF Kept
<1>2. CASE message' = [message EXCEPT ![m].version = press[p].version]
  BY <1>0, <1>2, EditEffect DEF Kept
<1>3. CASE UNCHANGED message
  BY <1>3 DEF Kept
<1> QED BY <1>1, <1>2, <1>3 DEF EditMessage

LEMMA ClockStep ==
  ASSUME TypeOK, ClockInv, StepInv, [Next]_vars
  PROVE  ClockInv'
<1> USE DEF TypeOK, ClockInv
<1>1. CASE UNCHANGED vars
  BY <1>1 DEF vars
<1>2. ASSUME Tick PROVE ClockInv'
  BY <1>2 DEF Tick
<1>3. ASSUME NEW m \in Messages, NEW s \in Stickers, Send(m, s) PROVE ClockInv'
  BY <1>3 DEF Send, Show
<1>4. ASSUME NEW m \in Messages, NEW s \in Stickers, PostToFeed(m, s) PROVE ClockInv'
  BY <1>4 DEF PostToFeed, Show
<1>5. ASSUME NEW m \in Messages, Record(m) PROVE ClockInv'
  BY <1>5 DEF Record
<1>6. ASSUME NEW m \in Messages, Fetch(m) PROVE ClockInv'
  BY <1>6 DEF Fetch
<1>7. ASSUME NEW m \in Messages, DeleteMessage(m) PROVE ClockInv'
  <2>1. \A n \in Messages : Kept(n)
    BY <1>7, DeleteKeeps
  <2> QED BY <1>7, <2>1 DEF DeleteMessage, Kept
<1>8. ASSUME NEW m \in Messages, MarkDeleted(m) PROVE ClockInv'
  BY <1>8 DEF MarkDeleted, Ended, StepInv
<1>9. ASSUME NEW m \in Messages, WorkerDies(m) PROVE ClockInv'
  BY <1>9 DEF WorkerDies
<1>10. ASSUME NEW p \in Presses, NEW m \in Messages, NEW deleteOnly \in BOOLEAN, PressButton(p, m, deleteOnly) PROVE ClockInv'
  BY <1>10 DEF PressButton, StartPress
<1>11. ASSUME NEW p \in Presses, NEW m \in Messages, UpdateMessage(p, m) PROVE ClockInv'
  BY <1>11 DEF UpdateMessage, StartPress
<1>12. ASSUME NEW p \in Presses, ReadSticker(p) PROVE ClockInv'
  BY <1>12 DEF ReadSticker
<1>13. ASSUME NEW p \in Presses, EditMessage(p) PROVE ClockInv'
  <2>1. \A n \in Messages : Kept(n)
    BY <1>13, EditKeeps
  <2> QED BY <1>13, <2>1 DEF EditMessage, Kept
<1>14. ASSUME NEW p \in Presses, Mark(p) PROVE ClockInv'
  BY <1>14 DEF Mark, StepInv
<1>15. ASSUME NEW p \in Presses, PressDies(p) PROVE ClockInv'
  BY <1>15 DEF PressDies
<1>16. ASSUME NEW s \in Stickers, Change(s) PROVE ClockInv'
  BY <1>16 DEF Change
<1>17. ASSUME NEW s \in Stickers, SoftDelete(s) PROVE ClockInv'
  BY <1>17 DEF SoftDelete
<1>18. ASSUME NEW s \in Stickers, SendJobs(s) PROVE ClockInv'
  BY <1>18 DEF SendJobs
<1>19. ASSUME NEW s \in Stickers, DeletionDies(s) PROVE ClockInv'
  BY <1>19 DEF DeletionDies
<1>20. ASSUME NEW s \in Stickers, DropRows(s) PROVE ClockInv'
  BY <1>20 DEF DropRows, Retired, RowsOf, Of, Exists
<1>21. ASSUME NEW s \in Stickers, HardDelete(s) PROVE ClockInv'
  BY <1>21 DEF HardDelete, Retired, RowsOf, Of, Exists
<1>22. ASSUME NEW s \in Stickers, NEW with \in BOOLEAN, ListMessages(s, with) PROVE ClockInv'
  BY <1>22 DEF ListMessages
<1>23. ASSUME Count PROVE ClockInv'
  BY <1>23 DEF Count
<1>24. ASSUME Write PROVE ClockInv'
  BY <1>24 DEF Write
<1> QED
  BY <1>1, <1>2, <1>3, <1>4, <1>5, <1>6, <1>7, <1>8, <1>9, <1>10, <1>11, <1>12, <1>13, <1>14, <1>15, <1>16, <1>17, <1>18, <1>19, <1>20, <1>21, <1>22, <1>23, <1>24 DEF Next

LEMMA StepStep ==
  ASSUME TypeOK, ClockInv, StepInv, [Next]_vars
  PROVE  StepInv'
<1> USE DEF TypeOK, StepInv
<1>1. CASE UNCHANGED vars
  BY <1>1 DEF vars
<1>2. ASSUME Tick PROVE StepInv'
  BY <1>2 DEF Tick
<1>3. ASSUME NEW m \in Messages, NEW s \in Stickers, Send(m, s) PROVE StepInv'
  BY <1>3 DEF Send, Show, ClockInv
<1>4. ASSUME NEW m \in Messages, NEW s \in Stickers, PostToFeed(m, s) PROVE StepInv'
  BY <1>4 DEF PostToFeed, Show, ClockInv
<1>5. ASSUME NEW m \in Messages, Record(m) PROVE StepInv'
  BY <1>5 DEF Record, ClockInv
<1>6. ASSUME NEW m \in Messages, Fetch(m) PROVE StepInv'
  BY <1>6 DEF Fetch
<1>7. ASSUME NEW m \in Messages, DeleteMessage(m) PROVE StepInv'
  <2>1. \A n \in Messages : message[n].state = "lost" => message'[n].state = "lost"
    BY <1>7, DeleteKeeps DEF Kept
  <2>2. job'[m].state = "mark" => message'[m].state = "lost"
    BY <1>7, LoseEffect DEF DeleteMessage, Ended
  <2>3. /\ UNCHANGED <<press, row>>
        /\ job'[m].state # "queued" /\ \A n \in Messages : n # m => job'[n] = job[n]
    BY <1>7 DEF DeleteMessage, Ended
  <2> QED BY ZenonT(60), <2>1, <2>2, <2>3
<1>8. ASSUME NEW m \in Messages, MarkDeleted(m) PROVE StepInv'
  BY <1>8 DEF MarkDeleted, Ended, ClockInv
<1>9. ASSUME NEW m \in Messages, WorkerDies(m) PROVE StepInv'
  BY <1>9 DEF WorkerDies, Retried, Ended
<1>10. ASSUME NEW p \in Presses, NEW m \in Messages, NEW deleteOnly \in BOOLEAN, PressButton(p, m, deleteOnly) PROVE StepInv'
  BY <1>10 DEF PressButton, StartPress, Reading, Exists, Pressed
<1>11. ASSUME NEW p \in Presses, NEW m \in Messages, UpdateMessage(p, m) PROVE StepInv'
  BY <1>11 DEF UpdateMessage, StartPress, Reading, Exists, Pressed
<1>12. ASSUME NEW p \in Presses, ReadSticker(p) PROVE StepInv'
  BY ZenonT(60), <1>12 DEF ReadSticker, Outdated, NoPress, Pressed
<1>13. ASSUME NEW p \in Presses, EditMessage(p) PROVE StepInv'
  <2> DEFINE m == press[p].msg
  <2>1. m \in Messages
    BY <1>13 DEF EditMessage
  <2>2. \A n \in Messages : message[n].state = "lost" => message'[n].state = "lost"
    BY <1>13, EditKeeps DEF Kept
  <2>3. CASE message[m].state = "shown"
    <3>1. press' = [press EXCEPT ![p] = Pressed("mark", m, press[p].found, 0)]
      BY <1>13, <2>3 DEF EditMessage
    <3>2. press'[p].pc = "mark" /\ press'[p].msg = m /\ (press'[p].found <=> press[p].found)
      BY <3>1 DEF Pressed
    <3>3. ~press[p].found => message'[m].state = "lost"
      BY <1>13, <2>1, <2>3, LoseEffect DEF EditMessage
    <3>4. \A q \in Presses : q # p => press'[q] = press[q]
      BY <3>1
    <3>5. press[p].pc = "edit" /\ UNCHANGED <<row, job>>
      BY <1>13 DEF EditMessage
    <3>6. \A q \in Presses : press'[q].pc = "read" => row'[press'[q].msg].state # "none" /\ press'[q].since <= row'[press'[q].msg].updatedAt
      BY SMTT(40), <3>2, <3>4, <3>5
    <3>7. \A q \in Presses : press'[q].pc \in {"edit", "mark"} => row'[press'[q].msg].state # "none"
      <4>1. row'[m].state # "none" /\ \A q \in Presses : press[q].pc \in {"edit", "mark"} => row'[press[q].msg].state # "none"
        BY <3>5
      <4> QED BY <3>2, <3>4, <4>1
    <3>8. \A q \in Presses : press'[q].pc = "mark" /\ ~press'[q].found => message'[press'[q].msg].state = "lost"
      <4>1. ASSUME press'[p].pc = "mark", ~press'[p].found PROVE message'[press'[p].msg].state = "lost"
        BY <4>1, <3>2, <3>3
      <4>2. ASSUME NEW q \in Presses, q # p, press'[q].pc = "mark", ~press'[q].found PROVE message'[press'[q].msg].state = "lost"
        <5>1. press[q].pc = "mark" /\ ~press[q].found /\ press'[q].msg = press[q].msg /\ press[q].msg \in Messages
          BY <4>2, <3>4
        <5> QED BY <5>1, <2>2
      <4> QED BY <4>1, <4>2
    <3>9. /\ \A n \in Messages : job'[n].state = "mark" => message'[n].state = "lost"
          /\ \A n \in Messages : job'[n].state = "queued" => job'[n].tries < MaxTries
      BY <2>2, <3>5
    <3> HIDE DEF TypeOK
    <3> QED BY <3>6, <3>7, <3>8, <3>9
  <2>4. CASE message[m].state # "shown"
    <3>1. press'[p].pc = "idle" /\ \A q \in Presses : q # p => press'[q] = press[q]
      BY <1>13, <2>4 DEF EditMessage, NoPress, Pressed
    <3>2. UNCHANGED <<row, job>>
      BY <1>13 DEF EditMessage
    <3>3. \A q \in Presses : press'[q].pc = "mark" /\ ~press'[q].found => message'[press'[q].msg].state = "lost"
      BY <2>2, <3>1
    <3>4. /\ \A n \in Messages : job'[n].state = "mark" => message'[n].state = "lost"
          /\ \A n \in Messages : job'[n].state = "queued" => job'[n].tries < MaxTries
      BY <2>2, <3>2
    <3>5. \A q \in Presses : press'[q].pc = "read" => row'[press'[q].msg].state # "none" /\ press'[q].since <= row'[press'[q].msg].updatedAt
      BY <3>1, <3>2
    <3>6. \A q \in Presses : press'[q].pc \in {"edit", "mark"} => row'[press'[q].msg].state # "none"
      BY <3>1, <3>2
    <3> HIDE DEF TypeOK
    <3> QED BY <3>3, <3>4, <3>5, <3>6
  <2> QED BY <2>3, <2>4
<1>14. ASSUME NEW p \in Presses, Mark(p) PROVE StepInv'
  BY <1>14 DEF Mark, NoPress, Pressed, ClockInv
<1>15. ASSUME NEW p \in Presses, PressDies(p) PROVE StepInv'
  BY <1>15 DEF PressDies, NoPress, Pressed
<1>16. ASSUME NEW s \in Stickers, Change(s) PROVE StepInv'
  BY <1>16 DEF Change
<1>17. ASSUME NEW s \in Stickers, SoftDelete(s) PROVE StepInv'
  BY <1>17 DEF SoftDelete
<1>18. ASSUME NEW s \in Stickers, SendJobs(s) PROVE StepInv'
  <2>1. PICK sent \in SUBSET deletion[s].listed :
          job' = [m \in Messages |-> IF m \in sent THEN [state |-> "queued", tries |-> 0] ELSE job[m]]
    BY <1>18 DEF SendJobs
  <2>2. \A m \in Messages : job'[m] = job[m] \/ (job'[m].state = "queued" /\ job'[m].tries = 0)
    BY <2>1
  <2>3. 0 < MaxTries
    BY MessagesAssumption
  <2> QED BY <1>18, <2>2, <2>3 DEF SendJobs
<1>19. ASSUME NEW s \in Stickers, DeletionDies(s) PROVE StepInv'
  BY <1>19 DEF DeletionDies
<1>20. ASSUME NEW s \in Stickers, DropRows(s) PROVE StepInv'
  BY <1>20 DEF DropRows, Retired, RowsOf, Of, Exists, Exists
<1>21. ASSUME NEW s \in Stickers, HardDelete(s) PROVE StepInv'
  BY <1>21 DEF HardDelete
<1>22. ASSUME NEW s \in Stickers, NEW with \in BOOLEAN, ListMessages(s, with) PROVE StepInv'
  BY <1>22 DEF ListMessages
<1>23. ASSUME Count PROVE StepInv'
  BY <1>23 DEF Count
<1>24. ASSUME Write PROVE StepInv'
  BY <1>24 DEF Write
<1> HIDE DEF TypeOK, StepInv
<1> QED
  BY <1>1, <1>2, <1>3, <1>4, <1>5, <1>6, <1>7, <1>8, <1>9, <1>10, <1>11, <1>12, <1>13, <1>14, <1>15, <1>16, <1>17, <1>18, <1>19, <1>20, <1>21, <1>22, <1>23, <1>24 DEF Next

LEMMA ShownStep ==
  ASSUME TypeOK, ClockInv, StepInv, ShownInv, [Next]_vars
  PROVE  ShownInv'
<1> USE DEF ShownInv, Current, Marking, Older
<1>1. CASE UNCHANGED vars
  BY <1>1 DEF vars
<1>2. ASSUME Tick PROVE ShownInv'
  BY <1>2 DEF Tick
<1>3. ASSUME NEW m \in Messages, NEW s \in Stickers, Send(m, s) PROVE ShownInv'
  <2>1. \A n \in Messages : message'[n] = message[n] \/ (message'[n].sticker = s /\ message'[n].version = sticker[s].version)
    BY <1>3 DEF Send, Show, TypeOK
  <2>2. UNCHANGED <<sticker, row, press, overlapped>>
    BY <1>3 DEF Send, Show
  <2> QED BY <2>1, <2>2
<1>4. ASSUME NEW m \in Messages, NEW s \in Stickers, PostToFeed(m, s) PROVE ShownInv'
  <2>1. \A n \in Messages : message'[n] = message[n] \/ (message'[n].sticker = s /\ message'[n].version = sticker[s].version)
    BY <1>4 DEF PostToFeed, Show, TypeOK
  <2>2. UNCHANGED <<sticker, row, press, overlapped>>
    BY <1>4 DEF PostToFeed, Show
  <2> QED BY <2>1, <2>2
<1>5. ASSUME NEW m \in Messages, Record(m) PROVE ShownInv'
  <2>1. \A n \in Messages : n # m => row'[n] = row[n]
    BY <1>5 DEF Record, TypeOK
  <2>2. message[m].state = "shown" /\ m \notin overlapped => Current(m)
    BY <1>5 DEF Record
  <2> QED BY <1>5, <2>1, <2>2 DEF Record
<1>6. ASSUME NEW m \in Messages, Fetch(m) PROVE ShownInv'
  BY <1>6 DEF Fetch
<1>7. ASSUME NEW m \in Messages, DeleteMessage(m) PROVE ShownInv'
  <2>1. UNCHANGED <<sticker, row, press>>
    BY <1>7 DEF DeleteMessage
  <2>2. CASE Lose(m)
    <3>1. \A n \in Messages : message'[n].state = "shown" => n # m /\ message[n].state = "shown"
      BY <2>2, LoseEffect
    <3>2. \A n \in Messages : message'[n].sticker = message[n].sticker /\ message'[n].version = message[n].version
      BY <2>2, LoseEffect
    <3>3. overlapped' = overlapped \ {m}
      BY <2>2 DEF Lose
    <3> QED BY <2>1, <3>1, <3>2, <3>3
  <2>3. CASE UNCHANGED <<message, overlapped>>
    BY <2>1, <2>3
  <2> QED BY <1>7, <2>2, <2>3 DEF DeleteMessage
<1>8. ASSUME NEW m \in Messages, MarkDeleted(m) PROVE ShownInv'
  <2>1. message[m].state = "lost" /\ \A n \in Messages : n # m => row'[n] = row[n]
    BY <1>8 DEF MarkDeleted, StepInv, TypeOK
  <2> QED BY <1>8, <2>1 DEF MarkDeleted
<1>9. ASSUME NEW m \in Messages, WorkerDies(m) PROVE ShownInv'
  BY <1>9 DEF WorkerDies
<1>10. ASSUME NEW p \in Presses, NEW m \in Messages, NEW deleteOnly \in BOOLEAN, PressButton(p, m, deleteOnly) PROVE ShownInv'
  <2>1. \A n \in Messages : Marking(n)' => Marking(n)
    BY <1>10 DEF PressButton, StartPress, Reading, TypeOK, NoPress, Pressed
  <2> QED BY <1>10, <2>1 DEF PressButton, StartPress, Reading
<1>11. ASSUME NEW p \in Presses, NEW m \in Messages, UpdateMessage(p, m) PROVE ShownInv'
  <2>1. \A n \in Messages : Marking(n)' => Marking(n)
    BY <1>11 DEF UpdateMessage, StartPress, Reading, TypeOK, NoPress, Pressed
  <2> QED BY <1>11, <2>1 DEF UpdateMessage, StartPress, Reading
<1>12. ASSUME NEW p \in Presses, ReadSticker(p) PROVE ShownInv'
  <2>1. \A n \in Messages : Marking(n)' => Marking(n)
    BY <1>12 DEF ReadSticker, TypeOK, NoPress, Pressed
  <2> QED BY <1>12, <2>1 DEF ReadSticker
<1>13. ASSUME NEW p \in Presses, EditMessage(p) PROVE ShownInv'
  <2> DEFINE m == press[p].msg
  <2>1. m \in Messages /\ UNCHANGED <<sticker, row>>
    BY <1>13 DEF EditMessage, TypeOK
  <2>2. \A n \in Messages \ {m} : Marking(n)' => Marking(n)
    BY <1>13 DEF EditMessage, TypeOK, NoPress, Pressed
  <2>3. CASE Lose(m)
    <3>1. \A n \in Messages : message'[n].state = "shown" => n # m /\ message[n].state = "shown"
      BY <2>1, <2>3, LoseEffect
    <3>2. \A n \in Messages : message'[n].sticker = message[n].sticker /\ message'[n].version = message[n].version
      BY <2>1, <2>3, LoseEffect
    <3>3. overlapped' = overlapped \ {m}
      BY <2>3 DEF Lose
    <3> QED BY <2>1, <2>2, <3>1, <3>2, <3>3
  <2>4. CASE message' = [message EXCEPT ![m].version = press[p].version] /\ ~Lose(m) /\ message[m].state = "shown"
    <3>1. \A n \in Messages : message'[n].sticker = message[n].sticker /\ message'[n].state = message[n].state
      BY <2>1, <2>4, EditEffect
    <3>2. \A n \in Messages : n # m => message'[n].version = message[n].version
      BY <2>1, <2>4, EditEffect
    <3>3. message'[m].version = press[p].version
      <4>1. PICK v : v = press[p].version
        OBVIOUS
      <4>2. message' = [message EXCEPT ![m].version = v]
        BY <2>4, <4>1
      <4> HIDE DEF m
      <4>3. message'[m].version = v
        <5>1. message'[m] = [message[m] EXCEPT !.version = v] /\ message[m] \in MessageRecord
          BY <2>1, <4>2 DEF TypeOK, MessageRecord
        <5> QED BY <5>1 DEF MessageRecord
      <4> QED BY <4>1, <4>3
    <3>4. overlapped' = IF press[p].version = sticker[message[m].sticker].version THEN overlapped \ {m} ELSE overlapped \union {m}
      BY <1>13, <2>4 DEF EditMessage
    <3>5. m \notin overlapped' => press[p].version = sticker[message[m].sticker].version
      BY <3>4
    <3>6. m \notin overlapped' => message'[m].version = sticker'[message'[m].sticker].version
      BY <2>1, <3>1, <3>3, <3>5
    <3>7. \A n \in Messages : n # m /\ n \notin overlapped' => n \notin overlapped
      BY <3>4
    <3> SUFFICES ASSUME NEW n \in Messages, message'[n].state = "shown", n \notin overlapped'
                 PROVE  Current(n)' \/ (Older(n)' /\ ~Marking(n)')
      OBVIOUS
    <3>8. CASE n = m
      BY <3>6, <3>8
    <3>9. CASE n # m
      BY <2>1, <2>2, <3>1, <3>2, <3>7, <3>9
    <3> QED BY <3>8, <3>9
  <2>5. CASE UNCHANGED <<message, overlapped>> /\ message[m].state = "lost"
    BY <2>1, <2>2, <2>5
  <2> QED BY <1>13, <2>3, <2>4, <2>5 DEF EditMessage
<1>14. ASSUME NEW p \in Presses, Mark(p) PROVE ShownInv'
  <2> DEFINE m == press[p].msg
  <2>1. /\ m \in Messages
        /\ \A n \in Messages : n # m => row'[n] = row[n]
        /\ UNCHANGED <<sticker, message, overlapped>>
    BY <1>14 DEF Mark, TypeOK
  <2>2. \A n \in Messages : Marking(n)' => Marking(n)
    BY <1>14 DEF Mark, TypeOK, NoPress, Pressed
  <2>3. message[m].state = "shown" /\ m \notin overlapped => Current(m)
    BY <1>14, <2>1 DEF Mark
  <2> QED BY <2>1, <2>2, <2>3
<1>15. ASSUME NEW p \in Presses, PressDies(p) PROVE ShownInv'
  <2>1. \A n \in Messages : Marking(n)' => Marking(n)
    BY <1>15 DEF PressDies, TypeOK, NoPress, Pressed
  <2> QED BY <1>15, <2>1 DEF PressDies
<1>16. ASSUME NEW s \in Stickers, Change(s) PROVE ShownInv'
  <2>1. /\ \A t \in Stickers : t # s => sticker'[t] = sticker[t]
        /\ sticker'[s].updatedAt = now
        /\ UNCHANGED <<message, row, press>>
    BY <1>16 DEF Change, TypeOK
  <2> SUFFICES ASSUME NEW n \in Messages, message[n].state = "shown", n \notin overlapped'
               PROVE  Current(n)' \/ (Older(n)' /\ ~Marking(n)')
    BY <2>1
  <2>2. n \notin overlapped /\ message[n].sticker \in Stickers
    BY <1>16 DEF Change, ClockInv
  <2>3. CASE message[n].sticker # s
    BY <2>1, <2>2, <2>3
  <2>4. CASE message[n].sticker = s
    <3>1. ~Holding(n) /\ row[n].updatedAt # now
      BY <1>16, <2>4 DEF Change, Of
    <3>2. row[n].state # "none" /\ ~Marking(n)
      BY <3>1 DEF Holding, StepInv
    <3>3. row[n].updatedAt < now
      <4>1. now \in Int /\ row[n].updatedAt \in Int
        BY MessagesAssumption DEF TypeOK
      <4>2. row[n].updatedAt <= now
        BY DEF ClockInv
      <4> QED BY <3>1, <4>1, <4>2
    <3> QED BY <2>1, <2>4, <3>2, <3>3
  <2> QED BY <2>3, <2>4
<1>17. ASSUME NEW s \in Stickers, SoftDelete(s) PROVE ShownInv'
  <2>1. \A t \in Stickers : sticker'[t].version = sticker[t].version /\ sticker'[t].updatedAt \in {sticker[t].updatedAt, now}
    BY <1>17 DEF SoftDelete, TypeOK
  <2>2. \A n \in Messages, t \in Stickers : row[n].updatedAt < sticker[t].updatedAt => row[n].updatedAt < sticker'[t].updatedAt
    BY <2>1 DEF ClockInv, TypeOK
  <2>3. \A n \in Messages : message[n].state = "shown" => message[n].sticker \in Stickers
    BY DEF ClockInv
  <2> QED BY <1>17, <2>1, <2>2, <2>3 DEF SoftDelete
<1>18. ASSUME NEW s \in Stickers, SendJobs(s) PROVE ShownInv'
  BY <1>18 DEF SendJobs
<1>19. ASSUME NEW s \in Stickers, DeletionDies(s) PROVE ShownInv'
  BY <1>19 DEF DeletionDies
<1>20. ASSUME NEW s \in Stickers, DropRows(s) PROVE ShownInv'
  <2>1. \A n \in Messages : row'[n].updatedAt = row[n].updatedAt /\ (row[n].state # "none" => row'[n].state # "none")
    BY <1>20 DEF DropRows, TypeOK
  <2> QED BY <1>20, <2>1 DEF DropRows
<1>21. ASSUME NEW s \in Stickers, HardDelete(s) PROVE ShownInv'
  <2>1. \A t \in Stickers : sticker'[t].version = sticker[t].version /\ sticker'[t].updatedAt = sticker[t].updatedAt
    BY <1>21 DEF HardDelete, TypeOK
  <2>2. \A n \in Messages : message[n].state = "shown" => message[n].sticker \in Stickers
    BY DEF ClockInv
  <2> QED BY <1>21, <2>1, <2>2 DEF HardDelete
<1>22. ASSUME NEW s \in Stickers, NEW with \in BOOLEAN, ListMessages(s, with) PROVE ShownInv'
  BY <1>22 DEF ListMessages
<1>23. ASSUME Count PROVE ShownInv'
  BY <1>23 DEF Count
<1>24. ASSUME Write PROVE ShownInv'
  BY <1>24 DEF Write
<1> QED
  BY <1>1, <1>2, <1>3, <1>4, <1>5, <1>6, <1>7, <1>8, <1>9, <1>10, <1>11, <1>12, <1>13, <1>14, <1>15, <1>16, <1>17, <1>18, <1>19, <1>20, <1>21, <1>22, <1>23, <1>24 DEF Next

LEMMA Initially == Init => TypeOK /\ ClockInv /\ StepInv /\ ShownInv
<1> SUFFICES ASSUME Init PROVE TypeOK /\ ClockInv /\ StepInv /\ ShownInv
  OBVIOUS
<1> USE MessagesAssumption DEF Init
<1>1. press \in [Presses -> PressType] /\ \A p \in Presses : press[p].pc = "idle"
  BY IdleType
<1>2. Cardinality(Messages) \in Nat
  BY FS_CardinalityType
<1>3. /\ sticker \in [Stickers -> [state : {"live", "deleted", "gone"}, version : 0 .. MaxVersion, updatedAt : 0 .. MaxTime]]
      /\ job \in [Messages -> [state : {"none", "queued", "active", "mark", "done", "failed"}, tries : 0 .. MaxTries]]
      /\ row \in [Messages -> [state : {"none", "live", "deleted", "swept"}, updatedAt : 0 .. MaxTime]]
  OBVIOUS
<1>4. /\ message \in [Messages -> [state : {"unsent", "shown", "lost"}, sticker : Stickers \union {None},
                                   version : 0 .. MaxVersion, feed : BOOLEAN]]
      /\ deletion \in [Stickers -> [pc : {"idle", "listed", "send", "over"}, listed : SUBSET Messages, with : BOOLEAN]]
  BY Zero
<1>5. TypeOK
  BY <1>1, <1>2, <1>3, <1>4 DEF TypeOK, Idle, PressType
<1>6. ClockInv /\ StepInv /\ ShownInv
  BY <1>1 DEF ClockInv, StepInv, ShownInv
<1> QED BY <1>5, <1>6

THEOREM Invariant == Spec => [](TypeOK /\ ClockInv /\ StepInv /\ ShownInv)
<1> DEFINE Inv == TypeOK /\ ClockInv /\ StepInv /\ ShownInv
<1>1. Init => Inv
  BY Initially
<1>2. Inv /\ [Next]_vars => Inv'
  BY TypeStep, ClockStep, StepStep, ShownStep
<1> HIDE DEF Inv
<1>3. Spec => []Inv
  BY <1>1, <1>2, PTL DEF Spec
<1> QED BY <1>3 DEF Inv

(* The rows, the messages and the counts have their types, and StickerUsage
   counts nothing for a sticker that has been deleted for good. *)
THEOREM TypeCorrect == Spec => []TypeOK
BY Invariant, PTL

LEMMA UpToDateStep ==
  ASSUME TypeOK, ClockInv, StepInv, ShownInv, Next, NEW p \in Presses, press[p].pc = "read", press'[p].pc = "upToDate"
  PROVE  LET m == press[p].msg
         IN  message[m].state = "lost" \/ m \in overlapped \/ message[m].version = sticker[message[m].sticker].version
<1> DEFINE m == press[p].msg
<1>1. /\ m \in Messages
      /\ message[m].state # "unsent"
      /\ message[m].sticker \in Stickers
  BY DEF TypeOK, ClockInv, StepInv
<1>2. ASSUME UNCHANGED press PROVE FALSE
  BY <1>2
<1>3. ReadSticker(p)
  <2>1. ASSUME NEW q \in Presses, NEW n \in Messages, NEW deleteOnly \in BOOLEAN, UpdateMessage(q, n) \/ PressButton(q, n, deleteOnly) PROVE FALSE
    BY <2>1 DEF UpdateMessage, PressButton, StartPress, Reading, Pressed, TypeOK
  <2>2. ASSUME NEW q \in Presses, EditMessage(q) \/ Mark(q) \/ PressDies(q) PROVE FALSE
    BY <2>2 DEF EditMessage, Mark, PressDies, NoPress, Pressed, TypeOK
  <2>3. ASSUME NEW q \in Presses, ReadSticker(q) PROVE q = p
    BY <2>3 DEF ReadSticker, TypeOK
  <2> QED BY <1>2, <2>1, <2>2, <2>3 DEF Next, Tick, Send, PostToFeed, Show, Record, Fetch, DeleteMessage, MarkDeleted, WorkerDies, Change, SoftDelete,
                                    SendJobs, DeletionDies, DropRows, HardDelete, ListMessages, Count, Write
<1>4. ~Outdated(message[m].sticker, press[p].since)
  BY <1>1, <1>3 DEF ReadSticker, Pressed, TypeOK
<1>5. ~Older(m)
  BY <1>1, <1>4 DEF Outdated, Older, StepInv, TypeOK
<1>6. message[m].state \in {"unsent", "shown", "lost"}
  BY <1>1 DEF TypeOK
<1> QED BY <1>1, <1>5, <1>6 DEF ShownInv, Current

(* Whatever is told to be up to date shows the sticker as it is, unless a change
   met a send or a refresh of the message, or fell in its second. *)
THEOREM UpToDateHolds == Spec => UpToDateShown
<1>1. TypeOK /\ ClockInv /\ StepInv /\ ShownInv /\ [Next]_vars =>
        [\A p \in Presses : press[p].pc = "read" /\ press'[p].pc = "upToDate" =>
           LET m == press[p].msg
           IN  message[m].state = "lost" \/ m \in overlapped \/ message[m].version = sticker[message[m].sticker].version]_vars
  BY UpToDateStep
<1> QED BY <1>1, Invariant, PTL DEF Spec, UpToDateShown
=============================================================================
