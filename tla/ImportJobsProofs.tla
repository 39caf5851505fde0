---------------------------- MODULE ImportJobsProofs ----------------------------
(* Proofs about ImportJobs for any number of commands, stickers and retries:  *)
(* rows keep their files and files are not left behind, although attempts of  *)
(* one job may run beside each other and crash.                               *)
EXTENDS ImportJobs, TLAPS

LEMMA AttemptParts == \A a \in Attempts : a[1] \in Commands /\ a[2] \in 1 .. MaxTries /\ a = <<a[1], a[2]>>
BY DEF Attempts

(* What the queue knows of the attempts: a job waits only while it may be tried
   again, and attempts are numbered from 1 on. *)
QueueInv ==
  \A c \in Commands :
    /\ cmd[c].pc # "done" => queue[c].state = "none" /\ queue[c].tries = 0
    /\ queue[c].state = "waiting" => queue[c].tries < MaxTries
    /\ queue[c].state = "active" => queue[c].tries > 0
    /\ \A n \in 1 .. MaxTries : n > queue[c].tries => handler[<<c, n>>] = Unborn

LEMMA CmdType ==
  ASSUME TypeOK, NEW c \in Commands, Command(c)
  PROVE  TypeOK'
<1>0. HistoryOK'
  <2>1. CASE CmdCheck(c) BY <2>1 DEF CmdCheck, PassCheck, Checked, TypeOK, HistoryOK
  <2>2. CASE UNCHANGED history BY <2>2 DEF TypeOK, HistoryOK, history
  <2> QED BY <2>1, <2>2 DEF Command, CmdLookup, CmdCreateTelegramPack, CmdPack, CmdJob, CmdSend, CmdSendFails
<1> USE <1>0 DEF TypeOK
<1>1. CASE CmdLookup(c) BY <1>1 DEF CmdLookup, CmdStates, OwnPacks
<1>2. CASE CmdCheck(c)
  <2>1. cmd' \in [Commands -> CmdStates] BY <1>2 DEF CmdCheck, PassCheck, CmdGoTo, CmdStates
  <2> QED BY <1>2, <2>1 DEF CmdCheck
<1>3. CASE CmdCreateTelegramPack(c) BY <1>3 DEF CmdCreateTelegramPack, CmdGoTo, CmdStates
<1>4. CASE CmdPack(c) BY <1>4 DEF CmdPack, CmdGoTo, CmdStates
<1>5. CASE CmdJob(c) BY <1>5 DEF CmdJob, CmdGoTo, CmdStates, Statuses, ActiveStatuses
<1>6. CASE CmdSend(c) BY <1>6 DEF CmdSend, CmdGoTo, CmdStates, QueueStates
<1>7. CASE CmdSendFails(c) BY <1>7 DEF CmdSendFails, CmdGoTo, CmdStates
<1> QED BY <1>1, <1>2, <1>3, <1>4, <1>5, <1>6, <1>7 DEF Command

LEMMA BossType ==
  ASSUME TypeOK, QueueInv, NEW c \in Commands, Deliver(c) \/ Expire(c)
  PROVE  TypeOK'
<1>0. HistoryOK' BY DEF Deliver, Expire, history, TypeOK, HistoryOK
<1> USE <1>0 DEF TypeOK, QueueStates
<1>1. CASE Deliver(c)
  <2>1. queue[c].tries + 1 \in 1 .. MaxTries BY <1>1, JobsAssumption DEF Deliver, QueueInv
  <2>2. <<c, queue[c].tries + 1>> \in Attempts BY <2>1 DEF Attempts
  <2>3. queue' \in [Commands -> QueueStates] BY <1>1, <2>1 DEF Deliver
  <2>4. handler' \in [Attempts -> HandlerStates] BY <1>1, <2>2 DEF Deliver, HandlerStates, Busy
  <2> QED BY <1>1, <2>3, <2>4 DEF Deliver
<1>2. CASE Expire(c) BY <1>2 DEF Expire, Retry
<1> QED BY <1>1, <1>2

LEMMA ReturnType ==
  ASSUME TypeOK, NEW a \in Attempts, Return(a)
  PROVE  handler' \in [Attempts -> HandlerStates] /\ queue' \in [Commands -> QueueStates]
BY ZenonT(60) DEF TypeOK, Return, GoTo, HandlerStates, QueueStates

LEMMA HandleType ==
  ASSUME TypeOK, NEW a \in Attempts, Handle(a) \/ Throw(a)
  PROVE  TypeOK'
<1>0. HistoryOK'
  <2>1. CASE Rollback(a)
    <3>1. handler[a].new \subseteq Keys BY DEF TypeOK, HandlerStates
    <3> QED BY <2>1, <3>1 DEF Rollback, TypeOK, HistoryOK
  <2>2. CASE UNCHANGED history BY <2>2 DEF TypeOK, HistoryOK, history
  <2> QED BY <2>1, <2>2 DEF Handle, Start, Fetch, Sticker, Finalize, Commit, Abort, Count, CleanUp, Complete, Throw
<1> USE <1>0, AttemptParts DEF TypeOK, GoTo, SetStatus, Statuses, ActiveStatuses, FinalStatuses
<1>1. CASE Start(a)
  <2>1. status' \in [Commands -> Statuses] BY <1>1 DEF Start
  <2>2. CASE Return(a) BY <1>1, <2>1, <2>2, ReturnType DEF Start
  <2>3. CASE GoTo(a, "fetch") /\ UNCHANGED queue BY <1>1, <2>1, <2>3 DEF Start, HandlerStates, Busy
  <2> QED BY <1>1, <2>2, <2>3 DEF Start
<1>2. CASE Fetch(a)
  <2>1. status' \in [Commands -> Statuses] BY <1>2 DEF Fetch
  <2>2. GoTo(a, "count") \/ handler' = [handler EXCEPT ![a].pc = "phase1", ![a].todo = Keys] BY <1>2 DEF Fetch
  <2>3. handler[a] \in HandlerStates OBVIOUS
  <2>4. \E h \in HandlerStates : handler' = [handler EXCEPT ![a] = h]
    <3>1. CASE GoTo(a, "count")
      <4>1. [handler[a] EXCEPT !.pc = "count"] \in HandlerStates BY <2>3 DEF HandlerStates, Busy
      <4> QED BY <3>1, <4>1
    <3>2. CASE handler' = [handler EXCEPT ![a].pc = "phase1", ![a].todo = Keys]
      <4>1. [handler[a] EXCEPT !.pc = "phase1", !.todo = Keys] \in HandlerStates BY <2>3 DEF HandlerStates, Busy
      <4> QED BY <3>2, <4>1
    <3> QED BY <2>2, <3>1, <3>2
  <2>5. handler' \in [Attempts -> HandlerStates] BY <2>4
  <2> QED BY <1>2, <2>1, <2>5 DEF Fetch
<1>3. ASSUME NEW k \in Keys, Sticker(a, k) PROVE TypeOK'
  <2>1. files' \subseteq Attempts \X Keys BY <1>3 DEF Sticker
  <2>2. handler' \in [Attempts -> HandlerStates] BY <1>3 DEF Sticker, HandlerStates
  <2> QED BY <1>3, <2>1, <2>2 DEF Sticker
<1>4. CASE Finalize(a) BY <1>4 DEF Finalize, HandlerStates, Busy
<1>5. CASE Commit(a)
  <2>1. rows' \in [Keys -> Attempts \union {None}] BY <1>5 DEF Commit
  <2>2. handler' \in [Attempts -> HandlerStates] BY <1>5 DEF Commit, HandlerStates, Busy
  <2>3. filled' \subseteq Commands BY <1>5 DEF Commit
  <2> QED BY <1>5, <2>1, <2>2, <2>3 DEF Commit
<1>6. CASE Abort(a)
  <2>1. status' \in [Commands -> Statuses] BY <1>6 DEF Abort
  <2>2. GoTo(a, "count") \/ GoTo(a, "rollback") BY <1>6 DEF Abort
  <2>3. handler' \in [Attempts -> HandlerStates] BY <2>2, SMTT(30) DEF HandlerStates, Busy
  <2> QED BY <1>6, <2>1, <2>3 DEF Abort
<1>7. CASE Rollback(a)
  <2>1. files' \subseteq Attempts \X Keys BY <1>7 DEF Rollback
  <2>2. handler' \in [Attempts -> HandlerStates] BY <1>7 DEF Rollback, HandlerStates, Busy
  <2> QED BY <1>7, <2>1, <2>2 DEF Rollback
<1>8. CASE Count(a)
  <2>1. CASE Return(a) BY <1>8, <2>1, ReturnType DEF Count
  <2>2. CASE GoTo(a, "cleanup") /\ UNCHANGED queue BY <1>8, <2>2 DEF Count, HandlerStates, Busy
  <2> QED BY <1>8, <2>1, <2>2 DEF Count
<1>9. CASE CleanUp(a)
  <2>1. packs' \in [Commands -> {"none", "live", "deleted"}] BY <1>9 DEF CleanUp
  <2> QED BY <1>9, <2>1, ReturnType DEF CleanUp
<1>10. CASE Complete(a)
  <2>1. status' \in [Commands -> Statuses] BY <1>10 DEF Complete
  <2> QED BY <1>10, <2>1, ReturnType DEF Complete
<1>11. CASE Throw(a)
  <2>1. handler' \in [Attempts -> HandlerStates] BY <1>11 DEF Throw, HandlerStates
  <2>2. queue' \in [Commands -> QueueStates] BY <1>11 DEF Throw, Retry, QueueStates
  <2> QED BY <1>11, <2>1, <2>2 DEF Throw
<1> QED BY <1>1, <1>2, <1>3, <1>4, <1>5, <1>6, <1>7, <1>8, <1>9, <1>10, <1>11 DEF Handle

LEMMA TypeStep == TypeOK /\ QueueInv /\ [Next]_vars => TypeOK'
<1> SUFFICES ASSUME TypeOK, QueueInv, [Next]_vars PROVE TypeOK' OBVIOUS
<1>1. CASE Crash BY <1>1 DEF Crash, TypeOK, HandlerStates, HistoryOK, history
<1>2. CASE Over \/ UNCHANGED vars BY <1>2 DEF Over, vars, TypeOK, HistoryOK
<1> QED BY <1>1, <1>2, CmdType, BossType, HandleType DEF Next

-----------------------------------------------------------------------------

(* Steps of a handler leave the commands alone, end at most the current job's
   turn, and touch no other attempt. *)
LEMMA HandleFrame ==
  ASSUME TypeOK, NEW a \in Attempts, Handle(a) \/ Throw(a)
  PROVE  /\ cmd' = cmd
         /\ \A b \in Attempts : b # a => handler'[b] = handler[b]
         /\ handler[a].pc \in Busy
         /\ \/ queue' = queue
            \/ /\ Current(a)
               /\ \E s \in {"done", "failed", "waiting"} :
                    /\ queue' = [queue EXCEPT ![a[1]].state = s]
                    /\ s = "waiting" => queue[a[1]].tries < MaxTries
<1> USE DEF TypeOK, GoTo, Busy, Running
<1>0. CASE Start(a) BY <1>0 DEF Start, Return
<1>1. CASE Fetch(a) \/ Finalize(a) \/ Commit(a) \/ Abort(a) \/ Rollback(a)
  BY <1>1 DEF Fetch, Finalize, Commit, Abort, Rollback
<1>2. ASSUME NEW k \in Keys, Sticker(a, k)
      PROVE  /\ cmd' = cmd /\ queue' = queue /\ handler[a].pc \in Busy
             /\ \A b \in Attempts : b # a => handler'[b] = handler[b]
  BY <1>2 DEF Sticker
<1>3. CASE Count(a) BY <1>3 DEF Count, Return
<1>4. CASE CleanUp(a) \/ Complete(a) BY <1>4 DEF CleanUp, Complete, Return
<1>5. CASE Throw(a) BY <1>5 DEF Throw, Retry
<1> QED BY <1>0, <1>1, <1>2, <1>3, <1>4, <1>5 DEF Handle

LEMMA QueueStep == TypeOK /\ QueueInv /\ [Next]_vars => QueueInv'
<1> SUFFICES ASSUME TypeOK, QueueInv, [Next]_vars PROVE QueueInv' OBVIOUS
<1> USE AttemptParts, JobsAssumption
<1>1. ASSUME NEW c \in Commands, Command(c) PROVE QueueInv'
  <2> USE DEF TypeOK, QueueInv
  <2>1. CASE CmdSend(c) BY <1>1, <2>1 DEF CmdSend, CmdGoTo, CmdStates, QueueStates
  <2>2. CASE CmdSendFails(c) BY <2>2 DEF CmdSendFails, CmdGoTo, CmdStates
  <2>3. CASE CmdLookup(c) BY <2>3 DEF CmdLookup, CmdStates
  <2>4. CASE CmdCheck(c) \/ CmdCreateTelegramPack(c) \/ CmdPack(c) \/ CmdJob(c)
    BY <2>4 DEF CmdCheck, PassCheck, CmdCreateTelegramPack, CmdPack, CmdJob, CmdGoTo, CmdStates
  <2> QED BY <1>1, <2>1, <2>2, <2>3, <2>4 DEF Command
<1>2. ASSUME NEW c \in Commands, Deliver(c) PROVE QueueInv'
  <2> DEFINE a == <<c, queue[c].tries + 1>>
  <2>1. queue[c].tries \in Nat /\ queue[c].tries < MaxTries BY <1>2 DEF Deliver, TypeOK, QueueStates, QueueInv
  <2>2. queue' = [queue EXCEPT ![c] = [state |-> "active", tries |-> queue[c].tries + 1]] /\ cmd' = cmd
    BY <1>2 DEF Deliver
  <2>3. \A b \in Attempts : b # a => handler'[b] = handler[b] BY <1>2 DEF Deliver, TypeOK
  <2>4. ASSUME NEW d \in Commands
        PROVE  /\ cmd'[d].pc # "done" => queue'[d].state = "none" /\ queue'[d].tries = 0
               /\ queue'[d].state = "waiting" => queue'[d].tries < MaxTries
               /\ queue'[d].state = "active" => queue'[d].tries > 0
    BY <1>2, <2>1, <2>2 DEF Deliver, TypeOK, QueueInv
  <2>5. ASSUME NEW d \in Commands, NEW n \in 1 .. MaxTries, n > queue'[d].tries PROVE handler'[<<d, n>>] = Unborn
    <3>1. n > queue[d].tries /\ <<d, n>> # a BY <2>1, <2>2, <2>5 DEF TypeOK, QueueStates
    <3>2. <<d, n>> \in Attempts BY DEF Attempts
    <3> QED BY <2>3, <3>1, <3>2 DEF QueueInv
  <2> QED BY <2>4, <2>5 DEF QueueInv
<1>3. ASSUME NEW c \in Commands, Expire(c) PROVE QueueInv'
  BY <1>3 DEF Expire, Retry, TypeOK, QueueStates, QueueInv
<1>4. ASSUME NEW a \in Attempts, Handle(a) \/ Throw(a) PROVE QueueInv'
  <2>1. cmd' = cmd BY <1>4, HandleFrame
  <2>2. a[2] <= queue[a[1]].tries
    <3>1. handler[a].pc \in Busy BY <1>4, HandleFrame
    <3>2. handler[a] # Unborn BY <3>1 DEF Busy, Unborn
    <3>3. a[1] \in Commands /\ a[2] \in 1 .. MaxTries /\ handler[a] = handler[<<a[1], a[2]>>] OBVIOUS
    <3>4. ~(a[2] > queue[a[1]].tries) BY <3>2, <3>3 DEF QueueInv
    <3>5. queue[a[1]].tries \in 0 .. MaxTries BY <3>3 DEF TypeOK, QueueStates
    <3> QED BY <3>3, <3>4, <3>5
  <2>3. \A d \in Commands : queue'[d].tries = queue[d].tries
    <3>1. \/ queue' = queue
          \/ \E s \in {"done", "failed", "waiting"} : queue' = [queue EXCEPT ![a[1]].state = s]
      BY <1>4, HandleFrame
    <3> QED BY <3>1 DEF TypeOK, QueueStates
  <2>4. ASSUME NEW d \in Commands
        PROVE  /\ cmd'[d].pc # "done" => queue'[d].state = "none" /\ queue'[d].tries = 0
               /\ queue'[d].state = "waiting" => queue'[d].tries < MaxTries
               /\ queue'[d].state = "active" => queue'[d].tries > 0
    <3>1. CASE queue' = queue BY <2>1, <3>1 DEF QueueInv
    <3>2. CASE queue' # queue
      <4>1. /\ Current(a)
            /\ \E s \in {"done", "failed", "waiting"} :
                 /\ queue' = [queue EXCEPT ![a[1]].state = s]
                 /\ s = "waiting" => queue[a[1]].tries < MaxTries
        BY <1>4, <3>2, HandleFrame
      <4> QED BY <2>1, <4>1 DEF Current, QueueInv, TypeOK, QueueStates
    <3> QED BY <3>1, <3>2
  <2>5. ASSUME NEW d \in Commands, NEW n \in 1 .. MaxTries, n > queue'[d].tries PROVE handler'[<<d, n>>] = Unborn
    <3>1. n > queue[d].tries BY <2>3, <2>5
    <3>2. <<d, n>> # a BY <2>2, <3>1 DEF TypeOK, QueueStates
    <3>3. <<d, n>> \in Attempts BY DEF Attempts
    <3> QED BY <1>4, <3>1, <3>2, <3>3, HandleFrame DEF QueueInv
  <2> QED BY <2>4, <2>5 DEF QueueInv
<1>5. CASE Crash
  <2>1. ASSUME NEW d \in Commands, NEW n \in 1 .. MaxTries, n > queue[d].tries PROVE handler'[<<d, n>>] = Unborn
    <3>1. <<d, n>> \in Attempts BY DEF Attempts
    <3>2. handler[<<d, n>>] = Unborn BY <2>1 DEF QueueInv
    <3> QED BY <1>5, <3>1, <3>2 DEF Crash, Running, Busy, Unborn
  <2> QED BY <1>5, <2>1 DEF Crash, QueueInv
<1>6. CASE Over \/ UNCHANGED vars BY <1>6 DEF Over, vars, QueueInv
<1> QED BY <1>1, <1>2, <1>3, <1>4, <1>5, <1>6 DEF Next

LEMMA InitInv == Init => TypeOK /\ QueueInv
<1> SUFFICES ASSUME Init PROVE TypeOK /\ QueueInv OBVIOUS
<1>1. TypeOK
  <2>1. cmd \in [Commands -> CmdStates] BY DEF Init, CmdStates
  <2>2. queue \in [Commands -> QueueStates] BY JobsAssumption DEF Init, QueueStates
  <2>3. handler \in [Attempts -> HandlerStates] BY DEF Init, HandlerStates, Unborn
  <2> QED BY <2>1, <2>2, <2>3 DEF Init, TypeOK, HistoryOK, Statuses
<1>2. QueueInv BY DEF Init, QueueInv, Attempts
<1> QED BY <1>1, <1>2

LEMMA Queued == Spec => [](TypeOK /\ QueueInv)
BY InitInv, TypeStep, QueueStep, PTL DEF Spec

(* Every state is well typed, however often jobs are tried. *)
THEOREM TypeCorrect == Spec => []TypeOK
BY Queued, PTL
-----------------------------------------------------------------------------
(* Files: which attempt may have left which file. *)

Committed == {"complete", "ended", "lost"}

FileInvAt(a, k) ==
  /\ rows[k] = a => <<a, k>> \in files /\ handler[a].pc \in Committed
  /\ handler[a].pc \in {"none", "start", "fetch"} => handler[a].new = {}
  /\ handler[a].pc \in {"phase1", "transaction"} /\ k \in handler[a].new => <<a, k>> \in files
  /\ <<a, k>> \in files =>
       \/ handler[a].pc \in {"phase1", "transaction", "rollback"} /\ k \in handler[a].new
       \/ handler[a].pc = "lost"
       \/ handler[a].pc \in {"complete", "ended"} /\ rows[k] = a
       \/ <<a, k>> \in undeleted

FileInv == \A a \in Attempts, k \in Keys : FileInvAt(a, k)

LEMMA HandlerFiles ==
  ASSUME TypeOK, FileInv, NEW a \in Attempts, Handle(a) \/ Throw(a), NEW b \in Attempts, NEW k \in Keys
  PROVE  FileInvAt(b, k)'
<1> USE DEF TypeOK, HandlerStates, FileInv, FileInvAt, Committed, GoTo, history
<1>1. CASE Start(a) BY <1>1 DEF Start, Return
<1>2. CASE Fetch(a) BY <1>2 DEF Fetch
<1>3. ASSUME NEW l \in Keys, Sticker(a, l) PROVE FileInvAt(b, k)' BY <1>3 DEF Sticker
<1>4. CASE Finalize(a) BY <1>4 DEF Finalize
<1>5. CASE Commit(a)
  <2>1. CASE k \in handler[a].new BY <1>5, <2>1, JobsAssumption DEF Commit, Attempts
  <2>2. CASE k \notin handler[a].new BY <1>5, <2>2 DEF Commit
  <2> QED BY <2>1, <2>2
<1>6. CASE Abort(a) BY <1>6 DEF Abort
<1>7. CASE Rollback(a) BY <1>7 DEF Rollback
<1>8. CASE Count(a) BY <1>8 DEF Count, Return
<1>9. CASE CleanUp(a) BY <1>9 DEF CleanUp, Return
<1>10. CASE Complete(a) BY <1>10 DEF Complete, Return
<1>11. CASE Throw(a) BY <1>11 DEF Throw, Running, Busy
<1> QED BY <1>1, <1>2, <1>3, <1>4, <1>5, <1>6, <1>7, <1>8, <1>9, <1>10, <1>11 DEF Handle

LEMMA FilesUnchanged == FileInv /\ UNCHANGED <<rows, files, handler, undeleted>> => FileInv'
<1> SUFFICES ASSUME FileInv, UNCHANGED <<rows, files, handler, undeleted>>,
                    NEW a \in Attempts, NEW k \in Keys
             PROVE  FileInvAt(a, k)'
  BY DEF FileInv
<1>1. FileInvAt(a, k) BY DEF FileInv
<1> QED BY <1>1 DEF FileInvAt

LEMMA FileStep == TypeOK /\ QueueInv /\ FileInv /\ [Next]_vars => FileInv'
<1> SUFFICES ASSUME TypeOK, QueueInv, FileInv, [Next]_vars PROVE FileInv' OBVIOUS
<1>1. ASSUME NEW a \in Attempts, Handle(a) \/ Throw(a) PROVE FileInv'
  BY <1>1, HandlerFiles DEF FileInv, FileInvAt
<1>2. ASSUME NEW c \in Commands, Command(c) \/ Expire(c) PROVE UNCHANGED <<rows, files, handler, undeleted>>
  BY <1>2 DEF Command, history, PassCheck, CmdLookup, CmdCheck, CmdCreateTelegramPack, CmdPack, CmdJob, CmdSend, CmdSendFails, Expire
<1>3. ASSUME NEW c \in Commands, Deliver(c) PROVE FileInv'
  <2> DEFINE a == <<c, queue[c].tries + 1>>
  <2>1. queue[c].tries \in Nat /\ queue[c].tries < MaxTries BY <1>3 DEF Deliver, TypeOK, QueueStates, QueueInv
  <2>2. queue[c].tries + 1 \in 1 .. MaxTries BY <2>1, JobsAssumption
  <2>3. a \in Attempts /\ handler[a] = Unborn BY <2>1, <2>2 DEF QueueInv, Attempts
  <2>4. handler' = [handler EXCEPT ![a].pc = "start"] /\ UNCHANGED <<rows, files, undeleted>> BY <1>3 DEF Deliver, history
  <2> HIDE DEF a
  <2>5. ASSUME NEW b \in Attempts, NEW k \in Keys PROVE FileInvAt(b, k)'
    <3>1. FileInvAt(b, k) BY DEF FileInv
    <3>2. CASE b = a
      <4>1. handler'[b].pc = "start" /\ handler'[b].new = {} BY <2>3, <2>4, <3>2 DEF TypeOK, Unborn
      <4>2. handler[b].pc = "none" BY <2>3, <3>2 DEF Unborn
      <4> QED BY <2>4, <3>1, <4>1, <4>2 DEF FileInvAt, Committed
    <3>3. CASE b # a
      <4>1. handler'[b] = handler[b] BY <2>3, <2>4, <3>3 DEF TypeOK
      <4> QED BY <2>4, <3>1, <4>1 DEF FileInvAt
    <3> QED BY <3>2, <3>3
  <2> QED BY <2>5 DEF FileInv
<1>4. CASE Crash
  <2>1. ASSUME NEW a \in Attempts, NEW k \in Keys PROVE FileInvAt(a, k)'
    <3>1. FileInvAt(a, k) BY DEF FileInv
    <3>2. UNCHANGED <<rows, files, undeleted>> BY <1>4 DEF Crash, history
    <3>3. CASE Running(a)
      <4>1. handler'[a] = [handler[a] EXCEPT !.pc = "lost"] BY <1>4, <3>3 DEF Crash
      <4>2. handler[a] \in HandlerStates BY DEF TypeOK
      <4>3. handler'[a].pc = "lost" BY <4>1, <4>2 DEF HandlerStates
      <4> QED BY <3>1, <3>2, <4>3 DEF FileInvAt, Committed
    <3>4. CASE ~Running(a)
      <4>1. handler'[a] = handler[a] BY <1>4, <3>4 DEF Crash
      <4> QED BY <3>1, <3>2, <4>1 DEF FileInvAt
    <3> QED BY <3>3, <3>4
  <2> QED BY <2>1 DEF FileInv
<1>5. CASE Over \/ UNCHANGED vars
  <2>1. UNCHANGED <<rows, files, handler, undeleted>> BY <1>5 DEF Over, vars
  <2> QED BY <2>1, FilesUnchanged
<1> QED BY <1>1, <1>2, <1>3, <1>4, <1>5, FilesUnchanged DEF Next

LEMMA FilesKept == Spec => []FileInv
<1>1. Init => FileInv BY JobsAssumption DEF Init, FileInv, FileInvAt, Unborn, Attempts
<1> QED BY <1>1, Queued, FileStep, PTL DEF Spec

(* A shared row never loses its file to another attempt's rollback. *)
THEOREM FilesPresent == Spec => []RowsHaveFiles
<1>1. TypeOK /\ FileInv => RowsHaveFiles BY DEF TypeOK, FileInv, FileInvAt, RowsHaveFiles
<1> QED BY <1>1, FilesKept, Queued, PTL

(* An attempt that ends by itself leaves no file without a row but those it was
   refused to delete. *)
THEOREM NothingLeaked == Spec => []NoLeakOnReturn
<1>1. FileInv => NoLeakOnReturn BY DEF FileInv, FileInvAt, NoLeakOnReturn
<1> QED BY <1>1, FilesKept, PTL

(* Once a sticker has a row, that row stays. *)
THEOREM RowsKept == Spec => RowsStay
<1>1. [Next]_vars => \A k \in Keys : rows[k] # None => rows'[k] = rows[k]
  <2> SUFFICES ASSUME [Next]_vars, NEW k \in Keys, rows[k] # None PROVE rows'[k] = rows[k] OBVIOUS
  <2>1. ASSUME NEW a \in Attempts, Commit(a) PROVE rows'[k] = rows[k] BY <2>1 DEF Commit
  <2>2. ASSUME NEW a \in Attempts,
               \/ Start(a) \/ Fetch(a) \/ (\E l \in Keys : Sticker(a, l)) \/ Finalize(a) \/ Abort(a)
               \/ Rollback(a) \/ Count(a) \/ CleanUp(a) \/ Complete(a) \/ Throw(a)
        PROVE  rows' = rows
    BY <2>2 DEF Start, Fetch, Sticker, Finalize, Abort, Rollback, Count, CleanUp, Complete, Throw
  <2>3. ASSUME NEW c \in Commands, Command(c) \/ Deliver(c) \/ Expire(c) PROVE rows' = rows
    BY <2>3 DEF Command, CmdLookup, CmdCheck, CmdCreateTelegramPack, CmdPack, CmdJob, CmdSend, CmdSendFails,
         Deliver, Expire
  <2>4. CASE Crash \/ Over \/ UNCHANGED vars BY <2>4 DEF Crash, Over, vars
  <2> QED BY <2>1, <2>2, <2>3, <2>4 DEF Next, Handle
<1> QED BY <1>1, PTL DEF Spec, RowsStay

-----------------------------------------------------------------------------
(* Statuses: what a status says of the command, the job and its attempts. *)

Working == {"fetch", "phase1", "transaction", "complete", "lost"}

(* Until the job is created there is no status; a job is PENDING until one of
   its attempts starts; and what an attempt has put to work is at work, or the
   attempt has died. *)
StatusInvAt(c) ==
  /\ cmd[c].pc \in {"new", "check", "telegramPack", "pack", "job"} => status[c] = "none"
  /\ cmd[c].pc = "send" => status[c] = "PENDING"
  /\ queue[c].state \in {"done", "failed"} => queue[c].tries > 0
  /\ \A n \in 1 .. MaxTries : n <= queue[c].tries => handler[<<c, n>>].pc # "none"
  /\ status[c] = "PENDING" => \A n \in 1 .. MaxTries : handler[<<c, n>>].pc \in {"none", "start", "lost"}
  /\ status[c] \in ActiveStatuses \ {"PENDING"} => \E n \in 1 .. MaxTries : handler[<<c, n>>].pc \in Working

StatusInv == \A c \in Commands : StatusInvAt(c)

(* What a step of a handler does to the status of its job. *)
Opening == {"start", "fetch", "phase1"}

StatusKept(a) ==
  /\ status' = status
  /\ handler[a].pc \in Working => handler'[a].pc \in Working
  /\ handler[a].pc = "start" => handler'[a].pc = "lost"
  /\ handler'[a].pc \in Opening => handler[a].pc \in Opening

StatusSet(a) ==
  \/ /\ \E s \in ActiveStatuses \ {"PENDING"} : SetStatus(a, s)
     /\ handler[a].pc \in Opening
     /\ handler'[a].pc \in Working
  \/ /\ \E s \in {"FAILED", "ROLLING_BACK", "COMPLETED"} : SetStatus(a, s)
     /\ handler'[a].pc \notin Opening

LEMMA HandleStatus ==
  ASSUME TypeOK, NEW a \in Attempts, Handle(a) \/ Throw(a)
  PROVE  /\ handler'[a].pc # "none"
         /\ StatusKept(a) \/ StatusSet(a)
<1> USE DEF TypeOK, HandlerStates, GoTo, StatusKept, StatusSet, Working, Opening, ActiveStatuses
<1>1. CASE Start(a) BY <1>1 DEF Start, Return
<1>2. CASE Fetch(a) BY <1>2 DEF Fetch
<1>3. ASSUME NEW k \in Keys, Sticker(a, k) PROVE handler'[a].pc # "none" /\ StatusKept(a)
  BY <1>3 DEF Sticker
<1>4. CASE Finalize(a) BY <1>4 DEF Finalize
<1>5. CASE Commit(a) BY <1>5 DEF Commit
<1>6. CASE Abort(a) BY <1>6 DEF Abort
<1>7. CASE Rollback(a) BY <1>7 DEF Rollback
<1>8. CASE Count(a) BY <1>8 DEF Count, Return
<1>9. CASE CleanUp(a) BY <1>9 DEF CleanUp, Return
<1>10. CASE Complete(a) BY <1>10 DEF Complete, Return
<1>11. CASE Throw(a) BY <1>11 DEF Throw
<1> QED BY <1>1, <1>2, <1>3, <1>4, <1>5, <1>6, <1>7, <1>8, <1>9, <1>10, <1>11 DEF Handle

(* A handler that takes a step is one that pg-boss has begun. *)
LEMMA Begun ==
  ASSUME TypeOK, QueueInv, NEW a \in Attempts, Handle(a) \/ Throw(a)
  PROVE  a[2] <= queue[a[1]].tries /\ \A c \in Commands : queue'[c].tries = queue[c].tries
<1> USE AttemptParts
<1>1. handler[a].pc \in Busy BY HandleFrame
<1>2. handler[a] # Unborn BY <1>1 DEF Busy, Unborn
<1>3. a[1] \in Commands /\ a[2] \in 1 .. MaxTries /\ handler[a] = handler[<<a[1], a[2]>>] OBVIOUS
<1>4. ~(a[2] > queue[a[1]].tries) BY <1>2, <1>3 DEF QueueInv
<1>5. queue[a[1]].tries \in 0 .. MaxTries BY <1>3 DEF TypeOK, QueueStates
<1>6. queue' = queue \/ \E s \in {"done", "failed", "waiting"} : queue' = [queue EXCEPT ![a[1]].state = s]
  BY HandleFrame
<1>7. \A c \in Commands : queue'[c].tries = queue[c].tries
  <2>1. CASE queue' = queue BY <2>1
  <2>2. ASSUME NEW s \in {"done", "failed", "waiting"}, queue' = [queue EXCEPT ![a[1]].state = s]
        PROVE  \A c \in Commands : queue'[c].tries = queue[c].tries
    <3>1. \A c \in Commands : queue[c] \in QueueStates BY DEF TypeOK
    <3>2. \A c \in Commands : c # a[1] => queue'[c] = queue[c] BY <2>2 DEF TypeOK
    <3>3. queue'[a[1]] = [queue[a[1]] EXCEPT !.state = s] BY <1>3, <2>2 DEF TypeOK
    <3>4. queue'[a[1]].tries = queue[a[1]].tries BY <1>3, <3>1, <3>3 DEF QueueStates
    <3> QED BY <3>2, <3>4
  <2> QED BY <1>6, <2>1, <2>2
<1> QED BY <1>3, <1>4, <1>5, <1>7

LEMMA CommandStatus ==
  ASSUME TypeOK, QueueInv, StatusInv, NEW c \in Commands, Command(c)
  PROVE  StatusInv'
<1> SUFFICES ASSUME NEW d \in Commands PROVE StatusInvAt(d)' BY DEF StatusInv
<1>1. StatusInvAt(d) /\ cmd[d] \in CmdStates BY DEF StatusInv, TypeOK
<1>2. handler' = handler BY DEF Command, CmdLookup, CmdCheck, CmdCreateTelegramPack, CmdPack, CmdJob, CmdSend, CmdSendFails
<1> USE DEF TypeOK, CmdStates, CmdGoTo
<1>3. CASE CmdLookup(c) BY <1>1, <1>2, <1>3 DEF CmdLookup, StatusInvAt
<1>4. CASE CmdCheck(c) BY <1>1, <1>2, <1>4 DEF CmdCheck, PassCheck, StatusInvAt
<1>5. CASE CmdCreateTelegramPack(c) BY <1>1, <1>2, <1>5 DEF CmdCreateTelegramPack, StatusInvAt
<1>6. CASE CmdPack(c) BY <1>1, <1>2, <1>6 DEF CmdPack, StatusInvAt
<1>7. CASE CmdJob(c)
  <2>1. CASE d = c
    <3>1. cmd[c].pc = "job" /\ cmd'[c].pc = "send" /\ status'[c] = "PENDING" /\ queue' = queue
      BY <1>7 DEF CmdJob
    <3>2. queue[c].state = "none" /\ queue[c].tries = 0 BY <3>1 DEF QueueInv
    <3>3. \A n \in 1 .. MaxTries : handler[<<c, n>>] = Unborn BY <3>2 DEF QueueInv
    <3> QED BY <1>2, <2>1, <3>1, <3>2, <3>3 DEF StatusInvAt, Unborn
  <2>2. CASE d # c
    <3>1. cmd'[d] = cmd[d] /\ status'[d] = status[d] /\ queue'[d] = queue[d] BY <1>7, <2>2 DEF CmdJob
    <3> QED BY <1>1, <1>2, <3>1 DEF StatusInvAt
  <2> QED BY <2>1, <2>2
<1>8. CASE CmdSend(c)
  <2>1. status' = status /\ queue'[d].tries = queue[d].tries BY <1>8 DEF CmdSend, QueueStates
  <2>2. queue'[d].state \in {"done", "failed"} => queue[d].state = queue'[d].state BY <1>8 DEF CmdSend, QueueStates
  <2>3. cmd'[d].pc = cmd[d].pc \/ cmd'[d].pc = "done" BY <1>8 DEF CmdSend
  <2> QED BY <1>1, <1>2, <2>1, <2>2, <2>3 DEF StatusInvAt
<1>9. CASE CmdSendFails(c) BY <1>1, <1>2, <1>9 DEF CmdSendFails, StatusInvAt
<1> QED BY <1>3, <1>4, <1>5, <1>6, <1>7, <1>8, <1>9 DEF Command

LEMMA HandlerStatus ==
  ASSUME TypeOK, QueueInv, StatusInv, NEW a \in Attempts, Handle(a) \/ Throw(a)
  PROVE  StatusInv'
<1> SUFFICES ASSUME NEW d \in Commands PROVE StatusInvAt(d)' BY DEF StatusInv
<1> USE AttemptParts
<1>1. StatusInvAt(d) BY DEF StatusInv
<1>2. cmd' = cmd /\ \A b \in Attempts : b # a => handler'[b] = handler[b] BY HandleFrame
<1>3. \A n \in 1 .. MaxTries : <<d, n>> \in Attempts BY DEF Attempts
<1>4. handler'[a].pc # "none" /\ (StatusKept(a) \/ StatusSet(a)) BY HandleStatus
<1>5. queue'[d].tries = queue[d].tries /\ a[2] <= queue[a[1]].tries BY Begun
<1>6. cmd[d].pc # "done" => d # a[1]
  BY <1>5 DEF QueueInv
<1>7. queue'[d].state \in {"done", "failed"} => queue[d].tries > 0
  <2>1. CASE d = a[1] BY <1>5, <2>1 DEF TypeOK, QueueStates
  <2>2. CASE d # a[1]
    <3>1. queue'[d] = queue[d] BY <2>2, HandleFrame DEF TypeOK
    <3> QED BY <1>1, <3>1 DEF StatusInvAt
  <2> QED BY <2>1, <2>2
<1>8. \A n \in 1 .. MaxTries : n <= queue[d].tries => handler'[<<d, n>>].pc # "none"
  <2> SUFFICES ASSUME NEW n \in 1 .. MaxTries, n <= queue[d].tries PROVE handler'[<<d, n>>].pc # "none" OBVIOUS
  <2>1. CASE <<d, n>> = a BY <1>4, <2>1
  <2>2. CASE <<d, n>> # a BY <1>1, <1>2, <1>3, <2>2 DEF StatusInvAt
  <2> QED BY <2>1, <2>2
<1>9. CASE d # a[1]
  <2>1. status'[d] = status[d] BY <1>4, <1>9 DEF StatusKept, StatusSet, SetStatus, TypeOK
  <2>2. \A n \in 1 .. MaxTries : handler'[<<d, n>>] = handler[<<d, n>>] BY <1>2, <1>3, <1>9
  <2> QED BY <1>1, <1>2, <1>5, <1>7, <1>8, <2>1, <2>2 DEF StatusInvAt
<1>10. CASE d = a[1]
  <2>1. cmd'[d].pc = "done" BY <1>2, <1>6, <1>10 DEF TypeOK, CmdStates
  <2>2. a = <<d, a[2]>> /\ a[2] \in 1 .. MaxTries BY <1>10
  <2>3. handler[a].pc \in Busy BY HandleFrame
  <2>4. status'[d] = "PENDING" => \A n \in 1 .. MaxTries : handler'[<<d, n>>].pc \in {"none", "start", "lost"}
    <3> SUFFICES ASSUME status'[d] = "PENDING", NEW n \in 1 .. MaxTries
                 PROVE  handler'[<<d, n>>].pc \in {"none", "start", "lost"}
      OBVIOUS
    <3>1. StatusKept(a) BY <1>4, <1>10 DEF StatusSet, SetStatus, TypeOK
    <3>2. status[d] = "PENDING" BY <3>1 DEF StatusKept
    <3>3. CASE <<d, n>> = a
      <4>1. handler[a].pc = "start" BY <1>1, <2>2, <2>3, <3>2 DEF StatusInvAt, Busy
      <4> QED BY <3>1, <3>3, <4>1 DEF StatusKept
    <3>4. CASE <<d, n>> # a BY <1>1, <1>2, <1>3, <3>2, <3>4 DEF StatusInvAt
    <3> QED BY <3>3, <3>4
  <2>5. ASSUME status'[d] \in ActiveStatuses \ {"PENDING"}
        PROVE  \E n \in 1 .. MaxTries : handler'[<<d, n>>].pc \in Working
    <3>1. CASE StatusSet(a)
      <4>1. handler'[a].pc \in Working
        BY <1>10, <2>5, <3>1 DEF StatusSet, SetStatus, TypeOK, ActiveStatuses
      <4> QED BY <2>2, <4>1
    <3>2. CASE StatusKept(a)
      <4>1. PICK n \in 1 .. MaxTries : handler[<<d, n>>].pc \in Working
        BY <1>1, <2>5, <3>2 DEF StatusInvAt, StatusKept
      <4>2. handler'[<<d, n>>].pc \in Working BY <1>2, <1>3, <3>2, <4>1 DEF StatusKept
      <4> QED BY <4>2
    <3> QED BY <1>4, <3>1, <3>2
  <2> QED BY <1>5, <1>7, <1>8, <2>1, <2>4, <2>5 DEF StatusInvAt
<1> QED BY <1>9, <1>10

LEMMA DeliverStatus ==
  ASSUME TypeOK, QueueInv, StatusInv, NEW c \in Commands, Deliver(c)
  PROVE  StatusInv'
<1> DEFINE a == <<c, queue[c].tries + 1>>
<1> SUFFICES ASSUME NEW d \in Commands PROVE StatusInvAt(d)' BY DEF StatusInv
<1>1. StatusInvAt(d) BY DEF StatusInv
<1>2. queue[c].tries \in Nat /\ queue[c].tries < MaxTries BY DEF Deliver, TypeOK, QueueStates, QueueInv
<1>3. queue[c].tries + 1 \in 1 .. MaxTries BY <1>2, JobsAssumption
<1>4. a \in Attempts /\ handler[a] = Unborn BY <1>2, <1>3 DEF QueueInv, Attempts
<1>5. handler' = [handler EXCEPT ![a].pc = "start"] /\ UNCHANGED <<status, cmd>> BY DEF Deliver
<1>6. queue' = [queue EXCEPT ![c] = [state |-> "active", tries |-> queue[c].tries + 1]] BY DEF Deliver
<1> HIDE DEF a
<1>7. handler'[a].pc = "start" /\ handler[a].pc = "none" BY <1>4, <1>5 DEF TypeOK, Unborn
<1>8. \A b \in Attempts : b # a => handler'[b] = handler[b] BY <1>4, <1>5 DEF TypeOK
<1>9. \A n \in 1 .. MaxTries : <<d, n>> \in Attempts BY DEF Attempts
<1>10. queue'[d].state \in {"done", "failed"} => queue'[d].tries > 0 BY <1>1, <1>6 DEF StatusInvAt, TypeOK
<1>11. ASSUME NEW n \in 1 .. MaxTries, n <= queue'[d].tries PROVE handler'[<<d, n>>].pc # "none"
  <2>1. CASE <<d, n>> = a BY <1>7, <2>1
  <2>2. CASE <<d, n>> # a
    <3>1. n <= queue[d].tries
      <4>1. CASE d = c
        <5>1. n # queue[c].tries + 1 BY <2>2, <4>1 DEF a
        <5>2. queue'[c].tries = queue[c].tries + 1 BY <1>6 DEF TypeOK
        <5> QED BY <1>2, <1>11, <4>1, <5>1, <5>2
      <4>2. CASE d # c BY <1>6, <1>11, <4>2 DEF TypeOK
      <4> QED BY <4>1, <4>2
    <3> QED BY <1>1, <1>8, <1>9, <2>2, <3>1 DEF StatusInvAt
  <2> QED BY <2>1, <2>2
<1>12. \A n \in 1 .. MaxTries :
         \/ handler'[<<d, n>>] = handler[<<d, n>>]
         \/ handler[<<d, n>>].pc = "none" /\ handler'[<<d, n>>].pc = "start"
  BY <1>7, <1>8, <1>9
<1>13. status[d] \in ActiveStatuses \ {"PENDING"} => \E n \in 1 .. MaxTries : handler'[<<d, n>>].pc \in Working
  BY <1>1, <1>12 DEF StatusInvAt, Working
<1> QED BY <1>1, <1>5, <1>10, <1>11, <1>12, <1>13 DEF StatusInvAt

LEMMA StatusStep == TypeOK /\ QueueInv /\ StatusInv /\ [Next]_vars => StatusInv'
<1> SUFFICES ASSUME TypeOK, QueueInv, StatusInv, [Next]_vars PROVE StatusInv' OBVIOUS
<1>1. ASSUME NEW c \in Commands, Expire(c) PROVE StatusInv'
  <2> SUFFICES ASSUME NEW d \in Commands PROVE StatusInvAt(d)' BY DEF StatusInv
  <2>1. StatusInvAt(d) BY DEF StatusInv
  <2>2. UNCHANGED <<status, cmd, handler>> BY <1>1 DEF Expire
  <2>3. queue'[d].tries = queue[d].tries BY <1>1 DEF Expire, Retry, TypeOK, QueueStates
  <2>4. queue'[d].state \in {"done", "failed"} => queue[d].state \in {"done", "failed"} \/ queue[d].tries > 0
    BY <1>1 DEF Expire, Retry, TypeOK, QueueStates, QueueInv
  <2> QED BY <2>1, <2>2, <2>3, <2>4 DEF StatusInvAt
<1>2. CASE Crash
  <2> SUFFICES ASSUME NEW d \in Commands PROVE StatusInvAt(d)' BY DEF StatusInv
  <2>1. StatusInvAt(d) BY DEF StatusInv
  <2>2. UNCHANGED <<status, cmd, queue>> BY <1>2 DEF Crash
  <2>3. ASSUME NEW n \in 1 .. MaxTries
        PROVE  handler'[<<d, n>>] = handler[<<d, n>>] \/ handler'[<<d, n>>].pc = "lost"
    <3>1. <<d, n>> \in Attempts BY DEF Attempts
    <3> QED BY <1>2, <3>1 DEF Crash, TypeOK, HandlerStates
  <2>4. ASSUME NEW n \in 1 .. MaxTries
        PROVE  /\ handler[<<d, n>>].pc # "none" => handler'[<<d, n>>].pc # "none"
               /\ handler[<<d, n>>].pc \in {"none", "start", "lost"} => handler'[<<d, n>>].pc \in {"none", "start", "lost"}
               /\ handler[<<d, n>>].pc \in Working => handler'[<<d, n>>].pc \in Working
    BY <2>3 DEF Working
  <2> QED BY <2>1, <2>2, <2>4 DEF StatusInvAt
<1>3. CASE Over \/ UNCHANGED vars
  BY <1>3 DEF Over, vars, StatusInv, StatusInvAt
<1> QED BY <1>1, <1>2, <1>3, CommandStatus, HandlerStatus, DeliverStatus DEF Next

LEMMA StatusesKept == Spec => []StatusInv
<1>1. Init => StatusInv
  <2> SUFFICES ASSUME Init, NEW c \in Commands PROVE StatusInvAt(c) BY DEF StatusInv
  <2>1. \A n \in 1 .. MaxTries : handler[<<c, n>>].pc = "none" BY DEF Init, Attempts, Unborn
  <2> QED BY <2>1 DEF Init, StatusInvAt, ActiveStatuses
<1> QED BY <1>1, Queued, StatusStep, PTL DEF Spec

(* A job that makes commands be refused is in the hands of the command, of
   pg-boss or of an attempt, unless its send failed or an attempt of it died. *)
THEOREM RefusedForAReason == Spec => []RefusedOnlyInProgress
<1>1. TypeOK /\ StatusInv => RefusedOnlyInProgress
  <2> SUFFICES ASSUME TypeOK, StatusInv, NEW c \in Commands, Active(c),
                      cmd[c].pc # "send", queue[c].state \notin {"waiting", "active"}
               PROVE  (\E n \in 1 .. MaxTries : Running(<<c, n>>)) \/ Struck(c)
    BY DEF RefusedOnlyInProgress
  <2>1. StatusInvAt(c) BY DEF StatusInv
  <2>2. cmd[c].pc = "done" BY <2>1 DEF StatusInvAt, Active, ActiveStatuses, TypeOK, CmdStates
  <2>3. CASE queue[c].state = "none" BY <2>2, <2>3 DEF Struck
  <2>4. CASE status[c] = "PENDING" /\ queue[c].state # "none"
    <3>1. queue[c].tries \in Nat \ {0} BY <2>1, <2>4 DEF StatusInvAt, TypeOK, QueueStates
    <3>2. handler[<<c, 1>>].pc \in {"start", "lost"} /\ 1 \in 1 .. MaxTries
      BY <2>1, <2>4, <3>1, JobsAssumption DEF StatusInvAt
    <3> QED BY <3>2 DEF Struck, Running, Busy
  <2>5. CASE status[c] # "PENDING"
    <3>1. PICK n \in 1 .. MaxTries : handler[<<c, n>>].pc \in Working BY <2>1, <2>5 DEF StatusInvAt, Active
    <3> QED BY <3>1 DEF Working, Struck, Running, Busy
  <2> QED BY <2>3, <2>4, <2>5
<1> QED BY <1>1, Queued, StatusesKept, PTL

-----------------------------------------------------------------------------
(* Commands that pass their check although another one is on its way. *)

(* Once a command has passed its check, every job that is active has been
   retried or is of a command it raced, and it raced every other one that is
   as far; and a job that has not been retried and may yet be put to work is
   active already. *)
TurnInvAt(c) ==
  /\ c \in Checked =>
       /\ \A d \in Commands : Active(d) => Retried(d) \/ {c, d} \in raced
       /\ \A d \in Checked : c = d \/ {c, d} \in raced
  /\ ~Retried(c) /\ queue[c].state = "waiting" /\ queue[c].tries = 0 => Active(c)
  /\ ~Retried(c) /\ handler[<<c, 1>>].pc \in Opening => Active(c)

TurnInv == OneImport /\ \A c \in Commands : TurnInvAt(c)

(* What no step does but CmdJob: make a job active that was not, and has not
   been retried. *)
LEMMA OnlyJobActivates ==
  ASSUME TypeOK, QueueInv, TurnInv, [Next]_vars, NEW c \in Commands, Active(c)', ~Retried(c)'
  PROVE  ~Retried(c) /\ (Active(c) \/ CmdJob(c))
<1> USE AttemptParts DEF Active
<1>1. CASE \E d \in Commands : Command(d)
  <2>1. queue'[c].tries = queue[c].tries
    BY <1>1, SMTT(30) DEF Command, CmdLookup, CmdCheck, CmdCreateTelegramPack, CmdPack, CmdJob, CmdSend, CmdSendFails, TypeOK, QueueStates
  <2>2. status'[c] = status[c] \/ CmdJob(c)
    BY <1>1 DEF Command, CmdLookup, CmdCheck, CmdCreateTelegramPack, CmdPack, CmdJob, CmdSend, CmdSendFails, TypeOK
  <2> QED BY <2>1, <2>2 DEF Retried
<1>2. CASE \E d \in Commands : Deliver(d) \/ Expire(d)
  <2>1. status' = status BY <1>2 DEF Deliver, Expire
  <2>2. queue'[c].tries = queue[c].tries \/ queue'[c].tries = queue[c].tries + 1
    BY <1>2 DEF Deliver, Expire, Retry, TypeOK, QueueStates
  <2> QED BY <2>1, <2>2 DEF Retried, TypeOK, QueueStates
<1>3. ASSUME NEW a \in Attempts, Handle(a) \/ Throw(a) PROVE ~Retried(c) /\ Active(c)
  <2>1. a[2] <= queue[a[1]].tries /\ queue'[c].tries = queue[c].tries BY <1>3, Begun
  <2>2. ~Retried(c) BY <2>1 DEF Retried
  <2>3. StatusKept(a) \/ StatusSet(a) BY <1>3, HandleStatus
  <2>4. CASE status'[c] = status[c] BY <2>2, <2>4
  <2>5. CASE status'[c] # status[c]
    <3>1. StatusSet(a) /\ c = a[1] BY <2>3, <2>5 DEF StatusKept, StatusSet, SetStatus, TypeOK
    <3>2. handler[a].pc \in Opening
      BY <3>1 DEF StatusSet, SetStatus, TypeOK, ActiveStatuses
    <3>3. a[2] = 1
      <4>1. a[2] \in 1 .. MaxTries /\ queue[c].tries \in 0 .. MaxTries BY DEF TypeOK, QueueStates
      <4>2. ~(queue[c].tries > 1) BY <2>2 DEF Retried
      <4>3. a[2] <= queue[c].tries BY <2>1, <3>1
      <4> QED BY <4>1, <4>2, <4>3, JobsAssumption
    <3>4. a = <<c, 1>> BY <3>1, <3>3
    <3> QED BY <2>2, <3>2, <3>4 DEF TurnInv, TurnInvAt
  <2> QED BY <2>4, <2>5
<1>4. CASE Crash \/ Over \/ UNCHANGED vars BY <1>4 DEF Crash, Over, vars, Retried
<1> QED BY <1>1, <1>2, <1>3, <1>4 DEF Next

(* How a step moves the commands: one passes its check only while no job is
   active, and is then known to have raced all that passed it before. *)
LEMMA TurnsTaken ==
  ASSUME TypeOK, [Next]_vars
  PROVE  /\ raced \subseteq raced'
         /\ \A c \in Checked' :
              \/ c \in Checked
              \/ CmdCheck(c) /\ (\A d \in Commands : ~Active(d)) /\ \A d \in Checked : {c, d} \in raced'
         /\ \A c, d \in Commands : c \in Checked' \ Checked /\ d \in Checked' \ Checked => c = d
<1>1. CASE raced' = raced /\ \A c \in Commands : c \in Checked' => c \in Checked
  BY <1>1 DEF Checked
<1>2. CASE cmd' = cmd /\ raced' = raced BY <1>2 DEF Checked
<1>3. ASSUME NEW e \in Commands, Command(e)
      PROVE  /\ raced \subseteq raced'
             /\ \A c \in Checked' :
                  \/ c \in Checked
                  \/ CmdCheck(c) /\ (\A d \in Commands : ~Active(d)) /\ \A d \in Checked : {c, d} \in raced'
             /\ \A c, d \in Commands : c \in Checked' \ Checked /\ d \in Checked' \ Checked => c = d
  <2> USE DEF TypeOK, CmdStates, CmdGoTo, history
  <2>1. CASE CmdLookup(e) BY <1>1, <2>1 DEF CmdLookup, Checked
  <2>2. CASE CmdCheck(e)
    <3>1. \A d \in Commands : d # e => cmd'[d] = cmd[d] BY <2>2 DEF CmdCheck, PassCheck
    <3>2. raced \subseteq raced' BY <2>2 DEF CmdCheck, PassCheck
    <3>3. e \in Checked' => (\A d \in Commands : ~Active(d)) /\ PassCheck(e)
      BY <2>2 DEF CmdCheck, Checked
    <3>4. e \in Checked' => \A d \in Checked : {e, d} \in raced' BY <3>3 DEF PassCheck
    <3>5. \A d \in Commands : d # e /\ d \in Checked' => d \in Checked BY <3>1 DEF Checked
    <3> QED BY <2>2, <3>2, <3>3, <3>4, <3>5 DEF Checked
  <2>3. CASE CmdCreateTelegramPack(e) BY <1>1, <2>3 DEF CmdCreateTelegramPack, Checked
  <2>4. CASE CmdPack(e) BY <1>1, <2>4 DEF CmdPack, Checked
  <2>5. CASE CmdJob(e) BY <1>1, <2>5 DEF CmdJob, Checked
  <2>6. CASE CmdSend(e) BY <1>1, <2>6 DEF CmdSend, Checked
  <2>7. CASE CmdSendFails(e) BY <1>1, <2>7 DEF CmdSendFails, Checked
  <2> QED BY <1>3, <2>1, <2>2, <2>3, <2>4, <2>5, <2>6, <2>7 DEF Command
<1>4. ASSUME NEW a \in Attempts, Handle(a) \/ Throw(a) PROVE cmd' = cmd /\ raced' = raced
  <2>1. cmd' = cmd BY <1>4, HandleFrame
  <2>2. raced' = raced
    BY <1>4 DEF Handle, Start, Fetch, Sticker, Finalize, Abort, Commit, Rollback, Count, CleanUp, Complete,
       Throw, history
  <2> QED BY <2>1, <2>2
<1>5. ASSUME NEW c \in Commands, Deliver(c) \/ Expire(c) PROVE cmd' = cmd /\ raced' = raced
  BY <1>5 DEF Deliver, Expire, history
<1>6. CASE Crash \/ Over \/ UNCHANGED vars BY <1>2, <1>6 DEF Crash, Over, vars, history
<1> QED BY <1>2, <1>3, <1>4, <1>5, <1>6 DEF Next

(* What waits for its first attempt, or has it begin, is active. *)
LEMMA FirstAttemptActive ==
  ASSUME TypeOK, QueueInv, StatusInv, TurnInv, [Next]_vars, NEW c \in Commands, ~Retried(c)'
  PROVE  /\ queue'[c].state = "waiting" /\ queue'[c].tries = 0 => Active(c)'
         /\ handler'[<<c, 1>>].pc \in Opening => Active(c)'
<1> USE AttemptParts
<1>0. 1 \in 1 .. MaxTries /\ <<c, 1>> \in Attempts BY JobsAssumption DEF Attempts
<1>1. TurnInvAt(c) BY DEF TurnInv
<1>2. ASSUME NEW e \in Commands, Command(e)
      PROVE  /\ queue'[c].state = "waiting" /\ queue'[c].tries = 0 => Active(c)'
             /\ handler'[<<c, 1>>].pc \in Opening => Active(c)'
  <2>1. handler' = handler
    BY <1>2 DEF Command, CmdLookup, CmdCheck, CmdCreateTelegramPack, CmdPack, CmdJob, CmdSend, CmdSendFails
  <2>2. queue'[c].tries = queue[c].tries /\ (queue' = queue \/ (CmdSend(e) /\ queue' = [queue EXCEPT ![e].state = "waiting"]))
    BY <1>2 DEF Command, CmdLookup, CmdCheck, CmdCreateTelegramPack, CmdPack, CmdJob, CmdSend, CmdSendFails, TypeOK, QueueStates
  <2>3. Active(c) => Active(c)'
    BY <1>2 DEF Command, CmdLookup, CmdCheck, CmdCreateTelegramPack, CmdPack, CmdJob, CmdSend, CmdSendFails,
         TypeOK, Active, ActiveStatuses
  <2>4. ~Retried(c) BY <2>2 DEF Retried
  <2>5. CASE queue' = queue BY <1>1, <2>1, <2>3, <2>4, <2>5 DEF TurnInvAt
  <2>6. CASE CmdSend(e) /\ queue' = [queue EXCEPT ![e].state = "waiting"]
    <3>1. e # c => queue'[c] = queue[c] BY <2>6 DEF TypeOK
    <3>2. e = c => Active(c) BY <2>6 DEF CmdSend, StatusInv, StatusInvAt, Active, ActiveStatuses
    <3> QED BY <1>1, <2>1, <2>3, <2>4, <3>1, <3>2 DEF TurnInvAt
  <2> QED BY <2>2, <2>5, <2>6
<1>3. ASSUME NEW e \in Commands, Deliver(e)
      PROVE  /\ queue'[c].state = "waiting" /\ queue'[c].tries = 0 => Active(c)'
             /\ handler'[<<c, 1>>].pc \in Opening => Active(c)'
  <2>1. status' = status /\ queue' = [queue EXCEPT ![e] = [state |-> "active", tries |-> queue[e].tries + 1]]
    BY <1>3 DEF Deliver
  <2>2. CASE e # c
    <3>1. queue'[c] = queue[c] BY <2>1, <2>2 DEF TypeOK
    <3>2. <<c, 1>> # <<e, queue[e].tries + 1>> BY <2>2
    <3>3. handler'[<<c, 1>>] = handler[<<c, 1>>] BY <1>0, <1>3, <3>2 DEF Deliver, TypeOK
    <3> QED BY <1>1, <2>1, <3>1, <3>3 DEF TurnInvAt, Active, Retried
  <2>3. CASE e = c
    <3>1. queue'[c] = [state |-> "active", tries |-> queue[c].tries + 1] BY <2>1, <2>3 DEF TypeOK
    <3>2. queue[c].tries = 0 BY <3>1 DEF Retried, TypeOK, QueueStates
    <3>3. Active(c) BY <1>1, <1>3, <2>3, <3>2 DEF TurnInvAt, Deliver, Retried
    <3> QED BY <2>1, <3>3 DEF Active
  <2> QED BY <2>2, <2>3
<1>4. ASSUME NEW e \in Commands, Expire(e)
      PROVE  /\ queue'[c].state = "waiting" /\ queue'[c].tries = 0 => Active(c)'
             /\ handler'[<<c, 1>>].pc \in Opening => Active(c)'
  <2>1. UNCHANGED <<status, handler>> /\ queue'[c].tries = queue[c].tries BY <1>4 DEF Expire, Retry, TypeOK, QueueStates
  <2>2. queue'[c] = queue[c] \/ queue[c].state = "active" BY <1>4 DEF Expire, Retry, TypeOK
  <2> QED BY <1>1, <2>1, <2>2 DEF TurnInvAt, Active, Retried, QueueInv
<1>5. ASSUME NEW a \in Attempts, Handle(a) \/ Throw(a)
      PROVE  /\ queue'[c].state = "waiting" /\ queue'[c].tries = 0 => Active(c)'
             /\ handler'[<<c, 1>>].pc \in Opening => Active(c)'
  <2>1. queue'[c].tries = queue[c].tries /\ a[2] <= queue[a[1]].tries BY <1>5, Begun
  <2>2. ~Retried(c) /\ queue[c].tries \in Nat BY <2>1 DEF Retried, TypeOK, QueueStates
  <2>3. queue'[c].tries = 0 => c # a[1]
    <3>1. a[2] \in 1 .. MaxTries OBVIOUS
    <3> SUFFICES ASSUME queue'[c].tries = 0, c = a[1] PROVE FALSE OBVIOUS
    <3>2. queue[a[1]].tries = 0 BY <2>1
    <3>3. a[2] <= 0 BY <2>1, <3>2
    <3> QED BY <3>1, <3>3, JobsAssumption
  <2>4. \A b \in Attempts : b # a => handler'[b] = handler[b] BY <1>5, HandleFrame
  <2>5. StatusKept(a) \/ StatusSet(a) BY <1>5, HandleStatus
  <2>6. c # a[1] => status'[c] = status[c] /\ queue'[c] = queue[c]
    BY <1>5, <2>5, HandleFrame DEF StatusKept, StatusSet, SetStatus, TypeOK
  <2>7. queue'[c].state = "waiting" /\ queue'[c].tries = 0 => Active(c)'
    BY <1>1, <2>2, <2>3, <2>6 DEF TurnInvAt, Active
  <2>8. CASE a = <<c, 1>>
    <3>1. StatusKept(a) /\ handler'[a].pc \in Opening => Active(c)'
      BY <1>1, <2>2, <2>8 DEF StatusKept, TurnInvAt, Active
    <3>2. StatusSet(a) /\ handler'[a].pc \in Opening => Active(c)'
      BY <2>8 DEF StatusSet, SetStatus, Active, TypeOK
    <3> QED BY <2>5, <2>7, <2>8, <3>1, <3>2
  <2>9. CASE a # <<c, 1>>
    <3>1. c # a[1] BY <2>1, <2>2, <2>9 DEF Retried
    <3> QED BY <1>0, <1>1, <2>2, <2>4, <2>6, <2>7, <2>9, <3>1 DEF TurnInvAt, Active
  <2> QED BY <2>8, <2>9
<1>6. CASE Crash
  <2>1. UNCHANGED <<status, queue>> BY <1>6 DEF Crash
  <2>2. handler'[<<c, 1>>].pc \in Opening => handler'[<<c, 1>>] = handler[<<c, 1>>]
    BY <1>0, <1>6 DEF Crash, TypeOK, HandlerStates, Opening
  <2> QED BY <1>1, <2>1, <2>2 DEF TurnInvAt, Active, Retried
<1>7. CASE Over \/ UNCHANGED vars BY <1>1, <1>7 DEF Over, vars, TurnInvAt, Active, Retried
<1> QED BY <1>2, <1>3, <1>4, <1>5, <1>6, <1>7 DEF Next

LEMMA TurnStep == TypeOK /\ QueueInv /\ StatusInv /\ TurnInv /\ [Next]_vars => TurnInv'
<1> SUFFICES ASSUME TypeOK, QueueInv, StatusInv, TurnInv, [Next]_vars PROVE TurnInv' OBVIOUS
<1>0. raced \subseteq raced' BY TurnsTaken
<1>1. ASSUME NEW c \in Commands, NEW d \in Commands, c # d, CmdJob(c), ~Retried(d), Active(d) \/ CmdJob(d)
      PROVE  {c, d} \in raced
  <2>1. c \in Checked BY <1>1 DEF CmdJob, Checked
  <2>2. CASE Active(d) BY <1>1, <2>1, <2>2 DEF TurnInv, TurnInvAt
  <2>3. CASE CmdJob(d)
    <3>1. d \in Checked BY <2>3 DEF CmdJob, Checked
    <3> QED BY <1>1, <2>1, <3>1 DEF TurnInv, TurnInvAt
  <2> QED BY <1>1, <2>2, <2>3
<1>2. OneImport'
  <2> SUFFICES ASSUME NEW c \in Commands, NEW d \in Commands, Active(c)', Active(d)', ~Retried(c)', ~Retried(d)',
                      c # d
               PROVE  {c, d} \in raced'
    BY DEF OneImport, Active, Retried
  <2>1. ~Retried(c) /\ (Active(c) \/ CmdJob(c)) BY OnlyJobActivates
  <2>2. ~Retried(d) /\ (Active(d) \/ CmdJob(d)) BY OnlyJobActivates
  <2>3. CASE CmdJob(c) BY <1>0, <1>1, <2>2, <2>3
  <2>4. CASE CmdJob(d)
    <3>1. {d, c} \in raced BY <1>1, <2>1, <2>4
    <3>2. {d, c} = {c, d} OBVIOUS
    <3> QED BY <1>0, <3>1, <3>2
  <2>5. CASE Active(c) /\ Active(d) BY <1>0, <2>1, <2>2, <2>5 DEF TurnInv, OneImport
  <2> QED BY <2>1, <2>2, <2>3, <2>4, <2>5
<1>3. ASSUME NEW c \in Checked', NEW d \in Commands, Active(d)', ~Retried(d)' PROVE {c, d} \in raced'
  <2>1. ~Retried(d) /\ (Active(d) \/ CmdJob(d)) BY <1>3, OnlyJobActivates
  <2>2. \/ c \in Checked
        \/ CmdCheck(c) /\ (\A e \in Commands : ~Active(e)) /\ \A e \in Checked : {c, e} \in raced'
    BY <1>3, TurnsTaken
  <2>3. CASE CmdJob(d)
    <3>1. d \in Checked BY <2>3 DEF CmdJob, Checked
    <3>2. CASE c \in Checked
      <4>1. c # d BY <1>3, <2>3 DEF CmdJob, CmdGoTo, Checked, TypeOK, CmdStates
      <4> QED BY <1>0, <3>1, <3>2, <4>1 DEF TurnInv, TurnInvAt, Checked
    <3>3. CASE c \notin Checked BY <2>2, <3>1, <3>3
    <3> QED BY <3>2, <3>3
  <2>4. CASE Active(d)
    <3>1. c \in Checked BY <2>2, <2>4
    <3> QED BY <1>0, <2>1, <2>4, <3>1 DEF TurnInv, TurnInvAt, Checked
  <2> QED BY <2>1, <2>3, <2>4
<1>4. ASSUME NEW c \in Checked', NEW d \in Checked', c # d PROVE {c, d} \in raced'
  <2>0. c \in Commands /\ d \in Commands BY DEF Checked
  <2>1. \A e \in {c, d} : e \in Checked \/ \A f \in Checked : {e, f} \in raced' BY TurnsTaken
  <2>2. c \in Checked \/ d \in Checked BY <1>4, <2>0, TurnsTaken
  <2>3. CASE c \in Checked /\ d \in Checked BY <1>0, <1>4, <2>0, <2>3 DEF TurnInv, TurnInvAt
  <2>4. {c, d} = {d, c} OBVIOUS
  <2> QED BY <2>1, <2>2, <2>3, <2>4
<1>5. ASSUME NEW c \in Commands PROVE TurnInvAt(c)'
  <2>1. ~Retried(c)' => /\ queue'[c].state = "waiting" /\ queue'[c].tries = 0 => Active(c)'
                        /\ handler'[<<c, 1>>].pc \in Opening => Active(c)'
    BY FirstAttemptActive
  <2>2. c \in Checked' => /\ \A d \in Commands : Active(d)' => Retried(d)' \/ {c, d} \in raced'
                          /\ \A d \in Checked' : c = d \/ {c, d} \in raced'
    BY <1>3, <1>4
  <2> QED BY <2>1, <2>2 DEF TurnInvAt
<1> QED BY <1>2, <1>5 DEF TurnInv

(* "An import is already in progress for this Telegram pack", for any number of
   commands, on whatever shards: two imports of the set are active only when
   pg-boss has started one of them over, or when their commands raced from the
   check to the creation of the job. *)
THEOREM OneImportAtATime == Spec => []OneImport
<1>1. Init => TurnInv
  <2> SUFFICES ASSUME Init PROVE TurnInv OBVIOUS
  <2>1. ASSUME NEW c \in Commands PROVE handler[<<c, 1>>].pc = "none"
    <3>1. 1 \in 1 .. MaxTries BY JobsAssumption
    <3>2. <<c, 1>> \in Attempts BY <3>1 DEF Attempts
    <3> QED BY <3>2 DEF Init, Unborn
  <2> QED BY <2>1 DEF Init, TurnInv, TurnInvAt, OneImport, Active, ActiveStatuses, Checked, Opening
<1>2. TurnInv => OneImport BY DEF TurnInv
<1> QED BY <1>1, <1>2, TurnStep, Queued, StatusesKept, PTL DEF Spec
=============================================================================
