------------------------------- MODULE OwnedPack -------------------------------
(***************************************************************************)
(* Packs that users make themselves: creating and renaming packs and       *)
(* stickers, replacing a sticker's file, deleting and reordering. Every    *)
(* modal is handled in its own time, in one of several processes; it reads *)
(* the rows, checks what the user asked for, perhaps stores a file, and    *)
(* then writes by id. Nothing in the database keeps names or orders apart. *)
(* The sweeps purge rows that have been deleted for long.                  *)
(*                                                                         *)
(* A file is named by the number of the upload that stored it; External    *)
(* stands for a URL that the user gave, which is not one of the bot's own  *)
(* files. loose and disturbed are not the code's: they say in which packs  *)
(* two stickers may share a place (loose), and whether handlers have       *)
(* overlapped or failed at all (disturbed).                                *)
(***************************************************************************)
EXTENDS Integers, FiniteSets

CONSTANTS
  Packs,
  Total,      \* ids for stickers
  Names,
  NoName,
  Home,       \* a pack that is there at the beginning
  First,      \* the most stickers it may have then
  MaxFiles,   \* files stored in one behaviour
  AtOnce,     \* handlers in flight at one time
  MaxStarts   \* handlers started in one behaviour

Ids == 1 .. Total
Files == 1 .. MaxFiles
Handlers == 1 .. AtOnce
External == 0

ASSUME OwnedAssumption ==
  /\ Total \in Nat /\ MaxFiles \in Nat /\ AtOnce \in Nat /\ MaxStarts \in Nat
  /\ Home \in Packs /\ First \in 0 .. Total /\ NoName \notin Names

VARIABLES
  packs,      \* Pack rows
  stickers,   \* Sticker rows
  stored,     \* files on storage
  saves,      \* files stored so far
  handler,    \* one state per modal or command being handled
  loose,
  disturbed,
  starts

rows == <<packs, stickers>>
disk == <<stored, saves>>
vars == <<packs, stickers, stored, saves, handler, loose, disturbed, starts>>

PackRows == [status : {"none", "live", "deleted"}, name : Names \union {NoName}]
Rows == [status : {"none", "live", "deleted"}, pack : Packs, name : Names \union {NoName}, order : 0 .. Total,
         file : Files \union {External}]

(* At "countPacks" and the like a handler is about to make that call. *)
Awaits == {"idle", "createPack", "countPacks", "writePack", "listFiles", "markPack", "countNames", "save",
           "countOrder", "create", "countOthers", "writeName", "writeFile", "markDeleted", "deleteFile",
           "select", "lock"}
HandlerStates ==
  [pc : Awaits,
   pack : Packs, sticker : 0 .. Total, target : 0 .. Total, before : BOOLEAN, name : Names \union {NoName},
   file : Files \union {External}, old : SUBSET Files, order : 0 .. Total,
   rank : [Ids -> 0 .. Total], stale : BOOLEAN]

TypeOK ==
  /\ packs \in [Packs -> PackRows]
  /\ stickers \in [Ids -> Rows]
  /\ stored \subseteq Files
  /\ saves \in 0 .. MaxFiles
  /\ handler \in [Handlers -> HandlerStates]
  /\ loose \subseteq Packs
  /\ disturbed \in BOOLEAN
  /\ starts \in 0 .. MaxStarts

Idle ==
  [pc |-> "idle", pack |-> Home, sticker |-> 0, target |-> 0, before |-> FALSE, name |-> NoName,
   file |-> External, old |-> {}, order |-> 0, rank |-> [x \in Ids |-> 0], stale |-> FALSE]
NoRow == [status |-> "none", pack |-> Home, name |-> NoName, order |-> 0, file |-> External]

OwnFile(x) == {stickers[x].file} \ {External}
LiveIn(p) == {x \in Ids : stickers[x].status = "live" /\ stickers[x].pack = p}
RowsOf(p) == {x \in Ids : stickers[x].status # "none" /\ stickers[x].pack = p}
(* The rows a handler works on. *)
Touches(h) == {handler[h].sticker, handler[h].target} \union {x \in Ids : handler[h].rank[x] > 0}
AllIdle == \A h \in Handlers : handler[h].pc = "idle"

(* One pack with stickers in its first places, under different names. *)
Init ==
  /\ packs \in {ps \in [Packs -> PackRows] :
                  \A p \in Packs : IF p = Home THEN ps[p].status = "live" /\ ps[p].name \in Names ELSE ps[p] = [status |-> "none", name |-> NoName]}
  /\ \E count \in 0 .. First : \E name \in [1 .. count -> Names] :
       /\ \A x, y \in 1 .. count : name[x] = name[y] => x = y
       /\ stickers = [x \in Ids |->
            IF x <= count
              THEN [status |-> "live", pack |-> Home, name |-> name[x], order |-> x - 1, file |-> External]
              ELSE NoRow]
  /\ stored = {} /\ saves = 0
  /\ handler = [h \in Handlers |-> Idle]
  /\ loose = {}
  /\ disturbed = FALSE
  /\ starts = 0

-----------------------------------------------------------------------------
(* Steps that every handler takes. Handlers are alike: the first idle one is
   the next to start. *)

Start(h, state) ==
  /\ handler[h].pc = "idle"
  /\ \A g \in Handlers : g < h => handler[g].pc # "idle"
  /\ starts < MaxStarts
  /\ starts' = starts + 1
  /\ handler' = [handler EXCEPT ![h] = state]
  /\ disturbed' = (disturbed \/ ~AllIdle)
  /\ UNCHANGED <<rows, disk, loose>>

GoTo(h, await) == handler' = [handler EXCEPT ![h].pc = await]
Return(h) == handler' = [handler EXCEPT ![h] = Idle]

(* An await rejects or the process dies; a file that was stored stays. *)
Fail(h) ==
  /\ handler[h].pc # "idle"
  /\ Return(h)
  /\ disturbed' = TRUE
  /\ UNCHANGED <<rows, disk, loose, starts>>

-----------------------------------------------------------------------------
(* createPackModalHandler, editPackModalHandler, deletePackModalHandler *)

PackNameFree(n, others) == \A p \in others : packs[p].status = "live" => packs[p].name # n

CreatePackCheck(h, n) ==
  /\ PackNameFree(n, Packs)
  /\ Start(h, [Idle EXCEPT !.pc = "createPack", !.name = n])

CreatePack(h) ==
  /\ handler[h].pc = "createPack"
  /\ \E p \in Packs : /\ packs[p].status = "none"
                      /\ packs' = [packs EXCEPT ![p] = [status |-> "live", name |-> handler[h].name]]
  /\ Return(h)
  /\ UNCHANGED <<stickers, disk, loose, disturbed, starts>>

EditPackRead(h, p, n) ==
  /\ packs[p].status = "live"
  /\ Start(h, [Idle EXCEPT !.pc = IF n = packs[p].name THEN "writePack" ELSE "countPacks", !.pack = p, !.name = n])

EditPackCount(h) ==
  /\ handler[h].pc = "countPacks"
  /\ IF PackNameFree(handler[h].name, Packs \ {handler[h].pack}) THEN GoTo(h, "writePack") ELSE Return(h)
  /\ UNCHANGED <<rows, disk, loose, disturbed, starts>>

EditPackWrite(h) ==
  /\ handler[h].pc = "writePack"
  /\ packs' = [packs EXCEPT ![handler[h].pack].name = handler[h].name]
  /\ Return(h)
  /\ UNCHANGED <<stickers, disk, loose, disturbed, starts>>

DeletePackRead(h, p) ==
  /\ packs[p].status = "live"
  /\ Start(h, [Idle EXCEPT !.pc = "listFiles", !.pack = p])

DeletePackList(h) ==
  /\ handler[h].pc = "listFiles"
  /\ handler' = [handler EXCEPT ![h].old = UNION {OwnFile(x) : x \in LiveIn(handler[h].pack)}, ![h].pc = "markPack"]
  /\ UNCHANGED <<rows, disk, loose, disturbed, starts>>

(* Slip: the stickers of a deleted pack are left as they are. *)
DeletePackMarkAlone(h) ==
  LET p == handler[h].pack
  IN  /\ handler[h].pc = "markPack"
      /\ packs' = [packs EXCEPT ![p].status = "deleted"]
      /\ GoTo(h, "deleteFile")
      /\ UNCHANGED <<stickers, disk, loose, disturbed, starts>>

(* The transaction. A sticker created since the files were listed is deleted,
   and its file is left to the sweeps. *)
DeletePackMark(h) ==
  LET p == handler[h].pack
  IN  /\ handler[h].pc = "markPack"
      /\ packs' = [packs EXCEPT ![p].status = "deleted"]
      /\ stickers' = [x \in Ids |-> IF x \in LiveIn(p) THEN [stickers[x] EXCEPT !.status = "deleted"] ELSE stickers[x]]
      /\ GoTo(h, "deleteFile")
      /\ UNCHANGED <<disk, loose, disturbed, starts>>

-----------------------------------------------------------------------------
(* createStickerModalHandler *)

CreateRead(h, p, n) ==
  /\ packs[p].status = "live"
  /\ Start(h, [Idle EXCEPT !.pc = "countNames", !.pack = p, !.name = n])

(* Slip: only the first sticker's name is looked at. *)
NameFreeForgotten(p, n) == \A x \in LiveIn(p) : stickers[x].order = 0 => stickers[x].name # n

NameFree(p, n) == \A x \in LiveIn(p) : stickers[x].name # n

CreateCountNames(h) ==
  /\ handler[h].pc = "countNames"
  /\ IF NameFree(handler[h].pack, handler[h].name)
       THEN \E await \in {"save", "countOrder"} : GoTo(h, await)
       ELSE Return(h)
  /\ UNCHANGED <<rows, disk, loose, disturbed, starts>>

(* saveStickerFile, for a new sticker or for an existing one. *)
Save(h) ==
  /\ handler[h].pc = "save"
  /\ saves < MaxFiles
  /\ saves' = saves + 1
  /\ stored' = stored \union {saves + 1}
  /\ handler' = [handler EXCEPT ![h].file = saves + 1,
                                ![h].pc = IF handler[h].sticker = 0 THEN "countOrder" ELSE "writeFile"]
  /\ UNCHANGED <<rows, loose, disturbed, starts>>

(* Slip: deleted stickers do not count. *)
NextOrderLive(p) == Cardinality(LiveIn(p))

(* Slip: places are counted from one. *)
NextOrderFromOne(p) == Cardinality(RowsOf(p)) + 1

NextOrder(p) == Cardinality(RowsOf(p))

CreateCountOrder(h) ==
  /\ handler[h].pc = "countOrder"
  /\ handler' = [handler EXCEPT ![h].order = NextOrder(handler[h].pack), ![h].pc = "create"]
  /\ UNCHANGED <<rows, disk, loose, disturbed, starts>>

Creating(p) == {h \in Handlers : handler[h].pc = "create" /\ handler[h].pack = p}

(* Two stickers whose places were counted before either was created share one. *)
CreateWrite(h) ==
  LET p == handler[h].pack
  IN  /\ handler[h].pc = "create"
      /\ \E x \in Ids :
           /\ stickers[x].status = "none" /\ \A y \in Ids : y < x => stickers[y].status # "none"
           /\ stickers' = [stickers EXCEPT ![x] =
                [status |-> "live", pack |-> p, name |-> handler[h].name, order |-> handler[h].order,
                 file |-> handler[h].file]]
      /\ loose' = IF Creating(p) = {h} THEN loose ELSE loose \union {p}
      /\ Return(h)
      /\ UNCHANGED <<packs, disk, disturbed, starts>>

-----------------------------------------------------------------------------
(* applyStickerMetadataEdit *)

EditRead(h, s, n) ==
  /\ stickers[s].status = "live"
  /\ Start(h, [Idle EXCEPT !.pc = IF n = stickers[s].name THEN "writeName" ELSE "countOthers",
                           !.sticker = s, !.name = n])

(* Deleted stickers keep their names to themselves here. *)
EditCountOthers(h) ==
  LET s == handler[h].sticker
  IN  /\ handler[h].pc = "countOthers"
      /\ IF \A x \in RowsOf(stickers[s].pack) \ {s} : stickers[x].name # handler[h].name
           THEN GoTo(h, "writeName")
           ELSE Return(h)
      /\ UNCHANGED <<rows, disk, loose, disturbed, starts>>

EditWrite(h) ==
  /\ handler[h].pc = "writeName"
  /\ stickers' = [stickers EXCEPT ![handler[h].sticker].name = handler[h].name]
  /\ Return(h)
  /\ UNCHANGED <<packs, disk, loose, disturbed, starts>>

-----------------------------------------------------------------------------
(* applyStickerFileReplace, deleteStickerModalHandler *)

(* Slip: a sticker replaced by a URL keeps the file it had. *)
ReplaceReadKeepsFile(h, s) ==
  /\ stickers[s].status = "live"
  /\ \E await \in {"save", "writeFile"} :
       Start(h, [Idle EXCEPT !.pc = await, !.sticker = s, !.old = IF await = "save" THEN OwnFile(s) ELSE {}])

ReplaceRead(h, s) ==
  /\ stickers[s].status = "live"
  /\ \E await \in {"save", "writeFile"} :
       Start(h, [Idle EXCEPT !.pc = await, !.sticker = s, !.old = OwnFile(s)])

ReplaceWrite(h) ==
  /\ handler[h].pc = "writeFile"
  /\ stickers' = [stickers EXCEPT ![handler[h].sticker].file = handler[h].file]
  /\ GoTo(h, "deleteFile")
  /\ UNCHANGED <<packs, disk, loose, disturbed, starts>>

DeleteRead(h, s) ==
  /\ stickers[s].status = "live"
  /\ Start(h, [Idle EXCEPT !.pc = "markDeleted", !.sticker = s, !.old = OwnFile(s)])

(* The file that is deleted is the one of the row as updated. *)
DeleteMark(h) ==
  LET s == handler[h].sticker
  IN  /\ handler[h].pc = "markDeleted"
      /\ stickers' = [stickers EXCEPT ![s].status = "deleted"]
      /\ handler' = [handler EXCEPT ![h].old = OwnFile(s), ![h].pc = "deleteFile"]
      /\ UNCHANGED <<packs, disk, loose, disturbed, starts>>

(* deleteStickerFile for one file or several; what fails is only logged. *)
Delete(files) ==
  \E gone \in SUBSET files : /\ stored' = stored \ gone
                             /\ disturbed' = (disturbed \/ gone # files)

DeleteFile(h) ==
  /\ handler[h].pc = "deleteFile"
  /\ Delete(handler[h].old)
  /\ Return(h)
  /\ UNCHANGED <<rows, saves, loose, starts>>

-----------------------------------------------------------------------------
(* reorderStickerCommand *)

ReorderRead(h, s, t, before) ==
  /\ s # t
  /\ stickers[s].status = "live" /\ stickers[t].status = "live" /\ stickers[s].pack = stickers[t].pack
  /\ Start(h, [Idle EXCEPT !.pc = "select", !.sticker = s, !.target = t, !.before = before, !.pack = stickers[s].pack])

(* The places in which SELECT ... ORDER BY "order" may list the stickers. *)
Ranks(p) ==
  {rank \in [Ids -> 0 .. Total] :
     /\ \A x \in Ids : rank[x] \in IF x \in LiveIn(p) THEN 1 .. Cardinality(LiveIn(p)) ELSE {0}
     /\ \A x, y \in LiveIn(p) : x # y => rank[x] # rank[y]
     /\ \A x, y \in LiveIn(p) : stickers[x].order < stickers[y].order => rank[x] < rank[y]}

(* The statement sorts what it sees when it begins, and then waits for the
   locks of the rows. *)
ReorderSelect(h) ==
  /\ handler[h].pc = "select"
  /\ \E rank \in Ranks(handler[h].pack) :
       handler' = [handler EXCEPT ![h].rank = rank, ![h].pc = "lock"]
  /\ UNCHANGED <<rows, disk, loose, disturbed, starts>>

(* Rows that were deleted meanwhile drop out, the others stay where they were
   listed, though their order may have changed. *)
Listed(h) == {x \in Ids : handler[h].rank[x] > 0 /\ stickers[x].status = "live"}

(* Slip: always put before the target. *)
PrecedesAlwaysBefore(h, x, y) ==
  LET r == handler[h].rank
      t == handler[h].target
  IN  IF x = handler[h].sticker THEN r[t] <= r[y]
      ELSE IF y = handler[h].sticker THEN r[x] < r[t]
      ELSE r[x] < r[y]

Precedes(h, x, y) ==
  LET r == handler[h].rank
      t == handler[h].target
  IN  IF x = handler[h].sticker THEN r[t] < r[y] \/ (y = t /\ handler[h].before)
      ELSE IF y = handler[h].sticker THEN r[x] < r[t] \/ (x = t /\ ~handler[h].before)
      ELSE r[x] < r[y]

Place(h, x) == Cardinality({y \in Listed(h) : y # x /\ Precedes(h, y, x)})

(* The rest of the transaction, from the locks to the commit. *)
ReorderCommit(h) ==
  LET p == handler[h].pack
  IN  /\ handler[h].pc = "lock"
      /\ IF {handler[h].sticker, handler[h].target} \subseteq Listed(h)
           THEN /\ stickers' = [x \in Ids |-> IF x \in Listed(h) THEN [stickers[x] EXCEPT !.order = Place(h, x)] ELSE stickers[x]]
                /\ handler' = [g \in Handlers |->
                                 IF g = h THEN Idle
                                 ELSE IF handler[g].pc = "lock" /\ handler[g].pack = p THEN [handler[g] EXCEPT !.stale = TRUE]
                                 ELSE handler[g]]
                /\ loose' = CASE LiveIn(p) \subseteq Listed(h) /\ Creating(p) = {} -> loose \ {p}
                              [] ~(LiveIn(p) \subseteq Listed(h)) /\ handler[h].stale -> loose \union {p}
                              [] OTHER -> loose
           ELSE Return(h) /\ UNCHANGED <<stickers, loose>>
      /\ UNCHANGED <<packs, disk, disturbed, starts>>

-----------------------------------------------------------------------------
(* The sweeps. A handler that works on a row they purge would have begun before
   the row was deleted, and none lives as long as the retention period; what is
   still live in a deleted pack is the exception, and is not modelled. *)

(* hardDeleteOldStickers *)
PurgeSticker(s) ==
  /\ \A h \in Handlers : s \notin Touches(h)
  /\ stickers[s].status = "deleted"
  /\ Delete(OwnFile(s))
  /\ stickers' = [stickers EXCEPT ![s] = NoRow]
  /\ loose' = loose \union {stickers[s].pack}
  /\ UNCHANGED <<packs, saves, handler, starts>>

Untouched(p) ==
  \A h \in Handlers : /\ handler[h].pc = "idle" \/ handler[h].pack # p
                      /\ Touches(h) \intersect RowsOf(p) = {}

(* hardDeleteOldPacks *)
PurgePack(p) ==
  /\ Untouched(p)
  /\ packs[p].status = "deleted"
  /\ packs' = [packs EXCEPT ![p] = [status |-> "none", name |-> NoName]]
  /\ Delete(UNION {OwnFile(x) : x \in RowsOf(p)})
  /\ stickers' = [x \in Ids |-> IF x \in RowsOf(p) THEN NoRow ELSE stickers[x]]
  /\ loose' = loose \ {p}
  /\ UNCHANGED <<saves, handler, starts>>

-----------------------------------------------------------------------------

Begin(h) ==
  \/ \E n \in Names : CreatePackCheck(h, n)
  \/ \E p \in Packs : DeletePackRead(h, p)
  \/ \E p \in Packs, n \in Names : EditPackRead(h, p, n) \/ CreateRead(h, p, n)
  \/ \E s \in Ids, n \in Names : EditRead(h, s, n)
  \/ \E s \in Ids : ReplaceRead(h, s) \/ DeleteRead(h, s)
  \/ \E s, t \in Ids, before \in BOOLEAN : ReorderRead(h, s, t, before)

Continue(h) ==
  \/ CreatePack(h) \/ EditPackCount(h) \/ EditPackWrite(h) \/ DeletePackList(h) \/ DeletePackMark(h)
  \/ CreateCountNames(h) \/ Save(h) \/ CreateCountOrder(h) \/ CreateWrite(h)
  \/ EditCountOthers(h) \/ EditWrite(h)
  \/ ReplaceWrite(h) \/ DeleteMark(h) \/ DeleteFile(h)
  \/ ReorderSelect(h) \/ ReorderCommit(h)
  \/ Fail(h)

Next ==
  \/ \E h \in Handlers : Begin(h) \/ Continue(h)
  \/ \E p \in Packs : PurgePack(p)
  \/ \E s \in Ids : PurgeSticker(s)

Spec == Init /\ [][Next]_vars

-----------------------------------------------------------------------------

(* The stickers of a pack have places of their own, which pages, galleries and
   reorders sort by. Two may share one only after a purge, which lets the count
   fall below the last place, after creations that overlap, or after reorders
   that overlap when one of them has not seen a new sticker; the next reorder
   puts that right. Deletions, and a reorder between the count and the
   creation, do no harm. *)
OrdersDistinct ==
  \A p \in Packs \ loose : \A x, y \in LiveIn(p) : stickers[x].order = stickers[y].order => x = y

(* Whatever overlaps, no handler deletes the file of a sticker that is shown. *)
LiveHasFile ==
  \A x \in Ids : stickers[x].status = "live" => stickers[x].file \in stored \union {External}

(* "duplicateName": as long as handlers do not overlap, no two packs and no two
   stickers of a pack come to have one name. *)
NamesDistinct ==
  ~disturbed =>
    /\ \A p, q \in Packs : packs[p].status = "live" /\ packs[q].status = "live" /\ packs[p].name = packs[q].name => p = q
    /\ \A p \in Packs : \A x, y \in LiveIn(p) : stickers[x].name = stickers[y].name => x = y

(* And then no file is left behind: it belongs to a row, or to a handler. *)
FilesReferenced ==
  ~disturbed =>
    stored \subseteq {stickers[x].file : x \in Ids} \union {handler[h].file : h \in Handlers}
                       \union UNION {handler[h].old : h \in Handlers}

(* A reorder moves one sticker, to just before or after its target, and leaves
   the others in their order; unless another reorder of the pack committed
   after this one's SELECT began. *)
ReorderMovesOne ==
  [][\A h \in Handlers :
       LET s == handler[h].sticker
           t == handler[h].target
           seen == {x \in Ids : handler[h].rank[x] > 0 /\ stickers'[x].status = "live"}
       IN  handler[h].pc = "lock" /\ handler'[h].pc = "idle" /\ ~handler[h].stale /\ stickers' # stickers =>
             /\ \A x, y \in seen \ {s} :
                  stickers[x].order < stickers[y].order => stickers'[x].order < stickers'[y].order
             /\ stickers'[s].order < stickers'[t].order <=> handler[h].before
             /\ \A x \in seen \ {s, t} :
                  stickers'[x].order < stickers'[t].order <=> stickers'[x].order < stickers'[s].order]_vars
=============================================================================
