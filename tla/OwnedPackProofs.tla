---------------------------- MODULE OwnedPackProofs ----------------------------
(* Proofs about OwnedPack: its type invariant, that no sticker that is shown
   loses its file, that the stickers of a pack keep places of their own and a
   reorder moves one of them only, and that while handlers do not overlap names
   stay distinct and no file is forgotten. *)
EXTENDS OwnedPack, FiniteSetTheorems, TLAPS

-----------------------------------------------------------------------------
(* The type invariant. *)

LEMMA Counts ==
  ASSUME NEW X \in SUBSET Ids
  PROVE  Cardinality(X) \in 0 .. Total
<1>1. IsFiniteSet(Ids) /\ Cardinality(Ids) = Total
  BY FS_Interval, OwnedAssumption DEF Ids
<1>2. IsFiniteSet(X) /\ Cardinality(X) <= Cardinality(Ids)
  BY <1>1, FS_Subset
<1>3. Cardinality(X) \in Nat
  BY <1>2, FS_CardinalityType
<1> QED BY <1>1, <1>2, <1>3, OwnedAssumption

LEMMA IdleType == Idle \in HandlerStates
<1>1. [x \in Ids |-> 0] \in [Ids -> 0 .. Total]
  BY OwnedAssumption
<1>2. 0 \in 0 .. Total
  BY OwnedAssumption
<1> QED BY <1>1, <1>2, OwnedAssumption DEF Idle, HandlerStates, Awaits

LEMMA NoRowType == NoRow \in Rows
<1>1. 0 \in 0 .. Total
  BY OwnedAssumption
<1> QED BY <1>1, OwnedAssumption DEF NoRow, Rows

LEMMA GoToType ==
  ASSUME TypeOK, NEW h \in Handlers, NEW await \in Awaits, GoTo(h, await)
  PROVE  handler' \in [Handlers -> HandlerStates]
<1>1. handler[h] \in HandlerStates
  BY DEF TypeOK
<1>2. [handler[h] EXCEPT !.pc = await] \in HandlerStates
  BY <1>1 DEF HandlerStates
<1> QED BY <1>2 DEF GoTo, TypeOK

LEMMA ReturnType ==
  ASSUME TypeOK, NEW h \in Handlers, Return(h)
  PROVE  handler' \in [Handlers -> HandlerStates]
BY IdleType DEF Return, TypeOK

LEMMA StartType ==
  ASSUME TypeOK, NEW h \in Handlers, NEW state \in HandlerStates, Start(h, state)
  PROVE  TypeOK'
<1>1. handler' \in [Handlers -> HandlerStates]
  BY DEF Start, TypeOK
<1>2. starts' \in 0 .. MaxStarts
  BY OwnedAssumption DEF Start, TypeOK
<1>3. disturbed' \in BOOLEAN
  BY Zenon DEF Start
<1>4. UNCHANGED <<packs, stickers, stored, saves, loose>>
  BY DEF Start, rows, disk
<1> QED BY <1>1, <1>2, <1>3, <1>4 DEF TypeOK

LEMMA BeginType ==
  ASSUME TypeOK, NEW h \in Handlers, Begin(h)
  PROVE  TypeOK'
<1>1. \A x \in Ids : x \in 0 .. Total /\ stickers[x] \in Rows /\ OwnFile(x) \in SUBSET Files
  BY OwnedAssumption DEF Ids, TypeOK, OwnFile, Rows
<1>2. ASSUME NEW n \in Names, CreatePackCheck(h, n) PROVE TypeOK'
  <2>1. [Idle EXCEPT !.pc = "createPack", !.name = n] \in HandlerStates
    BY IdleType DEF HandlerStates, Awaits
  <2> QED BY <1>2, <2>1, StartType DEF CreatePackCheck
<1>3. ASSUME NEW p \in Packs, NEW n \in Names, EditPackRead(h, p, n) PROVE TypeOK'
  <2>1. [Idle EXCEPT !.pc = IF n = packs[p].name THEN "writePack" ELSE "countPacks", !.pack = p, !.name = n] \in HandlerStates
    BY IdleType DEF HandlerStates, Awaits
  <2> QED BY <1>3, <2>1, StartType DEF EditPackRead
<1>4. ASSUME NEW p \in Packs, DeletePackRead(h, p) PROVE TypeOK'
  <2>1. [Idle EXCEPT !.pc = "listFiles", !.pack = p] \in HandlerStates
    BY IdleType DEF HandlerStates, Awaits
  <2> QED BY <1>4, <2>1, StartType DEF DeletePackRead
<1>5. ASSUME NEW p \in Packs, NEW n \in Names, CreateRead(h, p, n) PROVE TypeOK'
  <2>1. [Idle EXCEPT !.pc = "countNames", !.pack = p, !.name = n] \in HandlerStates
    BY IdleType DEF HandlerStates, Awaits
  <2> QED BY <1>5, <2>1, StartType DEF CreateRead
<1>6. ASSUME NEW s \in Ids, NEW n \in Names, EditRead(h, s, n) PROVE TypeOK'
  <2>1. [Idle EXCEPT !.pc = IF n = stickers[s].name THEN "writeName" ELSE "countOthers", !.sticker = s, !.name = n]
          \in HandlerStates
    BY IdleType, <1>1 DEF HandlerStates, Awaits
  <2> QED BY <1>6, <2>1, StartType DEF EditRead
<1>7. ASSUME NEW s \in Ids, ReplaceRead(h, s) PROVE TypeOK'
  <2>1. \A await \in {"save", "writeFile"} :
          [Idle EXCEPT !.pc = await, !.sticker = s, !.old = OwnFile(s)] \in HandlerStates
    BY IdleType, <1>1 DEF HandlerStates, Awaits
  <2> QED BY <1>7, <2>1, StartType DEF ReplaceRead
<1>8. ASSUME NEW s \in Ids, DeleteRead(h, s) PROVE TypeOK'
  <2>1. [Idle EXCEPT !.pc = "markDeleted", !.sticker = s, !.old = OwnFile(s)] \in HandlerStates
    BY IdleType, <1>1 DEF HandlerStates, Awaits
  <2> QED BY <1>8, <2>1, StartType DEF DeleteRead
<1>9. ASSUME NEW s \in Ids, NEW t \in Ids, NEW before \in BOOLEAN, ReorderRead(h, s, t, before) PROVE TypeOK'
  <2>1. stickers[s].pack \in Packs
    BY <1>1 DEF Rows
  <2>2. [Idle EXCEPT !.pc = "select", !.sticker = s, !.target = t, !.before = before, !.pack = stickers[s].pack]
          \in HandlerStates
    BY IdleType, <1>1, <2>1 DEF HandlerStates, Awaits
  <2> QED BY <1>9, <2>2, StartType DEF ReorderRead
<1> QED BY <1>2, <1>3, <1>4, <1>5, <1>6, <1>7, <1>8, <1>9 DEF Begin

(* What a step that leaves some of the variables alone has to show. *)
LEMMA Kept ==
  ASSUME TypeOK
  PROVE  /\ UNCHANGED packs => packs' \in [Packs -> PackRows]
         /\ UNCHANGED stickers => stickers' \in [Ids -> Rows]
         /\ UNCHANGED stored => stored' \subseteq Files
         /\ UNCHANGED saves => saves' \in 0 .. MaxFiles
         /\ UNCHANGED handler => handler' \in [Handlers -> HandlerStates]
         /\ UNCHANGED loose => loose' \subseteq Packs
         /\ UNCHANGED disturbed => disturbed' \in BOOLEAN
         /\ UNCHANGED starts => starts' \in 0 .. MaxStarts
BY DEF TypeOK

LEMMA DeleteType ==
  ASSUME TypeOK, NEW files \in SUBSET Files, Delete(files)
  PROVE  stored' \subseteq Files /\ disturbed' \in BOOLEAN
<1>1. PICK gone \in SUBSET files : /\ stored' = stored \ gone
                                  /\ disturbed' = (disturbed \/ gone # files)
  BY DEF Delete
<1>2. stored' \subseteq Files
  BY <1>1 DEF TypeOK
<1>3. disturbed' \in BOOLEAN
  BY <1>1, Zenon
<1> QED BY <1>2, <1>3

LEMMA FieldTypes ==
  ASSUME TypeOK
  PROVE  /\ \A h \in Handlers : /\ handler[h] \in HandlerStates
                                /\ handler[h].pack \in Packs /\ handler[h].name \in Names \union {NoName}
                                /\ handler[h].file \in Files \union {External} /\ handler[h].old \subseteq Files
                                /\ handler[h].order \in 0 .. Total /\ handler[h].sticker \in 0 .. Total
         /\ \A x \in Ids : /\ stickers[x] \in Rows /\ stickers[x].pack \in Packs
                           /\ stickers[x].file \in Files \union {External} /\ OwnFile(x) \subseteq Files
         /\ \A p \in Packs : packs[p] \in PackRows
<1>1. \A h \in Handlers : handler[h] \in HandlerStates
  BY DEF TypeOK
<1>2. \A x \in Ids : stickers[x] \in Rows
  BY DEF TypeOK
<1>3. \A p \in Packs : packs[p] \in PackRows
  BY DEF TypeOK
<1> QED BY <1>1, <1>2, <1>3 DEF HandlerStates, Rows, OwnFile

(* A sticker is deleted by the id of a row. *)
Marked == \A h \in Handlers : handler[h].pc = "markDeleted" => handler[h].sticker \in Ids

LEMMA ContinueType ==
  ASSUME TypeOK, Marked, NEW h \in Handlers, Continue(h)
  PROVE  TypeOK'
<1> USE FieldTypes, Kept
<1> DEFINE p == handler[h].pack
           s == handler[h].sticker
<1>1. CASE CreatePack(h)
  <2>1. handler' \in [Handlers -> HandlerStates]
    BY <1>1, ReturnType DEF CreatePack
  <2>2. packs' \in [Packs -> PackRows]
    <3>1. PICK q \in Packs : packs' = [packs EXCEPT ![q] = [status |-> "live", name |-> handler[h].name]]
      BY <1>1 DEF CreatePack
    <3>2. [status |-> "live", name |-> handler[h].name] \in PackRows
      BY DEF PackRows
    <3> QED BY <3>1, <3>2 DEF TypeOK
  <2>3. UNCHANGED <<stickers, stored, saves, loose, disturbed, starts>>
    BY <1>1 DEF CreatePack, disk
  <2> QED BY <2>1, <2>2, <2>3 DEF TypeOK
<1>2. CASE EditPackCount(h)
  <2>1. handler' \in [Handlers -> HandlerStates]
    BY <1>2, ReturnType, GoToType DEF EditPackCount, Awaits
  <2>2. UNCHANGED <<packs, stickers, stored, saves, loose, disturbed, starts>>
    BY <1>2 DEF EditPackCount, rows, disk
  <2> QED BY <2>1, <2>2 DEF TypeOK
<1>3. CASE EditPackWrite(h)
  <2>1. handler' \in [Handlers -> HandlerStates]
    BY <1>3, ReturnType DEF EditPackWrite
  <2>2. packs' \in [Packs -> PackRows]
    <3>1. [packs[p] EXCEPT !.name = handler[h].name] \in PackRows
      BY DEF PackRows
    <3> QED BY <1>3, <3>1 DEF EditPackWrite, TypeOK
  <2>3. UNCHANGED <<stickers, stored, saves, loose, disturbed, starts>>
    BY <1>3 DEF EditPackWrite, disk
  <2> QED BY <2>1, <2>2, <2>3 DEF TypeOK
<1>4. CASE DeletePackList(h)
  <2> DEFINE files == UNION {OwnFile(x) : x \in LiveIn(p)}
  <2>1. files \subseteq Files
    BY DEF LiveIn
  <2>2. [handler[h] EXCEPT !.old = files, !.pc = "markPack"] \in HandlerStates
    <3> HIDE DEF files
    <3> QED BY <2>1, ZenonT(60) DEF HandlerStates, Awaits
  <2>3. handler' \in [Handlers -> HandlerStates]
    <3>1. handler' = [handler EXCEPT ![h] = [handler[h] EXCEPT !.old = files, !.pc = "markPack"]]
      BY <1>4 DEF DeletePackList, TypeOK
    <3> HIDE DEF files
    <3> QED BY <2>2, <3>1 DEF TypeOK
  <2>4. UNCHANGED <<packs, stickers, stored, saves, loose, disturbed, starts>>
    BY <1>4 DEF DeletePackList, rows, disk
  <2> QED BY <2>3, <2>4 DEF TypeOK
<1>5. CASE DeletePackMark(h)
  <2>1. handler' \in [Handlers -> HandlerStates]
    BY <1>5, GoToType DEF DeletePackMark, Awaits
  <2>2. packs' \in [Packs -> PackRows]
    <3>1. [packs[p] EXCEPT !.status = "deleted"] \in PackRows
      BY DEF PackRows
    <3> QED BY <1>5, <3>1 DEF DeletePackMark, TypeOK
  <2>3. stickers' \in [Ids -> Rows]
    <3>1. \A x \in Ids : [stickers[x] EXCEPT !.status = "deleted"] \in Rows
      BY DEF Rows
    <3> QED BY <1>5, <3>1 DEF DeletePackMark
  <2>4. UNCHANGED <<stored, saves, loose, disturbed, starts>>
    BY <1>5 DEF DeletePackMark, disk
  <2> QED BY <2>1, <2>2, <2>3, <2>4 DEF TypeOK
<1>6. CASE CreateCountNames(h)
  <2>1. handler' \in [Handlers -> HandlerStates]
    BY <1>6, ReturnType, GoToType DEF CreateCountNames, Awaits
  <2>2. UNCHANGED <<packs, stickers, stored, saves, loose, disturbed, starts>>
    BY <1>6 DEF CreateCountNames, rows, disk
  <2> QED BY <2>1, <2>2 DEF TypeOK
<1>7. CASE Save(h)
  <2>1. saves + 1 \in Files /\ saves + 1 \in 0 .. MaxFiles
    BY <1>7, OwnedAssumption DEF Save, Files, TypeOK
  <2>2. saves' \in 0 .. MaxFiles /\ stored' \subseteq Files
    BY <1>7, <2>1 DEF Save, TypeOK
  <2> DEFINE await == IF handler[h].sticker = 0 THEN "countOrder" ELSE "writeFile"
  <2>3. [handler[h] EXCEPT !.file = saves + 1, !.pc = await] \in HandlerStates
    BY <2>1, ZenonT(60) DEF HandlerStates, Awaits
  <2>4. handler' \in [Handlers -> HandlerStates]
    <3>1. handler' = [handler EXCEPT ![h] = [handler[h] EXCEPT !.file = saves + 1, !.pc = await]]
      BY <1>7 DEF Save, TypeOK
    <3> QED BY <2>3, <3>1 DEF TypeOK
  <2>5. UNCHANGED <<packs, stickers, loose, disturbed, starts>>
    BY <1>7 DEF Save, rows
  <2> QED BY <2>2, <2>4, <2>5 DEF TypeOK
<1>8. CASE CreateCountOrder(h)
  <2>1. NextOrder(p) \in 0 .. Total
    BY Counts DEF NextOrder, RowsOf
  <2>2. [handler[h] EXCEPT !.order = NextOrder(p), !.pc = "create"] \in HandlerStates
    BY <2>1, ZenonT(60) DEF HandlerStates, Awaits
  <2>3. handler' \in [Handlers -> HandlerStates]
    <3>1. handler' = [handler EXCEPT ![h] = [handler[h] EXCEPT !.order = NextOrder(p), !.pc = "create"]]
      BY <1>8 DEF CreateCountOrder, TypeOK
    <3> QED BY <2>2, <3>1 DEF TypeOK
  <2>4. UNCHANGED <<packs, stickers, stored, saves, loose, disturbed, starts>>
    BY <1>8 DEF CreateCountOrder, rows, disk
  <2> QED BY <2>3, <2>4 DEF TypeOK
<1>9. CASE CreateWrite(h)
  <2>1. handler' \in [Handlers -> HandlerStates]
    BY <1>9, ReturnType DEF CreateWrite
  <2>2. stickers' \in [Ids -> Rows]
    <3> DEFINE row == [status |-> "live", pack |-> p, name |-> handler[h].name, order |-> handler[h].order,
                       file |-> handler[h].file]
    <3>1. row \in Rows
      BY DEF Rows
    <3>2. PICK x \in Ids : stickers' = [stickers EXCEPT ![x] = row]
      BY <1>9 DEF CreateWrite
    <3> HIDE DEF row
    <3> QED BY <3>1, <3>2 DEF TypeOK
  <2>3. loose' \subseteq Packs
    BY <1>9 DEF CreateWrite, TypeOK
  <2>4. UNCHANGED <<packs, stored, saves, disturbed, starts>>
    BY <1>9 DEF CreateWrite, disk
  <2> QED BY <2>1, <2>2, <2>3, <2>4 DEF TypeOK
<1>10. CASE EditCountOthers(h)
  <2>1. handler' \in [Handlers -> HandlerStates]
    BY <1>10, ReturnType, GoToType DEF EditCountOthers, Awaits
  <2>2. UNCHANGED <<packs, stickers, stored, saves, loose, disturbed, starts>>
    BY <1>10 DEF EditCountOthers, rows, disk
  <2> QED BY <2>1, <2>2 DEF TypeOK
<1>11. CASE EditWrite(h)
  <2>1. handler' \in [Handlers -> HandlerStates]
    BY <1>11, ReturnType DEF EditWrite
  <2>2. stickers' \in [Ids -> Rows]
    <3>1. \A x \in Ids : [stickers[x] EXCEPT !.name = handler[h].name] \in Rows
      BY DEF Rows
    <3> QED BY <1>11, <3>1 DEF EditWrite, TypeOK
  <2>3. UNCHANGED <<packs, stored, saves, loose, disturbed, starts>>
    BY <1>11 DEF EditWrite, disk
  <2> QED BY <2>1, <2>2, <2>3 DEF TypeOK
<1>12. CASE ReplaceWrite(h)
  <2>1. handler' \in [Handlers -> HandlerStates]
    BY <1>12, GoToType DEF ReplaceWrite, Awaits
  <2>2. stickers' \in [Ids -> Rows]
    <3>1. \A x \in Ids : [stickers[x] EXCEPT !.file = handler[h].file] \in Rows
      BY DEF Rows
    <3> QED BY <1>12, <3>1 DEF ReplaceWrite, TypeOK
  <2>3. UNCHANGED <<packs, stored, saves, loose, disturbed, starts>>
    BY <1>12 DEF ReplaceWrite, disk
  <2> QED BY <2>1, <2>2, <2>3 DEF TypeOK
<1>13. CASE DeleteMark(h)
  <2>1. s \in Ids
    BY <1>13 DEF DeleteMark, Marked
  <2>2. handler' \in [Handlers -> HandlerStates]
    <3>1. handler' = [handler EXCEPT ![h] = [handler[h] EXCEPT !.old = OwnFile(s), !.pc = "deleteFile"]]
      BY <1>13 DEF DeleteMark, TypeOK
    <3>2. [handler[h] EXCEPT !.old = OwnFile(s), !.pc = "deleteFile"] \in HandlerStates
      BY <2>1, ZenonT(60) DEF HandlerStates, Awaits
    <3> QED BY <3>1, <3>2 DEF TypeOK
  <2>3. stickers' \in [Ids -> Rows]
    <3>1. [stickers[s] EXCEPT !.status = "deleted"] \in Rows
      BY <2>1 DEF Rows
    <3> QED BY <1>13, <3>1 DEF DeleteMark, TypeOK
  <2>4. UNCHANGED <<packs, stored, saves, loose, disturbed, starts>>
    BY <1>13 DEF DeleteMark, disk
  <2> QED BY <2>2, <2>3, <2>4 DEF TypeOK
<1>14. CASE DeleteFile(h)
  <2>1. handler' \in [Handlers -> HandlerStates]
    BY <1>14, ReturnType DEF DeleteFile
  <2>2. stored' \subseteq Files /\ disturbed' \in BOOLEAN
    BY <1>14, DeleteType DEF DeleteFile
  <2>3. UNCHANGED <<packs, stickers, saves, loose, starts>>
    BY <1>14 DEF DeleteFile, rows
  <2> QED BY <2>1, <2>2, <2>3 DEF TypeOK
<1>15. CASE ReorderSelect(h)
  <2>1. PICK rank \in Ranks(p) : handler' = [handler EXCEPT ![h].rank = rank, ![h].pc = "lock"]
    BY <1>15 DEF ReorderSelect
  <2>2. rank \in [Ids -> 0 .. Total]
    BY DEF Ranks
  <2>3. [handler[h] EXCEPT !.rank = rank, !.pc = "lock"] \in HandlerStates
    BY <2>2, ZenonT(60) DEF HandlerStates, Awaits
  <2>4. handler' \in [Handlers -> HandlerStates]
    <3>1. handler' = [handler EXCEPT ![h] = [handler[h] EXCEPT !.rank = rank, !.pc = "lock"]]
      BY <2>1 DEF TypeOK
    <3> QED BY <2>3, <3>1 DEF TypeOK
  <2>5. UNCHANGED <<packs, stickers, stored, saves, loose, disturbed, starts>>
    BY <1>15 DEF ReorderSelect, rows, disk
  <2> QED BY <2>4, <2>5 DEF TypeOK
<1>16. CASE ReorderCommit(h)
  <2>1. handler' \in [Handlers -> HandlerStates]
    <3>1. \A g \in Handlers : [handler[g] EXCEPT !.stale = TRUE] \in HandlerStates
      BY DEF HandlerStates
    <3>2. CASE {handler[h].sticker, handler[h].target} \subseteq Listed(h)
      BY <1>16, <3>1, <3>2, IdleType DEF ReorderCommit
    <3>3. CASE ~({handler[h].sticker, handler[h].target} \subseteq Listed(h))
      BY <1>16, <3>3, ReturnType DEF ReorderCommit
    <3> QED BY <3>2, <3>3
  <2>2. stickers' \in [Ids -> Rows]
    <3>1. \A x \in Ids : Place(h, x) \in 0 .. Total
      <4> TAKE x \in Ids
      <4>1. {y \in Listed(h) : y # x /\ Precedes(h, y, x)} \subseteq Ids
        BY DEF Listed
      <4> QED BY <4>1, Counts DEF Place
    <3>2. \A x \in Ids : [stickers[x] EXCEPT !.order = Place(h, x)] \in Rows
      BY <3>1 DEF Rows
    <3>3. CASE {handler[h].sticker, handler[h].target} \subseteq Listed(h)
      BY <1>16, <3>2, <3>3 DEF ReorderCommit
    <3>4. CASE ~({handler[h].sticker, handler[h].target} \subseteq Listed(h))
      BY <1>16, <3>4 DEF ReorderCommit
    <3> QED BY <3>3, <3>4
  <2>3. loose' \subseteq Packs
    BY <1>16 DEF ReorderCommit, TypeOK
  <2>4. UNCHANGED <<packs, stored, saves, disturbed, starts>>
    BY <1>16 DEF ReorderCommit, disk
  <2> QED BY <2>1, <2>2, <2>3, <2>4 DEF TypeOK
<1>17. CASE Fail(h)
  <2>1. handler' \in [Handlers -> HandlerStates]
    BY <1>17, ReturnType DEF Fail
  <2>2. UNCHANGED <<packs, stickers, stored, saves, loose, starts>> /\ disturbed' \in BOOLEAN
    BY <1>17 DEF Fail, rows, disk
  <2> QED BY <2>1, <2>2 DEF TypeOK
<1> QED BY <1>1, <1>2, <1>3, <1>4, <1>5, <1>6, <1>7, <1>8, <1>9, <1>10, <1>11, <1>12, <1>13, <1>14, <1>15,
           <1>16, <1>17 DEF Continue

LEMMA PurgeType ==
  ASSUME TypeOK, \/ \E p \in Packs : PurgePack(p)
                 \/ \E x \in Ids : PurgeSticker(x)
  PROVE  TypeOK'
<1> USE FieldTypes, Kept, NoRowType
<1>1. ASSUME NEW p \in Packs, PurgePack(p) PROVE TypeOK'
  <2>1. packs' \in [Packs -> PackRows]
    <3>1. [status |-> "none", name |-> NoName] \in PackRows
      BY DEF PackRows
    <3> QED BY <1>1, <3>1 DEF PurgePack, TypeOK
  <2>2. stickers' \in [Ids -> Rows]
    BY <1>1 DEF PurgePack
  <2>3. stored' \subseteq Files /\ disturbed' \in BOOLEAN
    <3>1. UNION {OwnFile(x) : x \in RowsOf(p)} \subseteq Files
      BY DEF RowsOf
    <3> QED BY <1>1, <3>1, DeleteType DEF PurgePack
  <2>4. loose' \subseteq Packs
    BY <1>1 DEF PurgePack, TypeOK
  <2>5. UNCHANGED <<saves, handler, starts>>
    BY <1>1 DEF PurgePack
  <2> QED BY <2>1, <2>2, <2>3, <2>4, <2>5 DEF TypeOK
<1>2. ASSUME NEW x \in Ids, PurgeSticker(x) PROVE TypeOK'
  <2>1. stickers' \in [Ids -> Rows]
    BY <1>2 DEF PurgeSticker, TypeOK
  <2>2. stored' \subseteq Files /\ disturbed' \in BOOLEAN
    BY <1>2, DeleteType DEF PurgeSticker
  <2>3. loose' \subseteq Packs
    BY <1>2 DEF PurgeSticker, TypeOK
  <2>4. UNCHANGED <<packs, saves, handler, starts>>
    BY <1>2 DEF PurgeSticker
  <2> QED BY <2>1, <2>2, <2>3, <2>4 DEF TypeOK
<1> QED BY <1>1, <1>2

(* How a step leaves a handler that does not take it. *)
Same(g) ==
  /\ handler'[g].pc = handler[g].pc /\ handler'[g].sticker = handler[g].sticker /\ handler'[g].pack = handler[g].pack
  /\ handler'[g].file = handler[g].file /\ handler'[g].old = handler[g].old

LEMMA OthersSame ==
  ASSUME TypeOK, NEW h \in Handlers, Begin(h) \/ Continue(h), NEW g \in Handlers \ {h}
  PROVE  Same(g)
<1>1. ASSUME NEW state, handler' = [handler EXCEPT ![h] = state] PROVE Same(g)
  BY <1>1 DEF TypeOK, Same
<1>2. ASSUME NEW await, GoTo(h, await) PROVE Same(g)
  BY <1>2 DEF GoTo, TypeOK, Same
<1>3. ASSUME Return(h) PROVE Same(g)
  BY <1>1, <1>3 DEF Return
<1>4. CASE Begin(h)
  <2>1. \A state : Start(h, state) => Same(g)
    BY <1>1 DEF Start
  <2> QED BY <1>4, <2>1 DEF Begin, CreatePackCheck, EditPackRead, DeletePackRead, CreateRead, EditRead, ReplaceRead,
                             DeleteRead, ReorderRead
<1>5. CASE CreatePack(h) \/ EditPackCount(h) \/ EditPackWrite(h) \/ DeletePackMark(h) \/ CreateCountNames(h)
           \/ CreateWrite(h) \/ EditCountOthers(h) \/ EditWrite(h) \/ ReplaceWrite(h) \/ DeleteFile(h) \/ Fail(h)
  BY <1>2, <1>3, <1>5 DEF CreatePack, EditPackCount, EditPackWrite, DeletePackMark, CreateCountNames, CreateWrite,
                          EditCountOthers, EditWrite, ReplaceWrite, DeleteFile, Fail
<1>6. CASE DeletePackList(h)
  BY <1>6 DEF DeletePackList, TypeOK, Same
<1>7. CASE Save(h)
  BY <1>7 DEF Save, TypeOK, Same
<1>8. CASE CreateCountOrder(h)
  BY <1>8 DEF CreateCountOrder, TypeOK, Same
<1>9. CASE DeleteMark(h)
  BY <1>9 DEF DeleteMark, TypeOK, Same
<1>10. CASE ReorderSelect(h)
  BY <1>10 DEF ReorderSelect, TypeOK, Same
<1>11. CASE ReorderCommit(h)
  <2>1. CASE {handler[h].sticker, handler[h].target} \subseteq Listed(h)
    <3>1. \/ handler'[g] = handler[g]
          \/ handler'[g] = [handler[g] EXCEPT !.stale = TRUE]
      BY <1>11, <2>1 DEF ReorderCommit
    <3> QED BY <3>1, FieldTypes DEF Same, HandlerStates
  <2>2. CASE ~({handler[h].sticker, handler[h].target} \subseteq Listed(h))
    BY <1>3, <1>11, <2>2 DEF ReorderCommit
  <2> QED BY <2>1, <2>2
<1> QED BY <1>4, <1>5, <1>6, <1>7, <1>8, <1>9, <1>10, <1>11 DEF Continue

LEMMA MarkedStep ==
  ASSUME TypeOK, Marked, NEW h \in Handlers, Begin(h) \/ Continue(h)
  PROVE  Marked'
<1>1. SUFFICES handler'[h].pc = "markDeleted" => handler'[h].sticker \in Ids
  BY OthersSame DEF Marked, Same
<1>2. CASE Begin(h)
  <2>1. ASSUME NEW state, Start(h, state) PROVE handler'[h] = state
    BY <2>1 DEF Start, TypeOK
  <2>2. ASSUME NEW x \in Ids, DeleteRead(h, x) PROVE handler'[h].sticker = x
    BY <2>1, <2>2 DEF DeleteRead, Idle
  <2> QED BY <1>2, <2>1, <2>2, ZenonT(60) DEF Begin, CreatePackCheck, EditPackRead, DeletePackRead, CreateRead, EditRead, ReplaceRead,
                                ReorderRead, Idle
<1>3. CASE Continue(h)
  <2>1. handler'[h].pc # "markDeleted"
    <3>1. Return(h) => handler'[h].pc = "idle"
      BY DEF Return, Idle, TypeOK
    <3>2. \A await : GoTo(h, await) => handler'[h].pc = await
      BY FieldTypes DEF GoTo, TypeOK, HandlerStates
    <3>3. CASE CreatePack(h) \/ EditPackCount(h) \/ EditPackWrite(h) \/ DeletePackMark(h) \/ CreateCountNames(h)
               \/ CreateWrite(h) \/ EditCountOthers(h) \/ EditWrite(h) \/ ReplaceWrite(h) \/ DeleteFile(h) \/ Fail(h)
      BY <3>1, <3>2, <3>3 DEF CreatePack, EditPackCount, EditPackWrite, DeletePackMark, CreateCountNames, CreateWrite,
                              EditCountOthers, EditWrite, ReplaceWrite, DeleteFile, Fail
    <3>4. CASE DeletePackList(h)
      BY <3>4, FieldTypes DEF DeletePackList, TypeOK, HandlerStates
    <3>6. CASE Save(h)
      BY <3>6, FieldTypes DEF Save, TypeOK, HandlerStates
    <3>7. CASE CreateCountOrder(h)
      BY <3>7, FieldTypes DEF CreateCountOrder, TypeOK, HandlerStates
    <3>8. CASE DeleteMark(h)
      BY <3>8, FieldTypes DEF DeleteMark, TypeOK, HandlerStates
    <3>9. CASE ReorderSelect(h)
      BY <3>9, FieldTypes DEF ReorderSelect, TypeOK, HandlerStates
    <3>5. CASE ReorderCommit(h)
      BY <3>1, <3>5 DEF ReorderCommit, Idle
    <3> QED BY <1>3, <3>3, <3>4, <3>5, <3>6, <3>7, <3>8, <3>9 DEF Continue
  <2> QED BY <2>1
<1> QED BY <1>2, <1>3

TypeInv == TypeOK /\ Marked

LEMMA TypeInit == Init => TypeInv
<1> SUFFICES ASSUME Init PROVE TypeInv
  OBVIOUS
<1>1. stored \subseteq Files /\ saves \in 0 .. MaxFiles /\ loose \subseteq Packs /\ starts \in 0 .. MaxStarts
  BY OwnedAssumption DEF Init
<1>5. disturbed \in BOOLEAN
  BY Zenon DEF Init
<1>6. packs \in [Packs -> PackRows]
  BY Zenon DEF Init
<1>2. handler \in [Handlers -> HandlerStates]
  BY IdleType DEF Init
<1>3. stickers \in [Ids -> Rows]
  <2>1. PICK count \in 0 .. First : \E name \in [1 .. count -> Names] :
          stickers = [x \in Ids |->
            IF x <= count
              THEN [status |-> "live", pack |-> Home, name |-> name[x], order |-> x - 1, file |-> External]
              ELSE NoRow]
    BY DEF Init
  <2>2. PICK name \in [1 .. count -> Names] :
          stickers = [x \in Ids |->
            IF x <= count
              THEN [status |-> "live", pack |-> Home, name |-> name[x], order |-> x - 1, file |-> External]
              ELSE NoRow]
    BY <2>1
  <2>3. ASSUME NEW x \in Ids, x <= count
        PROVE  [status |-> "live", pack |-> Home, name |-> name[x], order |-> x - 1, file |-> External] \in Rows
    <3>1. x \in 1 .. count /\ x - 1 \in 0 .. Total
      BY <2>3, OwnedAssumption DEF Ids
    <3>2. name[x] \in Names
      BY <3>1
    <3> QED BY <3>1, <3>2, OwnedAssumption DEF Rows
  <2> QED BY <2>2, <2>3, NoRowType
<1>4. Marked
  BY DEF Init, Marked, Idle
<1> QED BY <1>1, <1>2, <1>3, <1>4, <1>5, <1>6 DEF TypeInv, TypeOK

LEMMA TypeStep == TypeInv /\ [Next]_vars => TypeInv'
<1> SUFFICES ASSUME TypeInv, [Next]_vars PROVE TypeInv'
  OBVIOUS
<1> USE DEF TypeInv
<1>1. ASSUME NEW h \in Handlers, Begin(h) \/ Continue(h) PROVE TypeInv'
  BY <1>1, BeginType, ContinueType, MarkedStep
<1>2. CASE (\E p \in Packs : PurgePack(p)) \/ (\E x \in Ids : PurgeSticker(x))
  <2>1. TypeOK'
    BY <1>2, PurgeType
  <2>2. UNCHANGED handler
    BY <1>2 DEF PurgePack, PurgeSticker
  <2> QED BY <2>1, <2>2 DEF Marked
<1>3. CASE UNCHANGED vars
  BY <1>3 DEF vars, TypeOK, Marked
<1> QED BY <1>1, <1>2, <1>3 DEF Next

(* TypeOK, for any number of packs, stickers, files and handlers. *)
THEOREM TypeCorrect == Spec => []TypeOK
<1>1. TypeInv => TypeOK
  BY DEF TypeInv
<1> QED BY <1>1, TypeInit, TypeStep, PTL DEF Spec

-----------------------------------------------------------------------------
(* No shown sticker loses its file: every stored file belongs to one row or
   to one handler that will give it to a row, and a file that is going to be
   deleted is that of no shown sticker but the one to be replaced or deleted. *)

(* A handler that stored a file and has not written the row. *)
Pending(g) == handler[g].pc \in {"countOrder", "create", "writeFile"} /\ handler[g].file # External

(* A handler that is going to take its old file from x, or to delete x. *)
Takes(g, x) ==
  \/ handler[g].pc \in {"save", "writeFile"} /\ handler[g].sticker = x
  \/ handler[g].pc = "markPack" /\ stickers[x].pack = handler[g].pack
  \/ handler[g].pc = "markDeleted"

Numbered ==
  /\ \A x \in Ids : stickers[x].file <= saves
  /\ \A g \in Handlers : handler[g].file <= saves /\ \A f \in handler[g].old : f <= saves

Unsaved == \A g \in Handlers : handler[g].pc \in {"countNames", "save"} => handler[g].file = External

FilesApart == \A x, y \in Ids : stickers[x].file = stickers[y].file /\ stickers[x].file # External => x = y

PendingApart ==
  \A g \in Handlers : Pending(g) =>
    /\ handler[g].file \in stored
    /\ \A x \in Ids : stickers[x].file # handler[g].file
    /\ \A k \in Handlers : handler[g].file \notin handler[k].old
    /\ \A k \in Handlers \ {g} : Pending(k) => handler[k].file # handler[g].file

DoomedApart ==
  \A g \in Handlers, x \in Ids :
    stickers[x].status = "live" /\ stickers[x].file \in handler[g].old => Takes(g, x)

FileInv == Numbered /\ Unsaved /\ FilesApart /\ PendingApart /\ DoomedApart /\ LiveHasFile

(* A step that gives no row a file. *)
RowsCalm ==
  \A x \in Ids :
    /\ stickers'[x].file = stickers[x].file \/ stickers'[x].file = External
    /\ stickers'[x].status = "live" =>
         stickers[x].status = "live" /\ stickers'[x].file = stickers[x].file /\ stickers'[x].pack = stickers[x].pack

(* What such a step may do to a handler. *)
Safe(g) ==
  /\ \/ handler'[g].file = External
     \/ handler'[g].file = handler[g].file /\ (Pending(g)' => Pending(g))
  /\ \A f \in handler'[g].old : f \in handler[g].old \/ \E x \in Ids : stickers[x].file = f
  /\ \A x \in Ids : stickers'[x].status = "live" /\ stickers'[x].file \in handler'[g].old => Takes(g, x)'
  /\ handler'[g].pc \in {"countNames", "save"} => handler'[g].file = External

LEMMA Numbers ==
  ASSUME TypeOK
  PROVE  /\ saves \in Nat /\ External \notin Files /\ Files \subseteq Nat
         /\ \A x \in Ids : stickers[x].file \in Nat
         /\ \A g \in Handlers : handler[g].file \in Nat /\ handler[g].old \subseteq Files
<1>1. External \notin Files /\ Files \subseteq Nat /\ External \in Nat
  BY OwnedAssumption DEF External, Files
<1>2. saves \in Nat
  BY OwnedAssumption DEF TypeOK
<1> QED BY <1>1, <1>2, FieldTypes

LEMMA BystanderSafe ==
  ASSUME TypeOK, FileInv, RowsCalm, NEW g \in Handlers, Same(g)
  PROVE  Safe(g)
<1>1. Pending(g)' => Pending(g)
  BY DEF Pending, Same
<1>2. \A f \in handler'[g].old : f \in handler[g].old
  BY DEF Same
<1>3. ASSUME NEW x \in Ids, stickers'[x].status = "live", stickers'[x].file \in handler'[g].old
      PROVE  Takes(g, x)'
  <2>1. stickers[x].status = "live" /\ stickers[x].file \in handler[g].old /\ stickers'[x].pack = stickers[x].pack
    BY <1>3 DEF RowsCalm, Same
  <2>2. Takes(g, x)
    BY <2>1 DEF FileInv, DoomedApart
  <2> QED BY <2>1, <2>2 DEF Takes, Same
<1>4. handler'[g].pc \in {"countNames", "save"} => handler'[g].file = External
  BY DEF FileInv, Unsaved, Same
<1>5. handler'[g].file = handler[g].file
  BY DEF Same
<1> QED BY <1>1, <1>2, <1>3, <1>4, <1>5 DEF Safe

LEMMA CalmStep ==
  ASSUME TypeOK, TypeOK', FileInv, RowsCalm, UNCHANGED saves, NEW gone, stored' = stored \ gone,
         \A x \in Ids : stickers'[x].status = "live" => stickers'[x].file \notin gone,
         \A g \in Handlers : Pending(g) => handler[g].file \notin gone,
         \A g \in Handlers : Safe(g)
  PROVE  FileInv'
<1> USE Numbers
<1>1. Numbered'
  <2>1. ASSUME NEW x \in Ids PROVE stickers'[x].file <= saves'
    BY <2>1 DEF RowsCalm, FileInv, Numbered, External
  <2>2. ASSUME NEW g \in Handlers PROVE handler'[g].file <= saves'
    BY <2>2 DEF Safe, FileInv, Numbered, External
  <2>3. ASSUME NEW g \in Handlers, NEW f \in handler'[g].old PROVE f <= saves'
    BY <2>3 DEF Safe, FileInv, Numbered
  <2> QED BY <2>1, <2>2, <2>3 DEF Numbered
<1>2. Unsaved'
  BY DEF Unsaved, Safe
<1>3. FilesApart'
  BY DEF FilesApart, FileInv, RowsCalm
<1>4. PendingApart'
  <2> SUFFICES ASSUME NEW g \in Handlers, Pending(g)'
               PROVE  /\ handler'[g].file \in stored'
                      /\ \A x \in Ids : stickers'[x].file # handler'[g].file
                      /\ \A k \in Handlers : handler'[g].file \notin handler'[k].old
                      /\ \A k \in Handlers \ {g} : Pending(k)' => handler'[k].file # handler'[g].file
    BY DEF PendingApart
  <2>1. \A k \in Handlers : Pending(k)' => Pending(k) /\ handler'[k].file = handler[k].file
    BY DEF Safe, Pending
  <2>2. Pending(g) /\ handler'[g].file = handler[g].file /\ handler[g].file # External
    BY <2>1 DEF Pending
  <2>3. handler'[g].file \in stored'
    BY <2>2 DEF FileInv, PendingApart
  <2>4. \A x \in Ids : stickers'[x].file # handler'[g].file
    BY <2>2 DEF FileInv, PendingApart, RowsCalm
  <2>5. \A k \in Handlers : handler'[g].file \notin handler'[k].old
    BY <2>2 DEF FileInv, PendingApart, Safe
  <2>6. \A k \in Handlers \ {g} : Pending(k)' => handler'[k].file # handler'[g].file
    BY <2>1, <2>2 DEF FileInv, PendingApart
  <2> QED BY <2>3, <2>4, <2>5, <2>6
<1>5. DoomedApart'
  BY DEF DoomedApart, Safe
<1>6. LiveHasFile'
  BY DEF LiveHasFile, FileInv, RowsCalm
<1> QED BY <1>1, <1>2, <1>3, <1>4, <1>5, <1>6 DEF FileInv

(* The handler that takes a step: it is done, or it goes on without a file
   that it stored, or with the files it had. *)
LEMMA DoneSafe ==
  ASSUME NEW g \in Handlers, handler'[g].file = External, handler'[g].old = {}
  PROVE  Safe(g)
BY DEF Safe

LEMMA ReturnSafe ==
  ASSUME TypeOK, NEW h \in Handlers, Return(h)
  PROVE  Safe(h)
BY DoneSafe DEF Return, Idle, TypeOK

LEMMA OnlyOne ==
  ASSUME TypeOK, TypeOK', FileInv, RowsCalm, UNCHANGED <<stored, saves>>,
         NEW h \in Handlers, Begin(h) \/ Continue(h), Safe(h)
  PROVE  FileInv'
<1>1. \A g \in Handlers : Safe(g)
  BY OthersSame, BystanderSafe
<1> DEFINE none == {}
<1>4. stored' = stored \ none /\ UNCHANGED saves
  OBVIOUS
<1>5. \A x \in Ids : stickers'[x].status = "live" => stickers'[x].file \notin none
  OBVIOUS
<1>6. \A g \in Handlers : Pending(g) => handler[g].file \notin none
  OBVIOUS
<1> HIDE DEF none
<1> QED BY <1>1, <1>4, <1>5, <1>6, CalmStep

LEMMA BeginFiles ==
  ASSUME TypeOK, TypeOK', FileInv, NEW h \in Handlers, Begin(h)
  PROVE  FileInv'
<1>1. ASSUME NEW state, Start(h, state) PROVE handler'[h] = state /\ UNCHANGED <<packs, stickers, stored, saves>>
  BY <1>1 DEF Start, rows, disk, TypeOK
<1>2. ASSUME NEW state, Start(h, state), state.file = External, state.old = {} PROVE Safe(h) /\ UNCHANGED <<stickers, stored, saves>>
  BY <1>1, <1>2, DoneSafe
<1>3. ASSUME NEW x \in Ids, NEW state, Start(h, state), state.file = External, state.old = OwnFile(x), state.sticker = x,
             state.pc \in {"save", "writeFile", "markDeleted"}
      PROVE  Safe(h) /\ UNCHANGED <<stickers, stored, saves>>
  <2>1. handler'[h].old = {stickers[x].file} \ {External} /\ handler'[h].file = External /\ handler'[h].sticker = x
        /\ handler'[h].pc \in {"save", "writeFile", "markDeleted"} /\ UNCHANGED <<stickers, stored, saves>>
    BY <1>1, <1>3 DEF OwnFile
  <2>2. ASSUME NEW y \in Ids, stickers'[y].status = "live", stickers'[y].file \in handler'[h].old PROVE Takes(h, y)'
    <3>1. y = x
      BY <2>1, <2>2 DEF FileInv, FilesApart
    <3> QED BY <2>1, <3>1 DEF Takes
  <2> QED BY <2>1, <2>2 DEF Safe
<1>4. Safe(h) /\ UNCHANGED <<stickers, stored, saves>>
  <2>1. ASSUME NEW n \in Names, CreatePackCheck(h, n) PROVE Safe(h) /\ UNCHANGED <<stickers, stored, saves>>
    BY <1>2, <2>1 DEF CreatePackCheck, Idle
  <2>2. ASSUME NEW q \in Packs, NEW n \in Names, EditPackRead(h, q, n) PROVE Safe(h) /\ UNCHANGED <<stickers, stored, saves>>
    BY <1>2, <2>2 DEF EditPackRead, Idle
  <2>3. ASSUME NEW q \in Packs, DeletePackRead(h, q) PROVE Safe(h) /\ UNCHANGED <<stickers, stored, saves>>
    BY <1>2, <2>3 DEF DeletePackRead, Idle
  <2>4. ASSUME NEW q \in Packs, NEW n \in Names, CreateRead(h, q, n) PROVE Safe(h) /\ UNCHANGED <<stickers, stored, saves>>
    BY <1>2, <2>4 DEF CreateRead, Idle
  <2>5. ASSUME NEW x \in Ids, NEW n \in Names, EditRead(h, x, n) PROVE Safe(h) /\ UNCHANGED <<stickers, stored, saves>>
    BY <1>2, <2>5 DEF EditRead, Idle
  <2>6. ASSUME NEW x \in Ids, ReplaceRead(h, x) PROVE Safe(h) /\ UNCHANGED <<stickers, stored, saves>>
    <3>1. PICK await \in {"save", "writeFile"} : Start(h, [Idle EXCEPT !.pc = await, !.sticker = x, !.old = OwnFile(x)])
      BY <2>6 DEF ReplaceRead
    <3> DEFINE state == [Idle EXCEPT !.pc = await, !.sticker = x, !.old = OwnFile(x)]
    <3>2. state.file = External /\ state.old = OwnFile(x) /\ state.sticker = x /\ state.pc = await
      BY DEF Idle
    <3> HIDE DEF state
    <3> QED BY <1>3, <3>1, <3>2 DEF state
  <2>7. ASSUME NEW x \in Ids, DeleteRead(h, x) PROVE Safe(h) /\ UNCHANGED <<stickers, stored, saves>>
    <3> DEFINE state == [Idle EXCEPT !.pc = "markDeleted", !.sticker = x, !.old = OwnFile(x)]
    <3>1. Start(h, state)
      BY <2>7 DEF DeleteRead
    <3>2. state.file = External /\ state.old = OwnFile(x) /\ state.sticker = x /\ state.pc = "markDeleted"
      BY DEF Idle
    <3> HIDE DEF state
    <3> QED BY <1>3, <3>1, <3>2
  <2>8. ASSUME NEW x \in Ids, NEW t \in Ids, NEW before \in BOOLEAN, ReorderRead(h, x, t, before)
        PROVE  Safe(h) /\ UNCHANGED <<stickers, stored, saves>>
    BY <1>2, <2>8 DEF ReorderRead, Idle
  <2> QED BY <2>1, <2>2, <2>3, <2>4, <2>5, <2>6, <2>7, <2>8 DEF Begin
<1>5. RowsCalm
  BY <1>4 DEF RowsCalm
<1> QED BY <1>4, <1>5, OnlyOne

LEMMA WentSafe ==
  ASSUME TypeOK, FileInv, NEW h \in Handlers, NEW await, GoTo(h, await),
         handler[h].pc \notin {"save", "writeFile", "markPack", "markDeleted"},
         await \in {"countNames", "save", "countOrder", "create", "writeFile"} => handler[h].file = External, RowsCalm
  PROVE  Safe(h)
<1>1. /\ handler'[h].pc = await /\ handler'[h].file = handler[h].file /\ handler'[h].old = handler[h].old
      /\ handler'[h].sticker = handler[h].sticker /\ handler'[h].pack = handler[h].pack
  BY FieldTypes DEF GoTo, TypeOK, HandlerStates
<1>2. Pending(h)' => Pending(h)
  BY <1>1 DEF Pending
<1>3. \A x \in Ids : ~(stickers'[x].status = "live" /\ stickers'[x].file \in handler'[h].old)
  BY <1>1 DEF FileInv, DoomedApart, Takes, RowsCalm
<1> QED BY <1>1, <1>2, <1>3 DEF Safe

(* The steps that store nothing, give no row a file and delete nothing. *)
LEMMA QuietFiles ==
  ASSUME TypeOK, TypeOK', Marked, FileInv, NEW h \in Handlers, Continue(h),
         ~Save(h), ~CreateWrite(h), ~ReplaceWrite(h), ~DeleteFile(h)
  PROVE  FileInv'
<1> USE FieldTypes
<1> DEFINE p == handler[h].pack
           s == handler[h].sticker
<1>0. UNCHANGED stickers => RowsCalm
  BY DEF RowsCalm
<1>1. CASE CreatePack(h) \/ EditPackWrite(h) \/ Fail(h)
  BY <1>0, <1>1, ReturnSafe, OnlyOne DEF CreatePack, EditPackWrite, Fail, rows, disk
<1>2. CASE EditPackCount(h)
  <2>1. UNCHANGED <<stickers, stored, saves>> /\ handler[h].pc = "countPacks" /\ (GoTo(h, "writePack") \/ Return(h))
    BY <1>2 DEF EditPackCount, rows, disk
  <2> QED BY <1>0, <2>1, ReturnSafe, WentSafe, OnlyOne
<1>3. CASE CreateCountNames(h)
  <2>1. UNCHANGED <<stickers, stored, saves>> /\ handler[h].pc = "countNames"
        /\ (GoTo(h, "save") \/ GoTo(h, "countOrder") \/ Return(h))
    BY <1>3 DEF CreateCountNames, rows, disk
  <2>2. handler[h].file = External
    BY <2>1 DEF FileInv, Unsaved
  <2> QED BY <1>0, <2>1, <2>2, ReturnSafe, WentSafe, OnlyOne
<1>4. CASE EditCountOthers(h)
  <2>1. UNCHANGED <<stickers, stored, saves>> /\ handler[h].pc = "countOthers" /\ (GoTo(h, "writeName") \/ Return(h))
    BY <1>4 DEF EditCountOthers, rows, disk
  <2> QED BY <1>0, <2>1, ReturnSafe, WentSafe, OnlyOne
<1>5. CASE EditWrite(h)
  <2>1. RowsCalm
    BY <1>5 DEF EditWrite, RowsCalm, TypeOK, Rows
  <2> QED BY <1>5, <2>1, ReturnSafe, OnlyOne DEF EditWrite, disk
<1>6. CASE DeletePackList(h)
  <2> DEFINE files == UNION {OwnFile(x) : x \in LiveIn(p)}
  <2>1. UNCHANGED <<stickers, stored, saves>>
    BY <1>6 DEF DeletePackList, rows, disk
  <2>2. /\ handler'[h].pc = "markPack" /\ handler'[h].file = handler[h].file /\ handler'[h].pack = p
        /\ handler'[h].old = files /\ handler[h].pc = "listFiles"
    BY <1>6 DEF DeletePackList, TypeOK, HandlerStates
  <2>3. \A f \in files : f # External /\ \E x \in LiveIn(p) : stickers[x].file = f
    BY DEF OwnFile
  <2>4. LiveIn(p) \subseteq Ids /\ \A x \in LiveIn(p) : stickers[x].pack = p
    BY DEF LiveIn
  <2> HIDE DEF files
  <2>5. ASSUME NEW x \in Ids, stickers'[x].status = "live", stickers'[x].file \in handler'[h].old PROVE Takes(h, x)'
    <3>1. PICK y \in LiveIn(p) : stickers[y].file = stickers[x].file /\ stickers[x].file # External
      BY <2>1, <2>2, <2>3, <2>5
    <3>2. x = y
      BY <2>4, <3>1 DEF FileInv, FilesApart
    <3> QED BY <2>1, <2>2, <2>4, <3>2 DEF Takes
  <2>6. Safe(h)
    BY <2>2, <2>3, <2>4, <2>5 DEF Safe, Pending
  <2> QED BY <1>0, <2>1, <2>6, OnlyOne
<1>7. CASE DeletePackMark(h)
  <2>1. /\ handler'[h].pc = "deleteFile" /\ handler'[h].file = handler[h].file /\ handler'[h].old = handler[h].old
        /\ handler[h].pc = "markPack" /\ UNCHANGED <<stored, saves>>
    BY <1>7 DEF DeletePackMark, GoTo, TypeOK, HandlerStates, disk
  <2>2. RowsCalm /\ \A x \in Ids : stickers'[x].status = "live" => x \notin LiveIn(p)
    BY <1>7 DEF DeletePackMark, RowsCalm, Rows
  <2>3. ASSUME NEW x \in Ids, stickers'[x].status = "live", stickers'[x].file \in handler'[h].old PROVE FALSE
    <3>1. stickers[x].status = "live" /\ stickers[x].file \in handler[h].old /\ x \notin LiveIn(p)
      BY <2>1, <2>2, <2>3 DEF RowsCalm
    <3>2. Takes(h, x)
      BY <3>1 DEF FileInv, DoomedApart
    <3> QED BY <2>1, <3>1, <3>2 DEF Takes, LiveIn
  <2>4. Safe(h)
    BY <2>1, <2>3 DEF Safe, Pending
  <2> QED BY <2>1, <2>2, <2>4, OnlyOne
<1>8. CASE CreateCountOrder(h)
  <2>1. /\ handler'[h].pc = "create" /\ handler'[h].file = handler[h].file /\ handler'[h].old = handler[h].old
        /\ handler[h].pc = "countOrder" /\ UNCHANGED <<stickers, stored, saves>>
    BY <1>8 DEF CreateCountOrder, TypeOK, HandlerStates, rows, disk
  <2>2. \A x \in Ids : ~(stickers'[x].status = "live" /\ stickers'[x].file \in handler'[h].old)
    BY <2>1 DEF FileInv, DoomedApart, Takes
  <2>3. Safe(h)
    BY <2>1, <2>2 DEF Safe, Pending
  <2> QED BY <1>0, <2>1, <2>3, OnlyOne
<1>9. CASE DeleteMark(h)
  <2>1. /\ handler'[h].pc = "deleteFile" /\ handler'[h].file = handler[h].file /\ handler'[h].old = OwnFile(s)
        /\ handler[h].pc = "markDeleted" /\ UNCHANGED <<stored, saves>>
    BY <1>9 DEF DeleteMark, TypeOK, HandlerStates, disk
  <2>2. s \in Ids
    BY <2>1 DEF Marked
  <2>3. RowsCalm /\ stickers'[s].status = "deleted"
    BY <1>9, <2>2 DEF DeleteMark, RowsCalm, TypeOK, Rows
  <2>4. ASSUME NEW x \in Ids, stickers'[x].status = "live", stickers'[x].file \in handler'[h].old PROVE FALSE
    <3>1. stickers[x].file = stickers[s].file /\ stickers[x].file # External /\ x # s
      BY <2>1, <2>3, <2>4 DEF RowsCalm, OwnFile
    <3> QED BY <2>2, <3>1 DEF FileInv, FilesApart
  <2>5. Safe(h)
    BY <2>1, <2>2, <2>4 DEF Safe, Pending, OwnFile
  <2> QED BY <2>1, <2>3, <2>5, OnlyOne
<1>10. CASE ReorderSelect(h)
  <2>1. /\ handler'[h].pc = "lock" /\ handler'[h].file = handler[h].file /\ handler'[h].old = handler[h].old
        /\ handler[h].pc = "select" /\ UNCHANGED <<stickers, stored, saves>>
    BY <1>10 DEF ReorderSelect, TypeOK, HandlerStates, rows, disk
  <2>2. \A x \in Ids : ~(stickers'[x].status = "live" /\ stickers'[x].file \in handler'[h].old)
    BY <2>1 DEF FileInv, DoomedApart, Takes
  <2>3. Safe(h)
    BY <2>1, <2>2 DEF Safe, Pending
  <2> QED BY <1>0, <2>1, <2>3, OnlyOne
<1>11. CASE ReorderCommit(h)
  <2>1. handler'[h] = Idle
    BY <1>11 DEF ReorderCommit, Return, TypeOK
  <2>2. RowsCalm
    <3>1. CASE {handler[h].sticker, handler[h].target} \subseteq Listed(h)
      BY <1>11, <3>1 DEF ReorderCommit, RowsCalm, Rows
    <3>2. CASE ~({handler[h].sticker, handler[h].target} \subseteq Listed(h))
      BY <1>0, <1>11, <3>2 DEF ReorderCommit
    <3> QED BY <3>1, <3>2
  <2>3. UNCHANGED <<stored, saves>>
    BY <1>11 DEF ReorderCommit, disk
  <2> QED BY <2>1, <2>2, <2>3, DoneSafe, OnlyOne DEF Idle
<1> QED BY <1>1, <1>2, <1>3, <1>4, <1>5, <1>6, <1>7, <1>8, <1>9, <1>10, <1>11 DEF Continue

LEMMA DeleteFileFiles ==
  ASSUME TypeOK, TypeOK', FileInv, NEW h \in Handlers, DeleteFile(h)
  PROVE  FileInv'
<1>1. PICK gone \in SUBSET handler[h].old : stored' = stored \ gone
  BY DEF DeleteFile, Delete
<1>2. RowsCalm /\ UNCHANGED <<stickers, saves>>
  BY DEF DeleteFile, RowsCalm, rows
<1>3. \A x \in Ids : stickers'[x].status = "live" => stickers'[x].file \notin gone
  BY <1>1, <1>2 DEF FileInv, DoomedApart, DeleteFile, Takes
<1>4. \A g \in Handlers : Pending(g) => handler[g].file \notin gone
  BY <1>1 DEF FileInv, PendingApart
<1>5. \A g \in Handlers : Safe(g)
  BY <1>2, OthersSame, BystanderSafe, ReturnSafe DEF DeleteFile, Continue
<1> QED BY <1>1, <1>2, <1>3, <1>4, <1>5, CalmStep

LEMMA PurgeFiles ==
  ASSUME TypeOK, TypeOK', FileInv, (\E p \in Packs : PurgePack(p)) \/ (\E x \in Ids : PurgeSticker(x))
  PROVE  FileInv'
<1> USE FieldTypes
<1> DEFINE Purge(X) == /\ stickers' = [x \in Ids |-> IF x \in X THEN NoRow ELSE stickers[x]]
                       /\ Delete(UNION {OwnFile(x) : x \in X})
                       /\ UNCHANGED <<saves, handler>>
<1>1. PICK purged \in SUBSET Ids : Purge(purged)
  <2>1. ASSUME NEW p \in Packs, PurgePack(p) PROVE RowsOf(p) \in SUBSET Ids /\ Purge(RowsOf(p))
    BY <2>1 DEF PurgePack, RowsOf
  <2>2. ASSUME NEW y \in Ids, PurgeSticker(y) PROVE {y} \in SUBSET Ids /\ Purge({y})
    <3>1. UNION {OwnFile(x) : x \in {y}} = OwnFile(y)
      OBVIOUS
    <3>2. stickers' = [x \in Ids |-> IF x \in {y} THEN NoRow ELSE stickers[x]]
      BY <2>2 DEF PurgeSticker, TypeOK
    <3> QED BY <2>2, <3>1, <3>2 DEF PurgeSticker
  <2> HIDE DEF Purge
  <2> QED BY <2>1, <2>2
<1>2. PICK gone \in SUBSET UNION {OwnFile(x) : x \in purged} : stored' = stored \ gone
  BY <1>1 DEF Delete
<1>3. \A f \in gone : f # External /\ \E x \in purged : stickers[x].file = f
  BY <1>2 DEF OwnFile
<1>4. RowsCalm
  BY <1>1 DEF RowsCalm, NoRow
<1>5. \A x \in Ids : stickers'[x].status = "live" => x \notin purged /\ stickers'[x].file = stickers[x].file
  BY <1>1 DEF NoRow
<1>6. \A x \in Ids : stickers'[x].status = "live" => stickers'[x].file \notin gone
  BY <1>3, <1>5 DEF FileInv, FilesApart
<1>7. \A g \in Handlers : Pending(g) => handler[g].file \notin gone
  BY <1>3 DEF FileInv, PendingApart
<1>8. \A g \in Handlers : Safe(g)
  BY <1>1, <1>4, BystanderSafe DEF Same
<1> QED BY <1>1, <1>2, <1>4, <1>6, <1>7, <1>8, CalmStep

LEMMA SaveFiles ==
  ASSUME TypeOK, FileInv, NEW h \in Handlers, Save(h)
  PROVE  FileInv'
<1> USE Numbers
<1> DEFINE f == saves + 1
<1>1. /\ saves' = f /\ stored' = stored \union {f} /\ UNCHANGED stickers
      /\ handler[h].pc = "save" /\ handler'[h].file = f /\ handler'[h].old = handler[h].old
      /\ handler'[h].sticker = handler[h].sticker
      /\ handler'[h].pc = (IF handler[h].sticker = 0 THEN "countOrder" ELSE "writeFile")
  BY FieldTypes DEF Save, TypeOK, HandlerStates, rows
<1>2. \A g \in Handlers \ {h} : Same(g)
  BY OthersSame DEF Continue
<1>3. /\ \A x \in Ids : stickers[x].file # f
      /\ \A g \in Handlers : handler[g].file # f /\ f \notin handler[g].old
  BY DEF FileInv, Numbered
<1>4. Numbered'
  BY <1>1, <1>2 DEF FileInv, Numbered, Same
<1>5. Unsaved'
  BY <1>1, <1>2 DEF FileInv, Unsaved, Same
<1>6. FilesApart'
  BY <1>1 DEF FileInv, FilesApart
<1>7. PendingApart'
  <2>1. \A g \in Handlers \ {h} : handler'[g].file = handler[g].file /\ handler'[g].old = handler[g].old
                                   /\ (Pending(g)' => Pending(g))
    BY <1>2 DEF Same, Pending
  <2>2. ASSUME NEW g \in Handlers, Pending(g)', g # h
        PROVE  /\ handler'[g].file \in stored'
               /\ \A x \in Ids : stickers'[x].file # handler'[g].file
               /\ \A k \in Handlers : handler'[g].file \notin handler'[k].old
               /\ \A k \in Handlers \ {g} : Pending(k)' => handler'[k].file # handler'[g].file
    <3>1. Pending(g) /\ handler'[g].file = handler[g].file
      BY <2>1, <2>2
    <3>2. handler'[g].file \in stored' /\ \A x \in Ids : stickers'[x].file # handler'[g].file
      BY <1>1, <3>1 DEF FileInv, PendingApart
    <3>3. \A k \in Handlers : handler'[g].file \notin handler'[k].old
      BY <1>1, <2>1, <3>1 DEF FileInv, PendingApart
    <3>4. \A k \in Handlers \ {g} : Pending(k)' => handler'[k].file # handler'[g].file
      BY <1>1, <1>3, <2>1, <3>1 DEF FileInv, PendingApart
    <3> QED BY <3>2, <3>3, <3>4
  <2>3. /\ handler'[h].file \in stored'
        /\ \A x \in Ids : stickers'[x].file # handler'[h].file
        /\ \A k \in Handlers : handler'[h].file \notin handler'[k].old
        /\ \A k \in Handlers \ {h} : Pending(k)' => handler'[k].file # handler'[h].file
    BY <1>1, <1>3, <2>1
  <2> QED BY <2>2, <2>3 DEF PendingApart
<1>8. DoomedApart'
  <2> SUFFICES ASSUME NEW g \in Handlers, NEW x \in Ids, stickers'[x].status = "live",
                      stickers'[x].file \in handler'[g].old
               PROVE  Takes(g, x)'
    BY DEF DoomedApart
  <2>1. Takes(g, x)
    BY <1>1, <1>2 DEF FileInv, DoomedApart, Same
  <2>2. CASE g = h
    BY <1>1, <2>1, <2>2 DEF Takes, Ids
  <2>3. CASE g # h
    BY <1>1, <1>2, <2>1, <2>3 DEF Takes, Same
  <2> QED BY <2>2, <2>3
<1>9. LiveHasFile'
  BY <1>1 DEF FileInv, LiveHasFile
<1> QED BY <1>4, <1>5, <1>6, <1>7, <1>8, <1>9 DEF FileInv

(* A row is given the file of the handler that writes it, or a URL. *)
LEMMA WriteFiles ==
  ASSUME TypeOK, FileInv, NEW h \in Handlers, CreateWrite(h) \/ ReplaceWrite(h)
  PROVE  FileInv'
<1> USE Numbers
<1> DEFINE f == handler[h].file
<1>1. PICK y : /\ \A x \in Ids \ {y} : stickers'[x] = stickers[x]
               /\ y \in Ids => stickers'[y].file = f
               /\ \/ handler'[h].file = External /\ handler'[h].old = {} /\ handler'[h].pc = "idle"
                  \/ /\ handler'[h].pc = "deleteFile" /\ handler'[h].file = f /\ handler'[h].old = handler[h].old
                     /\ y = handler[h].sticker
               /\ handler[h].pc \in {"create", "writeFile"}
  <2>1. CASE CreateWrite(h)
    <3>1. PICK y \in Ids : stickers' = [stickers EXCEPT ![y] =
                [status |-> "live", pack |-> handler[h].pack, name |-> handler[h].name, order |-> handler[h].order,
                 file |-> f]]
      BY <2>1 DEF CreateWrite
    <3>2. handler'[h] = Idle /\ handler[h].pc = "create"
      BY <2>1 DEF CreateWrite, Return, TypeOK
    <3> QED BY <3>1, <3>2 DEF TypeOK, Idle
  <2>2. CASE ReplaceWrite(h)
    <3>1. stickers' = [stickers EXCEPT ![handler[h].sticker].file = f]
      BY <2>2 DEF ReplaceWrite
    <3>2. /\ handler'[h].pc = "deleteFile" /\ handler'[h].file = f /\ handler'[h].old = handler[h].old
          /\ handler[h].pc = "writeFile"
      BY <2>2, FieldTypes DEF ReplaceWrite, GoTo, TypeOK, HandlerStates
    <3>3. \A x \in Ids \ {handler[h].sticker} : stickers'[x] = stickers[x]
      BY <3>1 DEF TypeOK
    <3>4. handler[h].sticker \in Ids => stickers'[handler[h].sticker].file = f
      BY <3>1 DEF TypeOK, Rows
    <3> QED BY <3>2, <3>3, <3>4
  <2> QED BY <2>1, <2>2
<1>2. UNCHANGED <<stored, saves>>
  BY DEF CreateWrite, ReplaceWrite, disk
<1>3. \A g \in Handlers \ {h} : Same(g)
  BY OthersSame DEF Continue
<1>4. f # External => /\ f \in stored
                     /\ \A x \in Ids : stickers[x].file # f
                     /\ \A g \in Handlers \ {h} : Pending(g) => handler[g].file # f
  BY <1>1 DEF FileInv, PendingApart, Pending
<1>5. \A g \in Handlers : f \notin handler[g].old
  BY <1>1 DEF FileInv, PendingApart, Pending
<1>6. ~Pending(h)' /\ \A g \in Handlers \ {h} : Pending(g)' => Pending(g)
  BY <1>1, <1>3 DEF Pending, Same
<1>7. Numbered'
  BY <1>1, <1>2, <1>3 DEF FileInv, Numbered, Same, External
<1>8. Unsaved'
  BY <1>1, <1>3 DEF FileInv, Unsaved, Same
<1>9. FilesApart'
  BY <1>1, <1>4 DEF FileInv, FilesApart
<1>10. PendingApart'
  <2> SUFFICES ASSUME NEW g \in Handlers, Pending(g)'
               PROVE  /\ handler'[g].file \in stored'
                      /\ \A x \in Ids : stickers'[x].file # handler'[g].file
                      /\ \A k \in Handlers : handler'[g].file \notin handler'[k].old
                      /\ \A k \in Handlers \ {g} : Pending(k)' => handler'[k].file # handler'[g].file
    BY DEF PendingApart
  <2>1. g # h /\ Pending(g) /\ handler'[g].file = handler[g].file /\ handler[g].file # External
    BY <1>3, <1>6 DEF Same, Pending
  <2>2. handler'[g].file \in stored'
    BY <1>2, <2>1 DEF FileInv, PendingApart
  <2>3. \A x \in Ids : stickers'[x].file # handler'[g].file
    BY <1>1, <1>4, <2>1 DEF FileInv, PendingApart
  <2>4. \A k \in Handlers : handler'[g].file \notin handler'[k].old
    BY <1>1, <1>3, <2>1 DEF FileInv, PendingApart, Same
  <2>5. \A k \in Handlers \ {g} : Pending(k)' => handler'[k].file # handler'[g].file
    BY <1>3, <1>6, <2>1 DEF FileInv, PendingApart, Same
  <2> QED BY <2>2, <2>3, <2>4, <2>5
<1>11. DoomedApart'
  <2> SUFFICES ASSUME NEW g \in Handlers, NEW x \in Ids, stickers'[x].status = "live",
                      stickers'[x].file \in handler'[g].old
               PROVE  Takes(g, x)'
    BY DEF DoomedApart
  <2>1. handler'[g].old = handler[g].old \/ handler'[g].old = {}
    BY <1>1, <1>3 DEF Same
  <2>2. x # y
    BY <1>1, <1>5, <2>1
  <2>3. stickers'[x] = stickers[x] /\ Takes(g, x)
    BY <1>1, <2>1, <2>2 DEF FileInv, DoomedApart
  <2>4. g # h
    BY <1>1, <2>2, <2>3 DEF Takes
  <2> QED BY <1>3, <2>3, <2>4 DEF Takes, Same
<1>12. LiveHasFile'
  BY <1>1, <1>2, <1>4 DEF FileInv, LiveHasFile
<1> QED BY <1>7, <1>8, <1>9, <1>10, <1>11, <1>12 DEF FileInv

LEMMA FilesInit == Init => FileInv
<1> SUFFICES ASSUME Init PROVE FileInv
  OBVIOUS
<1>1. \A x \in Ids : stickers[x].file = External
  BY DEF Init, NoRow
<1>2. \A g \in Handlers : handler[g] = Idle
  BY DEF Init
<1>3. saves = 0
  BY DEF Init
<1> QED BY <1>1, <1>2, <1>3 DEF FileInv, Numbered, Unsaved, FilesApart, PendingApart, Pending, DoomedApart, LiveHasFile,
                                Idle, External

(* LiveHasFile, for any number of packs, stickers, files and handlers. *)
THEOREM ShownHaveFiles == Spec => []LiveHasFile
<1>1. TypeInv /\ FileInv /\ [Next]_vars => FileInv'
  <2> SUFFICES ASSUME TypeInv, FileInv, [Next]_vars PROVE FileInv'
    OBVIOUS
  <2>1. TypeOK /\ Marked /\ TypeOK'
    BY TypeStep DEF TypeInv
  <2>2. ASSUME NEW h \in Handlers, Begin(h) PROVE FileInv'
    BY <2>1, <2>2, BeginFiles
  <2>3. ASSUME NEW h \in Handlers, Continue(h) PROVE FileInv'
    BY <2>1, <2>3, QuietFiles, SaveFiles, WriteFiles, DeleteFileFiles
  <2>4. CASE (\E p \in Packs : PurgePack(p)) \/ (\E x \in Ids : PurgeSticker(x))
    BY <2>1, <2>4, PurgeFiles
  <2>5. CASE UNCHANGED vars
    BY <2>5 DEF vars, FileInv, Numbered, Unsaved, FilesApart, PendingApart, Pending, DoomedApart, Takes, LiveHasFile
  <2> QED BY <2>2, <2>3, <2>4, <2>5 DEF Next
<1>2. FileInv => LiveHasFile
  BY DEF FileInv
<1> QED BY <1>1, <1>2, TypeInit, TypeStep, FilesInit, PTL DEF Spec

-----------------------------------------------------------------------------
(* Places: as long as a pack is not loose, the number of its rows is above
   every place in it, a handler about to create has counted just that, and
   what a reorder has not seen lies behind everything that it moves. *)

Seen(g) == {x \in Ids : handler[g].rank[x] > 0}

Below == \A p \in Packs \ loose : \A x \in LiveIn(p) : stickers[x].order < Cardinality(RowsOf(p))

Held(g) == \A x \in Ids : x \in Touches(g) => stickers[x].status # "none"

Counted(g) ==
  handler[g].pc = "create" /\ handler[g].pack \notin loose => handler[g].order = Cardinality(RowsOf(handler[g].pack))

Ranked(g) ==
  /\ handler[g].pc \in {"select", "lock"} => handler[g].sticker # handler[g].target
  /\ handler[g].pc = "lock" =>
       /\ \A x \in Seen(g) : stickers[x].pack = handler[g].pack
       /\ \A x, y \in Seen(g) : handler[g].rank[x] = handler[g].rank[y] => x = y

Later(g) ==
  handler[g].pc = "lock" /\ handler[g].stale = FALSE /\ handler[g].pack \notin loose =>
    \A u \in LiveIn(handler[g].pack) \ Seen(g) : Cardinality(Seen(g)) <= stickers[u].order

Places(g) == Held(g) /\ Counted(g) /\ Ranked(g) /\ Later(g)
OrderInv == OrdersDistinct /\ Below /\ \A g \in Handlers : Places(g)

LEMMA Sizes ==
  ASSUME NEW Y \in SUBSET Ids, NEW X \in SUBSET Y
  PROVE  /\ IsFiniteSet(Y) /\ Cardinality(X) \in Nat /\ Cardinality(Y) \in Nat
         /\ Cardinality(X) <= Cardinality(Y)
         /\ X # Y => Cardinality(X) < Cardinality(Y)
<1>1. IsFiniteSet(Ids)
  BY FS_Interval, OwnedAssumption DEF Ids
<1>2. IsFiniteSet(Y)
  BY <1>1, FS_Subset
<1>3. /\ IsFiniteSet(X) /\ Cardinality(X) <= Cardinality(Y)
      /\ Cardinality(Y) = Cardinality(X) => X = Y
  BY <1>2, FS_Subset
<1>4. Cardinality(X) \in Nat /\ Cardinality(Y) \in Nat
  BY <1>2, <1>3, FS_CardinalityType
<1> QED BY <1>2, <1>3, <1>4

LEMMA Subsets ==
  /\ \A q \in Packs : LiveIn(q) \subseteq RowsOf(q) /\ RowsOf(q) \in SUBSET Ids
  /\ \A g \in Handlers : Listed(g) \subseteq Seen(g) /\ Seen(g) \in SUBSET Ids /\ Seen(g) \subseteq Touches(g)
BY DEF LiveIn, RowsOf, Listed, Seen, Touches

LEMMA OrderTypes ==
  ASSUME TypeOK
  PROVE  /\ \A x \in Ids : stickers[x].order \in Nat /\ stickers[x].pack \in Packs
         /\ \A g \in Handlers : /\ handler[g].order \in Nat /\ handler[g].rank \in [Ids -> Nat]
                               /\ handler[g].pack \in Packs
<1>1. 0 .. Total \subseteq Nat
  BY OwnedAssumption
<1>2. \A g \in Handlers : handler[g].rank \in [Ids -> 0 .. Total]
  BY FieldTypes DEF HandlerStates
<1>3. \A g \in Handlers : handler[g].rank \in [Ids -> Nat]
  BY <1>1, <1>2
<1> QED BY <1>1, <1>3, FieldTypes DEF Rows

(* A step that creates and purges no row and changes no place. *)
RowsKept ==
  \A x \in Ids :
    /\ stickers'[x].pack = stickers[x].pack /\ stickers'[x].order = stickers[x].order
    /\ stickers'[x].status = "none" <=> stickers[x].status = "none"
    /\ stickers'[x].status = "live" => stickers[x].status = "live"

LEMMA KeptStep ==
  ASSUME OrderInv, RowsKept, UNCHANGED loose, \A g \in Handlers : handler'[g] = handler[g] \/ Places(g)'
  PROVE  OrderInv'
<1>1. \A q \in Packs : RowsOf(q)' = RowsOf(q) /\ LiveIn(q)' \subseteq LiveIn(q)
  BY DEF RowsKept, RowsOf, LiveIn
<1>2. OrdersDistinct'
  BY <1>1 DEF OrderInv, OrdersDistinct, RowsKept, LiveIn
<1>3. Below'
  BY <1>1 DEF OrderInv, Below, RowsKept, LiveIn
<1>4. ASSUME NEW g \in Handlers, handler'[g] = handler[g] PROVE Places(g)'
  <2>1. Places(g) /\ handler'[g] = handler[g]
    BY <1>4 DEF OrderInv
  <2>2. Touches(g)' = Touches(g) /\ Seen(g)' = Seen(g)
    BY <2>1 DEF Touches, Seen
  <2>3. Held(g)'
    BY <2>1, <2>2 DEF Places, Held, RowsKept
  <2>4. Counted(g)'
    BY <2>1 DEF Places, Counted, RowsKept, RowsOf
  <2>5. Ranked(g)'
    BY <2>1, <2>2 DEF Places, Ranked, RowsKept, Seen
  <2>6. Later(g)'
    BY <2>1, <2>2 DEF Places, Later, RowsKept, LiveIn
  <2> QED BY <2>3, <2>4, <2>5, <2>6 DEF Places
<1> QED BY <1>2, <1>3, <1>4 DEF OrderInv

LEMMA IdlePlaces ==
  ASSUME NEW g \in Handlers, handler'[g] = Idle
  PROVE  Places(g)'
<1>1. Touches(g)' = {0}
  BY DEF Touches, Idle
<1> QED BY <1>1 DEF Places, Held, Counted, Ranked, Later, Idle, Ids

(* A handler that goes on to something else than creating or reordering. *)
LEMMA OtherPlaces ==
  ASSUME NEW g \in Handlers, Held(g), RowsKept, handler'[g].pc \notin {"create", "select", "lock"},
         handler'[g].sticker = handler[g].sticker, handler'[g].target = handler[g].target,
         handler'[g].rank = handler[g].rank
  PROVE  Places(g)'
<1>1. Touches(g)' = Touches(g)
  BY DEF Touches
<1> QED BY <1>1 DEF Places, Held, Counted, Ranked, Later, RowsKept

(* Every step but the commit of a reorder leaves the other handlers alone. *)
LEMMA OthersKept ==
  ASSUME TypeOK, NEW h \in Handlers, Begin(h) \/ Continue(h), ~ReorderCommit(h), NEW g \in Handlers \ {h}
  PROVE  handler'[g] = handler[g]
<1>1. ASSUME NEW state, handler' = [handler EXCEPT ![h] = state] PROVE handler'[g] = handler[g]
  BY <1>1 DEF TypeOK
<1>2. ASSUME NEW await, GoTo(h, await) PROVE handler'[g] = handler[g]
  BY <1>2 DEF GoTo, TypeOK
<1>3. ASSUME Return(h) PROVE handler'[g] = handler[g]
  BY <1>1, <1>3 DEF Return
<1>4. CASE Begin(h)
  <2>1. \A state : Start(h, state) => handler'[g] = handler[g]
    BY <1>1 DEF Start
  <2> QED BY <1>4, <2>1 DEF Begin, CreatePackCheck, EditPackRead, DeletePackRead, CreateRead, EditRead, ReplaceRead,
                             DeleteRead, ReorderRead
<1>5. CASE CreatePack(h) \/ EditPackCount(h) \/ EditPackWrite(h) \/ DeletePackMark(h) \/ CreateCountNames(h)
           \/ CreateWrite(h) \/ EditCountOthers(h) \/ EditWrite(h) \/ ReplaceWrite(h) \/ DeleteFile(h) \/ Fail(h)
  BY <1>2, <1>3, <1>5 DEF CreatePack, EditPackCount, EditPackWrite, DeletePackMark, CreateCountNames, CreateWrite,
                          EditCountOthers, EditWrite, ReplaceWrite, DeleteFile, Fail
<1>6. CASE DeletePackList(h)
  BY <1>6 DEF DeletePackList, TypeOK
<1>7. CASE Save(h)
  BY <1>7 DEF Save, TypeOK
<1>8. CASE CreateCountOrder(h)
  BY <1>8 DEF CreateCountOrder, TypeOK
<1>9. CASE DeleteMark(h)
  BY <1>9 DEF DeleteMark, TypeOK
<1>10. CASE ReorderSelect(h)
  BY <1>10 DEF ReorderSelect, TypeOK
<1> QED BY <1>4, <1>5, <1>6, <1>7, <1>8, <1>9, <1>10 DEF Continue

LEMMA BeginPlaces ==
  ASSUME TypeOK, OrderInv, NEW h \in Handlers, Begin(h)
  PROVE  OrderInv'
<1>1. ASSUME NEW state, Start(h, state) PROVE handler'[h] = state /\ UNCHANGED <<stickers, loose>>
  BY <1>1 DEF Start, rows, TypeOK
<1> DEFINE Fit(state) ==
             /\ state.rank = Idle.rank /\ state.pc \notin {"create", "lock"}
             /\ state.pc = "select" => state.sticker # state.target
             /\ \A x \in Ids : x = state.sticker \/ x = state.target => stickers[x].status = "live"
           Good == Places(h)' /\ UNCHANGED <<stickers, loose>>
<1>2. ASSUME NEW state, Start(h, state), Fit(state) PROVE Good
  <2>1. handler'[h] = state /\ UNCHANGED <<stickers, loose>>
    BY <1>1, <1>2
  <2>2. Touches(h)' = {state.sticker, state.target}
    BY <1>2, <2>1 DEF Touches, Idle
  <2>3. Held(h)'
    BY <1>2, <2>1, <2>2 DEF Held
  <2>4. Counted(h)' /\ Ranked(h)' /\ Later(h)'
    BY <1>2, <2>1 DEF Counted, Ranked, Later
  <2> QED BY <2>1, <2>3, <2>4 DEF Places
<1>3. Idle.sticker = 0 /\ Idle.target = 0 /\ 0 \notin Ids
  BY DEF Ids, Idle
<1> HIDE DEF Good
<1> USE IdleType DEF HandlerStates
<1>4. Good
  <2>1. ASSUME NEW n \in Names, CreatePackCheck(h, n) PROVE Good
    <3> DEFINE state == [Idle EXCEPT !.pc = "createPack", !.name = n]
    <3>1. Start(h, state)
      BY <2>1 DEF CreatePackCheck
    <3>2. Fit(state)
      BY <1>3, <2>1 DEF CreatePackCheck
    <3> HIDE DEF state, Fit
    <3> QED BY <1>2, <3>1, <3>2
  <2>2. ASSUME NEW q \in Packs, NEW n \in Names, EditPackRead(h, q, n) PROVE Good
    <3> DEFINE state == [Idle EXCEPT !.pc = IF n = packs[q].name THEN "writePack" ELSE "countPacks", !.pack = q, !.name = n]
    <3>1. Start(h, state)
      BY <2>2 DEF EditPackRead
    <3>2. Fit(state)
      BY <1>3, <2>2 DEF EditPackRead
    <3> HIDE DEF state, Fit
    <3> QED BY <1>2, <3>1, <3>2
  <2>3. ASSUME NEW q \in Packs, DeletePackRead(h, q) PROVE Good
    <3> DEFINE state == [Idle EXCEPT !.pc = "listFiles", !.pack = q]
    <3>1. Start(h, state)
      BY <2>3 DEF DeletePackRead
    <3>2. Fit(state)
      BY <1>3, <2>3 DEF DeletePackRead
    <3> HIDE DEF state, Fit
    <3> QED BY <1>2, <3>1, <3>2
  <2>4. ASSUME NEW q \in Packs, NEW n \in Names, CreateRead(h, q, n) PROVE Good
    <3> DEFINE state == [Idle EXCEPT !.pc = "countNames", !.pack = q, !.name = n]
    <3>1. Start(h, state)
      BY <2>4 DEF CreateRead
    <3>2. Fit(state)
      BY <1>3, <2>4 DEF CreateRead
    <3> HIDE DEF state, Fit
    <3> QED BY <1>2, <3>1, <3>2
  <2>5. ASSUME NEW x \in Ids, NEW n \in Names, EditRead(h, x, n) PROVE Good
    <3> DEFINE state == [Idle EXCEPT !.pc = IF n = stickers[x].name THEN "writeName" ELSE "countOthers", !.sticker = x, !.name = n]
    <3>1. Start(h, state)
      BY <2>5 DEF EditRead
    <3>2. Fit(state)
      BY <1>3, <2>5 DEF EditRead
    <3> HIDE DEF state, Fit
    <3> QED BY <1>2, <3>1, <3>2
  <2>6. ASSUME NEW x \in Ids, ReplaceRead(h, x) PROVE Good
    <3>1. PICK await \in {"save", "writeFile"} : Start(h, [Idle EXCEPT !.pc = await, !.sticker = x, !.old = OwnFile(x)])
      BY <2>6 DEF ReplaceRead
    <3>2. Fit([Idle EXCEPT !.pc = await, !.sticker = x, !.old = OwnFile(x)])
      BY <1>3, <2>6 DEF ReplaceRead
    <3> HIDE DEF Fit
    <3> QED BY <1>2, <3>1, <3>2
  <2>7. ASSUME NEW x \in Ids, DeleteRead(h, x) PROVE Good
    <3> DEFINE state == [Idle EXCEPT !.pc = "markDeleted", !.sticker = x, !.old = OwnFile(x)]
    <3>1. Start(h, state)
      BY <2>7 DEF DeleteRead
    <3>2. Fit(state)
      BY <1>3, <2>7 DEF DeleteRead
    <3> HIDE DEF state, Fit
    <3> QED BY <1>2, <3>1, <3>2
  <2>8. ASSUME NEW x \in Ids, NEW t \in Ids, NEW before \in BOOLEAN, ReorderRead(h, x, t, before) PROVE Good
    <3> DEFINE state == [Idle EXCEPT !.pc = "select", !.sticker = x, !.target = t, !.before = before, !.pack = stickers[x].pack]
    <3>1. Start(h, state)
      BY <2>8 DEF ReorderRead
    <3>2. Fit(state)
      BY <1>3, <2>8 DEF ReorderRead
    <3> HIDE DEF state, Fit
    <3> QED BY <1>2, <3>1, <3>2
  <2> QED BY <2>1, <2>2, <2>3, <2>4, <2>5, <2>6, <2>7, <2>8 DEF Begin
<1>5. RowsKept
  BY <1>4 DEF RowsKept, Good
<1>6. ~ReorderCommit(h)
  BY DEF Begin, CreatePackCheck, EditPackRead, DeletePackRead, CreateRead, EditRead, ReplaceRead, DeleteRead,
         ReorderRead, Start, ReorderCommit
<1> QED BY <1>4, <1>5, <1>6, OthersKept, KeptStep DEF Good

(* The steps that neither create a sticker nor write places. *)
LEMMA QuietPlaces ==
  ASSUME TypeOK, Marked, OrderInv, NEW h \in Handlers, Continue(h), ~CreateWrite(h), ~ReorderCommit(h)
  PROVE  OrderInv'
<1> USE FieldTypes
<1> DEFINE p == handler[h].pack
           s == handler[h].sticker
<1>0. Held(h) /\ (UNCHANGED stickers => RowsKept) /\ (Return(h) => handler'[h] = Idle)
  BY DEF OrderInv, Places, RowsKept, Return, TypeOK
<1>a. \A await : GoTo(h, await) => /\ handler'[h].pc = await /\ handler'[h].sticker = s
                                   /\ handler'[h].target = handler[h].target /\ handler'[h].rank = handler[h].rank
  BY DEF GoTo, TypeOK, HandlerStates
<1>1. CASE CreatePack(h) \/ EditPackWrite(h) \/ DeleteFile(h) \/ Fail(h)
  <2>1. UNCHANGED <<stickers, loose>> /\ Return(h)
    BY <1>1 DEF CreatePack, EditPackWrite, DeleteFile, Fail, rows
  <2> QED BY <1>0, <2>1, IdlePlaces, OthersKept, KeptStep
<1>2. CASE EditPackCount(h) \/ CreateCountNames(h) \/ EditCountOthers(h)
  <2>1. /\ UNCHANGED <<stickers, loose>>
        /\ Return(h) \/ \E await \in {"writePack", "save", "countOrder", "writeName"} : GoTo(h, await)
    BY <1>2 DEF EditPackCount, CreateCountNames, EditCountOthers, rows
  <2>2. Places(h)'
    BY <1>0, <1>a, <2>1, IdlePlaces, OtherPlaces
  <2> QED BY <1>0, <2>1, <2>2, OthersKept, KeptStep
<1>3. CASE DeletePackList(h)
  <2>1. /\ UNCHANGED <<stickers, loose>> /\ handler'[h].pc = "markPack" /\ handler'[h].sticker = s
        /\ handler'[h].target = handler[h].target /\ handler'[h].rank = handler[h].rank
    BY <1>3 DEF DeletePackList, TypeOK, HandlerStates, rows
  <2> QED BY <1>0, <2>1, OtherPlaces, OthersKept, KeptStep
<1>4. CASE DeletePackMark(h)
  <2>1. UNCHANGED loose /\ GoTo(h, "deleteFile")
    BY <1>4 DEF DeletePackMark
  <2>2. RowsKept
    BY <1>4 DEF DeletePackMark, RowsKept, Rows, LiveIn
  <2>3. Places(h)'
    BY <1>0, <1>a, <2>1, <2>2, OtherPlaces
  <2> QED BY <2>1, <2>2, <2>3, OthersKept, KeptStep
<1>5. CASE Save(h)
  <2>1. /\ UNCHANGED <<stickers, loose>> /\ handler'[h].pc \in {"countOrder", "writeFile"} /\ handler'[h].sticker = s
        /\ handler'[h].target = handler[h].target /\ handler'[h].rank = handler[h].rank
    BY <1>5 DEF Save, TypeOK, HandlerStates, rows
  <2> QED BY <1>0, <2>1, OtherPlaces, OthersKept, KeptStep
<1>6. CASE CreateCountOrder(h)
  <2>1. /\ UNCHANGED <<stickers, loose>> /\ handler'[h].pc = "create" /\ handler'[h].sticker = s
        /\ handler'[h].target = handler[h].target /\ handler'[h].rank = handler[h].rank
        /\ handler'[h].order = NextOrder(p) /\ handler'[h].pack = p
    BY <1>6 DEF CreateCountOrder, TypeOK, HandlerStates, rows
  <2>2. Counted(h)'
    BY <2>1 DEF Counted, NextOrder, RowsOf
  <2>3. Places(h)'
    BY <1>0, <2>1, <2>2 DEF Places, Held, Touches, Ranked, Later
  <2> QED BY <1>0, <2>1, <2>3, OthersKept, KeptStep
<1>7. CASE EditWrite(h)
  <2>1. RowsKept
    BY <1>7 DEF EditWrite, RowsKept, TypeOK, Rows
  <2>2. UNCHANGED loose /\ Return(h)
    BY <1>7 DEF EditWrite
  <2> QED BY <1>0, <2>1, <2>2, IdlePlaces, OthersKept, KeptStep
<1>8. CASE ReplaceWrite(h)
  <2>1. RowsKept
    BY <1>8 DEF ReplaceWrite, RowsKept, TypeOK, Rows
  <2>2. UNCHANGED loose /\ GoTo(h, "deleteFile")
    BY <1>8 DEF ReplaceWrite
  <2>3. Places(h)'
    BY <1>0, <1>a, <2>1, <2>2, OtherPlaces
  <2> QED BY <2>1, <2>2, <2>3, OthersKept, KeptStep
<1>9. CASE DeleteMark(h)
  <2>1. s \in Ids /\ stickers[s].status # "none"
    BY <1>0, <1>9 DEF DeleteMark, Marked, Held, Touches
  <2>2. RowsKept
    BY <1>9, <2>1 DEF DeleteMark, RowsKept, TypeOK, Rows
  <2>3. /\ UNCHANGED loose /\ handler'[h].pc = "deleteFile" /\ handler'[h].sticker = s
        /\ handler'[h].target = handler[h].target /\ handler'[h].rank = handler[h].rank
    BY <1>9 DEF DeleteMark, TypeOK, HandlerStates
  <2> QED BY <1>0, <2>2, <2>3, OtherPlaces, OthersKept, KeptStep
<1>10. CASE ReorderSelect(h)
  <2>1. PICK rank \in Ranks(p) : handler' = [handler EXCEPT ![h].rank = rank, ![h].pc = "lock"]
    BY <1>10 DEF ReorderSelect
  <2>2. /\ UNCHANGED <<stickers, loose>> /\ handler[h].pc = "select" /\ handler'[h].pc = "lock" /\ handler'[h].sticker = s
        /\ handler'[h].target = handler[h].target /\ handler'[h].rank = rank /\ handler'[h].pack = p
    BY <1>10, <2>1 DEF ReorderSelect, TypeOK, HandlerStates, rows
  <2>3. /\ \A x \in Ids : IF x \in LiveIn(p) THEN rank[x] > 0 ELSE ~(rank[x] > 0)
        /\ \A x, y \in LiveIn(p) : x # y => rank[x] # rank[y]
    <3>1. \A x \in Ids : rank[x] \in IF x \in LiveIn(p) THEN 1 .. Cardinality(LiveIn(p)) ELSE {0}
      BY DEF Ranks
    <3>2. Cardinality(LiveIn(p)) \in Nat
      BY Sizes DEF LiveIn
    <3> QED BY <3>1, <3>2 DEF Ranks
  <2>4. Seen(h)' = LiveIn(p) /\ LiveIn(p)' = LiveIn(p) /\ LiveIn(p) \subseteq Ids
    BY <2>2, <2>3 DEF Seen, LiveIn
  <2>5. Held(h)'
    BY <1>0, <2>2, <2>3 DEF Held, Touches, LiveIn
  <2>6. Ranked(h)'
    <3>1. s # handler[h].target
      BY <2>2 DEF OrderInv, Places, Ranked
    <3>2. \A x \in Seen(h)' : stickers'[x].pack = handler'[h].pack
      BY <2>2, <2>4 DEF LiveIn
    <3>3. \A x, y \in Seen(h)' : handler'[h].rank[x] = handler'[h].rank[y] => x = y
      BY <2>2, <2>3, <2>4
    <3> QED BY <2>2, <3>1, <3>2, <3>3 DEF Ranked
  <2>7. Later(h)'
    BY <2>2, <2>4 DEF Later
  <2>8. Counted(h)'
    BY <2>2 DEF Counted
  <2> QED BY <1>0, <2>2, <2>5, <2>6, <2>7, <2>8, OthersKept, KeptStep DEF Places
<1> QED BY <1>1, <1>2, <1>3, <1>4, <1>5, <1>6, <1>7, <1>8, <1>9, <1>10 DEF Continue

LEMMA CreateWritePlaces ==
  ASSUME TypeOK, OrderInv, NEW h \in Handlers, CreateWrite(h)
  PROVE  OrderInv'
<1> USE OrderTypes
<1>p. PICK p \in Packs : p = handler[h].pack
  OBVIOUS
<1>n. PICK n \in Nat : n = handler[h].order
  OBVIOUS
<1>1. PICK x \in Ids : /\ stickers[x].status = "none"
                       /\ \A y \in Ids \ {x} : stickers'[y] = stickers[y]
                       /\ stickers'[x].status = "live" /\ stickers'[x].pack = p /\ stickers'[x].order = n
  BY <1>p, <1>n DEF CreateWrite, TypeOK
<1>2. /\ handler[h].pc = "create" /\ handler'[h] = Idle /\ \A g \in Handlers \ {h} : handler'[g] = handler[g]
      /\ loose' = IF Creating(p) = {h} THEN loose ELSE loose \union {p}
  BY <1>p DEF CreateWrite, Return, TypeOK
<1>3. /\ RowsOf(p)' = RowsOf(p) \union {x} /\ LiveIn(p)' = LiveIn(p) \union {x} /\ x \notin RowsOf(p)
      /\ \A q \in Packs \ {p} : RowsOf(q)' = RowsOf(q) /\ LiveIn(q)' = LiveIn(q)
      /\ \A q \in Packs : x \notin LiveIn(q) /\ LiveIn(q) \subseteq Ids
  BY <1>1 DEF RowsOf, LiveIn
<1>4. Cardinality(RowsOf(p)') = Cardinality(RowsOf(p)) + 1 /\ Cardinality(RowsOf(p)) \in Nat
  BY <1>3, FS_AddElement, Subsets, Sizes
<1>5. p \notin loose' => p \notin loose /\ Creating(p) = {h} /\ n = Cardinality(RowsOf(p))
  BY <1>p, <1>n, <1>2 DEF OrderInv, Places, Counted
<1>6. \A q \in Packs \ loose' : q \notin loose
  BY <1>2
<1>7. p \notin loose' => \A y \in LiveIn(p) : stickers[y].order < n /\ y # x /\ y \in Ids
  BY <1>3, <1>5 DEF OrderInv, Below
<1>8. OrdersDistinct'
  <2>1. ASSUME NEW q \in Packs \ loose', q # p
        PROVE  \A y, z \in LiveIn(q)' : stickers'[y].order = stickers'[z].order => y = z
    BY <1>1, <1>3, <1>6, <2>1 DEF OrderInv, OrdersDistinct
  <2>2. ASSUME p \notin loose'
        PROVE  \A y, z \in LiveIn(p)' : stickers'[y].order = stickers'[z].order => y = z
    <3>1. \A y \in LiveIn(p) : stickers'[y].order < stickers'[x].order /\ stickers'[y].order = stickers[y].order
      BY <1>1, <1>7, <2>2
    <3>2. \A y, z \in LiveIn(p) : stickers[y].order = stickers[z].order => y = z
      BY <1>5, <2>2 DEF OrderInv, OrdersDistinct
    <3>3. \A y \in LiveIn(p) : stickers'[y].order # stickers'[x].order
      BY <1>1, <1>7, <2>2, <3>1
    <3> QED BY <1>3, <3>1, <3>2, <3>3
  <2> QED BY <2>1, <2>2 DEF OrdersDistinct
<1>9. Below'
  <2>1. ASSUME NEW q \in Packs \ loose', q # p
        PROVE  \A y \in LiveIn(q)' : stickers'[y].order < Cardinality(RowsOf(q)')
    BY <1>1, <1>3, <1>6, <2>1 DEF OrderInv, Below
  <2>2. ASSUME p \notin loose'
        PROVE  \A y \in LiveIn(p)' : stickers'[y].order < Cardinality(RowsOf(p)')
    BY <1>1, <1>3, <1>4, <1>5, <1>7, <2>2
  <2> QED BY <2>1, <2>2 DEF Below
<1>10. ASSUME NEW g \in Handlers PROVE Places(g)'
  <2>1. CASE g = h
    BY <1>2, <2>1, IdlePlaces
  <2>2. CASE g # h
    <3>1. handler'[g] = handler[g] /\ Places(g)
      BY <1>2, <2>2 DEF OrderInv
    <3>2. x \notin Touches(g) /\ Touches(g)' = Touches(g) /\ Seen(g)' = Seen(g) /\ Seen(g) \subseteq Ids \ {x}
      BY <1>1, <3>1 DEF Places, Held, Touches, Seen
    <3>3. Held(g)'
      BY <1>1, <3>1, <3>2 DEF Places, Held
    <3>4. Counted(g)'
      <4>1. ASSUME handler[g].pc = "create", handler[g].pack \notin loose'
            PROVE  handler[g].order = Cardinality(RowsOf(handler[g].pack)')
        <5>1. handler[g].pack # p
          BY <1>5, <2>2, <4>1 DEF Creating
        <5> QED BY <1>3, <1>6, <3>1, <4>1, <5>1 DEF Places, Counted
      <4> QED BY <3>1, <4>1 DEF Counted
    <3>5. Ranked(g)'
      BY <1>1, <3>1, <3>2 DEF Places, Ranked
    <3>6. Later(g)'
      <4>0. PICK q \in Packs : q = handler[g].pack
        OBVIOUS
      <4>1. SUFFICES ASSUME handler[g].pc = "lock", handler[g].stale = FALSE, q \notin loose', NEW u \in LiveIn(q)' \ Seen(g)
                     PROVE  Cardinality(Seen(g)) <= stickers'[u].order
        BY <3>1, <3>2, <4>0 DEF Later
      <4>2. CASE u # x
        <5>1. u \in LiveIn(q) /\ stickers'[u] = stickers[u]
          BY <1>1, <4>1, <4>2 DEF LiveIn
        <5> QED BY <1>6, <3>1, <4>0, <4>1, <5>1 DEF Places, Later
      <4>3. CASE u = x
        <5>1. q = p
          BY <1>1, <4>1, <4>3 DEF LiveIn
        <5>2. Seen(g) \subseteq RowsOf(p)
          BY <3>1, <3>2, <4>0, <4>1, <5>1 DEF Places, Ranked, Held, Touches, Seen, RowsOf
        <5>3. Cardinality(Seen(g)) <= Cardinality(RowsOf(p))
          BY <5>2, Subsets, Sizes
        <5> QED BY <1>1, <1>5, <4>1, <4>3, <5>1, <5>3
      <4> QED BY <4>2, <4>3
    <3> QED BY <3>3, <3>4, <3>5, <3>6 DEF Places
  <2> QED BY <2>1, <2>2
<1> QED BY <1>8, <1>9, <1>10 DEF OrderInv

(* The rows X of pack p are purged; nobody works on them. *)
LEMMA PurgedRows ==
  ASSUME TypeOK, OrderInv, NEW p \in Packs, NEW X \in SUBSET Ids,
         stickers' = [x \in Ids |-> IF x \in X THEN NoRow ELSE stickers[x]],
         \A x \in X : stickers[x].pack = p,
         UNCHANGED handler,
         \A g \in Handlers : Touches(g) \intersect X = {},
         \/ loose' = loose \union {p}
         \/ /\ loose' = loose \ {p} /\ RowsOf(p) \subseteq X
            /\ \A g \in Handlers : handler[g].pc = "idle" \/ handler[g].pack # p
  PROVE  OrderInv'
<1>1. /\ \A x \in X : stickers'[x].status = "none"
      /\ \A x \in Ids \ X : stickers'[x] = stickers[x]
  BY DEF NoRow
<1>2. \A q \in Packs \ {p} : RowsOf(q)' = RowsOf(q) /\ LiveIn(q)' = LiveIn(q) /\ LiveIn(q) \subseteq Ids \ X
  BY <1>1 DEF RowsOf, LiveIn
<1>3. p \notin loose' => RowsOf(p)' = {} /\ LiveIn(p)' = {}
  BY <1>1 DEF RowsOf, LiveIn
<1>4. \A q \in Packs : q \notin loose' /\ q # p => q \notin loose
  OBVIOUS
<1>5. OrdersDistinct'
  <2>1. ASSUME NEW q \in Packs, q \notin loose'
        PROVE  \A x, y \in LiveIn(q)' : stickers'[x].order = stickers'[y].order => x = y
    <3>1. CASE q = p
      BY <1>3, <2>1, <3>1
    <3>2. CASE q # p
      BY <1>1, <1>2, <1>4, <2>1, <3>2 DEF OrderInv, OrdersDistinct
    <3> QED BY <3>1, <3>2
  <2> QED BY <2>1 DEF OrdersDistinct
<1>6. Below'
  <2>1. ASSUME NEW q \in Packs, q \notin loose'
        PROVE  \A x \in LiveIn(q)' : stickers'[x].order < Cardinality(RowsOf(q)')
    <3>1. CASE q = p
      BY <1>3, <2>1, <3>1
    <3>2. CASE q # p
      BY <1>1, <1>2, <1>4, <2>1, <3>2 DEF OrderInv, Below
    <3> QED BY <3>1, <3>2
  <2> QED BY <2>1 DEF Below
<1>7. ASSUME NEW g \in Handlers PROVE Places(g)'
  <2>1. /\ Places(g) /\ handler'[g] = handler[g] /\ Touches(g)' = Touches(g) /\ Seen(g)' = Seen(g)
        /\ Seen(g) \subseteq Ids \ X /\ Touches(g) \intersect X = {}
    BY <1>1 DEF OrderInv, Touches, Seen
  <2>2. PICK q \in Packs : q = handler[g].pack
    BY OrderTypes
  <2>3. handler[g].pc \in {"create", "lock"} /\ q \notin loose' => q # p /\ q \notin loose
    BY <2>2
  <2>4. Held(g)'
    BY <1>1, <2>1 DEF Places, Held
  <2>5. Counted(g)'
    BY <1>2, <2>1, <2>2, <2>3 DEF Places, Counted
  <2>6. Ranked(g)'
    BY <1>1, <2>1 DEF Places, Ranked
  <2>7. Later(g)'
    BY <1>1, <1>2, <2>1, <2>2, <2>3 DEF Places, Later
  <2> QED BY <2>4, <2>5, <2>6, <2>7 DEF Places
<1> QED BY <1>5, <1>6, <1>7 DEF OrderInv

LEMMA PurgePlaces ==
  ASSUME TypeOK, OrderInv, (\E p \in Packs : PurgePack(p)) \/ (\E x \in Ids : PurgeSticker(x))
  PROVE  OrderInv'
<1>1. ASSUME NEW p \in Packs, PurgePack(p) PROVE OrderInv'
  <2>1. RowsOf(p) \in SUBSET Ids /\ \A x \in RowsOf(p) : stickers[x].pack = p
    BY DEF RowsOf
  <2>2. /\ stickers' = [x \in Ids |-> IF x \in RowsOf(p) THEN NoRow ELSE stickers[x]]
        /\ UNCHANGED handler /\ loose' = loose \ {p}
        /\ \A g \in Handlers : Touches(g) \intersect RowsOf(p) = {} /\ (handler[g].pc = "idle" \/ handler[g].pack # p)
    BY <1>1 DEF PurgePack, Untouched
  <2> QED BY <2>1, <2>2, PurgedRows
<1>2. ASSUME NEW x \in Ids, PurgeSticker(x) PROVE OrderInv'
  <2>1. stickers' = [y \in Ids |-> IF y \in {x} THEN NoRow ELSE stickers[y]]
    BY <1>2 DEF PurgeSticker, TypeOK
  <2>2. /\ stickers[x].pack \in Packs /\ \A y \in {x} : stickers[y].pack = stickers[x].pack
        /\ UNCHANGED handler /\ loose' = loose \union {stickers[x].pack}
        /\ \A g \in Handlers : Touches(g) \intersect {x} = {}
    BY <1>2, OrderTypes DEF PurgeSticker
  <2> QED BY <2>1, <2>2, PurgedRows
<1> QED BY <1>1, <1>2

(* A reorder gives the stickers that it lists places of their own, from 0 on:
   it sorts them by a key, in which the moved sticker comes just before or just
   after its target. *)
Key(h, x) ==
  LET r == handler[h].rank
      t == handler[h].target
  IN  IF x = handler[h].sticker THEN IF handler[h].before THEN 2 * r[t] - 1 ELSE 2 * r[t] + 1 ELSE 2 * r[x]

LEMMA PlacesDistinct ==
  ASSUME TypeOK, NEW h \in Handlers, Ranked(h), handler[h].pc = "lock",
         {handler[h].sticker, handler[h].target} \subseteq Listed(h)
  PROVE  /\ \A x \in Listed(h) : Place(h, x) \in Nat /\ Place(h, x) < Cardinality(Listed(h))
         /\ \A x, y \in Listed(h) : x # y => Place(h, x) # Place(h, y)
         /\ \A x, y \in Listed(h) : Key(h, x) < Key(h, y) => Place(h, x) < Place(h, y)
<1> DEFINE L == Listed(h)
           s == handler[h].sticker
           t == handler[h].target
           r == handler[h].rank
           K(x) == Key(h, x)
           D(x) == {y \in L : y # x /\ Precedes(h, y, x)}
<1>1. L \in SUBSET Ids /\ \A x \in L : r[x] \in Nat
  BY OrderTypes DEF Listed
<1>2. s \in L /\ t \in L /\ s # t /\ \A x, y \in L : r[x] = r[y] => x = y
  BY Subsets DEF Ranked
<1>3. \A x \in L : K(x) \in Int
  BY <1>1, <1>2 DEF Key
<1>4. \A x, y \in L : x # y => (Precedes(h, x, y) <=> K(x) < K(y))
  <2>1. ASSUME NEW x \in L, NEW y \in L, x # y PROVE Precedes(h, x, y) <=> K(x) < K(y)
    <3>1. r[x] \in Nat /\ r[y] \in Nat /\ r[t] \in Nat /\ r[x] # r[y]
      BY <1>1, <1>2, <2>1
    <3>2. CASE x = s
      <4>1. (r[t] = r[y]) <=> y = t
        BY <1>2
      <4> QED BY <2>1, <3>1, <3>2, <4>1 DEF Precedes, Key
    <3>3. CASE y = s
      <4>1. (r[x] = r[t]) <=> x = t
        BY <1>2
      <4> QED BY <2>1, <3>1, <3>3, <4>1 DEF Precedes, Key
    <3>4. CASE x # s /\ y # s
      BY <3>1, <3>4 DEF Precedes, Key
    <3> QED BY <3>2, <3>3, <3>4
  <2> QED BY <2>1
<1>5. \A x, y \in L : x # y => K(x) # K(y)
  BY <1>1, <1>2 DEF Key
<1> HIDE DEF K
<1>6. \A x \in L : D(x) = {y \in L : y # x /\ K(y) < K(x)}
  BY <1>4
<1>7. ASSUME NEW x \in L PROVE Place(h, x) = Cardinality(D(x)) /\ Place(h, x) \in Nat /\ Place(h, x) < Cardinality(L)
  <2>1. D(x) \in SUBSET L /\ D(x) # L
    OBVIOUS
  <2> QED BY <1>1, <2>1, Sizes DEF Place
<1>8. ASSUME NEW x \in L, NEW y \in L, K(x) < K(y) PROVE Place(h, x) < Place(h, y)
  <2>1. D(x) \subseteq D(y)
    BY <1>3, <1>6, <1>8
  <2>2. x \in D(y) /\ x \notin D(x)
    BY <1>3, <1>6, <1>8
  <2>3. D(y) \in SUBSET Ids
    BY <1>1
  <2>4. Cardinality(D(x)) < Cardinality(D(y))
    BY <2>1, <2>2, <2>3, Sizes
  <2> QED BY <1>7, <2>4
<1>9. ASSUME NEW x \in L, NEW y \in L, x # y PROVE Place(h, x) # Place(h, y)
  <2>1. Place(h, x) \in Nat /\ Place(h, y) \in Nat
    BY <1>7, <1>9
  <2>2. CASE K(x) < K(y)
    <3>1. Place(h, x) < Place(h, y)
      BY <1>8, <1>9, <2>2
    <3> QED BY <2>1, <3>1
  <2>3. CASE K(y) < K(x)
    <3>1. Place(h, y) < Place(h, x)
      BY <1>8, <1>9, <2>3
    <3> QED BY <2>1, <3>1
  <2> QED BY <1>3, <1>5, <1>9, <2>2, <2>3
<1> QED BY <1>7, <1>8, <1>9 DEF K

LEMMA ReorderCommitPlaces ==
  ASSUME TypeOK, OrderInv, NEW h \in Handlers, ReorderCommit(h)
  PROVE  OrderInv'
<1> DEFINE L == Listed(h)
<1> USE OrderTypes
<1>p. PICK p \in Packs : p = handler[h].pack
  OBVIOUS
<1>1. CASE ~({handler[h].sticker, handler[h].target} \subseteq L)
  <2>1. UNCHANGED <<stickers, loose>> /\ Return(h)
    BY <1>1 DEF ReorderCommit
  <2>2. handler'[h] = Idle /\ RowsKept /\ \A g \in Handlers \ {h} : handler'[g] = handler[g]
    BY <2>1 DEF Return, RowsKept, TypeOK
  <2> QED BY <2>1, <2>2, IdlePlaces, KeptStep
<1>2. CASE {handler[h].sticker, handler[h].target} \subseteq L
  <2>1. /\ handler[h].pc = "lock" /\ handler'[h] = Idle
        /\ \A x \in L : stickers'[x] = [stickers[x] EXCEPT !.order = Place(h, x)]
        /\ \A x \in Ids \ L : stickers'[x] = stickers[x]
    BY <1>2 DEF ReorderCommit, Listed
  <2>2. ASSUME NEW g \in Handlers \ {h}
        PROVE  handler'[g] = IF handler[g].pc = "lock" /\ handler[g].pack = p THEN [handler[g] EXCEPT !.stale = TRUE] ELSE handler[g]
    BY <1>p, <1>2 DEF ReorderCommit
  <2>3. loose' = CASE LiveIn(p) \subseteq L /\ Creating(p) = {} -> loose \ {p}
                   [] ~(LiveIn(p) \subseteq L) /\ handler[h].stale -> loose \union {p}
                   [] OTHER -> loose
    BY <1>p, <1>2 DEF ReorderCommit
  <2>4. \A q \in Packs : q \notin loose' /\ q # p => q \notin loose
    BY <2>3
  <2>5. p \notin loose' => \/ LiveIn(p) \subseteq L /\ Creating(p) = {}
                           \/ p \notin loose /\ (LiveIn(p) \subseteq L \/ handler[h].stale = FALSE)
    BY <2>3, FieldTypes DEF HandlerStates
  <2>6. /\ L \subseteq LiveIn(p) /\ L \subseteq Seen(h)
        /\ \A u \in LiveIn(p) \ L : u \notin Seen(h)
    BY <1>p, <2>1 DEF OrderInv, Places, Ranked, Listed, LiveIn, Seen
  <2>7. /\ \A x \in L : stickers'[x].order \in Nat /\ stickers'[x].order < Cardinality(L)
        /\ \A x, y \in L : stickers'[x].order = stickers'[y].order => x = y
    <3>1. \A x \in L : stickers'[x].order = Place(h, x)
      BY <2>1, FieldTypes DEF Listed, Rows
    <3> QED BY <1>2, <2>1, <3>1, PlacesDistinct DEF OrderInv, Places
  <2>8. \A x \in Ids : stickers'[x].status = stickers[x].status /\ stickers'[x].pack = stickers[x].pack
    <3>1. ASSUME NEW x \in Ids
          PROVE  stickers'[x].status = stickers[x].status /\ stickers'[x].pack = stickers[x].pack
      <4>1. stickers[x] \in Rows
        BY FieldTypes
      <4>2. stickers'[x] = stickers[x] \/ stickers'[x] = [stickers[x] EXCEPT !.order = Place(h, x)]
        BY <2>1
      <4> QED BY <4>1, <4>2 DEF Rows
    <3> QED BY <3>1
  <2>9. \A q \in Packs : RowsOf(q)' = RowsOf(q) /\ LiveIn(q)' = LiveIn(q) /\ LiveIn(q) \subseteq Ids
    BY <2>8 DEF RowsOf, LiveIn
  <2>10. \A q \in Packs \ {p} : \A x \in LiveIn(q) : stickers'[x] = stickers[x]
    BY <2>1, <2>6 DEF LiveIn
  <2>11. Cardinality(L) <= Cardinality(Seen(h)) /\ Cardinality(L) <= Cardinality(RowsOf(p))
    BY <2>6, Subsets, Sizes
  <2>12. /\ Cardinality(L) \in Nat /\ Cardinality(Seen(h)) \in Nat /\ \A q \in Packs : Cardinality(RowsOf(q)) \in Nat
    BY <2>6, Subsets, Sizes
  <2>13. ASSUME p \notin loose', NEW x \in L, NEW u \in LiveIn(p) \ L
         PROVE  stickers'[x].order < stickers'[u].order /\ stickers'[u] = stickers[u]
    <3>1. p \notin loose /\ handler[h].stale = FALSE
      BY <2>5, <2>13
    <3>2. Cardinality(Seen(h)) <= stickers[u].order
      BY <1>p, <2>1, <2>6, <2>13, <3>1 DEF OrderInv, Places, Later
    <3> QED BY <2>1, <2>7, <2>9, <2>11, <2>12, <2>13, <3>2
  <2>14. OrdersDistinct'
    <3>1. ASSUME NEW q \in Packs, q \notin loose', q # p
          PROVE  \A x, y \in LiveIn(q)' : stickers'[x].order = stickers'[y].order => x = y
      BY <2>4, <2>9, <2>10, <3>1 DEF OrderInv, OrdersDistinct
    <3>2. ASSUME p \notin loose', NEW x \in LiveIn(p), NEW y \in LiveIn(p), stickers'[x].order = stickers'[y].order
          PROVE  x = y
      <4>1. CASE x \in L /\ y \in L
        BY <2>7, <3>2, <4>1
      <4>2. CASE x \notin L /\ y \notin L
        BY <2>1, <2>5, <2>9, <3>2, <4>2 DEF OrderInv, OrdersDistinct
      <4>3. stickers'[x].order \in Nat /\ stickers'[y].order \in Nat
        BY <2>1, <2>7, <2>9, <3>2
      <4> QED BY <2>13, <3>2, <4>1, <4>2, <4>3
    <3> QED BY <2>9, <3>1, <3>2 DEF OrdersDistinct
  <2>15. Below'
    <3>1. ASSUME NEW q \in Packs, q \notin loose', q # p
          PROVE  \A x \in LiveIn(q)' : stickers'[x].order < Cardinality(RowsOf(q)')
      BY <2>4, <2>9, <2>10, <3>1 DEF OrderInv, Below
    <3>2. ASSUME p \notin loose', NEW x \in LiveIn(p)
          PROVE  stickers'[x].order < Cardinality(RowsOf(p))
      <4>1. CASE x \in L
        BY <2>7, <2>11, <2>12, <4>1
      <4>2. CASE x \notin L
        BY <2>1, <2>5, <2>9, <3>2, <4>2 DEF OrderInv, Below
      <4> QED BY <4>1, <4>2
    <3> QED BY <2>9, <3>1, <3>2 DEF Below
  <2>16. ASSUME NEW g \in Handlers PROVE Places(g)'
    <3>1. CASE g = h
      BY <2>1, <3>1, IdlePlaces
    <3>2. CASE g # h
      <4>0. PICK q \in Packs : q = handler[g].pack
        OBVIOUS
      <4>1. /\ Places(g) /\ handler[g] \in HandlerStates
            /\ handler'[g].pc = handler[g].pc /\ handler'[g].pack = q /\ handler'[g].rank = handler[g].rank
            /\ handler'[g].sticker = handler[g].sticker /\ handler'[g].target = handler[g].target
            /\ handler'[g].order = handler[g].order
            /\ handler[g].pc = "lock" /\ handler'[g].stale = FALSE => q # p /\ handler[g].stale = FALSE
        BY <2>2, <3>2, <4>0, FieldTypes DEF OrderInv, HandlerStates
      <4>2. Touches(g)' = Touches(g) /\ Seen(g)' = Seen(g) /\ Seen(g) \subseteq Ids
        BY <4>1 DEF Touches, Seen
      <4>3. Held(g)'
        BY <2>8, <4>1, <4>2 DEF Places, Held
      <4>4. Counted(g)'
        <5>1. handler[g].pc = "create" /\ q \notin loose' => q \notin loose
          BY <2>4, <2>5, <4>0 DEF Creating
        <5> QED BY <2>9, <4>0, <4>1, <5>1 DEF Places, Counted
      <4>5. Ranked(g)'
        BY <2>8, <4>0, <4>1, <4>2 DEF Places, Ranked
      <4>6. Later(g)'
        <5>1. SUFFICES ASSUME handler[g].pc = "lock", handler'[g].stale = FALSE, q \notin loose', NEW u \in LiveIn(q) \ Seen(g)
                       PROVE  Cardinality(Seen(g)) <= stickers'[u].order
          BY <2>9, <4>1, <4>2 DEF Later
        <5>2. q # p /\ q \notin loose /\ handler[g].stale = FALSE
          BY <2>4, <4>1, <5>1
        <5> QED BY <2>10, <4>0, <4>1, <5>1, <5>2 DEF Places, Later
      <4> QED BY <4>3, <4>4, <4>5, <4>6 DEF Places
    <3> QED BY <3>1, <3>2
  <2> QED BY <2>14, <2>15, <2>16 DEF OrderInv
<1> QED BY <1>1, <1>2

LEMMA OrdersInit == Init => OrderInv
<1> SUFFICES ASSUME Init PROVE OrderInv
  OBVIOUS
<1>1. PICK count \in 0 .. First :
        /\ \A x \in Ids : x <= count => stickers[x].status = "live" /\ stickers[x].pack = Home /\ stickers[x].order = x - 1
        /\ \A x \in Ids : ~(x <= count) => stickers[x].status = "none"
  BY DEF Init, NoRow
<1>2. count \in Nat /\ count <= Total /\ \A x \in Ids : x \in Nat /\ x > 0
  BY <1>1, OwnedAssumption DEF Ids
<1>3. \A q \in Packs : /\ q # Home => LiveIn(q) = {}
                       /\ LiveIn(q) = {} \/ RowsOf(q) = 1 .. count
                       /\ \A x \in LiveIn(q) : x \in 1 .. count /\ x \in Ids
  <2>1. \A q \in Packs : q # Home => LiveIn(q) = {}
    BY <1>1 DEF LiveIn
  <2>2. LiveIn(Home) = {x \in Ids : x <= count} /\ RowsOf(Home) = {x \in Ids : x <= count}
    BY <1>1 DEF LiveIn, RowsOf
  <2>3. {x \in Ids : x <= count} = 1 .. count
    BY <1>2, OwnedAssumption DEF Ids
  <2> QED BY <2>1, <2>2, <2>3
<1>4. Cardinality(1 .. count) = count
  BY <1>2, FS_Interval
<1>5. OrdersDistinct
  BY <1>1, <1>2, <1>3 DEF OrdersDistinct
<1>6. Below
  <2>1. ASSUME NEW q \in Packs, NEW x \in LiveIn(q) PROVE stickers[x].order < Cardinality(RowsOf(q))
    BY <1>1, <1>2, <1>3, <1>4, <2>1
  <2> QED BY <2>1 DEF Below
<1>7. ASSUME NEW g \in Handlers PROVE Places(g)
  <2>1. handler[g] = Idle
    BY DEF Init
  <2>2. Touches(g) = {0}
    BY <2>1 DEF Touches, Idle
  <2> QED BY <2>1, <2>2 DEF Places, Held, Counted, Ranked, Later, Idle, Ids
<1> QED BY <1>5, <1>6, <1>7 DEF OrderInv

LEMMA OrderStep == ASSUME TypeInv, OrderInv, [Next]_vars PROVE OrderInv'
<1>1. TypeOK /\ Marked
  BY DEF TypeInv
<1>2. ASSUME NEW h \in Handlers, Begin(h) PROVE OrderInv'
  BY <1>1, <1>2, BeginPlaces
<1>3. ASSUME NEW h \in Handlers, Continue(h) PROVE OrderInv'
  BY <1>1, <1>3, QuietPlaces, CreateWritePlaces, ReorderCommitPlaces
<1>4. CASE (\E p \in Packs : PurgePack(p)) \/ (\E x \in Ids : PurgeSticker(x))
  BY <1>1, <1>4, PurgePlaces
<1>5. CASE UNCHANGED vars
  BY <1>5, KeptStep DEF vars, RowsKept
<1> QED BY <1>2, <1>3, <1>4, <1>5 DEF Next

(* OrdersDistinct: as long as a pack is not loose, its stickers have places of
   their own, whatever handlers overlap or fail in between. *)
THEOREM PlacesApart == Spec => []OrdersDistinct
<1>1. TypeInv /\ OrderInv /\ [Next]_vars => OrderInv' BY OrderStep
<1>2. OrderInv => OrdersDistinct
  BY DEF OrderInv
<1> QED BY <1>1, <1>2, TypeInit, TypeStep, OrdersInit, PTL DEF Spec

-----------------------------------------------------------------------------
(* As long as nothing is disturbed, one handler at most is under way, so that
   what it checked or read still holds when it writes. *)

Busy(g) == handler[g].pc # "idle"
OneBusy == \A g, k \in Handlers : Busy(g) /\ Busy(k) => g = k
Alone == ~disturbed => OneBusy

(* A handler that goes on to its next call, with all that it knew. *)
Went(g, await) ==
  /\ handler'[g].pc = await /\ handler'[g].name = handler[g].name /\ handler'[g].pack = handler[g].pack
  /\ handler'[g].sticker = handler[g].sticker /\ handler'[g].file = handler[g].file

LEMMA After ==
  ASSUME TypeOK, NEW h \in Handlers
  PROVE  /\ Return(h) => handler'[h] = Idle
         /\ \A await : GoTo(h, await) => Went(h, await) /\ handler'[h].old = handler[h].old
         /\ DeletePackList(h) =>
              Went(h, "markPack") /\ handler'[h].old = UNION {OwnFile(x) : x \in LiveIn(handler[h].pack)}
         /\ Save(h) => /\ handler'[h].pc = IF handler[h].sticker = 0 THEN "countOrder" ELSE "writeFile"
                       /\ handler'[h].file = saves + 1 /\ handler'[h].old = handler[h].old
                       /\ handler'[h].name = handler[h].name /\ handler'[h].pack = handler[h].pack
                       /\ handler'[h].sticker = handler[h].sticker
         /\ CreateCountOrder(h) => Went(h, "create") /\ handler'[h].old = handler[h].old
         /\ DeleteMark(h) => Went(h, "deleteFile") /\ handler'[h].old = OwnFile(handler[h].sticker)
         /\ ReorderSelect(h) => Went(h, "lock") /\ handler'[h].old = handler[h].old
         /\ ReorderCommit(h) => handler'[h] = Idle
<1> USE FieldTypes DEF HandlerStates
<1>1. Return(h) => handler'[h] = Idle BY DEF Return, TypeOK
<1>2. \A await : GoTo(h, await) => Went(h, await) /\ handler'[h].old = handler[h].old BY DEF GoTo, Went, TypeOK
<1>3. DeletePackList(h) =>
        Went(h, "markPack") /\ handler'[h].old = UNION {OwnFile(x) : x \in LiveIn(handler[h].pack)}
  BY DEF DeletePackList, Went, TypeOK
<1>4. Save(h) => /\ handler'[h].pc = IF handler[h].sticker = 0 THEN "countOrder" ELSE "writeFile"
                 /\ handler'[h].file = saves + 1 /\ handler'[h].old = handler[h].old
                 /\ handler'[h].name = handler[h].name /\ handler'[h].pack = handler[h].pack
                 /\ handler'[h].sticker = handler[h].sticker
  BY DEF Save, TypeOK
<1>5. CreateCountOrder(h) => Went(h, "create") /\ handler'[h].old = handler[h].old
  BY DEF CreateCountOrder, Went, TypeOK
<1>6. DeleteMark(h) => Went(h, "deleteFile") /\ handler'[h].old = OwnFile(handler[h].sticker)
  BY DEF DeleteMark, Went, TypeOK
<1>7. ReorderSelect(h) => Went(h, "lock") /\ handler'[h].old = handler[h].old
  BY DEF ReorderSelect, Went, TypeOK
<1>8. ReorderCommit(h) => handler'[h] = Idle BY <1>1 DEF ReorderCommit
<1> QED BY <1>1, <1>2, <1>3, <1>4, <1>5, <1>6, <1>7, <1>8

(* With what a handler begins. *)
BeganAs(g) ==
  LET now == handler'[g]
  IN  /\ now.file = External
      /\ \/ now.pc = "createPack" /\ PackNameFree(now.name, Packs) /\ now.old = {}
         \/ now.pc \in {"countPacks", "listFiles", "countOthers", "select"} /\ now.old = {}
         \/ now.pc = "countNames" /\ now.sticker = 0 /\ now.old = {}
         \/ /\ now.pc = "writePack" /\ now.pack \in Packs /\ now.old = {}
            /\ packs[now.pack].status = "live" /\ packs[now.pack].name = now.name
         \/ /\ now.pc = "writeName" /\ now.sticker \in Ids /\ now.old = {}
            /\ stickers[now.sticker].status = "live" /\ stickers[now.sticker].name = now.name
         \/ now.pc \in {"save", "writeFile", "markDeleted"} /\ now.sticker \in Ids /\ now.old = OwnFile(now.sticker)

LEMMA Began ==
  ASSUME TypeOK, NEW h \in Handlers, Begin(h)
  PROVE  BeganAs(h) /\ handler[h].pc = "idle" /\ UNCHANGED <<packs, stickers, stored>>
<1>1. ASSUME NEW state, Start(h, state)
      PROVE  handler'[h] = state /\ handler[h].pc = "idle" /\ UNCHANGED <<packs, stickers, stored>>
  BY <1>1 DEF Start, rows, disk, TypeOK
<1>2. ASSUME NEW n \in Names, CreatePackCheck(h, n) PROVE BeganAs(h) /\ \E state : Start(h, state)
  <2>1. Start(h, [Idle EXCEPT !.pc = "createPack", !.name = n]) BY <1>2 DEF CreatePackCheck
  <2>2. handler'[h] = [Idle EXCEPT !.pc = "createPack", !.name = n] BY <1>1, <2>1
  <2>3. handler'[h].file = External /\ handler'[h].old = {} /\ handler'[h].pc = "createPack" /\ handler'[h].name = n
    BY <2>2 DEF Idle
  <2> QED BY <1>2, <2>1, <2>3 DEF BeganAs, CreatePackCheck
<1>3. ASSUME NEW q \in Packs, DeletePackRead(h, q) PROVE BeganAs(h) /\ \E state : Start(h, state)
  <2>1. Start(h, [Idle EXCEPT !.pc = "listFiles", !.pack = q]) BY <1>3 DEF DeletePackRead
  <2>2. handler'[h] = [Idle EXCEPT !.pc = "listFiles", !.pack = q] BY <1>1, <2>1
  <2>3. handler'[h].file = External /\ handler'[h].old = {} /\ handler'[h].pc = "listFiles"
    BY <2>2 DEF Idle
  <2> QED BY <1>3, <2>1, <2>3 DEF BeganAs, DeletePackRead
<1>4. ASSUME NEW q \in Packs, NEW n \in Names, EditPackRead(h, q, n) PROVE BeganAs(h) /\ \E state : Start(h, state)
  <2>1. Start(h, [Idle EXCEPT !.pc = IF n = packs[q].name THEN "writePack" ELSE "countPacks", !.pack = q, !.name = n]) BY <1>4 DEF EditPackRead
  <2>2. handler'[h] = [Idle EXCEPT !.pc = IF n = packs[q].name THEN "writePack" ELSE "countPacks", !.pack = q, !.name = n] BY <1>1, <2>1
  <2>3. handler'[h].file = External /\ handler'[h].old = {} /\ handler'[h].pc = (IF n = packs[q].name THEN "writePack" ELSE "countPacks")
        /\ handler'[h].pack = q /\ handler'[h].name = n
    BY <2>2 DEF Idle
  <2> QED BY <1>4, <2>1, <2>3 DEF BeganAs, EditPackRead
<1>5. ASSUME NEW q \in Packs, NEW n \in Names, CreateRead(h, q, n) PROVE BeganAs(h) /\ \E state : Start(h, state)
  <2>1. Start(h, [Idle EXCEPT !.pc = "countNames", !.pack = q, !.name = n]) BY <1>5 DEF CreateRead
  <2>2. handler'[h] = [Idle EXCEPT !.pc = "countNames", !.pack = q, !.name = n] BY <1>1, <2>1
  <2>3. handler'[h].file = External /\ handler'[h].old = {} /\ handler'[h].pc = "countNames"
        /\ handler'[h].sticker = 0
    BY <2>2 DEF Idle
  <2> QED BY <1>5, <2>1, <2>3 DEF BeganAs, CreateRead
<1>6. ASSUME NEW x \in Ids, NEW n \in Names, EditRead(h, x, n) PROVE BeganAs(h) /\ \E state : Start(h, state)
  <2>1. Start(h, [Idle EXCEPT !.pc = IF n = stickers[x].name THEN "writeName" ELSE "countOthers",
                              !.sticker = x, !.name = n]) BY <1>6 DEF EditRead
  <2>2. handler'[h] = [Idle EXCEPT !.pc = IF n = stickers[x].name THEN "writeName" ELSE "countOthers",
                              !.sticker = x, !.name = n] BY <1>1, <2>1
  <2>3. handler'[h].file = External /\ handler'[h].old = {} /\ handler'[h].pc = (IF n = stickers[x].name THEN "writeName" ELSE "countOthers")
        /\ handler'[h].sticker = x /\ handler'[h].name = n
    BY <2>2 DEF Idle
  <2> QED BY <1>6, <2>1, <2>3 DEF BeganAs, EditRead
<1>7. ASSUME NEW x \in Ids, ReplaceRead(h, x) PROVE BeganAs(h) /\ \E state : Start(h, state)
  <2>1. PICK await \in {"save", "writeFile"} : Start(h, [Idle EXCEPT !.pc = await, !.sticker = x, !.old = OwnFile(x)])
    BY <1>7 DEF ReplaceRead
  <2>2. handler'[h] = [Idle EXCEPT !.pc = await, !.sticker = x, !.old = OwnFile(x)] BY <1>1, <2>1
  <2>3. /\ handler'[h].pc = await /\ handler'[h].sticker = x /\ handler'[h].old = OwnFile(x)
        /\ handler'[h].file = External
    BY <2>2 DEF Idle
  <2> QED BY <2>1, <2>3 DEF BeganAs
<1>8. ASSUME NEW x \in Ids, DeleteRead(h, x) PROVE BeganAs(h) /\ \E state : Start(h, state)
  <2>1. Start(h, [Idle EXCEPT !.pc = "markDeleted", !.sticker = x, !.old = OwnFile(x)]) BY <1>8 DEF DeleteRead
  <2>2. handler'[h] = [Idle EXCEPT !.pc = "markDeleted", !.sticker = x, !.old = OwnFile(x)] BY <1>1, <2>1
  <2>3. /\ handler'[h].pc = "markDeleted" /\ handler'[h].sticker = x /\ handler'[h].old = OwnFile(x)
        /\ handler'[h].file = External
    BY <2>2 DEF Idle
  <2> QED BY <2>1, <2>3 DEF BeganAs
<1>9. ASSUME NEW x \in Ids, NEW t \in Ids, NEW before \in BOOLEAN, ReorderRead(h, x, t, before)
      PROVE  BeganAs(h) /\ \E state : Start(h, state)
  <2>1. Start(h, [Idle EXCEPT !.pc = "select", !.sticker = x, !.target = t, !.before = before,
                              !.pack = stickers[x].pack]) BY <1>9 DEF ReorderRead
  <2>2. handler'[h] = [Idle EXCEPT !.pc = "select", !.sticker = x, !.target = t, !.before = before,
                              !.pack = stickers[x].pack] BY <1>1, <2>1
  <2>3. handler'[h].file = External /\ handler'[h].old = {} /\ handler'[h].pc = "select"
    BY <2>2 DEF Idle
  <2> QED BY <1>9, <2>1, <2>3 DEF BeganAs, ReorderRead
<1> QED BY <1>1, <1>2, <1>3, <1>4, <1>5, <1>6, <1>7, <1>8, <1>9 DEF Begin

LEMMA Disturbs ==
  ASSUME TypeOK, Next, ~disturbed'
  PROVE  /\ ~disturbed
         /\ \A h \in Handlers : Begin(h) => AllIdle
         /\ \A h \in Handlers : ~Fail(h)
         /\ \A h \in Handlers : DeleteFile(h) => stored' = stored \ handler[h].old
         /\ \A p \in Packs : PurgePack(p) => stored' = stored \ UNION {OwnFile(x) : x \in RowsOf(p)}
         /\ \A x \in Ids : PurgeSticker(x) => stored' = stored \ OwnFile(x)
<1>1. ASSUME NEW files, Delete(files) PROVE ~disturbed /\ stored' = stored \ files
  <2>1. PICK gone \in SUBSET files : stored' = stored \ gone /\ disturbed' = (disturbed \/ gone # files)
    BY <1>1 DEF Delete
  <2>2. ~disturbed /\ gone = files BY <2>1, Zenon
  <2> QED BY <2>1, <2>2
<1>2. ASSUME NEW h \in Handlers, Begin(h) PROVE ~disturbed /\ AllIdle
  <2>1. PICK state : Start(h, state)
    BY <1>2, Zenon DEF Begin, CreatePackCheck, EditPackRead, DeletePackRead, CreateRead, EditRead, ReplaceRead, DeleteRead,
                ReorderRead
  <2>2. disturbed' = (disturbed \/ ~AllIdle) BY <2>1 DEF Start
  <2> QED BY <2>2, Zenon
<1>3. ASSUME NEW h \in Handlers, Fail(h) PROVE FALSE BY <1>3, Zenon DEF Fail
<1>4. ASSUME NEW h \in Handlers, Continue(h) PROVE ~disturbed
  BY <1>1, <1>3, <1>4 DEF Continue, CreatePack, EditPackCount, EditPackWrite, DeletePackList, DeletePackMark, CreateCountNames,
     Save, CreateCountOrder, CreateWrite, EditCountOthers, EditWrite, ReplaceWrite, DeleteMark, DeleteFile, ReorderSelect,
     ReorderCommit
<1>5. ~disturbed BY <1>1, <1>2, <1>4 DEF Next, PurgePack, PurgeSticker
<1> QED BY <1>1, <1>2, <1>3, <1>5 DEF DeleteFile, PurgePack, PurgeSticker

LEMMA OthersIdle ==
  ASSUME TypeOK, Alone, NEW h \in Handlers, Begin(h) \/ Continue(h), ~disturbed', NEW g \in Handlers \ {h}
  PROVE  handler[g].pc = "idle" /\ handler'[g].pc = "idle" /\ Same(g)
<1>1. Same(g) BY OthersSame
<1>2. ~disturbed /\ (Begin(h) => AllIdle) BY Disturbs DEF Next
<1>3. Continue(h) => Busy(h)
  BY DEF Busy, Continue, CreatePack, EditPackCount, EditPackWrite, DeletePackList, DeletePackMark, CreateCountNames,
     Save, CreateCountOrder, CreateWrite, EditCountOthers, EditWrite, ReplaceWrite, DeleteMark, DeleteFile, ReorderSelect,
     ReorderCommit, Fail
<1>4. handler[g].pc = "idle" BY <1>2, <1>3 DEF Alone, OneBusy, Busy, AllIdle
<1> QED BY <1>1, <1>4 DEF Same

LEMMA AloneStep == ASSUME TypeOK, Alone, [Next]_vars PROVE Alone'
<1> SUFFICES ASSUME ~disturbed' PROVE OneBusy' BY DEF Alone
<1>1. ASSUME NEW h \in Handlers, Begin(h) \/ Continue(h) PROVE OneBusy'
  BY <1>1, OthersIdle DEF OneBusy, Busy
<1>2. ASSUME UNCHANGED handler, ~disturbed PROVE OneBusy' BY <1>2 DEF Alone, OneBusy, Busy
<1>3. CASE UNCHANGED vars BY <1>2, <1>3 DEF vars
<1>4. CASE Next BY <1>1, <1>2, <1>4, Disturbs DEF Next, PurgePack, PurgeSticker
<1> QED BY <1>3, <1>4

-----------------------------------------------------------------------------
(* Names: while one handler at most is under way, the name that it checked is
   still free when it writes. *)

PacksApart ==
  \A p, q \in Packs :
    packs[p].status = "live" /\ packs[q].status = "live" /\ packs[p].name = packs[q].name => p = q

StickersApart == \A p \in Packs : \A x, y \in LiveIn(p) : stickers[x].name = stickers[y].name => x = y

Checked(g) ==
  LET n == handler[g].name
      s == handler[g].sticker
  IN  /\ handler[g].pc = "createPack" => PackNameFree(n, Packs)
      /\ handler[g].pc = "writePack" => PackNameFree(n, Packs \ {handler[g].pack})
      /\ handler[g].pc \in {"countOrder", "create"} \/ (handler[g].pc = "save" /\ s = 0) => NameFree(handler[g].pack, n)
      /\ handler[g].pc = "writeName" /\ s \in Ids /\ stickers[s].status = "live" =>
           \A x \in LiveIn(stickers[s].pack) \ {s} : stickers[x].name # n

NamesInv == ~disturbed => PacksApart /\ StickersApart /\ \A g \in Handlers : Checked(g)

(* A step that gives nothing a name. *)
NamesStay ==
  /\ \A p \in Packs : packs'[p].status = "live" => packs[p].status = "live" /\ packs'[p].name = packs[p].name
  /\ \A x \in Ids : stickers'[x].status = "live" =>
       stickers[x].status = "live" /\ stickers'[x].pack = stickers[x].pack /\ stickers'[x].name = stickers[x].name

LEMMA StillApart ==
  ASSUME NamesStay, PacksApart, StickersApart
  PROVE  /\ PacksApart' /\ StickersApart'
         /\ \A p \in Packs : LiveIn(p)' \subseteq LiveIn(p)
         /\ \A n, others : others \subseteq Packs /\ PackNameFree(n, others) =>
              \A p \in others : packs'[p].status = "live" => packs'[p].name # n
         /\ \A n : \A p \in Packs : NameFree(p, n) => \A x \in LiveIn(p)' : stickers'[x].name # n
<1>1. PacksApart' BY DEF NamesStay, PacksApart
<1>2. \A p \in Packs : LiveIn(p)' \subseteq LiveIn(p) BY DEF NamesStay, LiveIn
<1>3. \A x \in Ids : stickers'[x].status = "live" => stickers'[x].name = stickers[x].name BY DEF NamesStay
<1>4. StickersApart' BY <1>2, <1>3 DEF StickersApart, LiveIn
<1>5. ASSUME NEW n, NEW others, others \subseteq Packs, PackNameFree(n, others)
      PROVE  \A p \in others : packs'[p].status = "live" => packs'[p].name # n
  BY <1>5 DEF PackNameFree, NamesStay
<1>6. ASSUME NEW n, NEW p \in Packs, NameFree(p, n) PROVE \A x \in LiveIn(p)' : stickers'[x].name # n
  BY <1>2, <1>3, <1>6 DEF NameFree, LiveIn
<1> QED BY <1>1, <1>2, <1>4, <1>5, <1>6

LEMMA StillChecked ==
  ASSUME TypeOK, NamesStay, PacksApart, StickersApart, NEW g \in Handlers, Checked(g), UNCHANGED handler
  PROVE  Checked(g)'
<1> DEFINE n == handler[g].name
           s == handler[g].sticker
           p == handler[g].pack
<1>1. p \in Packs BY FieldTypes
<1>2. PackNameFree(n, Packs) => PackNameFree(n, Packs)' BY StillApart DEF PackNameFree
<1>3. PackNameFree(n, Packs \ {p}) => PackNameFree(n, Packs \ {p})' BY StillApart DEF PackNameFree
<1>4. NameFree(p, n) => NameFree(p, n)' BY <1>1, StillApart DEF NameFree
<1>5. ASSUME s \in Ids, stickers'[s].status = "live", \A x \in LiveIn(stickers[s].pack) \ {s} : stickers[x].name # n
      PROVE  stickers[s].status = "live" /\ \A x \in LiveIn(stickers[s].pack)' \ {s} : stickers'[x].name # n
  <2>1. stickers[s].status = "live" /\ stickers'[s].pack = stickers[s].pack /\ stickers[s].pack \in Packs
    BY <1>5, FieldTypes DEF NamesStay
  <2> QED BY <1>5, <2>1, StillApart DEF NamesStay, LiveIn
<1>6. (handler[g].pc = "createPack" => PackNameFree(n, Packs))' BY <1>2 DEF Checked
<1>7. (handler[g].pc = "writePack" => PackNameFree(n, Packs \ {p}))' BY <1>3 DEF Checked
<1>8. (handler[g].pc \in {"countOrder", "create"} \/ (handler[g].pc = "save" /\ s = 0) => NameFree(p, n))'
  BY <1>4 DEF Checked
<1>9. (handler[g].pc = "writeName" /\ s \in Ids /\ stickers[s].status = "live" =>
        \A x \in LiveIn(stickers[s].pack) \ {s} : stickers[x].name # n)'
  BY <1>5 DEF Checked, NamesStay
<1> QED BY <1>6, <1>7, <1>8, <1>9 DEF Checked

(* The handler that goes on, or ends. *)
LEMMA ChecksContinue ==
  ASSUME TypeOK, PacksApart, StickersApart, NEW h \in Handlers, Checked(h), Continue(h), ~Fail(h)
  PROVE  PacksApart' /\ StickersApart' /\ Checked(h)'
<1> DEFINE n == handler[h].name
           s == handler[h].sticker
           p == handler[h].pack
           Rests == handler'[h].pc \notin {"createPack", "writePack", "countOrder", "create", "save", "writeName"}
<1>1. p \in Packs BY FieldTypes
<1>2. ASSUME Rests PROVE Checked(h)' BY <1>2 DEF Checked
<1>3. handler'[h] = Idle => Rests BY DEF Idle
<1>4. UNCHANGED <<packs, stickers>> => NamesStay BY DEF NamesStay
<1>5. NamesStay => PacksApart' /\ StickersApart' BY StillApart
<1>6. CASE CreatePack(h)
  <2>1. PICK q \in Packs : packs[q].status = "none" /\ packs' = [packs EXCEPT ![q] = [status |-> "live", name |-> n]]
    BY <1>6 DEF CreatePack
  <2>2. PackNameFree(n, Packs) BY <1>6 DEF CreatePack, Checked
  <2>3. packs'[q].name = n /\ \A r \in Packs \ {q} : packs'[r] = packs[r] BY <2>1 DEF TypeOK
  <2>4. PacksApart' BY <2>2, <2>3 DEF PacksApart, PackNameFree
  <2>5. StickersApart' BY <1>6 DEF CreatePack, StickersApart, LiveIn
  <2>6. handler'[h] = Idle BY <1>6, After DEF CreatePack
  <2> QED BY <1>2, <1>3, <2>4, <2>5, <2>6
<1>7. CASE EditPackCount(h)
  <2>1. UNCHANGED <<packs, stickers>> BY <1>7 DEF EditPackCount, rows
  <2>2. CASE PackNameFree(n, Packs \ {p})
    <3>1. Went(h, "writePack") BY <1>7, <2>2, After DEF EditPackCount
    <3>2. PackNameFree(n, Packs \ {p})' BY <2>1, <2>2, <3>1 DEF PackNameFree, Went
    <3>3. Checked(h)' BY <3>1, <3>2 DEF Checked, Went
    <3> QED BY <1>4, <1>5, <2>1, <3>3
  <2>3. CASE ~PackNameFree(n, Packs \ {p})
    <3>1. handler'[h] = Idle BY <1>7, <2>3, After DEF EditPackCount
    <3> QED BY <1>2, <1>3, <1>4, <1>5, <2>1, <3>1
  <2> QED BY <2>2, <2>3
<1>8. CASE EditPackWrite(h)
  <2>1. packs' = [packs EXCEPT ![p].name = n] BY <1>8 DEF EditPackWrite
  <2>2. PackNameFree(n, Packs \ {p}) BY <1>8 DEF EditPackWrite, Checked
  <2>3. /\ packs'[p].name = n /\ \A r \in Packs \ {p} : packs'[r] = packs[r]
        /\ \A r \in Packs : packs'[r].status = packs[r].status
    BY <1>1, <2>1, FieldTypes DEF TypeOK, PackRows
  <2>4. PacksApart' BY <2>2, <2>3 DEF PacksApart, PackNameFree
  <2>5. StickersApart' BY <1>8 DEF EditPackWrite, StickersApart, LiveIn
  <2>6. handler'[h] = Idle BY <1>8, After DEF EditPackWrite
  <2> QED BY <1>2, <1>3, <2>4, <2>5, <2>6
<1>9. CASE DeletePackList(h) \/ ReorderSelect(h)
  <2>1. UNCHANGED <<packs, stickers>> /\ Rests BY <1>9, After DEF DeletePackList, ReorderSelect, rows, Went
  <2> QED BY <1>2, <1>4, <1>5, <2>1
<1>10. CASE DeletePackMark(h)
  <2>1. NamesStay
    <3>1. /\ packs' = [packs EXCEPT ![p].status = "deleted"]
          /\ stickers' = [x \in Ids |-> IF x \in LiveIn(p) THEN [stickers[x] EXCEPT !.status = "deleted"] ELSE stickers[x]]
      BY <1>10 DEF DeletePackMark
    <3>2. \A q \in Packs : packs'[q].status = "live" => packs'[q] = packs[q]
      BY <1>1, <3>1, FieldTypes DEF TypeOK, PackRows
    <3>3. \A x \in Ids : stickers'[x].status = "live" => stickers'[x] = stickers[x]
      BY <3>1, FieldTypes DEF Rows
    <3> QED BY <3>2, <3>3 DEF NamesStay
  <2>2. Rests BY <1>10, After DEF DeletePackMark, Went
  <2> QED BY <1>2, <1>5, <2>1, <2>2
<1>11. CASE CreateCountNames(h)
  <2>1. UNCHANGED <<packs, stickers>> BY <1>11 DEF CreateCountNames, rows
  <2>2. CASE NameFree(p, n)
    <3>1. PICK await \in {"save", "countOrder"} : GoTo(h, await) BY <1>11, <2>2 DEF CreateCountNames
    <3>2. Went(h, await) BY <3>1, After
    <3>3. NameFree(p, n)' BY <2>1, <2>2, <3>2 DEF NameFree, LiveIn, Went
    <3>4. Checked(h)' BY <3>2, <3>3 DEF Checked, Went
    <3> QED BY <1>4, <1>5, <2>1, <3>4
  <2>3. CASE ~NameFree(p, n)
    <3>1. handler'[h] = Idle BY <1>11, <2>3, After DEF CreateCountNames
    <3> QED BY <1>2, <1>3, <1>4, <1>5, <2>1, <3>1
  <2> QED BY <2>2, <2>3
<1>12. CASE Save(h)
  <2>1. UNCHANGED <<packs, stickers>> BY <1>12 DEF Save, rows
  <2>2. /\ handler'[h].pc = (IF s = 0 THEN "countOrder" ELSE "writeFile") /\ handler[h].pc = "save"
        /\ handler'[h].name = n /\ handler'[h].pack = p /\ handler'[h].sticker = s
    BY <1>12, After DEF Save
  <2>3. s = 0 => NameFree(p, n)' BY <2>1, <2>2 DEF Checked, NameFree, LiveIn
  <2>4. Checked(h)' BY <2>2, <2>3 DEF Checked
  <2> QED BY <1>4, <1>5, <2>1, <2>4
<1>13. CASE CreateCountOrder(h)
  <2>1. UNCHANGED <<packs, stickers>> BY <1>13 DEF CreateCountOrder, rows
  <2>2. Went(h, "create") /\ handler[h].pc = "countOrder" BY <1>13, After DEF CreateCountOrder
  <2>3. NameFree(p, n)' BY <2>1, <2>2 DEF Checked, NameFree, LiveIn, Went
  <2>4. Checked(h)' BY <2>2, <2>3 DEF Checked, Went
  <2> QED BY <1>4, <1>5, <2>1, <2>4
<1>14. CASE CreateWrite(h)
  <2>1. PICK y \in Ids : stickers' = [stickers EXCEPT ![y] =
              [status |-> "live", pack |-> p, name |-> n, order |-> handler[h].order, file |-> handler[h].file]]
    BY <1>14 DEF CreateWrite
  <2>2. /\ stickers'[y].name = n /\ stickers'[y].pack = p
        /\ \A x \in Ids \ {y} : stickers'[x] = stickers[x]
    BY <2>1 DEF TypeOK
  <2>3. NameFree(p, n) BY <1>14 DEF CreateWrite, Checked
  <2>4. StickersApart' BY <2>2, <2>3 DEF StickersApart, NameFree, LiveIn
  <2>5. PacksApart' BY <1>14 DEF CreateWrite, PacksApart
  <2>6. handler'[h] = Idle BY <1>14, After DEF CreateWrite
  <2> QED BY <1>2, <1>3, <2>4, <2>5, <2>6
<1>15. CASE EditCountOthers(h)
  <2>1. UNCHANGED <<packs, stickers>> BY <1>15 DEF EditCountOthers, rows
  <2>2. CASE \A x \in RowsOf(stickers[s].pack) \ {s} : stickers[x].name # n
    <3>1. Went(h, "writeName") BY <1>15, <2>2, After DEF EditCountOthers
    <3>2. \A x \in LiveIn(stickers[s].pack)' \ {s} : stickers'[x].name # n BY <2>1, <2>2, <3>1 DEF RowsOf, LiveIn, Went
    <3>3. Checked(h)' BY <2>1, <3>1, <3>2 DEF Checked, Went
    <3> QED BY <1>4, <1>5, <2>1, <3>3
  <2>3. CASE ~\A x \in RowsOf(stickers[s].pack) \ {s} : stickers[x].name # n
    <3>1. handler'[h] = Idle BY <1>15, <2>3, After DEF EditCountOthers
    <3> QED BY <1>2, <1>3, <1>4, <1>5, <2>1, <3>1
  <2> QED BY <2>2, <2>3
<1>16. CASE EditWrite(h)
  <2>1. stickers' = [stickers EXCEPT ![s].name = n] /\ handler[h].pc = "writeName" BY <1>16 DEF EditWrite
  <2>2. /\ \A x \in Ids \ {s} : stickers'[x] = stickers[x]
        /\ s \in Ids => stickers'[s].name = n
        /\ \A x \in Ids : stickers'[x].status = stickers[x].status /\ stickers'[x].pack = stickers[x].pack
    BY <2>1, FieldTypes DEF TypeOK, Rows
  <2>3. \A q \in Packs : LiveIn(q)' = LiveIn(q) BY <2>2 DEF LiveIn
  <2>4. s \in Ids /\ stickers[s].status = "live" => \A x \in LiveIn(stickers[s].pack) \ {s} : stickers[x].name # n
    BY <2>1 DEF Checked
  <2>5. StickersApart' BY <2>2, <2>3, <2>4 DEF StickersApart, LiveIn
  <2>6. PacksApart' BY <1>16 DEF EditWrite, PacksApart
  <2>7. handler'[h] = Idle BY <1>16, After DEF EditWrite
  <2> QED BY <1>2, <1>3, <2>5, <2>6, <2>7
<1>17. CASE ReplaceWrite(h)
  <2>1. stickers' = [stickers EXCEPT ![s].file = handler[h].file] /\ UNCHANGED packs BY <1>17 DEF ReplaceWrite
  <2>2. NamesStay BY <2>1, FieldTypes DEF TypeOK, Rows, NamesStay
  <2>3. Rests BY <1>17, After DEF ReplaceWrite, Went
  <2> QED BY <1>2, <1>5, <2>2, <2>3
<1>18. CASE DeleteMark(h)
  <2>1. stickers' = [stickers EXCEPT ![s].status = "deleted"] /\ UNCHANGED packs BY <1>18 DEF DeleteMark
  <2>2. NamesStay BY <2>1, FieldTypes DEF TypeOK, Rows, NamesStay
  <2>3. Rests BY <1>18, After DEF Went
  <2> QED BY <1>2, <1>5, <2>2, <2>3
<1>19. CASE DeleteFile(h)
  <2>1. UNCHANGED <<packs, stickers>> BY <1>19 DEF DeleteFile, rows
  <2>2. handler'[h] = Idle BY <1>19, After DEF DeleteFile
  <2> QED BY <1>2, <1>3, <1>4, <1>5, <2>1, <2>2
<1>20. CASE ReorderCommit(h)
  <2>1. handler'[h] = Idle /\ UNCHANGED packs BY <1>20, After DEF ReorderCommit
  <2>2. \A x \in Ids : stickers'[x] = stickers[x] \/ stickers'[x] = [stickers[x] EXCEPT !.order = Place(h, x)]
    BY <1>20 DEF ReorderCommit
  <2>3. NamesStay BY <2>1, <2>2, FieldTypes DEF Rows, NamesStay
  <2> QED BY <1>2, <1>3, <1>5, <2>1, <2>3
<1> QED BY <1>6, <1>7, <1>8, <1>9, <1>10, <1>11, <1>12, <1>13, <1>14, <1>15, <1>16, <1>17, <1>18, <1>19, <1>20 DEF Continue

LEMMA NamesStep == ASSUME TypeOK, Alone, NamesInv, [Next]_vars PROVE NamesInv'
<1> SUFFICES ASSUME ~disturbed' PROVE PacksApart' /\ StickersApart' /\ \A g \in Handlers : Checked(g)' BY DEF NamesInv
<1> DEFINE Goal == PacksApart' /\ StickersApart' /\ \A g \in Handlers : Checked(g)'
<1>1. ASSUME NEW g \in Handlers, handler'[g].pc = "idle" PROVE Checked(g)' BY <1>1 DEF Checked
<1>2. ASSUME ~disturbed, UNCHANGED handler, NamesStay PROVE Goal BY <1>2, StillApart, StillChecked DEF NamesInv
<1>3. ASSUME NEW h \in Handlers, Begin(h) PROVE Goal
  <2>1. ~disturbed BY <1>3, Disturbs DEF Next
  <2>2. BeganAs(h) /\ UNCHANGED <<packs, stickers>> BY <1>3, Began
  <2>3. PacksApart' /\ StickersApart' BY <2>1, <2>2 DEF NamesInv, PacksApart, StickersApart, LiveIn
  <2>4. Checked(h)'
    <3> DEFINE now == handler'[h]
    <3>1. CASE now.pc = "createPack" /\ PackNameFree(now.name, Packs)
      BY <2>2, <3>1 DEF Checked, PackNameFree
    <3>2. CASE now.pc \in {"countPacks", "listFiles", "countNames", "countOthers", "select"} BY <3>2 DEF Checked
    <3>3. CASE /\ now.pc = "writePack" /\ now.pack \in Packs
               /\ packs[now.pack].status = "live" /\ packs[now.pack].name = now.name
      <4>1. PackNameFree(now.name, Packs \ {now.pack}) BY <2>1, <3>3 DEF NamesInv, PacksApart, PackNameFree
      <4> QED BY <2>2, <3>3, <4>1 DEF Checked, PackNameFree
    <3>4. CASE /\ now.pc = "writeName" /\ now.sticker \in Ids
               /\ stickers[now.sticker].status = "live" /\ stickers[now.sticker].name = now.name
      <4>1. PICK s \in Ids : s = now.sticker BY <3>4
      <4>2. stickers[s].pack \in Packs /\ s \in LiveIn(stickers[s].pack) BY <3>4, <4>1, FieldTypes DEF LiveIn
      <4>3. \A x \in LiveIn(stickers[s].pack) \ {s} : stickers[x].name # now.name
        BY <2>1, <3>4, <4>1, <4>2 DEF NamesInv, StickersApart
      <4> QED BY <2>2, <3>4, <4>1, <4>3 DEF Checked, LiveIn
    <3>5. CASE now.pc \in {"save", "writeFile", "markDeleted"} /\ now.sticker \in Ids BY <3>5 DEF Checked, Ids
    <3> QED BY <2>2, <3>1, <3>2, <3>3, <3>4, <3>5 DEF BeganAs
  <2> QED BY <1>1, <1>3, <2>3, <2>4, OthersIdle
<1>4. ASSUME NEW h \in Handlers, Continue(h) PROVE Goal
  <2>1. ~disturbed /\ ~Fail(h) BY <1>4, Disturbs DEF Next
  <2>2. PacksApart' /\ StickersApart' /\ Checked(h)' BY <1>4, <2>1, ChecksContinue DEF NamesInv
  <2> QED BY <1>1, <1>4, <2>2, OthersIdle
<1>5. ASSUME NEW p \in Packs, PurgePack(p) PROVE Goal
  <2>1. ~disturbed /\ UNCHANGED handler BY <1>5, Disturbs DEF Next, PurgePack
  <2>2. \A q \in Packs : packs'[q].status = "live" => packs'[q] = packs[q] BY <1>5 DEF PurgePack, TypeOK
  <2>3. \A x \in Ids : stickers'[x].status = "live" => stickers'[x] = stickers[x] BY <1>5 DEF PurgePack, NoRow
  <2> QED BY <1>2, <2>1, <2>2, <2>3 DEF NamesStay
<1>6. ASSUME NEW s \in Ids, PurgeSticker(s) PROVE Goal
  <2>1. ~disturbed /\ UNCHANGED <<handler, packs>> BY <1>6, Disturbs DEF Next, PurgeSticker
  <2>2. \A x \in Ids : stickers'[x].status = "live" => stickers'[x] = stickers[x]
    BY <1>6 DEF PurgeSticker, NoRow, TypeOK
  <2> QED BY <1>2, <2>1, <2>2 DEF NamesStay
<1>7. CASE UNCHANGED vars
  <2>1. ~disturbed /\ UNCHANGED handler /\ NamesStay BY <1>7 DEF vars, NamesStay
  <2> QED BY <1>2, <2>1
<1> QED BY <1>3, <1>4, <1>5, <1>6, <1>7 DEF Next

LEMMA NamesInit == Init => Alone /\ NamesInv
<1> SUFFICES ASSUME Init PROVE Alone /\ NamesInv
  OBVIOUS
<1>1. \A g \in Handlers : handler[g].pc = "idle" BY DEF Init, Idle
<1>2. \A p \in Packs : packs[p].status = "live" => p = Home BY DEF Init
<1>3. PICK count \in 0 .. First : \E name \in [1 .. count -> Names] :
        /\ \A x, y \in 1 .. count : name[x] = name[y] => x = y
        /\ stickers = [x \in Ids |->
             IF x <= count THEN [status |-> "live", pack |-> Home, name |-> name[x], order |-> x - 1, file |-> External]
             ELSE NoRow]
  BY DEF Init
<1>4. PICK name \in [1 .. count -> Names] :
        /\ \A x, y \in 1 .. count : name[x] = name[y] => x = y
        /\ stickers = [x \in Ids |->
             IF x <= count THEN [status |-> "live", pack |-> Home, name |-> name[x], order |-> x - 1, file |-> External]
             ELSE NoRow]
  BY <1>3
<1>5. \A x \in Ids : stickers[x].status = "live" => x \in 1 .. count /\ stickers[x].name = name[x]
  BY <1>4, OwnedAssumption DEF NoRow, Ids
<1>6. StickersApart BY <1>4, <1>5 DEF StickersApart, LiveIn
<1>7. PacksApart BY <1>2 DEF PacksApart
<1> QED BY <1>1, <1>6, <1>7 DEF Alone, OneBusy, Busy, NamesInv, Checked

(* NamesDistinct: as long as no two handlers overlapped and none failed, no two
   packs and no two stickers of a pack have one name. *)
THEOREM NoTwoOfOneName == Spec => []NamesDistinct
<1>1. TypeInv /\ [Next]_vars => TypeOK BY DEF TypeInv
<1>2. TypeInv /\ Alone /\ NamesInv /\ [Next]_vars => Alone' /\ NamesInv' BY <1>1, AloneStep, NamesStep
<1>3. NamesInv => NamesDistinct BY DEF NamesInv, NamesDistinct, PacksApart, StickersApart
<1> QED BY <1>2, <1>3, TypeInit, TypeStep, NamesInit, PTL DEF Spec

-----------------------------------------------------------------------------
(* Files: what a handler carries besides what the rows say, and what it gives
   up when it ends. *)

Carried(g) ==
  /\ handler[g].pc \in {"idle", "createPack", "countPacks", "writePack", "listFiles", "countNames", "countOthers",
                        "writeName", "select", "lock"} => handler[g].file = External /\ handler[g].old = {}
  /\ handler[g].pc = "countNames" => handler[g].sticker = 0
  /\ handler[g].pc \in {"countOrder", "create"} => handler[g].old = {}
  /\ handler[g].pc = "save" => handler[g].file = External /\ (handler[g].sticker = 0 => handler[g].old = {})
  /\ handler[g].pc \in {"markPack", "markDeleted"} => handler[g].file = External
  /\ handler[g].pc = "writeFile" => handler[g].sticker \in Ids

Vacant == \A x \in Ids : stickers[x].status = "none" => stickers[x].file = External

CarryInv == Vacant /\ \A g \in Handlers : Carried(g)

LEMMA CarriedContinue ==
  ASSUME TypeOK, NEW h \in Handlers, Carried(h), Continue(h)
  PROVE  Carried(h)'
<1> DEFINE Rests == handler'[h].file = handler[h].file /\ handler'[h].old = handler[h].old
                    /\ handler'[h].sticker = handler[h].sticker
<1>1. handler'[h] = Idle => Carried(h)' BY DEF Carried, Idle
<1>2. \A await : GoTo(h, await) => Rests /\ handler'[h].pc = await BY After DEF Went
<1>3. CASE CreatePack(h) \/ EditPackWrite(h) \/ CreateWrite(h) \/ EditWrite(h) \/ DeleteFile(h) \/ ReorderCommit(h) \/ Fail(h)
  BY <1>1, <1>3, After DEF CreatePack, EditPackWrite, CreateWrite, EditWrite, DeleteFile, Fail
<1>4. CASE EditPackCount(h)
  <2>1. GoTo(h, "writePack") \/ Return(h) BY <1>4 DEF EditPackCount
  <2>2. handler[h].pc = "countPacks" BY <1>4 DEF EditPackCount
  <2> QED BY <1>1, <1>2, <2>1, <2>2, After DEF Carried
<1>5. CASE CreateCountNames(h)
  <2>1. GoTo(h, "save") \/ GoTo(h, "countOrder") \/ Return(h) BY <1>5 DEF CreateCountNames
  <2>2. handler[h].pc = "countNames" BY <1>5 DEF CreateCountNames
  <2> QED BY <1>1, <1>2, <2>1, <2>2, After DEF Carried
<1>6. CASE EditCountOthers(h)
  <2>1. GoTo(h, "writeName") \/ Return(h) BY <1>6 DEF EditCountOthers
  <2>2. handler[h].pc = "countOthers" BY <1>6 DEF EditCountOthers
  <2> QED BY <1>1, <1>2, <2>1, <2>2, After DEF Carried
<1>7. CASE DeletePackMark(h) \/ ReplaceWrite(h)
  <2>1. handler'[h].pc = "deleteFile" BY <1>2, <1>7 DEF DeletePackMark, ReplaceWrite
  <2> QED BY <2>1 DEF Carried
<1>8. CASE DeletePackList(h)
  <2>1. handler'[h].pc = "markPack" /\ handler'[h].file = handler[h].file /\ handler[h].pc = "listFiles"
    BY <1>8, After DEF DeletePackList, Went
  <2> QED BY <2>1 DEF Carried
<1>9. CASE Save(h)
  <2>1. /\ handler'[h].pc = (IF handler[h].sticker = 0 THEN "countOrder" ELSE "writeFile")
        /\ handler[h].pc = "save"
        /\ Rests \/ (handler'[h].old = handler[h].old /\ handler'[h].sticker = handler[h].sticker)
    BY <1>9, After DEF Save
  <2>2. handler[h].sticker \in 0 .. Total /\ handler[h].pc = "save" BY <1>9, FieldTypes DEF Save
  <2>3. CASE handler[h].sticker = 0 BY <2>1, <2>2, <2>3 DEF Carried
  <2>4. CASE handler[h].sticker # 0
    <3>1. handler[h].sticker \in Ids BY <2>2, <2>4, OwnedAssumption DEF Ids
    <3> QED BY <2>1, <2>4, <3>1 DEF Carried
  <2> QED BY <2>3, <2>4
<1>10. CASE CreateCountOrder(h)
  <2>1. handler'[h].pc = "create" /\ handler'[h].old = handler[h].old /\ handler[h].pc = "countOrder"
    BY <1>10, After DEF CreateCountOrder, Went
  <2> QED BY <2>1 DEF Carried
<1>11. CASE DeleteMark(h)
  <2>1. handler'[h].pc = "deleteFile" BY <1>11, After DEF Went
  <2> QED BY <2>1 DEF Carried
<1>12. CASE ReorderSelect(h)
  <2>1. handler'[h].pc = "lock" /\ handler'[h].old = handler[h].old /\ handler'[h].file = handler[h].file
        /\ handler[h].pc = "select"
    BY <1>12, After DEF ReorderSelect, Went
  <2> QED BY <2>1 DEF Carried
<1> QED BY <1>3, <1>4, <1>5, <1>6, <1>7, <1>8, <1>9, <1>10, <1>11, <1>12 DEF Continue

(* What becomes of the files of the rows: only one handler writes them. *)
LEMMA RowFiles ==
  ASSUME TypeOK, NEW h \in Handlers, Begin(h) \/ Continue(h)
  PROVE  \/ \A x \in Ids : /\ stickers'[x].file = stickers[x].file
                           /\ stickers'[x].status = "none" => stickers[x].status = "none"
         \/ /\ CreateWrite(h)
            /\ \E y \in Ids : /\ stickers[y].status = "none" /\ stickers'[y].status # "none"
                              /\ stickers'[y].file = handler[h].file
                              /\ \A x \in Ids \ {y} : stickers'[x] = stickers[x]
         \/ /\ ReplaceWrite(h)
            /\ \A x \in Ids : /\ stickers'[x].file = IF x = handler[h].sticker THEN handler[h].file ELSE stickers[x].file
                              /\ stickers'[x].status = stickers[x].status
<1> DEFINE Calm == \A x \in Ids : /\ stickers'[x].file = stickers[x].file
                                  /\ stickers'[x].status = "none" => stickers[x].status = "none"
<1> USE FieldTypes DEF Rows, TypeOK
<1>1. CASE Begin(h) BY <1>1, Began
<1>2. CASE CreatePack(h) \/ EditPackCount(h) \/ EditPackWrite(h) \/ DeletePackList(h) \/ CreateCountNames(h) \/ Save(h)
        \/ CreateCountOrder(h) \/ EditCountOthers(h) \/ DeleteFile(h) \/ ReorderSelect(h) \/ Fail(h)
  <2>1. UNCHANGED stickers
    BY <1>2 DEF CreatePack, EditPackCount, EditPackWrite, DeletePackList, CreateCountNames, Save, CreateCountOrder,
       EditCountOthers, DeleteFile, ReorderSelect, Fail, rows
  <2> QED BY <2>1
<1>3. CASE DeletePackMark(h)
  <2>1. \A x \in Ids : stickers'[x] = stickers[x] \/ stickers'[x] = [stickers[x] EXCEPT !.status = "deleted"]
    <3> HIDE DEF Rows, TypeOK
    <3> QED BY <1>3 DEF DeletePackMark
  <2> QED BY <2>1
<1>4. CASE CreateWrite(h)
  <2>1. PICK y \in Ids :
          /\ stickers[y].status = "none"
          /\ stickers' = [stickers EXCEPT ![y] = [status |-> "live", pack |-> handler[h].pack, name |-> handler[h].name,
                                                  order |-> handler[h].order, file |-> handler[h].file]]
    BY <1>4 DEF CreateWrite
  <2> QED BY <1>4, <2>1
<1>5. CASE EditWrite(h)
  <2>1. stickers' = [stickers EXCEPT ![handler[h].sticker].name = handler[h].name] BY <1>5 DEF EditWrite
  <2> QED BY <2>1
<1>6. CASE ReplaceWrite(h)
  <2>1. stickers' = [stickers EXCEPT ![handler[h].sticker].file = handler[h].file] BY <1>6 DEF ReplaceWrite
  <2>2. \A x \in Ids : /\ stickers'[x].file = IF x = handler[h].sticker THEN handler[h].file ELSE stickers[x].file
                       /\ stickers'[x].status = stickers[x].status
    BY <2>1
  <2> QED BY <1>6, <2>2
<1>7. CASE DeleteMark(h)
  <2>1. stickers' = [stickers EXCEPT ![handler[h].sticker].status = "deleted"] BY <1>7 DEF DeleteMark
  <2> QED BY <2>1
<1>8. CASE ReorderCommit(h)
  <2>1. \A x \in Ids : stickers'[x] = stickers[x] \/ stickers'[x] = [stickers[x] EXCEPT !.order = Place(h, x)]
    BY <1>8 DEF ReorderCommit
  <2> QED BY <2>1
<1> QED BY <1>1, <1>2, <1>3, <1>4, <1>5, <1>6, <1>7, <1>8 DEF Continue

LEMMA CarryStep == ASSUME TypeOK, OrderInv, CarryInv, [Next]_vars PROVE CarryInv'
<1> USE DEF CarryInv
<1>1. ASSUME NEW h \in Handlers, Begin(h) PROVE CarryInv'
  <2>1. BeganAs(h) /\ UNCHANGED stickers BY <1>1, Began
  <2>2. Carried(h)' BY <2>1 DEF BeganAs, Carried, Ids
  <2>3. \A g \in Handlers \ {h} : Carried(g)' BY <1>1, OthersSame DEF Carried, Same
  <2> QED BY <2>1, <2>2, <2>3 DEF Vacant
<1>2. ASSUME NEW h \in Handlers, Continue(h) PROVE CarryInv'
  <2>1. Carried(h)' BY <1>2, CarriedContinue
  <2>2. \A g \in Handlers \ {h} : Carried(g)' BY <1>2, OthersSame DEF Carried, Same
  <2>3. CASE \A x \in Ids : /\ stickers'[x].file = stickers[x].file
                            /\ stickers'[x].status = "none" => stickers[x].status = "none"
    BY <2>1, <2>2, <2>3 DEF Vacant
  <2>4. CASE CreateWrite(h) /\ \E y \in Ids : stickers'[y].status # "none" /\ \A x \in Ids \ {y} : stickers'[x] = stickers[x]
    BY <2>1, <2>2, <2>4 DEF Vacant
  <2>5. CASE /\ ReplaceWrite(h)
             /\ \A x \in Ids :
                  /\ stickers'[x].file = IF x = handler[h].sticker THEN handler[h].file ELSE stickers[x].file
                  /\ stickers'[x].status = stickers[x].status
    <3>1. handler[h].sticker \in Ids => stickers[handler[h].sticker].status # "none"
      BY DEF OrderInv, Places, Held, Touches
    <3>2. Vacant' BY <2>5, <3>1 DEF Vacant
    <3> QED BY <2>1, <2>2, <3>2
  <2> QED BY <1>2, <2>3, <2>4, <2>5, RowFiles
<1>3. ASSUME NEW p \in Packs, PurgePack(p) PROVE CarryInv'
  <2>1. Vacant' BY <1>3 DEF PurgePack, Vacant, NoRow
  <2> QED BY <1>3, <2>1 DEF PurgePack, Carried
<1>4. ASSUME NEW s \in Ids, PurgeSticker(s) PROVE CarryInv'
  <2>1. Vacant' BY <1>4 DEF PurgeSticker, Vacant, NoRow, TypeOK
  <2> QED BY <1>4, <2>1 DEF PurgeSticker, Carried
<1>5. CASE UNCHANGED vars BY <1>5 DEF vars, Vacant, Carried
<1> QED BY <1>1, <1>2, <1>3, <1>4, <1>5 DEF Next

InRow(f) == \E x \in Ids : stickers[x].file = f
With(g, f) == handler[g].file = f \/ f \in handler[g].old
Referenced == \A f \in stored : InRow(f) \/ \E g \in Handlers : With(g, f)

(* What a handler knows of the row it works on, when no other one does. *)
Holds(g) ==
  LET s == handler[g].sticker
  IN  /\ handler[g].pc \in {"save", "writeFile"} /\ s \in Ids => OwnFile(s) \subseteq handler[g].old
      /\ handler[g].pc = "markDeleted" => handler[g].old \subseteq OwnFile(s)
      /\ handler[g].pc = "deleteFile" /\ handler[g].file # External => s \in Ids /\ stickers[s].file = handler[g].file

RefInv == ~disturbed => Referenced /\ \A g \in Handlers : Holds(g)

LEMMA HoldsContinue ==
  ASSUME TypeOK, NEW h \in Handlers, Carried(h), Holds(h), Continue(h)
  PROVE  Holds(h)'
<1> DEFINE Rests == handler'[h].pc \notin {"save", "writeFile", "markDeleted", "deleteFile"}
<1>1. ASSUME Rests PROVE Holds(h)' BY <1>1 DEF Holds
<1>2. handler'[h] = Idle => Rests BY DEF Idle
<1>3. \A await : GoTo(h, await) => Went(h, await) /\ handler'[h].old = handler[h].old BY After
<1>4. CASE CreatePack(h) \/ EditPackWrite(h) \/ CreateWrite(h) \/ EditWrite(h) \/ DeleteFile(h) \/ ReorderCommit(h) \/ Fail(h)
  BY <1>1, <1>2, <1>4, After DEF CreatePack, EditPackWrite, CreateWrite, EditWrite, DeleteFile, Fail
<1>5. CASE EditPackCount(h)
  <2>1. GoTo(h, "writePack") \/ Return(h) BY <1>5 DEF EditPackCount
  <2> QED BY <1>1, <1>2, <1>3, <2>1, After DEF Went
<1>6. CASE EditCountOthers(h)
  <2>1. GoTo(h, "writeName") \/ Return(h) BY <1>6 DEF EditCountOthers
  <2> QED BY <1>1, <1>2, <1>3, <2>1, After DEF Went
<1>7. CASE CreateCountNames(h)
  <2>1. GoTo(h, "save") \/ GoTo(h, "countOrder") \/ Return(h) BY <1>7 DEF CreateCountNames
  <2>2. handler[h].sticker = 0 BY <1>7 DEF CreateCountNames, Carried
  <2>3. CASE GoTo(h, "save")
    <3>1. handler'[h].pc = "save" /\ handler'[h].sticker \notin Ids BY <1>3, <2>2, <2>3 DEF Went, Ids
    <3> QED BY <3>1 DEF Holds
  <2>4. CASE GoTo(h, "countOrder") \/ Return(h) BY <1>1, <1>2, <1>3, <2>4, After DEF Went
  <2> QED BY <2>1, <2>3, <2>4
<1>8. CASE DeletePackList(h) \/ CreateCountOrder(h) \/ ReorderSelect(h) BY <1>1, <1>8, After DEF Went
<1>9. CASE DeletePackMark(h)
  <2>1. Went(h, "deleteFile") /\ handler[h].pc = "markPack" BY <1>3, <1>9 DEF DeletePackMark
  <2> QED BY <2>1 DEF Went, Carried, Holds
<1>10. CASE Save(h)
  <2>1. /\ handler'[h].pc = (IF handler[h].sticker = 0 THEN "countOrder" ELSE "writeFile")
        /\ handler'[h].old = handler[h].old /\ handler'[h].sticker = handler[h].sticker /\ handler[h].pc = "save"
        /\ UNCHANGED stickers
    BY <1>10, After DEF Save, rows
  <2>2. CASE handler[h].sticker = 0 BY <1>1, <2>1, <2>2
  <2>3. CASE handler[h].sticker # 0
    <3>1. handler[h].sticker \in Ids => OwnFile(handler[h].sticker) \subseteq handler[h].old BY <2>1 DEF Holds
    <3> QED BY <2>1, <2>3, <3>1 DEF Holds, OwnFile
  <2> QED BY <2>2, <2>3
<1>11. CASE ReplaceWrite(h)
  <2>1. Went(h, "deleteFile") /\ handler[h].pc = "writeFile" BY <1>3, <1>11 DEF ReplaceWrite
  <2>2. handler[h].sticker \in Ids BY <2>1 DEF Carried
  <2>3. stickers' = [stickers EXCEPT ![handler[h].sticker].file = handler[h].file] BY <1>11 DEF ReplaceWrite
  <2>4. stickers'[handler[h].sticker].file = handler[h].file BY <2>2, <2>3, FieldTypes DEF TypeOK, Rows
  <2> QED BY <2>1, <2>2, <2>4 DEF Went, Holds
<1>12. CASE DeleteMark(h)
  <2>1. Went(h, "deleteFile") /\ handler[h].pc = "markDeleted" BY <1>12, After DEF DeleteMark
  <2> QED BY <2>1 DEF Went, Carried, Holds
<1> QED BY <1>4, <1>5, <1>6, <1>7, <1>8, <1>9, <1>10, <1>11, <1>12 DEF Continue

(* What a handler gives up is in a row, or no longer on storage. *)
LEMMA RefsContinue ==
  ASSUME TypeOK, Marked, Vacant, Referenced, NEW h \in Handlers, Carried(h), Holds(h), Continue(h), ~Fail(h),
         DeleteFile(h) => stored' = stored \ handler[h].old,
         \A g \in Handlers \ {h} : Same(g)
  PROVE  Referenced'
<1> DEFINE Rests == handler'[h].file = handler[h].file /\ handler'[h].old = handler[h].old
           Clean == handler[h].file = External /\ handler[h].old = {}
<1>0. \A f \in stored : f # External BY DEF TypeOK, Files, External
<1>1. ASSUME \A f \in stored' : f \in stored \/ With(h, f)',
             \A f \in stored' : InRow(f) => InRow(f)' \/ With(h, f)',
             \A f \in stored' : f # External /\ With(h, f) => InRow(f)' \/ With(h, f)'
      PROVE  Referenced'
  <2>1. \A f, g : g \in Handlers \ {h} /\ With(g, f) => With(g, f)' BY DEF Same, With
  <2> SUFFICES ASSUME NEW f \in stored' PROVE InRow(f)' \/ \E g \in Handlers : With(g, f)' BY DEF Referenced
  <2>2. CASE With(h, f)' BY <2>2
  <2>3. CASE f \in stored
    <3>1. InRow(f) \/ With(h, f) \/ \E g \in Handlers \ {h} : With(g, f) BY <2>3 DEF Referenced
    <3> QED BY <1>0, <1>1, <2>1, <2>3, <3>1
  <2> QED BY <1>1, <2>2, <2>3
<1>2. UNCHANGED stickers => \A f : InRow(f) => InRow(f)' BY DEF InRow
<1>3. (\A x \in Ids : stickers'[x].file = stickers[x].file) => \A f : InRow(f) => InRow(f)' BY DEF InRow
<1>4. Rests => \A f : With(h, f) => With(h, f)' BY DEF With
<1>5. Clean => \A f : With(h, f) => f = External BY DEF With
<1>6. \A await : GoTo(h, await) => Rests BY After DEF Went
<1>7. CASE CreatePack(h) \/ EditPackCount(h) \/ EditPackWrite(h) \/ EditCountOthers(h) \/ EditWrite(h) \/ CreateCountNames(h)
           \/ DeletePackList(h) \/ ReorderSelect(h) \/ ReorderCommit(h)
  <2>1. Clean
    BY <1>7 DEF CreatePack, EditPackCount, EditPackWrite, EditCountOthers, EditWrite, CreateCountNames, DeletePackList,
       ReorderSelect, ReorderCommit, Carried
  <2>2. UNCHANGED stored
    BY <1>7 DEF CreatePack, EditPackCount, EditPackWrite, EditCountOthers, EditWrite, CreateCountNames, DeletePackList,
       ReorderSelect, ReorderCommit, disk
  <2>3. ~CreateWrite(h) /\ ~ReplaceWrite(h)
    BY <1>7 DEF CreatePack, EditPackCount, EditPackWrite, EditCountOthers, EditWrite, CreateCountNames, DeletePackList,
       ReorderSelect, ReorderCommit, CreateWrite, ReplaceWrite
  <2>4. \A x \in Ids : stickers'[x].file = stickers[x].file BY <2>3, RowFiles
  <2> QED BY <1>1, <1>3, <1>5, <2>1, <2>2, <2>4
<1>8. CASE DeletePackMark(h) \/ CreateCountOrder(h)
  <2>1. Rests BY <1>6, <1>8, After DEF DeletePackMark, Went
  <2>4. UNCHANGED stored BY <1>8 DEF DeletePackMark, CreateCountOrder, disk
  <2>2. ~CreateWrite(h) /\ ~ReplaceWrite(h) BY <1>8 DEF DeletePackMark, CreateCountOrder, CreateWrite, ReplaceWrite
  <2>3. \A x \in Ids : stickers'[x].file = stickers[x].file BY <2>2, RowFiles
  <2> QED BY <1>1, <1>3, <1>4, <2>1, <2>3, <2>4
<1>9. CASE Save(h)
  <2>1. /\ stored' = stored \union {saves + 1} /\ handler'[h].file = saves + 1 /\ handler'[h].old = handler[h].old
        /\ handler[h].pc = "save" /\ UNCHANGED stickers
    BY <1>9, After DEF Save, rows
  <2>2. handler[h].file = External BY <2>1 DEF Carried
  <2>3. \A f : f # External /\ With(h, f) => With(h, f)' BY <2>1, <2>2 DEF With
  <2>4. \A f \in stored' : f \in stored \/ With(h, f)' BY <2>1 DEF With
  <2> QED BY <1>1, <1>2, <2>1, <2>3, <2>4
<1>10. CASE CreateWrite(h)
  <2>1. UNCHANGED stored /\ handler[h].old = {} BY <1>10 DEF CreateWrite, disk, Carried
  <2>2. PICK y \in Ids : stickers[y].status = "none" /\ stickers'[y].file = handler[h].file
                         /\ \A x \in Ids \ {y} : stickers'[x] = stickers[x]
    <3>1. PICK y \in Ids :
            /\ stickers[y].status = "none"
            /\ stickers' = [stickers EXCEPT ![y] = [status |-> "live", pack |-> handler[h].pack, name |-> handler[h].name,
                                                    order |-> handler[h].order, file |-> handler[h].file]]
      BY <1>10 DEF CreateWrite
    <3> QED BY <3>1 DEF TypeOK
  <2>3. \A f \in stored' : InRow(f) => InRow(f)' BY <1>0, <2>1, <2>2 DEF InRow, Vacant
  <2>4. \A f : With(h, f) => InRow(f)' BY <2>1, <2>2 DEF With, InRow
  <2> QED BY <1>1, <2>1, <2>3, <2>4
<1>11. CASE ReplaceWrite(h)
  <2>1. Rests /\ UNCHANGED stored /\ handler[h].pc = "writeFile" BY <1>6, <1>11 DEF ReplaceWrite, disk
  <2>2. stickers' = [stickers EXCEPT ![handler[h].sticker].file = handler[h].file] BY <1>11 DEF ReplaceWrite
  <2>3. \A x \in Ids \ {handler[h].sticker} : stickers'[x] = stickers[x] BY <2>2 DEF TypeOK
  <2>4. handler[h].sticker \in Ids => OwnFile(handler[h].sticker) \subseteq handler[h].old BY <2>1 DEF Holds
  <2>5. \A f : f # External /\ InRow(f) => InRow(f)' \/ With(h, f)' BY <2>1, <2>3, <2>4 DEF InRow, With, OwnFile
  <2> QED BY <1>0, <1>1, <1>4, <2>1, <2>5
<1>12. CASE DeleteMark(h)
  <2>1. /\ UNCHANGED stored /\ handler[h].pc = "markDeleted"
    BY <1>12 DEF DeleteMark, disk
  <2>2. handler[h].file = External /\ \A f \in handler[h].old : InRow(f)
    BY <2>1 DEF Carried, Holds, Marked, OwnFile, InRow
  <2>3. \A x \in Ids : stickers'[x].file = stickers[x].file
    <3>1. ~CreateWrite(h) /\ ~ReplaceWrite(h) BY <2>1 DEF CreateWrite, ReplaceWrite
    <3> QED BY <3>1, RowFiles
  <2>4. \A f : f # External /\ With(h, f) => InRow(f)' BY <1>3, <2>2, <2>3 DEF With
  <2> QED BY <1>1, <1>3, <2>1, <2>3, <2>4
<1>13. CASE DeleteFile(h)
  <2>1. stored' = stored \ handler[h].old /\ UNCHANGED stickers /\ handler[h].pc = "deleteFile" BY <1>13 DEF DeleteFile, rows
  <2>2. \A f \in stored' : f # External /\ With(h, f) => InRow(f)' BY <2>1 DEF With, Holds, InRow
  <2> QED BY <1>1, <1>2, <2>1, <2>2
<1> QED BY <1>7, <1>8, <1>9, <1>10, <1>11, <1>12, <1>13 DEF Continue

(* The sweeps take the files of the rows that they purge along. *)
LEMMA RefsPurge ==
  ASSUME TypeOK, Marked, RefInv, ~disturbed, UNCHANGED handler, NEW X \in SUBSET Ids,
         \A g \in Handlers : Touches(g) \intersect X = {},
         stickers' = [x \in Ids |-> IF x \in X THEN NoRow ELSE stickers[x]],
         stored' = stored \ UNION {OwnFile(x) : x \in X}
  PROVE  Referenced' /\ \A g \in Handlers : Holds(g)'
<1>1. /\ \A x \in Ids \ X : stickers'[x] = stickers[x]
      /\ \A x \in X : stickers'[x].file = External
  BY DEF NoRow
<1>2. \A f \in stored' : InRow(f) => InRow(f)'
  <2> SUFFICES ASSUME NEW f \in stored', NEW x \in Ids, stickers[x].file = f PROVE InRow(f)' BY DEF InRow
  <2>1. f # External BY DEF TypeOK, Files, External
  <2>2. x \notin X BY <2>1 DEF OwnFile
  <2> QED BY <1>1, <2>2 DEF InRow
<1>3. Referenced' BY <1>2 DEF RefInv, Referenced, With
<1>4. ASSUME NEW g \in Handlers PROVE Holds(g)'
  <2>1. Holds(g) /\ handler[g].sticker \notin X /\ UNCHANGED handler BY DEF RefInv, Touches
  <2>2. handler[g].sticker \in Ids => stickers'[handler[g].sticker] = stickers[handler[g].sticker] BY <1>1, <2>1
  <2>3. handler[g].pc = "markDeleted" => handler[g].sticker \in Ids BY DEF Marked
  <2> QED BY <2>1, <2>2, <2>3 DEF Holds, OwnFile
<1> QED BY <1>3, <1>4

LEMMA RefsStep ==
  ASSUME TypeOK, Marked, Alone, CarryInv, RefInv, [Next]_vars
  PROVE  RefInv'
<1> DEFINE Goal == Referenced' /\ \A g \in Handlers : Holds(g)'
<1> SUFFICES ASSUME ~disturbed' PROVE Goal BY DEF RefInv
<1>1. ASSUME NEW g \in Handlers, handler'[g].pc = "idle" PROVE Holds(g)' BY <1>1 DEF Holds
<1>2. ASSUME NEW h \in Handlers, Begin(h) PROVE Goal
  <2>1. ~disturbed BY <1>2, Disturbs DEF Next
  <2>2. BeganAs(h) /\ handler[h].pc = "idle" /\ UNCHANGED <<stickers, stored>> BY <1>2, Began
  <2>3. \A g \in Handlers \ {h} : handler'[g].pc = "idle" /\ Same(g) BY <1>2, OthersIdle
  <2>4. Holds(h)' BY <2>2 DEF BeganAs, Holds, OwnFile, InRow
  <2>5. handler[h].file = External /\ handler[h].old = {} BY <2>2 DEF CarryInv, Carried
  <2>6. \A f \in stored : f # External BY DEF TypeOK, Files, External
  <2>7. \A f \in stored : \A g \in Handlers : With(g, f) => With(g, f)' BY <2>3, <2>5, <2>6 DEF With, Same
  <2>8. Referenced' BY <2>1, <2>2, <2>7 DEF RefInv, Referenced, InRow
  <2> QED BY <1>1, <2>3, <2>4, <2>8
<1>3. ASSUME NEW h \in Handlers, Continue(h) PROVE Goal
  <2>1. ~disturbed /\ ~Fail(h) /\ (DeleteFile(h) => stored' = stored \ handler[h].old) BY <1>3, Disturbs DEF Next
  <2>2. \A g \in Handlers \ {h} : handler'[g].pc = "idle" /\ Same(g) BY <1>3, OthersIdle
  <2>3. Carried(h) /\ Holds(h) /\ Vacant /\ Referenced BY <2>1 DEF CarryInv, RefInv
  <2>4. Holds(h)' BY <1>3, <2>3, HoldsContinue
  <2>5. Referenced' BY <1>3, <2>1, <2>2, <2>3, RefsContinue
  <2> QED BY <1>1, <2>2, <2>4, <2>5
<1>4. ASSUME NEW p \in Packs, PurgePack(p) PROVE Goal
  <2>1. ~disturbed /\ stored' = stored \ UNION {OwnFile(x) : x \in RowsOf(p)} BY <1>4, Disturbs DEF Next
  <2>2. /\ UNCHANGED handler /\ RowsOf(p) \in SUBSET Ids /\ \A g \in Handlers : Touches(g) \intersect RowsOf(p) = {}
        /\ stickers' = [x \in Ids |-> IF x \in RowsOf(p) THEN NoRow ELSE stickers[x]]
    BY <1>4, Subsets DEF PurgePack, Untouched
  <2> QED BY <2>1, <2>2, RefsPurge
<1>5. ASSUME NEW s \in Ids, PurgeSticker(s) PROVE Goal
  <2>1. ~disturbed /\ stored' = stored \ OwnFile(s) BY <1>5, Disturbs DEF Next
  <2>2. UNION {OwnFile(x) : x \in {s}} = OwnFile(s) OBVIOUS
  <2>3. /\ UNCHANGED handler /\ \A g \in Handlers : Touches(g) \intersect {s} = {}
        /\ stickers' = [x \in Ids |-> IF x \in {s} THEN NoRow ELSE stickers[x]]
    BY <1>5 DEF PurgeSticker, TypeOK
  <2> QED BY <2>1, <2>2, <2>3, RefsPurge
<1>6. CASE UNCHANGED vars
  <2>1. ~disturbed BY <1>6 DEF vars
  <2> QED BY <1>6, <2>1 DEF vars, RefInv, Referenced, InRow, With, Holds, OwnFile
<1> QED BY <1>2, <1>3, <1>4, <1>5, <1>6 DEF Next

LEMMA RefsInit == Init => CarryInv /\ RefInv
<1> SUFFICES ASSUME Init PROVE CarryInv /\ RefInv
  OBVIOUS
<1>1. \A g \in Handlers : handler[g] = Idle BY DEF Init
<1>2. \A x \in Ids : stickers[x].file = External BY DEF Init, NoRow
<1>3. stored = {} BY DEF Init
<1> QED BY <1>1, <1>2, <1>3 DEF CarryInv, Vacant, Carried, RefInv, Referenced, Holds, Idle

(* FilesReferenced: as long as no two handlers overlapped and none failed,
   every file on storage belongs to a row or to the handler at work. *)
THEOREM NoFileForgotten == Spec => []FilesReferenced
<1>1. TypeInv => TypeOK /\ Marked BY DEF TypeInv
<1>2. OrderInv /\ TypeInv /\ [Next]_vars => OrderInv' BY OrderStep
<1>3. TypeInv /\ OrderInv /\ Alone /\ CarryInv /\ RefInv /\ [Next]_vars => Alone' /\ CarryInv' /\ RefInv'
  BY <1>1, AloneStep, CarryStep, RefsStep
<1>4. RefInv => FilesReferenced BY DEF RefInv, Referenced, InRow, With, FilesReferenced
<1> QED BY <1>2, <1>3, <1>4, TypeInit, TypeStep, OrdersInit, NamesInit, RefsInit, PTL DEF Spec

-----------------------------------------------------------------------------
(* Reorders: what the SELECT listed is still in the order of the rows, unless
   another reorder of the pack has committed since. *)

Sorted ==
  \A g \in Handlers : handler[g].pc = "lock" /\ handler[g].stale = FALSE =>
    \A x, y \in Seen(g) : stickers[x].order < stickers[y].order => handler[g].rank[x] < handler[g].rank[y]

LEMMA SortedStep ==
  ASSUME TypeInv, OrderInv, Sorted, [Next]_vars
  PROVE  Sorted'
<1> USE DEF TypeInv
<1>1. ASSUME NEW g \in Handlers, handler'[g] = handler[g], \A x \in Seen(g) : stickers'[x].order = stickers[x].order
      PROVE  (handler[g].pc = "lock" /\ handler[g].stale = FALSE =>
                \A x, y \in Seen(g) : stickers[x].order < stickers[y].order => handler[g].rank[x] < handler[g].rank[y])'
  BY <1>1 DEF Sorted, Seen
<1>2. \A g \in Handlers : \A x \in Seen(g) : x \in Ids /\ x \in Touches(g) /\ stickers[x].status # "none"
  BY Subsets DEF OrderInv, Places, Held
<1>3. ASSUME NEW h \in Handlers, Begin(h) PROVE Sorted'
  <2>1. UNCHANGED stickers /\ BeganAs(h) BY <1>3, Began
  <2>2. handler'[h].pc # "lock" BY <2>1 DEF BeganAs
  <2>3. ~ReorderCommit(h) BY <1>3, Began DEF ReorderCommit
  <2> QED BY <1>1, <1>3, <2>1, <2>2, <2>3, OthersKept DEF Sorted
<1>4. ASSUME NEW h \in Handlers, Continue(h), ~ReorderCommit(h), ~ReorderSelect(h) PROVE Sorted'
  <2>1. handler'[h].pc # "lock"
    <3>1. handler'[h] = Idle => handler'[h].pc # "lock" BY DEF Idle
    <3>2. CASE CreatePack(h) \/ EditPackWrite(h) \/ CreateWrite(h) \/ EditWrite(h) \/ DeleteFile(h) \/ Fail(h)
      BY <3>1, <3>2, After DEF CreatePack, EditPackWrite, CreateWrite, EditWrite, DeleteFile, Fail
    <3>3. CASE EditPackCount(h) \/ CreateCountNames(h) \/ EditCountOthers(h) \/ DeletePackMark(h) \/ ReplaceWrite(h)
      BY <3>1, <3>3, After DEF EditPackCount, CreateCountNames, EditCountOthers, DeletePackMark, ReplaceWrite, Went
    <3>4. CASE Save(h) \/ CreateCountOrder(h) \/ DeletePackList(h) \/ DeleteMark(h) BY <3>4, After DEF Went
    <3> QED BY <1>4, <3>2, <3>3, <3>4 DEF Continue
  <2>2. \A x \in Ids : stickers[x].status # "none" => stickers'[x].order = stickers[x].order
    <3> USE FieldTypes DEF TypeOK, Rows
    <3>1. CASE UNCHANGED stickers BY <3>1
    <3>2. CASE DeletePackMark(h)
      <4>1. \A x \in Ids : stickers'[x] = stickers[x] \/ stickers'[x] = [stickers[x] EXCEPT !.status = "deleted"]
        <5> HIDE DEF TypeOK, Rows
        <5> QED BY <3>2 DEF DeletePackMark
      <4> QED BY <4>1
    <3>3. CASE CreateWrite(h)
      <4>1. PICK y \in Ids :
              /\ stickers[y].status = "none"
              /\ stickers' = [stickers EXCEPT ![y] = [status |-> "live", pack |-> handler[h].pack, name |-> handler[h].name,
                                                      order |-> handler[h].order, file |-> handler[h].file]]
        BY <3>3 DEF CreateWrite
      <4> QED BY <4>1
    <3>4. CASE EditWrite(h) BY <3>4 DEF EditWrite
    <3>5. CASE ReplaceWrite(h) BY <3>5 DEF ReplaceWrite
    <3>6. CASE DeleteMark(h)
      <4>1. stickers' = [stickers EXCEPT ![handler[h].sticker].status = "deleted"] BY <3>6 DEF DeleteMark
      <4> QED BY <4>1
    <3> QED
      BY <1>4, <3>1, <3>2, <3>3, <3>4, <3>5, <3>6 DEF Continue, CreatePack, EditPackCount, EditPackWrite, DeletePackList,
         CreateCountNames, Save, CreateCountOrder, EditCountOthers, DeleteFile, Fail, rows
  <2> QED BY <1>1, <1>2, <1>4, <2>1, <2>2, OthersKept DEF Sorted
<1>5. ASSUME NEW h \in Handlers, ReorderSelect(h) PROVE Sorted'
  <2>1. PICK rank \in Ranks(handler[h].pack) : handler' = [handler EXCEPT ![h].rank = rank, ![h].pc = "lock"]
    BY <1>5 DEF ReorderSelect
  <2>2. UNCHANGED stickers /\ ~ReorderCommit(h) BY <1>5 DEF ReorderSelect, ReorderCommit, rows
  <2>3. handler'[h].rank = rank BY <2>1, FieldTypes DEF TypeOK, HandlerStates
  <2>4. /\ \A x \in Ids : x \notin LiveIn(handler[h].pack) => rank[x] = 0
        /\ \A x, y \in LiveIn(handler[h].pack) : stickers[x].order < stickers[y].order => rank[x] < rank[y]
    BY <2>1 DEF Ranks
  <2>5. \A x, y \in Seen(h)' : stickers'[x].order < stickers'[y].order => handler'[h].rank[x] < handler'[h].rank[y]
    BY <2>2, <2>3, <2>4 DEF Seen
  <2> QED BY <1>1, <1>5, <2>2, <2>5, OthersKept DEF Sorted, Continue
<1>6. ASSUME NEW h \in Handlers, ReorderCommit(h) PROVE Sorted'
  <2>1. handler'[h].pc = "idle" BY <1>6, After DEF Idle
  <2>2. CASE {handler[h].sticker, handler[h].target} \subseteq Listed(h)
    <3> SUFFICES ASSUME NEW g \in Handlers, handler'[g].pc = "lock", handler'[g].stale = FALSE
                 PROVE  (\A x, y \in Seen(g) : stickers[x].order < stickers[y].order => handler[g].rank[x] < handler[g].rank[y])'
      BY DEF Sorted
    <3>1. g # h BY <2>1
    <3>2. handler'[g] = IF handler[g].pc = "lock" /\ handler[g].pack = handler[h].pack
                          THEN [handler[g] EXCEPT !.stale = TRUE] ELSE handler[g]
      BY <1>6, <2>2, <3>1 DEF ReorderCommit
    <3>3. handler'[g] = handler[g] /\ handler[g].pack # handler[h].pack
      BY <3>2, FieldTypes DEF HandlerStates
    <3>4. \A x \in Seen(g) : x \notin Listed(h)
      BY <1>6, <3>3 DEF OrderInv, Places, Ranked, ReorderCommit, Listed, Seen
    <3>5. \A x \in Ids \ Listed(h) : stickers'[x] = stickers[x] BY <1>6, <2>2 DEF ReorderCommit
    <3> QED BY <1>1, <1>2, <3>3, <3>4, <3>5
  <2>3. CASE ~({handler[h].sticker, handler[h].target} \subseteq Listed(h))
    <3>1. UNCHANGED stickers /\ Return(h) BY <1>6, <2>3 DEF ReorderCommit
    <3>2. \A g \in Handlers \ {h} : handler'[g] = handler[g] BY <3>1 DEF Return, TypeOK
    <3> QED BY <1>1, <2>1, <3>1, <3>2 DEF Sorted
  <2> QED BY <2>2, <2>3
<1>7. ASSUME NEW X \in SUBSET Ids, UNCHANGED handler, \A g \in Handlers : Touches(g) \intersect X = {},
             \A x \in Ids \ X : stickers'[x] = stickers[x]
      PROVE  Sorted'
  BY <1>1, <1>2, <1>7 DEF Sorted
<1>8. ASSUME NEW p \in Packs, PurgePack(p) PROVE Sorted'
  <2>1. /\ UNCHANGED handler /\ RowsOf(p) \in SUBSET Ids /\ \A g \in Handlers : Touches(g) \intersect RowsOf(p) = {}
        /\ \A x \in Ids \ RowsOf(p) : stickers'[x] = stickers[x]
    BY <1>8, Subsets DEF PurgePack, Untouched
  <2> QED BY <1>7, <2>1
<1>9. ASSUME NEW s \in Ids, PurgeSticker(s) PROVE Sorted'
  <2>1. /\ UNCHANGED handler /\ {s} \in SUBSET Ids /\ \A g \in Handlers : Touches(g) \intersect {s} = {}
        /\ \A x \in Ids \ {s} : stickers'[x] = stickers[x]
    BY <1>9 DEF PurgeSticker, TypeOK
  <2> QED BY <1>7, <2>1
<1>10. CASE UNCHANGED vars BY <1>10 DEF vars, Sorted, Seen
<1> QED BY <1>3, <1>4, <1>5, <1>6, <1>8, <1>9, <1>10 DEF Next, Continue

LEMMA MovesOne ==
  ASSUME TypeInv, OrderInv, Sorted, [Next]_vars, NEW h \in Handlers, handler[h].pc = "lock", handler'[h].pc = "idle",
         ~handler[h].stale, stickers' # stickers
  PROVE  LET s == handler[h].sticker
             t == handler[h].target
             seen == {x \in Ids : handler[h].rank[x] > 0 /\ stickers'[x].status = "live"}
         IN  /\ \A x, y \in seen \ {s} :
                  stickers[x].order < stickers[y].order => stickers'[x].order < stickers'[y].order
             /\ stickers'[s].order < stickers'[t].order <=> handler[h].before
             /\ \A x \in seen \ {s, t} :
                  stickers'[x].order < stickers'[t].order <=> stickers'[x].order < stickers'[s].order
<1> USE DEF TypeInv
<1> DEFINE s == handler[h].sticker
           t == handler[h].target
           r == handler[h].rank
           L == Listed(h)
<1>1. ReorderCommit(h)
  <2>1. ASSUME NEW g \in Handlers, g # h, Begin(g) \/ Continue(g) PROVE FALSE BY <2>1, OthersSame DEF Same
  <2>2. ~UNCHANGED handler OBVIOUS
  <2>3. Begin(h) \/ Continue(h) BY <2>1, <2>2 DEF Next, PurgePack, PurgeSticker, vars
  <2>4. Continue(h) BY <2>3, Began
  <2> QED
    BY <2>4 DEF Continue, CreatePack, EditPackCount, EditPackWrite, DeletePackList, DeletePackMark, CreateCountNames, Save,
       CreateCountOrder, CreateWrite, EditCountOthers, EditWrite, ReplaceWrite, DeleteMark, DeleteFile, ReorderSelect, Fail, rows
<1>2. {s, t} \subseteq L BY <1>1 DEF ReorderCommit
<1>3. \A x \in L : x \in Ids /\ stickers'[x] = [stickers[x] EXCEPT !.order = Place(h, x)]
  BY <1>1, <1>2 DEF ReorderCommit, Listed
<1>4. \A x \in L : stickers'[x].order = Place(h, x) /\ stickers'[x].status = stickers[x].status
  BY <1>3, FieldTypes DEF Rows
<1>5. {x \in Ids : r[x] > 0 /\ stickers'[x].status = "live"} = L
  BY <1>1, <1>2, <1>4 DEF ReorderCommit, Listed
<1>6. /\ \A x \in L : Place(h, x) \in Nat
      /\ \A x, y \in L : Key(h, x) < Key(h, y) => Place(h, x) < Place(h, y)
  BY <1>2, PlacesDistinct DEF OrderInv, Places
<1>7. /\ \A x \in L : r[x] \in Nat
      /\ s # t /\ \A x, y \in L : r[x] = r[y] => x = y
  BY <1>3, OrderTypes, Subsets DEF OrderInv, Places, Ranked
<1>8. \A x, y \in L : stickers[x].order < stickers[y].order => r[x] < r[y]
  <2>1. handler[h].stale = FALSE BY FieldTypes DEF HandlerStates
  <2> QED BY <2>1, Subsets DEF Sorted
<1>9. /\ \A x \in L \ {s} : Key(h, x) = 2 * r[x]
      /\ Key(h, s) = IF handler[h].before THEN 2 * r[t] - 1 ELSE 2 * r[t] + 1
  BY DEF Key
<1> HIDE DEF L
<1>10. ASSUME NEW x \in L \ {s}, NEW y \in L \ {s}, stickers[x].order < stickers[y].order
       PROVE  stickers'[x].order < stickers'[y].order
  <2>1. Key(h, x) < Key(h, y) BY <1>7, <1>8, <1>9, <1>10
  <2> QED BY <1>4, <1>6, <1>10, <2>1
<1>11. Place(h, s) < Place(h, t) <=> handler[h].before
  <2>1. Key(h, t) = 2 * r[t] /\ r[t] \in Nat BY <1>2, <1>7, <1>9
  <2>2. CASE handler[h].before
    <3>1. Key(h, s) < Key(h, t) BY <1>9, <2>1, <2>2
    <3> QED BY <1>2, <1>6, <2>2, <3>1
  <2>3. CASE ~handler[h].before
    <3>1. Key(h, t) < Key(h, s) BY <1>9, <2>1, <2>3
    <3>2. Place(h, t) < Place(h, s) BY <1>2, <1>6, <3>1
    <3>3. ~(Place(h, s) < Place(h, t)) BY <1>2, <1>6, <3>2
    <3> QED BY <2>3, <3>3
  <2> QED BY <2>2, <2>3
<1>12. ASSUME NEW x \in L \ {s, t} PROVE Place(h, x) < Place(h, t) <=> Place(h, x) < Place(h, s)
  <2>1. Key(h, t) = 2 * r[t] /\ Key(h, x) = 2 * r[x] /\ r[t] \in Nat /\ r[x] \in Nat /\ r[x] # r[t]
    BY <1>2, <1>7, <1>9, <1>12
  <2>2. Key(h, s) = 2 * r[t] - 1 \/ Key(h, s) = 2 * r[t] + 1 BY <1>9
  <2>3. Place(h, x) \in Nat /\ Place(h, s) \in Nat /\ Place(h, t) \in Nat BY <1>2, <1>6, <1>12
  <2>4. CASE r[x] < r[t]
    <3>1. Key(h, x) < Key(h, t) /\ Key(h, x) < Key(h, s) BY <2>1, <2>2, <2>4
    <3> QED BY <1>2, <1>6, <1>12, <3>1
  <2>5. CASE r[t] < r[x]
    <3>1. Key(h, t) < Key(h, x) /\ Key(h, s) < Key(h, x) BY <2>1, <2>2, <2>5
    <3>2. Place(h, t) < Place(h, x) /\ Place(h, s) < Place(h, x) BY <1>2, <1>6, <1>12, <3>1
    <3> QED BY <2>3, <3>2
  <2> QED BY <2>1, <2>4, <2>5
<1>13. stickers'[s].order = Place(h, s) /\ stickers'[t].order = Place(h, t) BY <1>2, <1>4
<1> QED BY <1>4, <1>5, <1>10, <1>11, <1>12, <1>13

(* ReorderMovesOne: a reorder moves one sticker, to just before or after its
   target, and leaves the others in their order. *)
THEOREM OneMoves == Spec => ReorderMovesOne
<1>1. Init => Sorted
  <2>1. Init => \A g \in Handlers : handler[g] = Idle BY DEF Init
  <2> QED BY <2>1 DEF Sorted, Idle
<1>2. TypeInv /\ OrderInv /\ [Next]_vars => OrderInv' BY OrderStep
<1>3. TypeInv /\ OrderInv /\ Sorted /\ [Next]_vars => Sorted' BY SortedStep
<1>4. TypeInv /\ OrderInv /\ Sorted /\ [Next]_vars =>
        [\A h \in Handlers :
           LET s == handler[h].sticker
               t == handler[h].target
               seen == {x \in Ids : handler[h].rank[x] > 0 /\ stickers'[x].status = "live"}
           IN  handler[h].pc = "lock" /\ handler'[h].pc = "idle" /\ ~handler[h].stale /\ stickers' # stickers =>
                 /\ \A x, y \in seen \ {s} :
                      stickers[x].order < stickers[y].order => stickers'[x].order < stickers'[y].order
                 /\ stickers'[s].order < stickers'[t].order <=> handler[h].before
                 /\ \A x \in seen \ {s, t} :
                      stickers'[x].order < stickers'[t].order <=> stickers'[x].order < stickers'[s].order]_vars
  BY MovesOne
<1> QED BY <1>1, <1>2, <1>3, <1>4, TypeInit, TypeStep, OrdersInit, PTL DEF Spec, ReorderMovesOne
=============================================================================
