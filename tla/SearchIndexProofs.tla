--------------------------- MODULE SearchIndexProofs ---------------------------
(* Proofs about SearchIndex: its type invariant, that the index is current at
   rest unless something drifted, and that both searches then find the same. *)
EXTENDS SearchIndex, FiniteSetTheorems, TLAPS

LEMMA StickerFacts == Stickers \subseteq Nat /\ 0 \notin Stickers /\ IsFiniteSet(Stickers)
<1>1. IsFiniteSet(1 .. Total) BY FS_Interval, SearchAssumption
<1> QED BY <1>1, SearchAssumption DEF Stickers

LEMMA DocumentTypes ==
  ASSUME TypeOK, NEW s \in Stickers
  PROVE  /\ Proper(s) \in Docs
         /\ Document(s) \in Docs
         /\ Document(s) # Absent /\ Document(s) # Skip /\ Proper(s) # Skip
<1>1. face[s] \in Faces BY DEF TypeOK
<1>2. face[s] # "none" /\ face[s] # "skip" BY <1>1, SearchAssumption
<1>3. (packs[PackOf[s]] = "public") \in BOOLEAN OBVIOUS
<1>4. Document(s) \in Docs BY <1>1, <1>3 DEF Document, Docs
<1>5. Document(s).face = face[s] /\ Absent.face = "none" /\ Skip.face = "skip" BY DEF Document, Absent, Skip
<1>6. Absent # Skip /\ Absent \in Docs BY DEF Absent, Skip, Docs
<1> QED BY <1>2, <1>4, <1>5, <1>6 DEF Proper

LEMMA BulkTypes ==
  ASSUME TypeOK
  PROVE  /\ NoBulk \in Bulks
         /\ \A p \in Packs : PackBulk(p) \in Bulks
         /\ \A batch \in SUBSET Stickers : [s \in Stickers |-> IF s \in batch THEN Document(s) ELSE Skip] \in Bulks
         /\ \A bulk \in Bulks : Send(bulk) \in [Stickers -> Docs]
         /\ \A bulk \in Bulks, chosen \in SUBSET Stickers :
              [s \in Stickers |-> IF s \in chosen THEN bulk[s] ELSE Skip] \in Bulks
<1>1. NoBulk \in Bulks BY DEF NoBulk, Bulks
<1>2. \A p \in Packs : PackBulk(p) \in Bulks BY DocumentTypes DEF PackBulk, Bulks
<1>3. \A batch \in SUBSET Stickers : [s \in Stickers |-> IF s \in batch THEN Document(s) ELSE Skip] \in Bulks
  BY DocumentTypes DEF Bulks
<1>4. ASSUME NEW bulk \in Bulks PROVE Send(bulk) \in [Stickers -> Docs]
  <2>1. \A s \in Stickers : bulk[s] \in Docs \union {Skip} /\ index[s] \in Docs BY DEF Bulks, TypeOK
  <2> QED BY <2>1 DEF Send
<1>5. ASSUME NEW bulk \in Bulks, NEW chosen \in SUBSET Stickers
      PROVE  [s \in Stickers |-> IF s \in chosen THEN bulk[s] ELSE Skip] \in Bulks
  BY DEF Bulks
<1> QED BY <1>1, <1>2, <1>3, <1>4, <1>5

-----------------------------------------------------------------------------
(* The type invariant. *)

WriterStates == [pc : {"idle", "read", "send"}, todo : SUBSET Packs, bulk : Bulks]
ReconcileStates ==
  [pc : {"idle", "read", "send", "scan", "delete"}, cursor : 0 .. Total,
   live : SUBSET Stickers, stale : SUBSET Stickers, bulk : Bulks]
SearchStates ==
  [pc : {"idle", "verify", "shown"}, query : SUBSET Faces, found : SUBSET Stickers, fresh : BOOLEAN]

Others == /\ drifted \in BOOLEAN /\ alone \in BOOLEAN
          /\ writes \in 0 .. MaxWrites /\ faults \in 0 .. MaxFaults

LEMMA WrittenType ==
  ASSUME TypeOK, NEW w \in Writers, NEW touched \in SUBSET Packs, Written(w, touched)
  PROVE  /\ writer' \in [Writers -> WriterStates] /\ search' \in SearchStates
         /\ UNCHANGED <<index, reconcile>> /\ Others'
<1>1. writer' \in [Writers -> WriterStates]
  BY BulkTypes DEF Written, WriterIdle, TypeOK, WriterStates
<1>2. search' \in SearchStates BY DEF Written, TypeOK, SearchStates
<1>3. writes' \in 0 .. MaxWrites /\ faults' \in 0 .. MaxFaults BY SearchAssumption DEF Written, TypeOK
<1>4. (~WritersIdle) \in BOOLEAN /\ (reconcile.pc # "idle") \in BOOLEAN BY DEF WritersIdle
<1>5. drifted' \in BOOLEAN BY <1>4, Zenon DEF Written, TypeOK
<1>6. alone' \in BOOLEAN BY DEF Written
<1> QED BY <1>1, <1>2, <1>3, <1>5, <1>6 DEF Written, Others

LEMMA WriteType ==
  ASSUME TypeOK, NEW w \in Writers, Write(w) PROVE TypeOK'
<1>1. ASSUME NEW touched \in SUBSET Packs, Written(w, touched),
             packs' \in [Packs -> {"private", "public", "deleted"}],
             stickers' \in [Stickers -> {"none", "live", "deleted"}],
             face' \in [Stickers -> Faces]
      PROVE  TypeOK'
  BY <1>1, WrittenType DEF TypeOK, Others, WriterStates, SearchStates
<1>2. \A s \in Stickers : PackOf[s] \in Packs BY SearchAssumption
<1>3. ASSUME NEW s \in Stickers, CreateSticker(w, s) PROVE TypeOK'
  <2>1. stickers' \in [Stickers -> {"none", "live", "deleted"}] /\ face' \in [Stickers -> Faces]
    BY <1>3 DEF CreateSticker, TypeOK
  <2> QED BY <1>1, <1>2, <1>3, <2>1 DEF CreateSticker, TypeOK
<1>4. ASSUME NEW s \in Stickers, UpdateSticker(w, s) PROVE TypeOK'
  <2>1. stickers' \in [Stickers -> {"none", "live", "deleted"}] /\ face' \in [Stickers -> Faces]
    BY <1>4 DEF UpdateSticker, TypeOK
  <2> QED BY <1>1, <1>2, <1>4, <2>1 DEF UpdateSticker, TypeOK
<1>5. ASSUME NEW p \in Packs, UpdatePack(w, p) PROVE TypeOK'
  <2>1. packs' \in [Packs -> {"private", "public", "deleted"}] BY <1>5 DEF UpdatePack, TypeOK
  <2> QED BY <1>1, <1>5, <2>1 DEF UpdatePack, TypeOK
<1>6. ASSUME NEW p \in Packs, DeletePack(w, p) PROVE TypeOK'
  <2>1. packs' \in [Packs -> {"private", "public", "deleted"}] /\ stickers' \in [Stickers -> {"none", "live", "deleted"}]
    BY <1>6 DEF DeletePack, TypeOK
  <2> QED BY <1>1, <1>6, <2>1 DEF DeletePack, TypeOK
<1>7. CASE ImportStickers(w)
  <2>1. PICK changed \in SUBSET Stickers :
          /\ stickers' = [s \in Stickers |->
                            IF s \in changed THEN (IF stickers[s] = "live" THEN "deleted" ELSE "live")
                            ELSE stickers[s]]
          /\ Written(w, {PackOf[s] : s \in changed})
          /\ UNCHANGED <<packs, face>>
    BY <1>7 DEF ImportStickers
  <2>2. stickers' \in [Stickers -> {"none", "live", "deleted"}] BY <2>1 DEF TypeOK
  <2>3. {PackOf[s] : s \in changed} \in SUBSET Packs BY <1>2
  <2> QED BY <1>1, <2>1, <2>2, <2>3 DEF TypeOK
<1> QED BY <1>3, <1>4, <1>5, <1>6, <1>7 DEF Write

LEMMA SyncedType ==
  ASSUME TypeOK, NEW w \in Writers, NEW rest \in SUBSET Packs
  PROVE  Synced(w, rest) \in [Writers -> WriterStates]
<1>1. WriterIdle \in WriterStates /\ [WriterIdle EXCEPT !.pc = "read", !.todo = rest] \in WriterStates
  BY BulkTypes DEF WriterIdle, WriterStates
<1> QED BY <1>1 DEF Synced, TypeOK, WriterStates

LEMMA SyncType ==
  ASSUME TypeOK, NEW w \in Writers, Sync(w) \/ SyncFails(w) PROVE TypeOK'
<1>0. writer[w] \in WriterStates BY DEF TypeOK, WriterStates
<1>1. CASE SyncRead(w)
  <2>1. PICK p \in writer[w].todo :
          writer' = [writer EXCEPT ![w] = [pc |-> "send", todo |-> writer[w].todo \ {p}, bulk |-> PackBulk(p)]]
    BY <1>1 DEF SyncRead
  <2>2. p \in Packs BY <1>0 DEF WriterStates
  <2>3. [pc |-> "send", todo |-> writer[w].todo \ {p}, bulk |-> PackBulk(p)] \in WriterStates
    BY <1>0, <2>2, BulkTypes DEF WriterStates
  <2>4. writer' \in [Writers -> WriterStates] BY <2>1, <2>3 DEF TypeOK, WriterStates
  <2> QED BY <1>1, <2>4 DEF SyncRead, TypeOK, WriterStates, db, ghosts
<1>2. CASE SyncSend(w)
  <2>1. writer' \in [Writers -> WriterStates] BY <1>0, <1>2, SyncedType DEF SyncSend, WriterStates
  <2>2. index' \in [Stickers -> Docs] BY <1>0, <1>2, BulkTypes DEF SyncSend, WriterStates
  <2> QED BY <1>2, <2>1, <2>2 DEF SyncSend, TypeOK, WriterStates, db, ghosts
<1>3. CASE SyncFails(w)
  <2>1. faults' \in 0 .. MaxFaults BY <1>3, SearchAssumption DEF SyncFails, TypeOK
  <2>2. writer' \in [Writers -> WriterStates]
    <3>1. PICK rest : (rest = {} \/ rest = writer[w].todo \/ \E p \in writer[w].todo : rest = writer[w].todo \ {p})
                      /\ writer' = Synced(w, rest)
      BY <1>3 DEF SyncFails
    <3>2. rest \in SUBSET Packs BY <1>0, <3>1 DEF WriterStates
    <3> QED BY <3>1, <3>2, SyncedType
  <2>3. index' \in [Stickers -> Docs]
    <3>1. CASE UNCHANGED index BY <3>1 DEF TypeOK
    <3>2. CASE ~UNCHANGED index
      <4>1. PICK applied \in SUBSET Stickers :
              index' = Send([s \in Stickers |-> IF s \in applied THEN writer[w].bulk[s] ELSE Skip])
        BY <1>3, <3>2 DEF SyncFails
      <4> QED BY <1>0, <4>1, BulkTypes DEF WriterStates
    <3> QED BY <3>1, <3>2
  <2> QED BY <1>3, <2>1, <2>2, <2>3 DEF SyncFails, TypeOK, WriterStates, db
<1> QED BY <1>1, <1>2, <1>3 DEF Sync

LEMMA RemainingType == Remaining \subseteq Stickers /\ FirstOf(Remaining, BatchSize) \subseteq Stickers
BY DEF Remaining, FirstOf

LEMMA BypassType ==
  ASSUME TypeOK, NEW s \in Stickers, RelabelUnsynced(s) \/ PurgeSticker(s) PROVE TypeOK'
<1>1. CASE RelabelUnsynced(s)
  <2>1. face' \in [Stickers -> Faces] BY <1>1 DEF RelabelUnsynced, TypeOK
  <2>2. writes' \in 0 .. MaxWrites BY <1>1, SearchAssumption DEF RelabelUnsynced, TypeOK
  <2>3. search' \in SearchStates BY <1>1 DEF RelabelUnsynced, TypeOK, SearchStates
  <2> QED BY <1>1, <2>1, <2>2, <2>3 DEF RelabelUnsynced, TypeOK, SearchStates
<1>2. CASE PurgeSticker(s)
  BY <1>2 DEF PurgeSticker, TypeOK, ghosts
<1> QED BY <1>1, <1>2

LEMMA ReconcileType ==
  ASSUME TypeOK, ReconcileStart \/ Reconcile \/ ReconcileFails PROVE TypeOK'
<1>0. reconcile \in ReconcileStates /\ ReconcileIdle \in ReconcileStates
      /\ [ReconcileIdle EXCEPT !.pc = "read"] \in ReconcileStates
  BY BulkTypes, SearchAssumption DEF TypeOK, ReconcileStates, ReconcileIdle
<1>1. CASE ReconcileStart
  <2>1. WritersIdle \in BOOLEAN BY DEF WritersIdle
  <2>2. drifted' \in BOOLEAN /\ alone' \in BOOLEAN BY <1>1, <2>1, Zenon DEF ReconcileStart, TypeOK
  <2> QED BY <1>0, <1>1, <2>2 DEF ReconcileStart, TypeOK, ReconcileStates, db
<1>2. CASE ReconcileRead
  <2>1. reconcile' \in ReconcileStates
    <3>1. CASE Remaining = {}
      BY <1>0, <1>2, <3>1 DEF ReconcileRead, ReconcileGoTo, ReconcileStates
    <3>2. CASE Remaining # {}
      <4>1. PICK last \in FirstOf(Remaining, BatchSize) :
              reconcile' = [pc |-> "send", cursor |-> last,
                            live |-> reconcile.live \union FirstOf(Remaining, BatchSize), stale |-> {},
                            bulk |-> [s \in Stickers |-> IF s \in FirstOf(Remaining, BatchSize) THEN Document(s) ELSE Skip]]
        BY <1>2, <3>2 DEF ReconcileRead
      <4>2. [s \in Stickers |-> IF s \in FirstOf(Remaining, BatchSize) THEN Document(s) ELSE Skip] \in Bulks
        BY RemainingType, BulkTypes
      <4>3. last \in 0 .. Total BY RemainingType, SearchAssumption DEF Stickers
      <4> QED BY <1>0, <4>1, <4>2, <4>3, RemainingType DEF ReconcileStates
    <3> QED BY <3>1, <3>2
  <2> QED BY <1>2, <2>1 DEF ReconcileRead, TypeOK, ReconcileStates, db, ghosts
<1>3. CASE ReconcileSend
  <2>1. index' \in [Stickers -> Docs] BY <1>0, <1>3, BulkTypes DEF ReconcileSend, ReconcileStates
  <2>2. reconcile' \in ReconcileStates BY <1>0, <1>3, BulkTypes DEF ReconcileSend, ReconcileStates
  <2> QED BY <1>3, <2>1, <2>2 DEF ReconcileSend, TypeOK, ReconcileStates, db, ghosts
<1>4. CASE ReconcileScan
  <2>1. reconcile' \in ReconcileStates BY <1>0, <1>4 DEF ReconcileScan, ReconcileStates
  <2> QED BY <1>4, <2>1 DEF ReconcileScan, TypeOK, ReconcileStates, db, ghosts
<1>5. Absent \in Docs BY DEF Docs
<1>6. CASE ReconcileDelete
  <2>1. index' \in [Stickers -> Docs] BY <1>5, <1>6 DEF ReconcileDelete, TypeOK
  <2>2. drifted' \in BOOLEAN /\ alone' \in BOOLEAN BY <1>6, Zenon DEF ReconcileDelete, TypeOK
  <2> QED BY <1>0, <1>6, <2>1, <2>2 DEF ReconcileDelete, TypeOK, ReconcileStates, db
<1>7. CASE ReconcileFails
  <2>1. faults' \in 0 .. MaxFaults BY <1>7, SearchAssumption DEF ReconcileFails, TypeOK
  <2>2. index' \in [Stickers -> Docs]
    <3>1. PICK applied \in SUBSET Stickers :
            \/ index' = Send([s \in Stickers |-> IF s \in applied THEN reconcile.bulk[s] ELSE Skip])
            \/ index' = [s \in Stickers |-> IF s \in reconcile.stale \intersect applied THEN Absent ELSE index[s]]
            \/ index' = index
      BY <1>7 DEF ReconcileFails
    <3>2. CASE index' = Send([s \in Stickers |-> IF s \in applied THEN reconcile.bulk[s] ELSE Skip])
      BY <1>0, <3>2, BulkTypes DEF ReconcileStates
    <3>3. CASE index' = [s \in Stickers |-> IF s \in reconcile.stale \intersect applied THEN Absent ELSE index[s]]
      BY <1>5, <3>3 DEF TypeOK
    <3> QED BY <3>1, <3>2, <3>3 DEF TypeOK
  <2> QED BY <1>0, <1>7, <2>1, <2>2 DEF ReconcileFails, TypeOK, ReconcileStates, db
<1> QED BY <1>1, <1>2, <1>3, <1>4, <1>6, <1>7 DEF Reconcile

LEMMA SearchType ==
  ASSUME TypeOK, SearchStart \/ SearchVerify \/ SearchEnd PROVE TypeOK'
<1>1. search' \in SearchStates
  <2>1. IndexCurrent \in BOOLEAN BY DEF IndexCurrent
  <2>2. \A query : Candidates(query) \subseteq Stickers /\ PostgresSearch(query) \subseteq Stickers
    BY DEF Candidates, PostgresSearch, FirstOf
  <2>3. CASE SearchStart
    <3>1. PICK query \in Queries :
            \/ search' = [pc |-> "verify", query |-> query, found |-> Candidates(query), fresh |-> IndexCurrent]
            \/ search' = [pc |-> "shown", query |-> query, found |-> PostgresSearch(query), fresh |-> TRUE]
      BY <2>3 DEF SearchStart
    <3>2. query \in SUBSET Faces BY SearchAssumption
    <3>3. [pc |-> "verify", query |-> query, found |-> Candidates(query), fresh |-> IndexCurrent] \in SearchStates
      BY <2>1, <2>2, <3>2, Zenon DEF SearchStates
    <3>4. [pc |-> "shown", query |-> query, found |-> PostgresSearch(query), fresh |-> TRUE] \in SearchStates
      BY <2>2, <3>2 DEF SearchStates
    <3> QED BY <3>1, <3>3, <3>4
  <2>4. CASE SearchVerify BY <2>4 DEF SearchVerify, Verified, TypeOK, SearchStates
  <2>5. CASE SearchEnd BY <2>5 DEF SearchEnd, SearchIdle, SearchStates
  <2> QED BY <2>3, <2>4, <2>5
<1> QED BY <1>1 DEF SearchStart, SearchVerify, SearchEnd, TypeOK, SearchStates, db, ghosts

LEMMA InitType == Init => TypeOK
<1> SUFFICES ASSUME Init PROVE TypeOK OBVIOUS
<1>1. IndexCurrent \in BOOLEAN BY DEF IndexCurrent
<1>2. drifted \in BOOLEAN /\ alone \in BOOLEAN BY <1>1, Zenon DEF Init
<1>3. NoBulk \in Bulks /\ Absent \in Docs BY DEF NoBulk, Bulks, Docs
<1> QED BY <1>2, <1>3, SearchAssumption DEF Init, TypeOK, WriterIdle, ReconcileIdle, SearchIdle

LEMMA StepType == TypeOK /\ [Next]_vars => TypeOK'
<1> SUFFICES ASSUME TypeOK, [Next]_vars PROVE TypeOK' OBVIOUS
<1>1. CASE UNCHANGED vars BY <1>1 DEF vars, TypeOK
<1> QED BY <1>1, WriteType, SyncType, BypassType, ReconcileType, SearchType DEF Next

(* Every variable keeps its type, for any number of stickers and handlers. *)
THEOREM TypeCorrect == Spec => []TypeOK
BY InitType, StepType, PTL DEF Spec

-----------------------------------------------------------------------------
(* The index at rest. AtRestCurrent says nothing of a sync or a reconcile that
   is under way, so it is not inductive. SyncsCover accounts for every document
   that is not what it should be by the one sync that will still repair it, and
   ReconcileCovers for what an undisturbed reconcile has behind its cursor. *)

Pending(s) ==
  \E w \in Writers :
    /\ writer[w].pc # "idle"
    /\ PackOf[s] \in writer[w].todo \/ (writer[w].pc = "send" /\ writer[w].bulk[s] = Proper(s))

OneSync ==
  /\ \A v, w \in Writers : writer[v].pc # "idle" /\ writer[w].pc # "idle" => v = w
  /\ reconcile.pc # "idle" => alone

Accounted ==
  \A s \in Stickers :
    /\ index[s] = Proper(s) \/ Pending(s)
    /\ stickers[s] = "none" => index[s] = Absent
    /\ \A w \in Writers : writer[w].pc = "send" => writer[w].bulk[s] \in {Skip, Proper(s)}

SyncsCover == ~drifted => OneSync /\ Accounted

Behind ==
  /\ reconcile.pc \in {"read", "send"} =>
       /\ \A s \in Stickers : Live(s) /\ s <= reconcile.cursor => s \in reconcile.live
       /\ reconcile.cursor # 0 => Live(reconcile.cursor)
  /\ reconcile.pc \in {"scan", "delete"} => \A s \in Stickers : Live(s) => s \in reconcile.live

Indexed ==
  /\ \A s \in reconcile.live :
       Live(s) /\ (index[s] = Proper(s) \/ (reconcile.pc = "send" /\ reconcile.bulk[s] = Proper(s)))
  /\ reconcile.pc = "send" => \A s \in Stickers : reconcile.bulk[s] \in {Skip, Proper(s)}

Strays ==
  reconcile.pc = "delete" =>
    \A s \in Stickers : /\ s \in reconcile.stale => s \notin reconcile.live
                        /\ index[s] # Absent /\ s \notin reconcile.live => s \in reconcile.stale

ReconcileCovers == alone => WritersIdle /\ reconcile.pc # "idle" /\ Behind /\ Indexed /\ Strays

Inv == TypeOK /\ SyncsCover /\ ReconcileCovers

(* Every write through the store names the packs whose documents it changes. *)
LEMMA WriteTouches ==
  ASSUME TypeOK, NEW w \in Writers, Write(w)
  PROVE  \E touched \in SUBSET Packs :
           /\ Written(w, touched)
           /\ \A s \in Stickers : /\ PackOf[s] \notin touched => Proper(s)' = Proper(s)
                                  /\ stickers'[s] = "none" => stickers[s] = "none"
<1>0. \A s \in Stickers : PackOf[s] \in Packs BY SearchAssumption
<1>1. ASSUME NEW s \in Stickers, CreateSticker(w, s)
      PROVE  \E touched \in SUBSET Packs :
               /\ Written(w, touched)
               /\ \A r \in Stickers : /\ PackOf[r] \notin touched => Proper(r)' = Proper(r)
                                      /\ stickers'[r] = "none" => stickers[r] = "none"
  <2>1. ASSUME NEW r \in Stickers, r # s PROVE Proper(r)' = Proper(r) /\ stickers'[r] = stickers[r]
    BY <1>1, <2>1 DEF CreateSticker, TypeOK, Proper, Live, Document
  <2>2. stickers'[s] = "live" BY <1>1 DEF CreateSticker, TypeOK
  <2>3. Written(w, {PackOf[s]}) BY <1>1 DEF CreateSticker
  <2>4. \A r \in Stickers : /\ PackOf[r] \notin {PackOf[s]} => Proper(r)' = Proper(r)
                            /\ stickers'[r] = "none" => stickers[r] = "none"
    BY <2>1, <2>2
  <2> QED BY <1>0, <2>3, <2>4
<1>2. ASSUME NEW s \in Stickers, UpdateSticker(w, s)
      PROVE  \E touched \in SUBSET Packs :
               /\ Written(w, touched)
               /\ \A r \in Stickers : /\ PackOf[r] \notin touched => Proper(r)' = Proper(r)
                                      /\ stickers'[r] = "none" => stickers[r] = "none"
  <2>1. ASSUME NEW r \in Stickers, r # s PROVE Proper(r)' = Proper(r) /\ stickers'[r] = stickers[r]
    BY <1>2, <2>1 DEF UpdateSticker, TypeOK, Proper, Live, Document
  <2>2. stickers'[s] # "none" BY <1>2 DEF UpdateSticker, TypeOK, Live
  <2>3. Written(w, {PackOf[s]}) BY <1>2 DEF UpdateSticker
  <2>4. \A r \in Stickers : /\ PackOf[r] \notin {PackOf[s]} => Proper(r)' = Proper(r)
                            /\ stickers'[r] = "none" => stickers[r] = "none"
    BY <2>1, <2>2
  <2> QED BY <1>0, <2>3, <2>4
<1>3. ASSUME NEW p \in Packs, UpdatePack(w, p) \/ DeletePack(w, p)
      PROVE  \E touched \in SUBSET Packs :
               /\ Written(w, touched)
               /\ \A r \in Stickers : /\ PackOf[r] \notin touched => Proper(r)' = Proper(r)
                                      /\ stickers'[r] = "none" => stickers[r] = "none"
  <2>1. ASSUME NEW r \in Stickers, PackOf[r] # p PROVE Proper(r)' = Proper(r)
    BY <1>0, <1>3, <2>1 DEF UpdatePack, DeletePack, TypeOK, Proper, Live, Document
  <2>2. ASSUME NEW r \in Stickers, stickers'[r] = "none" PROVE stickers[r] = "none"
    BY <1>3, <2>2 DEF UpdatePack, DeletePack, TypeOK
  <2>3. Written(w, {p}) BY <1>3 DEF UpdatePack, DeletePack
  <2> QED BY <2>1, <2>2, <2>3
<1>4. CASE ImportStickers(w)
  <2>1. PICK changed \in SUBSET Stickers :
          /\ \A s \in changed : stickers[s] # "none"
          /\ stickers' = [s \in Stickers |->
                            IF s \in changed THEN (IF stickers[s] = "live" THEN "deleted" ELSE "live")
                            ELSE stickers[s]]
          /\ Written(w, {PackOf[s] : s \in changed})
          /\ UNCHANGED <<packs, face>>
    BY <1>4 DEF ImportStickers
  <2>2. ASSUME NEW r \in Stickers, r \notin changed PROVE Proper(r)' = Proper(r) /\ stickers'[r] = stickers[r]
    BY <2>1, <2>2 DEF Proper, Live, Document
  <2>3. ASSUME NEW r \in Stickers, PackOf[r] \notin {PackOf[s] : s \in changed} PROVE r \notin changed
    BY <2>3
  <2>4. {PackOf[s] : s \in changed} \in SUBSET Packs BY <1>0
  <2>5. \A r \in Stickers : stickers'[r] = "none" => stickers[r] = "none" BY <2>1
  <2> QED BY <2>1, <2>2, <2>3, <2>4, <2>5
<1> QED BY <1>1, <1>2, <1>3, <1>4 DEF Write

LEMMA WriteCovers ==
  ASSUME Inv, NEW w \in Writers, Write(w) PROVE SyncsCover' /\ ReconcileCovers'
<1>1. PICK touched \in SUBSET Packs :
        /\ Written(w, touched)
        /\ \A s \in Stickers : /\ PackOf[s] \notin touched => Proper(s)' = Proper(s)
                               /\ stickers'[s] = "none" => stickers[s] = "none"
  BY WriteTouches DEF Inv
<1>2. ReconcileCovers' BY <1>1 DEF Written, ReconcileCovers
<1>3. ASSUME ~drifted' PROVE OneSync' /\ Accounted'
  <2>1. ~drifted /\ WritersIdle /\ reconcile.pc = "idle" BY <1>1, <1>3 DEF Written
  <2>2. ASSUME NEW s \in Stickers
        PROVE  index[s] = Proper(s) /\ (stickers[s] = "none" => index[s] = Absent)
    BY <2>1 DEF Inv, SyncsCover, Accounted, Pending, WritersIdle
  <2>3. /\ writer'[w].pc = "read" /\ writer'[w].todo = touched
        /\ \A v \in Writers \ {w} : writer'[v].pc = "idle"
    BY <1>1, <2>1 DEF Inv, TypeOK, Written, WriterIdle, WritersIdle
  <2>4. OneSync' BY <1>1, <2>1, <2>3 DEF OneSync, Written
  <2>5. \A s \in Stickers : PackOf[s] \in touched => Pending(s)' BY <2>3 DEF Pending
  <2>6. index' = index BY <1>1 DEF Written
  <2>7. ASSUME NEW s \in Stickers, NEW v \in Writers, writer'[v].pc = "send"
        PROVE  writer'[v].bulk[s] \in {Skip, Proper(s)'}
    BY <2>3, <2>7
  <2> QED BY <1>1, <2>2, <2>4, <2>5, <2>6, <2>7 DEF Accounted
<1> QED BY <1>2, <1>3 DEF SyncsCover

LEMMA DbFrame ==
  ASSUME UNCHANGED db
  PROVE  \A s : Proper(s)' = Proper(s) /\ Live(s)' = Live(s)
BY DEF db, Proper, Live, Document

LEMMA SyncCovers ==
  ASSUME Inv, NEW w \in Writers, Sync(w) PROVE SyncsCover' /\ ReconcileCovers'
<1>0. writer[w].pc # "idle" /\ UNCHANGED <<db, reconcile, ghosts>> /\ writer[w] \in WriterStates
  BY DEF Sync, SyncRead, SyncSend, Inv, TypeOK, WriterStates
<1>1. ~alone BY <1>0 DEF Inv, ReconcileCovers, WritersIdle
<1>2. ReconcileCovers' BY <1>0, <1>1 DEF ReconcileCovers, ghosts
<1>3. ASSUME ~drifted' PROVE OneSync' /\ Accounted'
  <2>1. ~drifted /\ OneSync /\ Accounted BY <1>0, <1>3 DEF ghosts, Inv, SyncsCover
  <2>2. \A v \in Writers \ {w} : writer'[v] = writer[v] /\ writer[v].pc = "idle"
    BY <1>0, <2>1 DEF OneSync, Sync, SyncRead, SyncSend, Synced, Inv, TypeOK
  <2>3. OneSync' BY <1>0, <2>1, <2>2 DEF OneSync, ghosts
  <2>4. \A s \in Stickers : Proper(s)' = Proper(s) BY <1>0, DbFrame
  <2>5. stickers' = stickers BY <1>0 DEF db
  <2>6. ASSUME NEW s \in Stickers
        PROVE  \/ index[s] = Proper(s)
               \/ PackOf[s] \in writer[w].todo
               \/ writer[w].pc = "send" /\ writer[w].bulk[s] = Proper(s)
    BY <2>1, <2>2 DEF Accounted, Pending
  <2>7. CASE SyncRead(w)
    <3>1. PICK p \in writer[w].todo :
            writer' = [writer EXCEPT ![w] = [pc |-> "send", todo |-> writer[w].todo \ {p}, bulk |-> PackBulk(p)]]
      BY <2>7 DEF SyncRead
    <3>2. writer'[w] = [pc |-> "send", todo |-> writer[w].todo \ {p}, bulk |-> PackBulk(p)]
      BY <3>1 DEF Inv, TypeOK
    <3>3. index' = index BY <2>7 DEF SyncRead
    <3>4. ASSUME NEW s \in Stickers
          PROVE  /\ index'[s] = Proper(s)' \/ Pending(s)'
                 /\ stickers'[s] = "none" => index'[s] = Absent
                 /\ PackBulk(p)[s] \in {Skip, Proper(s)}
      <4>1. PackBulk(p)[s] \in {Skip, Proper(s)} BY DEF PackBulk
      <4>2. stickers[s] = "none" => index[s] = Absent /\ Proper(s) = Absent
        BY <2>1 DEF Accounted, Proper, Live
      <4>3. CASE index[s] = Proper(s) BY <2>4, <2>5, <3>3, <4>1, <4>2, <4>3
      <4>4. CASE PackOf[s] = p
        <5>1. PackBulk(p)[s] = Proper(s) \/ stickers[s] = "none" BY <4>4 DEF PackBulk
        <5>2. CASE PackBulk(p)[s] = Proper(s) BY <2>4, <2>5, <3>2, <3>3, <4>1, <4>2, <5>2 DEF Pending
        <5> QED BY <2>4, <2>5, <3>3, <4>1, <4>2, <5>1, <5>2
      <4>5. CASE index[s] # Proper(s) /\ PackOf[s] # p
        <5>1. PackOf[s] \in writer[w].todo BY <2>6, <2>7, <4>5 DEF SyncRead
        <5>2. writer'[w].pc = "send" /\ PackOf[s] \in writer'[w].todo BY <3>2, <4>5, <5>1
        <5>3. Pending(s)' BY <5>2 DEF Pending
        <5> QED BY <2>5, <3>3, <4>1, <4>2, <5>3
      <4> QED BY <4>3, <4>4, <4>5
    <3>5. ASSUME NEW s \in Stickers, NEW v \in Writers, writer'[v].pc = "send"
          PROVE  writer'[v].bulk[s] \in {Skip, Proper(s)'}
      BY <2>2, <2>4, <3>2, <3>4, <3>5
    <3>6. Accounted' BY <3>4, <3>5 DEF Accounted
    <3> QED BY <2>3, <3>6
  <2>8. CASE SyncSend(w)
    <3>1. writer' = Synced(w, writer[w].todo) /\ index' = Send(writer[w].bulk) /\ writer[w].pc = "send"
      BY <2>8 DEF SyncSend
    <3>2. writer'[w].pc # "send" /\ (writer[w].todo # {} => writer'[w].pc # "idle" /\ writer'[w].todo = writer[w].todo)
      BY <3>1 DEF Synced, WriterIdle, Inv, TypeOK
    <3>3. \A s \in Stickers : index'[s] = IF writer[w].bulk[s] = Skip THEN index[s] ELSE writer[w].bulk[s]
      BY <3>1 DEF Send
    <3>4. \A s \in Stickers : writer[w].bulk[s] \in {Skip, Proper(s)} BY <2>1, <3>1 DEF Accounted
    <3>5. \A s \in Stickers : Proper(s) # Skip BY DocumentTypes DEF Inv
    <3>6. ASSUME NEW s \in Stickers PROVE index'[s] = Proper(s)' \/ Pending(s)'
      <4>1. CASE PackOf[s] \in writer[w].todo BY <3>2, <4>1 DEF Pending
      <4>2. CASE PackOf[s] \notin writer[w].todo BY <2>4, <2>6, <3>3, <3>4, <3>5, <4>2
      <4> QED BY <4>1, <4>2
    <3>7. ASSUME NEW s \in Stickers, stickers'[s] = "none" PROVE index'[s] = Absent
      <4>1. Proper(s) = Absent /\ index[s] = Absent BY <2>1, <2>5, <3>7 DEF Accounted, Proper, Live
      <4> QED BY <3>3, <3>4, <4>1
    <3>8. \A v \in Writers : writer'[v].pc # "send" BY <2>2, <3>2
    <3>9. Accounted' BY <3>6, <3>7, <3>8 DEF Accounted
    <3> QED BY <2>3, <3>9
  <2> QED BY <2>7, <2>8 DEF Sync
<1> QED BY <1>2, <1>3 DEF SyncsCover

LEMMA DriftCovers ==
  ASSUME drifted' = TRUE, alone' = FALSE PROVE SyncsCover' /\ ReconcileCovers'
BY DEF SyncsCover, ReconcileCovers

LEMMA PurgeCovers ==
  ASSUME Inv, NEW r \in Stickers, PurgeSticker(r) PROVE SyncsCover' /\ ReconcileCovers'
<1>1. WritersIdle /\ UNCHANGED <<index, writer, reconcile, ghosts>> BY DEF PurgeSticker
<1>2. ASSUME NEW s \in Stickers PROVE Proper(s)' = Proper(s) /\ Live(s)' = Live(s)
  BY DEF PurgeSticker, Proper, Live, Document, Inv, TypeOK
<1>3. ASSUME ~drifted' PROVE OneSync' /\ Accounted'
  <2>1. ~drifted /\ OneSync /\ Accounted BY <1>1, <1>3 DEF ghosts, Inv, SyncsCover
  <2>2. \A w \in Writers : writer'[w].pc = "idle" BY <1>1 DEF WritersIdle
  <2>3. OneSync' BY <1>1, <2>1, <2>2 DEF OneSync, ghosts
  <2>4. \A s \in Stickers : index[s] = Proper(s) BY <1>1, <2>1 DEF Accounted, Pending, WritersIdle
  <2>5. ASSUME NEW s \in Stickers, stickers'[s] = "none" PROVE Proper(s)' = Absent
    BY <2>5 DEF Proper, Live
  <2>6. Accounted' BY <1>1, <1>2, <2>2, <2>4, <2>5 DEF Accounted
  <2> QED BY <2>3, <2>6
<1>4. ASSUME alone PROVE Behind' /\ Indexed' /\ Strays'
  <2>1. reconcile.pc # "idle" /\ Behind /\ Indexed /\ Strays BY <1>4 DEF Inv, ReconcileCovers
  <2>2. reconcile.live \subseteq Stickers /\ reconcile.cursor \in 0 .. Total BY DEF Inv, TypeOK
  <2>3. reconcile.cursor # 0 => reconcile.cursor \in Stickers BY <2>2, SearchAssumption DEF Stickers
  <2>4. Behind' BY <1>1, <1>2, <2>1, <2>3 DEF Behind
  <2>5. Indexed' BY <1>1, <1>2, <2>1, <2>2 DEF Indexed
  <2>6. Strays' BY <1>1, <2>1 DEF Strays
  <2> QED BY <2>4, <2>5, <2>6
<1>5. ReconcileCovers' BY <1>1, <1>4 DEF ReconcileCovers, ghosts, Inv, WritersIdle
<1> QED BY <1>3, <1>5 DEF SyncsCover

LEMMA StartCovers ==
  ASSUME Inv, ReconcileStart PROVE SyncsCover' /\ ReconcileCovers'
<1>0. UNCHANGED <<db, index, writer>> /\ reconcile.pc = "idle" /\ reconcile' = [ReconcileIdle EXCEPT !.pc = "read"]
  BY DEF ReconcileStart
<1>1. reconcile'.pc = "read" /\ reconcile'.cursor = 0 /\ reconcile'.live = {}
  BY <1>0 DEF ReconcileIdle
<1>2. \A s \in Stickers : Proper(s)' = Proper(s) BY <1>0, DbFrame
<1>3. ASSUME ~drifted' PROVE OneSync' /\ Accounted'
  <2>1. ~drifted /\ WritersIdle /\ alone' BY <1>3, Zenon DEF ReconcileStart
  <2>2. \A w \in Writers : writer'[w].pc = "idle" BY <1>0, <2>1 DEF WritersIdle
  <2>3. OneSync' BY <2>1, <2>2 DEF OneSync
  <2>4. \A s \in Stickers : index[s] = Proper(s) /\ (stickers[s] = "none" => index[s] = Absent)
    BY <2>1 DEF Inv, SyncsCover, Accounted, Pending, WritersIdle
  <2>5. Accounted' BY <1>0, <1>2, <2>2, <2>4 DEF Accounted, db
  <2> QED BY <2>3, <2>5
<1>4. ASSUME alone' PROVE WritersIdle' /\ Behind' /\ Indexed' /\ Strays'
  <2>1. WritersIdle BY <1>4, Zenon DEF ReconcileStart
  <2>2. WritersIdle' BY <1>0, <2>1 DEF WritersIdle
  <2>3. Behind'
    <3>1. \A s \in Stickers : ~(s <= 0) BY SearchAssumption DEF Stickers
    <3> QED BY <1>1, <3>1 DEF Behind
  <2> QED BY <1>1, <2>2, <2>3 DEF Indexed, Strays
<1> QED BY <1>1, <1>3, <1>4 DEF SyncsCover, ReconcileCovers

(* At rest but for an undisturbed reconcile. *)
LEMMA QuietFacts ==
  ASSUME Inv, ~drifted, reconcile.pc # "idle"
  PROVE  /\ alone /\ WritersIdle
         /\ \A s \in Stickers : index[s] = Proper(s) /\ (stickers[s] = "none" => index[s] = Absent)
<1>1. alone /\ WritersIdle BY DEF Inv, SyncsCover, OneSync, ReconcileCovers
<1> QED BY <1>1 DEF Inv, SyncsCover, Accounted, Pending, WritersIdle

LEMMA ReadCovers ==
  ASSUME Inv, ReconcileRead PROVE SyncsCover' /\ ReconcileCovers'
<1> DEFINE batch == FirstOf(Remaining, BatchSize)
<1>0. UNCHANGED <<db, index, writer, ghosts>> /\ reconcile.pc = "read" BY DEF ReconcileRead
<1>1. \A s : Proper(s)' = Proper(s) /\ Live(s)' = Live(s) BY <1>0, DbFrame
<1>2. \/ Remaining = {} /\ reconcile' = [reconcile EXCEPT !.pc = "scan"]
      \/ \E last \in batch :
           /\ \A s \in batch : s <= last
           /\ reconcile' = [pc |-> "send", cursor |-> last, live |-> reconcile.live \union batch, stale |-> {},
                            bulk |-> [s \in Stickers |-> IF s \in batch THEN Document(s) ELSE Skip]]
  BY DEF ReconcileRead, ReconcileGoTo
<1>3. batch \subseteq Remaining /\ Remaining \subseteq Stickers BY DEF FirstOf, Remaining
<1>4. ASSUME alone PROVE Behind' /\ Indexed' /\ Strays'
  <2>1. /\ \A s \in Stickers : Live(s) /\ s <= reconcile.cursor => s \in reconcile.live
        /\ reconcile.cursor # 0 => Live(reconcile.cursor)
        /\ \A s \in reconcile.live : Live(s) /\ index[s] = Proper(s)
    BY <1>0, <1>4 DEF Inv, ReconcileCovers, Behind, Indexed
  <2>2. reconcile.cursor \in 0 .. Total /\ reconcile.live \subseteq Stickers BY DEF Inv, TypeOK
  <2>3. \A s \in Stickers : s \in 1 .. Total BY DEF Stickers
  <2>4. \A s \in Stickers : Live(s) /\ s > reconcile.cursor => s \in Remaining
    <3>1. CASE reconcile.cursor = 0 BY <2>3, <3>1 DEF Remaining
    <3>2. CASE reconcile.cursor # 0
      <4>1. reconcile.cursor \in Stickers /\ Live(reconcile.cursor) BY <2>1, <2>2, <3>2, SearchAssumption DEF Stickers
      <4> QED BY <2>3, <4>1, SearchAssumption DEF Remaining
    <3> QED BY <3>1, <3>2
  <2>5. CASE Remaining = {} /\ reconcile' = [reconcile EXCEPT !.pc = "scan"]
    <3>1. reconcile'.pc = "scan" /\ reconcile'.live = reconcile.live BY <2>5 DEF Inv, TypeOK
    <3>2. \A s \in Stickers : Live(s) => s \in reconcile.live
      BY <2>1, <2>2, <2>3, <2>4, <2>5, SearchAssumption
    <3> QED BY <1>0, <1>1, <2>1, <2>2, <3>1, <3>2 DEF Behind, Indexed, Strays
  <2>6. ASSUME NEW last \in batch, \A s \in batch : s <= last,
               reconcile' = [pc |-> "send", cursor |-> last, live |-> reconcile.live \union batch, stale |-> {},
                             bulk |-> [s \in Stickers |-> IF s \in batch THEN Document(s) ELSE Skip]]
        PROVE  Behind' /\ Indexed' /\ Strays'
    <3>1. \A s \in Remaining : Live(s) BY DEF Remaining
    <3>2. ASSUME NEW s \in Remaining, s <= last PROVE s \in batch
      <4>1. {t \in Remaining : t < s} \subseteq {t \in Remaining : t < last}
        BY <1>3, <2>3, <2>6, <3>2, SearchAssumption
      <4>2. IsFiniteSet({t \in Remaining : t < last}) BY <1>3, StickerFacts, FS_Subset
      <4>3. /\ Cardinality({t \in Remaining : t < s}) <= Cardinality({t \in Remaining : t < last})
            /\ IsFiniteSet({t \in Remaining : t < s})
        BY <4>1, <4>2, FS_Subset
      <4>4. Cardinality({t \in Remaining : t < last}) < BatchSize BY <2>6 DEF FirstOf
      <4>5. Cardinality({t \in Remaining : t < s}) \in Nat /\ Cardinality({t \in Remaining : t < last}) \in Nat
        BY <4>2, <4>3, FS_CardinalityType
      <4>6. Cardinality({t \in Remaining : t < s}) < BatchSize BY <4>3, <4>4, <4>5, SearchAssumption
      <4> QED BY <4>6 DEF FirstOf
    <3>3. \A s \in Stickers : Live(s) /\ s <= last => s \in reconcile.live \union batch
      <4>1. SUFFICES ASSUME NEW s \in Stickers, Live(s), s <= last PROVE s \in reconcile.live \union batch OBVIOUS
      <4>2. CASE s <= reconcile.cursor BY <2>1, <4>1, <4>2
      <4>3. CASE ~(s <= reconcile.cursor)
        <5>1. s > reconcile.cursor BY <2>2, <2>3, <4>3, SearchAssumption
        <5> QED BY <2>4, <3>2, <4>1, <5>1
      <4> QED BY <4>2, <4>3
    <3> HIDE DEF batch
    <3>4. /\ reconcile'.pc = "send" /\ reconcile'.cursor = last /\ reconcile'.live = reconcile.live \union batch
          /\ \A s \in Stickers : reconcile'.bulk[s] = IF s \in batch THEN Document(s) ELSE Skip
      BY <2>6
    <3>5. Live(last) BY <1>3, <2>6, <3>1
    <3>6. Behind' BY <1>1, <3>3, <3>4, <3>5 DEF Behind
    <3>7. \A s \in batch : Live(s) /\ Document(s) = Proper(s) BY <1>3, <3>1 DEF Proper
    <3>8. \A s \in Stickers : reconcile'.bulk[s] \in {Skip, Proper(s)'} BY <1>1, <3>4, <3>7
    <3>9. ASSUME NEW s \in reconcile'.live
          PROVE  Live(s)' /\ (index'[s] = Proper(s)' \/ (reconcile'.pc = "send" /\ reconcile'.bulk[s] = Proper(s)'))
      BY <1>0, <1>1, <1>3, <2>1, <3>4, <3>7, <3>9
    <3> QED BY <3>4, <3>6, <3>8, <3>9 DEF Indexed, Strays
  <2> QED BY <1>2, <2>5, <2>6
<1>5. reconcile'.pc # "idle" BY <1>2 DEF Inv, TypeOK
<1>6. ReconcileCovers' BY <1>0, <1>4, <1>5 DEF ReconcileCovers, ghosts, Inv, WritersIdle
<1>7. ASSUME ~drifted' PROVE OneSync' /\ Accounted'
  <2>1. ~drifted /\ alone /\ alone' /\ WritersIdle BY <1>0, <1>7, QuietFacts DEF ghosts
  <2>2. \A w \in Writers : writer'[w].pc = "idle" BY <1>0, <2>1 DEF WritersIdle
  <2>3. Accounted' BY <1>0, <1>1, <2>1, <2>2, QuietFacts DEF Accounted, db
  <2> QED BY <2>1, <2>2, <2>3 DEF OneSync
<1> QED BY <1>6, <1>7 DEF SyncsCover

LEMMA SendCovers ==
  ASSUME Inv, ReconcileSend PROVE SyncsCover' /\ ReconcileCovers'
<1>0. /\ UNCHANGED <<db, writer, ghosts>> /\ reconcile.pc = "send"
      /\ reconcile'.pc = "read" /\ reconcile'.cursor = reconcile.cursor /\ reconcile'.live = reconcile.live
  BY DEF ReconcileSend, Inv, TypeOK
<1>1. \A s : Proper(s)' = Proper(s) /\ Live(s)' = Live(s) BY <1>0, DbFrame
<1>2. \A s \in Stickers : index'[s] = IF reconcile.bulk[s] = Skip THEN index[s] ELSE reconcile.bulk[s]
  BY DEF ReconcileSend, Send
<1>3. ASSUME alone PROVE \A s \in Stickers : reconcile.bulk[s] \in {Skip, Proper(s)}
  BY <1>0, <1>3 DEF Inv, ReconcileCovers, Indexed
<1>4. ASSUME alone PROVE Behind' /\ Indexed' /\ Strays'
  <2>1. Behind /\ Indexed BY <1>4 DEF Inv, ReconcileCovers
  <2>2. Behind' BY <1>0, <1>1, <2>1 DEF Behind
  <2>3. \A s \in Stickers : Proper(s) # Skip BY DocumentTypes DEF Inv
  <2>4. reconcile.live \subseteq Stickers BY DEF Inv, TypeOK
  <2>5. ASSUME NEW s \in reconcile.live PROVE Live(s)' /\ index'[s] = Proper(s)'
    BY <1>1, <1>2, <1>3, <1>4, <2>1, <2>3, <2>4 DEF Indexed
  <2> QED BY <1>0, <2>2, <2>5 DEF Indexed, Strays
<1>5. ReconcileCovers' BY <1>0, <1>4 DEF ReconcileCovers, ghosts, Inv, WritersIdle
<1>6. ASSUME ~drifted' PROVE OneSync' /\ Accounted'
  <2>1. ~drifted /\ alone /\ alone' /\ WritersIdle BY <1>0, <1>6, QuietFacts DEF ghosts
  <2>2. \A w \in Writers : writer'[w].pc = "idle" BY <1>0, <2>1 DEF WritersIdle
  <2>3. ASSUME NEW s \in Stickers PROVE index'[s] = index[s] /\ index[s] = Proper(s)
    BY <1>0, <1>2, <1>3, <2>1, QuietFacts
  <2>4. Accounted' BY <1>0, <1>1, <2>1, <2>2, <2>3, QuietFacts DEF Accounted, db
  <2> QED BY <2>1, <2>2, <2>4 DEF OneSync
<1> QED BY <1>5, <1>6 DEF SyncsCover

LEMMA ScanCovers ==
  ASSUME Inv, ReconcileScan PROVE SyncsCover' /\ ReconcileCovers'
<1>0. /\ UNCHANGED <<db, index, writer, ghosts>> /\ reconcile.pc = "scan"
      /\ reconcile'.pc = "delete" /\ reconcile'.live = reconcile.live
      /\ reconcile'.stale = {s \in Stickers : index[s] # Absent} \ reconcile.live
  BY DEF ReconcileScan, Inv, TypeOK
<1>1. \A s : Proper(s)' = Proper(s) /\ Live(s)' = Live(s) BY <1>0, DbFrame
<1>2. ASSUME alone PROVE Behind' /\ Indexed' /\ Strays'
  <2>1. Behind /\ Indexed BY <1>2 DEF Inv, ReconcileCovers
  <2>2. Behind' BY <1>0, <1>1, <2>1 DEF Behind
  <2>3. Indexed' BY <1>0, <1>1, <2>1 DEF Indexed
  <2>4. Strays' BY <1>0 DEF Strays
  <2> QED BY <2>2, <2>3, <2>4
<1>3. ReconcileCovers' BY <1>0, <1>2 DEF ReconcileCovers, ghosts, Inv, WritersIdle
<1>4. ASSUME ~drifted' PROVE OneSync' /\ Accounted'
  <2>1. ~drifted /\ alone /\ alone' /\ WritersIdle BY <1>0, <1>4, QuietFacts DEF ghosts
  <2>2. \A w \in Writers : writer'[w].pc = "idle" BY <1>0, <2>1 DEF WritersIdle
  <2>3. Accounted' BY <1>0, <1>1, <2>1, <2>2, QuietFacts DEF Accounted, db
  <2> QED BY <2>1, <2>2, <2>3 DEF OneSync
<1> QED BY <1>3, <1>4 DEF SyncsCover

(* The end of a reconcile: one that ran undisturbed leaves the index current. *)
LEMMA DeleteCovers ==
  ASSUME Inv, ReconcileDelete PROVE SyncsCover' /\ ReconcileCovers'
<1>0. /\ UNCHANGED <<db, writer>> /\ reconcile.pc = "delete" /\ reconcile'.pc = "idle" /\ ~alone'
      /\ \A s \in Stickers : index'[s] = IF s \in reconcile.stale THEN Absent ELSE index[s]
  BY DEF ReconcileDelete, ReconcileIdle
<1>1. \A s : Proper(s)' = Proper(s) /\ Live(s)' = Live(s) BY <1>0, DbFrame
<1>2. ASSUME ~drifted' PROVE OneSync' /\ Accounted'
  <2>1. ~drifted \/ alone BY <1>2, Zenon DEF ReconcileDelete
  <2>2. alone BY <1>0, <2>1, QuietFacts
  <2>3. WritersIdle /\ Behind /\ Indexed /\ Strays BY <2>2 DEF Inv, ReconcileCovers
  <2>4. \A w \in Writers : writer'[w].pc = "idle" BY <1>0, <2>3 DEF WritersIdle
  <2>5. ASSUME NEW s \in Stickers PROVE index'[s] = Proper(s)
    <3>1. CASE s \in reconcile.live BY <1>0, <2>3, <3>1 DEF Indexed, Strays
    <3>2. CASE s \notin reconcile.live
      <4>1. Proper(s) = Absent BY <1>0, <2>3, <3>2 DEF Behind, Proper
      <4> QED BY <1>0, <2>3, <3>2, <4>1 DEF Strays
    <3> QED BY <3>1, <3>2
  <2>6. \A s \in Stickers : stickers'[s] = "none" => Proper(s) = Absent BY <1>0 DEF db, Proper, Live
  <2>7. Accounted' BY <1>1, <2>4, <2>5, <2>6 DEF Accounted
  <2> QED BY <1>0, <2>4, <2>7 DEF OneSync
<1> QED BY <1>0, <1>2 DEF SyncsCover, ReconcileCovers

LEMMA SearchCovers ==
  ASSUME Inv, UNCHANGED <<db, index, writer, reconcile, ghosts>> PROVE SyncsCover' /\ ReconcileCovers'
<1>1. \A s : Proper(s)' = Proper(s) /\ Live(s)' = Live(s) BY DbFrame
<1>2. OneSync' <=> OneSync BY DEF OneSync, ghosts
<1>3. Accounted' <=> Accounted BY <1>1 DEF Accounted, Pending, db
<1>4. Behind' <=> Behind BY <1>1 DEF Behind
<1>5. Indexed' <=> Indexed BY <1>1 DEF Indexed
<1>6. Strays' <=> Strays BY DEF Strays
<1>7. WritersIdle' <=> WritersIdle BY DEF WritersIdle
<1> QED BY <1>2, <1>3, <1>4, <1>5, <1>6, <1>7 DEF Inv, SyncsCover, ReconcileCovers, ghosts

LEMMA InitInv == Init => Inv
<1> SUFFICES ASSUME Init PROVE Inv OBVIOUS
<1>1. TypeOK BY InitType
<1>2. \A w \in Writers : writer[w].pc = "idle" BY DEF Init, WriterIdle
<1>3. reconcile.pc = "idle" BY DEF Init, ReconcileIdle
<1>4. ASSUME ~drifted PROVE OneSync /\ Accounted
  <2>1. IndexCurrent BY <1>4, Zenon DEF Init
  <2>2. \A s \in Stickers : index[s] = Absent BY DEF Init
  <2> QED BY <1>2, <1>3, <2>1, <2>2 DEF OneSync, Accounted, IndexCurrent
<1> QED BY <1>1, <1>4 DEF Inv, SyncsCover, ReconcileCovers, Init

LEMMA StepInv == Inv /\ [Next]_vars => Inv'
<1> SUFFICES ASSUME Inv, [Next]_vars PROVE Inv' OBVIOUS
<1>1. TypeOK' BY StepType DEF Inv
<1>2. SyncsCover' /\ ReconcileCovers'
  <2>1. ASSUME NEW w \in Writers, Write(w) PROVE SyncsCover' /\ ReconcileCovers' BY <2>1, WriteCovers
  <2>2. ASSUME NEW w \in Writers, Sync(w) PROVE SyncsCover' /\ ReconcileCovers' BY <2>2, SyncCovers
  <2>3. ASSUME NEW w \in Writers, SyncFails(w) PROVE SyncsCover' /\ ReconcileCovers'
    BY <2>3, DriftCovers DEF SyncFails
  <2>4. ASSUME NEW s \in Stickers, RelabelUnsynced(s) PROVE SyncsCover' /\ ReconcileCovers'
    BY <2>4, DriftCovers DEF RelabelUnsynced
  <2>5. ASSUME NEW s \in Stickers, PurgeSticker(s) PROVE SyncsCover' /\ ReconcileCovers' BY <2>5, PurgeCovers
  <2>6. CASE ReconcileStart BY <2>6, StartCovers
  <2>7. CASE Reconcile BY <2>7, ReadCovers, SendCovers, ScanCovers, DeleteCovers DEF Reconcile
  <2>8. CASE ReconcileFails BY <2>8, DriftCovers DEF ReconcileFails
  <2>9. CASE SearchStart \/ SearchVerify \/ SearchEnd
    BY <2>9, SearchCovers DEF SearchStart, SearchVerify, SearchEnd
  <2>10. CASE UNCHANGED vars BY <2>10, SearchCovers DEF vars, db, ghosts
  <2> QED BY <2>1, <2>2, <2>3, <2>4, <2>5, <2>6, <2>7, <2>8, <2>9, <2>10 DEF Next
<1> QED BY <1>1, <1>2 DEF Inv

(* Unless a sync failed, overlapped with another, or was never asked for, the
   index is current whenever nothing is under way; and a reconcile that nobody
   disturbed makes it so whatever it was before. *)
THEOREM AtRest == Spec => []AtRestCurrent
<1>1. Inv => AtRestCurrent
  BY DEF Inv, SyncsCover, Accounted, Pending, AtRestCurrent, WritersIdle, IndexCurrent
<1> QED BY <1>1, InitInv, StepInv, PTL DEF Spec

-----------------------------------------------------------------------------
(* The two searches. SearchesAgree speaks of what is shown, so it must be kept
   from the moment the index answers. *)

FreshAgrees ==
  search.pc # "idle" /\ search.fresh => search.found = PostgresSearch(search.query)

(* What a search finds depends on nothing but what is visible under which name. *)
LEMMA PostgresFrame ==
  ASSUME NEW query, packs' = packs, face' = face, \A s \in Stickers : Live(s)' = Live(s)
  PROVE  PostgresSearch(query)' = PostgresSearch(query)
<1> DEFINE named == {s \in Stickers : Visible(s) /\ face[s] \in query}
<1>1. \A s \in Stickers : Visible(s)' <=> Visible(s) BY DEF Visible
<1>2. named' = named BY <1>1
<1> HIDE DEF named
<1>3. FirstOf(named', Limit) = FirstOf(named, Limit) BY <1>2
<1> QED BY <1>3 DEF PostgresSearch, named, FirstOf

(* A current index gives the candidates that Postgres would. *)
LEMMA CurrentCandidates ==
  ASSUME TypeOK, IndexCurrent, NEW query
  PROVE  Candidates(query) = PostgresSearch(query)
<1>1. ASSUME NEW s \in Stickers
      PROVE  /\ index[s] # Absent /\ (index[s].public \/ PackOf[s] \in Own) /\ index[s].face \in query
             <=> Visible(s) /\ face[s] \in query
  <2>1. index[s] = Proper(s) BY DEF IndexCurrent
  <2>2. CASE Live(s)
    <3>1. index[s] = Document(s) /\ Document(s) # Absent BY <2>1, <2>2, DocumentTypes DEF Proper
    <3>2. Document(s).face = face[s] /\ (Document(s).public <=> packs[PackOf[s]] = "public") BY Zenon DEF Document
    <3> QED BY <2>2, <3>1, <3>2 DEF Visible
  <2>3. CASE ~Live(s) BY <2>1, <2>3 DEF Proper, Visible
  <2> QED BY <2>2, <2>3
<1>2. {s \in Stickers : index[s] # Absent /\ (index[s].public \/ PackOf[s] \in Own) /\ index[s].face \in query}
        = {s \in Stickers : Visible(s) /\ face[s] \in query}
  BY <1>1
<1> QED BY <1>2 DEF Candidates, PostgresSearch

(* A write that reaches the database makes a search stale. *)
LEMMA WriteStale == ASSUME TypeOK, NEW w \in Writers, Write(w) PROVE ~search'.fresh
<1>1. search' = [search EXCEPT !.fresh = FALSE]
  BY DEF Write, CreateSticker, UpdateSticker, UpdatePack, DeletePack, ImportStickers, Written
<1>2. search \in SearchStates BY DEF TypeOK, SearchStates
<1> QED BY <1>1, <1>2 DEF SearchStates

LEMMA FreshStep == TypeOK /\ FreshAgrees /\ [Next]_vars => FreshAgrees'
<1> SUFFICES ASSUME TypeOK, FreshAgrees, [Next]_vars PROVE FreshAgrees' OBVIOUS
<1>1. ASSUME NEW w \in Writers, Write(w) PROVE FreshAgrees' BY <1>1, WriteStale DEF FreshAgrees
<1>2. ASSUME NEW s \in Stickers, RelabelUnsynced(s) PROVE FreshAgrees'
  <2>1. search' = [search EXCEPT !.fresh = FALSE] BY <1>2 DEF RelabelUnsynced
  <2>2. search \in SearchStates BY DEF TypeOK, SearchStates
  <2> QED BY <2>1, <2>2 DEF FreshAgrees, SearchStates
<1>3. ASSUME search' = search, packs' = packs, face' = face, \A s \in Stickers : Live(s)' = Live(s)
      PROVE  FreshAgrees'
  <2>1. PICK query : query = search.query OBVIOUS
  <2>2. PostgresSearch(query)' = PostgresSearch(query) BY <1>3, PostgresFrame
  <2>3. FreshAgrees => (search.pc # "idle" /\ search.fresh => search.found = PostgresSearch(query))
    BY <2>1 DEF FreshAgrees
  <2>4. search'.query = query BY <1>3, <2>1
  <2>5. (search'.pc # "idle" /\ search'.fresh => search'.found = PostgresSearch(query)') => FreshAgrees'
    BY <2>4 DEF FreshAgrees, PostgresSearch
  <2> QED BY <1>3, <2>2, <2>3, <2>5
<1>4. ASSUME UNCHANGED <<db, search>> PROVE FreshAgrees'
  <2>1. \A s \in Stickers : Live(s)' = Live(s) BY <1>4, DbFrame
  <2> QED BY <1>3, <1>4, <2>1 DEF db
<1>5. ASSUME NEW r \in Stickers, PurgeSticker(r) PROVE FreshAgrees'
  <2>1. UNCHANGED <<packs, face, search>> BY <1>5 DEF PurgeSticker
  <2>2. \A s \in Stickers : Live(s)' = Live(s) BY <1>5 DEF PurgeSticker, Live, TypeOK
  <2> QED BY <1>3, <2>1, <2>2
<1>6. CASE SearchStart
  <2>1. UNCHANGED db BY <1>6 DEF SearchStart
  <2>2. \A s \in Stickers : Live(s)' = Live(s) BY <2>1, DbFrame
  <2>3. PICK query \in Queries :
          \/ search' = [pc |-> "verify", query |-> query, found |-> Candidates(query), fresh |-> IndexCurrent]
          \/ search' = [pc |-> "shown", query |-> query, found |-> PostgresSearch(query), fresh |-> TRUE]
    BY <1>6 DEF SearchStart
  <2>4. search'.query = query /\ (search'.fresh => search'.found = PostgresSearch(query))
    <3>1. CASE search' = [pc |-> "verify", query |-> query, found |-> Candidates(query), fresh |-> IndexCurrent]
      <4>1. search'.query = query BY <3>1, Zenon
      <4>2. search'.fresh = IndexCurrent /\ search'.found = Candidates(query) BY <3>1, Zenon
      <4> QED BY <4>1, <4>2, CurrentCandidates, Zenon
    <3>2. CASE search' = [pc |-> "shown", query |-> query, found |-> PostgresSearch(query), fresh |-> TRUE]
      BY <3>2
    <3> QED BY <2>3, <3>1, <3>2
  <2>5. PostgresSearch(query)' = PostgresSearch(query) BY <2>1, <2>2, PostgresFrame DEF db
  <2> QED BY <2>4, <2>5 DEF FreshAgrees, PostgresSearch
<1>7. CASE SearchVerify
  <2>1. UNCHANGED db BY <1>7 DEF SearchVerify
  <2>2. \A s \in Stickers : Live(s)' = Live(s) BY <2>1, DbFrame
  <2>3. PICK query : query = search.query OBVIOUS
  <2>4. /\ search.pc = "verify" /\ search'.query = query /\ search'.fresh = search.fresh
        /\ search'.found = Verified(search.found, query)
    BY <1>7, <2>3 DEF SearchVerify, TypeOK
  <2>5. PostgresSearch(query)' = PostgresSearch(query) BY <2>1, <2>2, PostgresFrame DEF db
  <2>6. \A s \in PostgresSearch(query) : Visible(s) /\ face[s] \in query BY DEF PostgresSearch, FirstOf
  <2>7. Verified(PostgresSearch(query), query) = PostgresSearch(query) BY <2>6 DEF Verified
  <2>8. search.fresh => search.found = PostgresSearch(query) BY <2>3, <2>4 DEF FreshAgrees
  <2>9. search'.fresh => search'.found = PostgresSearch(query) BY <2>4, <2>7, <2>8
  <2> QED BY <2>4, <2>5, <2>9 DEF FreshAgrees, PostgresSearch
<1>8. CASE SearchEnd BY <1>8 DEF SearchEnd, SearchIdle, FreshAgrees
<1>9. ASSUME NEW w \in Writers, Sync(w) \/ SyncFails(w) PROVE UNCHANGED <<db, search>>
  BY <1>9 DEF Sync, SyncRead, SyncSend, SyncFails
<1>10. CASE ReconcileStart \/ Reconcile \/ ReconcileFails
  <2>1. UNCHANGED <<db, search>>
    BY <1>10 DEF ReconcileStart, Reconcile, ReconcileRead, ReconcileSend, ReconcileScan, ReconcileDelete, ReconcileFails
  <2> QED BY <1>4, <2>1
<1>11. CASE UNCHANGED vars BY <1>4, <1>11 DEF vars, db
<1> QED BY <1>1, <1>2, <1>3, <1>4, <1>6, <1>7, <1>8, <1>9, <1>10, <1>11, <1>5 DEF Next

(* "callers get identical results either way": a search that found the index
   current, and during which nobody has written, shows what Postgres would. *)
THEOREM BothSearchesAgree == Spec => []SearchesAgree
<1>1. Init => FreshAgrees BY DEF Init, FreshAgrees, SearchIdle
<1>2. FreshAgrees => SearchesAgree BY DEF FreshAgrees, SearchesAgree
<1> QED BY <1>1, <1>2, FreshStep, TypeCorrect, PTL DEF Spec
=============================================================================
