------------------------------ MODULE SearchIndex ------------------------------
(***************************************************************************)
(* The OpenSearch index beside the database. Every write of a pack or a    *)
(* sticker is followed by a sync of the packs it touched, which reads the  *)
(* pack and then sends the index what it read; every 15 minutes a          *)
(* reconcile reads all live stickers in batches, indexes them and deletes  *)
(* every other document. A search takes its candidates from the index and  *)
(* looks them up in the database again.                                    *)
(*                                                                         *)
(* Stickers are numbered in the order of their ids, which is also the      *)
(* order of results. face stands for what a query looks at in a sticker    *)
(* besides its pack: name, rating, imported or not; a query is the set of  *)
(* faces it accepts. The user who searches owns the packs in Own.          *)
(*                                                                         *)
(* drifted and alone are not the code's: they tell whether something has   *)
(* happened that only a reconcile repairs, and whether the reconcile in    *)
(* progress has run undisturbed.                                           *)
(***************************************************************************)
EXTENDS Integers, FiniteSets

CONSTANTS
  Total,       \* ids for stickers
  Packs,
  PackOf,      \* the pack of each sticker
  Own,         \* packs of the user who searches
  First,       \* stickers that are there when the index is set up
  Faces,
  Queries,     \* for each query, the faces it accepts
  AtOnce,      \* handlers that write packs and stickers at one time
  BatchSize,   \* bulkBatchSize
  Limit,       \* results a search shows
  MaxWrites,   \* writes of one behaviour
  MaxFaults    \* requests that fail in one behaviour

Stickers == 1 .. Total
Writers == 1 .. AtOnce

ASSUME SearchAssumption ==
  /\ Total \in Nat /\ AtOnce \in Nat /\ MaxWrites \in Nat /\ MaxFaults \in Nat
  /\ BatchSize \in Nat \ {0} /\ Limit \in Nat \ {0}
  /\ PackOf \in [Stickers -> Packs]
  /\ Own \subseteq Packs /\ First \subseteq Stickers /\ Queries \subseteq SUBSET Faces
  /\ {"none", "skip"} \intersect Faces = {}

VARIABLES
  packs,      \* Pack rows
  stickers,   \* Sticker rows
  face,       \* the searchable columns of Sticker rows
  index,      \* the documents of the index
  writer,     \* handlers that write, up to the end of their sync
  reconcile,  \* reconcileSearchIndex
  search,     \* a search
  drifted,    \* a sync failed, overlapped with another step, or was not made
  alone,      \* nothing else has happened since the reconcile began
  writes,
  faults

db == <<packs, stickers, face>>
ghosts == <<drifted, alone>>
vars == <<packs, stickers, face, index, writer, reconcile, search, drifted, alone, writes, faults>>

Absent == [public |-> FALSE, face |-> "none"]
Docs == [public : BOOLEAN, face : Faces] \union {Absent}

(* A bulk request: a document to index, a document to delete, or nothing. *)
Skip == [public |-> FALSE, face |-> "skip"]
Bulks == [Stickers -> Docs \union {Skip}]
NoBulk == [s \in Stickers |-> Skip]

WriterIdle == [pc |-> "idle", todo |-> {}, bulk |-> NoBulk]
ReconcileIdle == [pc |-> "idle", cursor |-> 0, live |-> {}, stale |-> {}, bulk |-> NoBulk]
SearchIdle == [pc |-> "idle", query |-> {}, found |-> {}, fresh |-> FALSE]

TypeOK ==
  /\ packs \in [Packs -> {"private", "public", "deleted"}]
  /\ stickers \in [Stickers -> {"none", "live", "deleted"}]
  /\ face \in [Stickers -> Faces]
  /\ index \in [Stickers -> Docs]
  /\ writer \in [Writers -> [pc : {"idle", "read", "send"}, todo : SUBSET Packs, bulk : Bulks]]
  /\ reconcile \in [pc : {"idle", "read", "send", "scan", "delete"}, cursor : 0 .. Total,
                    live : SUBSET Stickers, stale : SUBSET Stickers, bulk : Bulks]
  /\ search \in [pc : {"idle", "verify", "shown"}, query : SUBSET Faces, found : SUBSET Stickers,
                 fresh : BOOLEAN]
  /\ drifted \in BOOLEAN /\ alone \in BOOLEAN
  /\ writes \in 0 .. MaxWrites /\ faults \in 0 .. MaxFaults

-----------------------------------------------------------------------------
(* What the index should say. *)

Live(s) == stickers[s] = "live" /\ packs[PackOf[s]] # "deleted"

(* Slip: the searchable columns are left out. *)
DocumentUnnamed(s) == [public |-> packs[PackOf[s]] = "public", face |-> "none"]

Document(s) == [public |-> packs[PackOf[s]] = "public", face |-> face[s]]
Proper(s) == IF Live(s) THEN Document(s) ELSE Absent
IndexCurrent == \A s \in Stickers : index[s] = Proper(s)

(* The index is set up, empty, beside a database that may not be. *)
Init ==
  /\ packs = [p \in Packs |-> "private"]
  /\ stickers = [s \in Stickers |-> IF s \in First THEN "live" ELSE "none"]
  /\ face \in [Stickers -> Faces]
  /\ index = [s \in Stickers |-> Absent]
  /\ writer = [w \in Writers |-> WriterIdle]
  /\ reconcile = ReconcileIdle
  /\ search = SearchIdle
  /\ drifted = ~IndexCurrent
  /\ alone = FALSE
  /\ writes = 0 /\ faults = 0

-----------------------------------------------------------------------------
(* Writes through the searchable store. *)

WritersIdle == \A w \in Writers : writer[w].pc = "idle"

(* The write of handler w is committed; the packs it touched are to be synced.
   It disturbs a reconcile in progress, and the syncs of other handlers. A
   handler is named by the first number that is free. *)
Written(w, touched) ==
  /\ writer[w].pc = "idle"
  /\ \A v \in Writers : v < w => writer[v].pc # "idle"
  /\ writes < MaxWrites
  /\ writes' = writes + 1
  /\ writer' = [writer EXCEPT ![w] = [WriterIdle EXCEPT !.pc = "read", !.todo = touched]]
  /\ drifted' = (drifted \/ ~WritersIdle \/ reconcile.pc # "idle")
  /\ alone' = FALSE
  /\ search' = [search EXCEPT !.fresh = FALSE]
  /\ UNCHANGED <<index, reconcile, faults>>

CreateSticker(w, s) ==
  /\ stickers[s] = "none"
  /\ packs[PackOf[s]] # "deleted"
  /\ stickers' = [stickers EXCEPT ![s] = "live"]
  /\ \E f \in Faces : face' = [face EXCEPT ![s] = f]
  /\ Written(w, {PackOf[s]})
  /\ UNCHANGED packs

(* A rename, a rating, or the soft deletion of one sticker. *)
UpdateSticker(w, s) ==
  /\ Live(s)
  /\ \/ /\ stickers' = [stickers EXCEPT ![s] = "deleted"]
        /\ UNCHANGED face
     \/ /\ \E f \in Faces \ {face[s]} : face' = [face EXCEPT ![s] = f]
        /\ UNCHANGED stickers
  /\ Written(w, {PackOf[s]})
  /\ UNCHANGED packs

UpdatePack(w, p) ==
  /\ packs[p] # "deleted"
  /\ packs' = [packs EXCEPT ![p] = IF @ = "public" THEN "private" ELSE "public"]
  /\ Written(w, {p})
  /\ UNCHANGED <<stickers, face>>

(* A transaction: the pack and all its stickers are soft-deleted. *)
DeletePack(w, p) ==
  /\ packs[p] # "deleted"
  /\ packs' = [packs EXCEPT ![p] = "deleted"]
  /\ stickers' = [s \in Stickers |-> IF PackOf[s] = p /\ stickers[s] = "live" THEN "deleted" ELSE stickers[s]]
  /\ Written(w, {p})
  /\ UNCHANGED face

(* The transaction of an import removes and brings back stickers in several
   packs, and touches those. *)
ImportStickers(w) ==
  \E changed \in SUBSET {s \in Stickers : stickers[s] # "none" /\ packs[PackOf[s]] # "deleted"} :
    /\ changed # {}
    /\ stickers' = [s \in Stickers |->
                      IF s \in changed THEN (IF stickers[s] = "live" THEN "deleted" ELSE "live")
                      ELSE stickers[s]]
    /\ Written(w, {PackOf[s] : s \in changed})
    /\ UNCHANGED <<packs, face>>

(* Writes that bypass the store: an import changes the emoji or the place of a
   TelegramSticker, which are part of the name of the stickers that mirror it;
   a sweep purges rows that have been deleted for so long that the handler that
   deleted them has returned. *)
RelabelUnsynced(s) ==
  /\ writes < MaxWrites
  /\ Live(s)
  /\ \E f \in Faces \ {face[s]} : face' = [face EXCEPT ![s] = f]
  /\ writes' = writes + 1
  /\ drifted' = TRUE
  /\ alone' = FALSE
  /\ search' = [search EXCEPT !.fresh = FALSE]
  /\ UNCHANGED <<packs, stickers, index, writer, reconcile, faults>>

PurgeSticker(s) ==
  /\ WritersIdle
  /\ stickers[s] = "deleted"
  /\ stickers' = [stickers EXCEPT ![s] = "none"]
  /\ UNCHANGED <<packs, face, index, writer, reconcile, search, ghosts, writes, faults>>

-----------------------------------------------------------------------------
(* syncPackToSearchIndex, for one touched pack after the other. *)

Send(bulk) == [s \in Stickers |-> IF bulk[s] = Skip THEN index[s] ELSE bulk[s]]

(* Slip: the stickers are read with deletedAt: null, as elsewhere. *)
LiveBulk(p) ==
  [s \in Stickers |-> IF PackOf[s] # p \/ (packs[p] # "deleted" /\ stickers[s] # "live") THEN Skip ELSE Proper(s)]

(* A deleted pack loses every document that names it; of another pack, the
   rows that exist are indexed or deleted. *)
PackBulk(p) ==
  [s \in Stickers |-> IF PackOf[s] # p THEN Skip
                      ELSE IF packs[p] # "deleted" /\ stickers[s] = "none" THEN Skip
                      ELSE Proper(s)]

SyncRead(w) ==
  /\ writer[w].pc = "read"
  /\ \E p \in writer[w].todo :
       writer' = [writer EXCEPT ![w] = [pc |-> "send", todo |-> writer[w].todo \ {p}, bulk |-> PackBulk(p)]]
  /\ UNCHANGED <<db, index, reconcile, search, ghosts, writes, faults>>

Synced(w, rest) == [writer EXCEPT ![w] = IF rest = {} THEN WriterIdle ELSE [WriterIdle EXCEPT !.pc = "read", !.todo = rest]]

SyncSend(w) ==
  /\ writer[w].pc = "send"
  /\ index' = Send(writer[w].bulk)
  /\ writer' = Synced(w, writer[w].todo)
  /\ UNCHANGED <<db, reconcile, search, ghosts, writes, faults>>

(* A request fails, or is applied in part, and is logged; or the process dies
   and with it the rest of the syncs. *)
SyncFails(w) ==
  /\ faults < MaxFaults
  /\ faults' = faults + 1
  /\ drifted' = TRUE /\ alone' = FALSE
  /\ \/ \E p \in writer[w].todo :
          /\ writer[w].pc = "read"
          /\ \E rest \in {writer[w].todo \ {p}, {}} : writer' = Synced(w, rest)
          /\ UNCHANGED index
     \/ /\ writer[w].pc = "send"
        /\ \E applied \in SUBSET Stickers :
             index' = Send([s \in Stickers |-> IF s \in applied THEN writer[w].bulk[s] ELSE Skip])
        /\ \E rest \in {writer[w].todo, {}} : writer' = Synced(w, rest)
  /\ UNCHANGED <<db, reconcile, search, writes>>

-----------------------------------------------------------------------------
(* reconcileSearchIndex *)

FirstOf(set, n) == {s \in set : Cardinality({t \in set : t < s}) < n}

ReconcileGoTo(await) == reconcile' = [reconcile EXCEPT !.pc = await]

ReconcileStart ==
  /\ reconcile.pc = "idle"
  /\ reconcile' = [ReconcileIdle EXCEPT !.pc = "read"]
  /\ drifted' = (drifted \/ ~WritersIdle)
  /\ alone' = WritersIdle
  /\ UNCHANGED <<db, index, writer, search, writes, faults>>

(* The stickers from the cursor on, less the first of them: the one the cursor
   names, unless that has been deleted in the meantime. *)
Remaining ==
  LET from == {s \in Stickers : Live(s) /\ s >= reconcile.cursor}
  IN  {s \in from : reconcile.cursor = 0 \/ \E t \in from : t < s}

ReconcileRead ==
  LET batch == FirstOf(Remaining, BatchSize)
  IN  /\ reconcile.pc = "read"
      /\ IF Remaining = {}
           THEN ReconcileGoTo("scan")
           ELSE \E last \in batch :
                  /\ \A s \in batch : s <= last
                  /\ reconcile' = [pc |-> "send", cursor |-> last, live |-> reconcile.live \union batch,
                                   stale |-> {}, bulk |-> [s \in Stickers |-> IF s \in batch THEN Document(s) ELSE Skip]]
      /\ UNCHANGED <<db, index, writer, search, ghosts, writes, faults>>

(* Slip: what the index has already is not sent again. *)
ReconcileSendMissing ==
  /\ reconcile.pc = "send"
  /\ index' = Send([s \in Stickers |-> IF index[s] = Absent THEN reconcile.bulk[s] ELSE Skip])
  /\ reconcile' = [reconcile EXCEPT !.pc = "read", !.bulk = NoBulk]
  /\ UNCHANGED <<db, writer, search, ghosts, writes, faults>>

ReconcileSend ==
  /\ reconcile.pc = "send"
  /\ index' = Send(reconcile.bulk)
  /\ reconcile' = [reconcile EXCEPT !.pc = "read", !.bulk = NoBulk]
  /\ UNCHANGED <<db, writer, search, ghosts, writes, faults>>

ReconcileScan ==
  /\ reconcile.pc = "scan"
  /\ reconcile' = [reconcile EXCEPT !.pc = "delete",
                     !.stale = {s \in Stickers : index[s] # Absent} \ reconcile.live]
  /\ UNCHANGED <<db, index, writer, search, ghosts, writes, faults>>

ReconcileDelete ==
  /\ reconcile.pc = "delete"
  /\ index' = [s \in Stickers |-> IF s \in reconcile.stale THEN Absent ELSE index[s]]
  /\ reconcile' = ReconcileIdle
  /\ drifted' = (drifted /\ ~alone)
  /\ alone' = FALSE
  /\ UNCHANGED <<db, writer, search, writes, faults>>

(* A request fails, or is applied in part, and ends the run. *)
ReconcileFails ==
  /\ faults < MaxFaults
  /\ faults' = faults + 1
  /\ reconcile.pc # "idle"
  /\ \E applied \in SUBSET Stickers :
       index' = CASE reconcile.pc = "send" ->
                       Send([s \in Stickers |-> IF s \in applied THEN reconcile.bulk[s] ELSE Skip])
                  [] reconcile.pc = "delete" ->
                       [s \in Stickers |-> IF s \in reconcile.stale \intersect applied THEN Absent ELSE index[s]]
                  [] OTHER -> index
  /\ reconcile' = ReconcileIdle
  /\ drifted' = TRUE /\ alone' = FALSE
  /\ UNCHANGED <<db, writer, search, writes>>

-----------------------------------------------------------------------------
(* findStickers *)

Visible(s) == Live(s) /\ (packs[PackOf[s]] = "public" \/ PackOf[s] \in Own)

(* searchStickersInPostgres *)
PostgresSearch(query) == FirstOf({s \in Stickers : Visible(s) /\ face[s] \in query}, Limit)

(* Slip: the text is matched only after the index has cut the list. *)
CandidatesOfAnyName(query) ==
  FirstOf({s \in Stickers : index[s] # Absent /\ (index[s].public \/ PackOf[s] \in Own)}, Limit)

(* The visibility rules in the query the index answers. *)
Candidates(query) ==
  FirstOf({s \in Stickers : /\ index[s] # Absent
                            /\ index[s].public \/ PackOf[s] \in Own
                            /\ index[s].face \in query}, Limit)

(* If the index does not answer, Postgres does. *)
SearchStart ==
  /\ search.pc = "idle"
  /\ \E query \in Queries :
       \/ search' = [pc |-> "verify", query |-> query, found |-> Candidates(query), fresh |-> IndexCurrent]
       \/ search' = [pc |-> "shown", query |-> query, found |-> PostgresSearch(query), fresh |-> TRUE]
  /\ UNCHANGED <<db, index, writer, reconcile, ghosts, writes, faults>>

Verified(found, query) == {s \in found : Visible(s) /\ face[s] \in query}

SearchVerify ==
  /\ search.pc = "verify"
  /\ search' = [search EXCEPT !.pc = "shown", !.found = Verified(search.found, search.query)]
  /\ UNCHANGED <<db, index, writer, reconcile, ghosts, writes, faults>>

SearchEnd ==
  /\ search.pc = "shown"
  /\ search' = SearchIdle
  /\ UNCHANGED <<db, index, writer, reconcile, ghosts, writes, faults>>

-----------------------------------------------------------------------------

Write(w) ==
  \/ \E s \in Stickers : CreateSticker(w, s) \/ UpdateSticker(w, s)
  \/ \E p \in Packs : UpdatePack(w, p) \/ DeletePack(w, p)
  \/ ImportStickers(w)
Sync(w) == SyncRead(w) \/ SyncSend(w)
Reconcile == ReconcileRead \/ ReconcileSend \/ ReconcileScan \/ ReconcileDelete

Next ==
  \/ \E w \in Writers : Write(w) \/ Sync(w) \/ SyncFails(w)
  \/ \E s \in Stickers : RelabelUnsynced(s) \/ PurgeSticker(s)
  \/ ReconcileStart \/ Reconcile \/ ReconcileFails
  \/ SearchStart \/ SearchVerify \/ SearchEnd

Spec == Init /\ [][Next]_vars

(* Every request of a sync or of a reconcile is answered or times out, and the
   schedule starts a reconcile again and again. *)
FairSpec ==
  /\ Spec
  /\ \A w \in Writers : WF_vars(Sync(w))
  /\ WF_vars(ReconcileStart) /\ WF_vars(Reconcile)

-----------------------------------------------------------------------------

(* As long as nothing has drifted, the index says what the database says
   whenever no sync is under way: the syncs leave no write out, and a reconcile
   that ran undisturbed has repaired whatever there was to repair. *)
AtRestCurrent ==
  ~drifted /\ WritersIdle /\ reconcile.pc = "idle" => IndexCurrent

(* "callers get identical results either way", if the index was current when it
   was asked and nobody has written since. *)
SearchesAgree ==
  search.pc = "shown" /\ search.fresh => search.found = PostgresSearch(search.query)

(* "the periodic reconcile repairs it": once writes and faults have ceased, the
   index comes to say what the database says, and keeps saying it. *)
Converges == <>[]IndexCurrent
=============================================================================
