--------------------------- MODULE PublishPackProofs ---------------------------
(* Proofs about PublishPack for any number of packs and stickers: one public  *)
(* copy at most, imports spare existing ratings, never expose what they       *)
(* create, and what publishing promises when handlers do not overlap.         *)
EXTENDS PublishPack, TLAPS

PackStates == {"unused", "private", "public", "deleted"}

LEMMA PacksType ==
  ASSUME TypeOK, Next
  PROVE  packs' \in [Packs -> PackStates]
<1> USE DEF TypeOK, PackStates, handlers
<1>1. ASSUME NEW p \in Packs, EditWrite(p) PROVE packs' \in [Packs -> PackStates]
  <2>1. edit[p] \in {"private", "public"} BY <1>1 DEF EditWrite
  <2> QED BY <1>1, <2>1 DEF EditWrite
<1>2. ASSUME NEW p \in Packs,
             \/ Subscribe(p) \/ DeletePack(p) \/ (\E r \in Rows : RateSticker(p, r) \/ PurgeSticker(p, r))
             \/ PublishPackRead(p) \/ PublishStickers(p) \/ PublishExisting(p) \/ PublishUpdate(p) \/ EditRead(p)
      PROVE  packs' \in [Packs -> PackStates]
  BY <1>2 DEF Subscribe, DeletePack, RateSticker, PurgeSticker, PublishPackRead, PublishStickers,
       PublishExisting, PublishUpdate, EditRead, PublishGoTo
<1>3. CASE ImpRead \/ ImpCommit \/ ImpAbort BY <1>3 DEF ImpRead, ImpCommit, ImpAbort, PacksAfterImport
<1> QED BY <1>1, <1>2, <1>3 DEF Next

LEMMA StickersType ==
  ASSUME TypeOK, Next
  PROVE  stickers' \in [Stickers -> {"none", "live", "deleted"}]
<1> USE DEF TypeOK, handlers
<1>1. ASSUME NEW p \in Packs, DeletePack(p) PROVE stickers' \in [Stickers -> {"none", "live", "deleted"}]
  BY <1>1 DEF DeletePack
<1>2. ASSUME NEW p \in Packs, NEW r \in Rows, PurgeSticker(p, r)
      PROVE  stickers' \in [Stickers -> {"none", "live", "deleted"}]
  BY <1>2 DEF PurgeSticker
<1>3. CASE ImpCommit BY <1>3 DEF ImpCommit, StickersAfterImport
<1>4. ASSUME NEW p \in Packs,
             \/ Subscribe(p) \/ (\E r \in Rows : RateSticker(p, r))
             \/ PublishPackRead(p) \/ PublishStickers(p) \/ PublishExisting(p) \/ PublishUpdate(p)
             \/ EditRead(p) \/ EditWrite(p)
      PROVE  stickers' = stickers
  BY <1>4 DEF Subscribe, RateSticker, PublishPackRead, PublishStickers, PublishExisting, PublishUpdate,
       EditRead, EditWrite, PublishGoTo
<1>5. CASE ImpRead \/ ImpAbort BY <1>5 DEF ImpRead, ImpAbort
<1> QED BY <1>1, <1>2, <1>3, <1>4, <1>5 DEF Next

LEMMA RatedType ==
  ASSUME TypeOK, Next
  PROVE  rated' \subseteq {s \in Stickers : stickers'[s] # "none"}
<1> USE DEF TypeOK, handlers
<1>1. ASSUME NEW p \in Packs, DeletePack(p) PROVE rated' \subseteq {s \in Stickers : stickers'[s] # "none"}
  BY <1>1 DEF DeletePack
<1>2. ASSUME NEW p \in Packs, NEW r \in Rows, RateSticker(p, r) \/ PurgeSticker(p, r)
      PROVE  rated' \subseteq {s \in Stickers : stickers'[s] # "none"}
  <2>1. <<p, r>> \in Stickers BY DEF Stickers
  <2> QED BY <1>2, <2>1 DEF RateSticker, PurgeSticker, Shown
<1>3. CASE ImpCommit
  <2>1. rated' = rated \union {s \in Missing : s[2] \in imp.seeds} BY <1>3 DEF ImpCommit, RatedAfterImport
  <2>2. ASSUME NEW s \in rated PROVE s \in Stickers /\ stickers'[s] # "none"
    BY <1>3 DEF ImpCommit, StickersAfterImport
  <2>3. ASSUME NEW s \in Missing PROVE s \in Stickers /\ stickers'[s] # "none"
    <3>1. s \in Stickers /\ s[1] \in imp.subscribers /\ s[2] \in imp.served BY DEF Missing, Stickers
    <3> QED BY <1>3, <3>1 DEF ImpCommit, StickersAfterImport
  <2> QED BY <2>1, <2>2, <2>3
<1>4. ASSUME NEW p \in Packs,
             \/ Subscribe(p) \/ PublishPackRead(p) \/ PublishStickers(p) \/ PublishExisting(p)
             \/ PublishUpdate(p) \/ EditRead(p) \/ EditWrite(p)
      PROVE  UNCHANGED <<stickers, rated>>
  BY <1>4 DEF Subscribe, PublishPackRead, PublishStickers, PublishExisting, PublishUpdate, EditRead,
       EditWrite, PublishGoTo
<1>5. CASE ImpRead \/ ImpAbort BY <1>5 DEF ImpRead, ImpAbort
<1> QED BY <1>1, <1>2, <1>3, <1>4, <1>5 DEF Next

LEMMA HandlersType ==
  ASSUME TypeOK, Next
  PROVE  /\ publish' \in [Packs -> {"idle", "stickers", "existing", "update"}]
         /\ edit' \in [Packs -> {"idle", "private", "public"}]
<1> USE DEF TypeOK, handlers
<1>1. ASSUME NEW p \in Packs, EditRead(p)
      PROVE  edit' \in [Packs -> {"idle", "private", "public"}] /\ publish' = publish
  BY <1>1 DEF EditRead, Exists
<1>2. ASSUME NEW p \in Packs,
             PublishPackRead(p) \/ PublishStickers(p) \/ PublishExisting(p) \/ PublishUpdate(p) \/ EditWrite(p)
      PROVE  /\ publish' \in [Packs -> {"idle", "stickers", "existing", "update"}]
             /\ edit' \in [Packs -> {"idle", "private", "public"}]
  BY <1>2 DEF PublishPackRead, PublishStickers, PublishExisting, PublishUpdate, EditWrite, PublishGoTo
<1>3. ASSUME NEW p \in Packs,
             \/ Subscribe(p) \/ DeletePack(p) \/ (\E r \in Rows : RateSticker(p, r) \/ PurgeSticker(p, r))
      PROVE  UNCHANGED <<publish, edit>>
  BY <1>3 DEF Subscribe, DeletePack, RateSticker, PurgeSticker
<1>4. CASE ImpRead \/ ImpCommit \/ ImpAbort BY <1>4 DEF ImpRead, ImpCommit, ImpAbort
<1> QED BY <1>1, <1>2, <1>3, <1>4 DEF Next

ImpStates ==
  [pc : {"idle", "commit"}, served : SUBSET Rows, seeds : SUBSET Rows,
   subscribers : SUBSET Packs, public : SUBSET Packs]

LEMMA ImpType ==
  ASSUME TypeOK, Next
  PROVE  imp' \in ImpStates
<1> USE DEF TypeOK, ImpStates, handlers
<1>1. CASE ImpRead BY <1>1 DEF ImpRead, Published
<1>2. CASE ImpCommit \/ ImpAbort BY <1>2 DEF ImpCommit, ImpAbort, ImpIdle
<1>3. ASSUME NEW p \in Packs,
             \/ Subscribe(p) \/ DeletePack(p) \/ (\E r \in Rows : RateSticker(p, r) \/ PurgeSticker(p, r))
             \/ PublishPackRead(p) \/ PublishStickers(p) \/ PublishExisting(p) \/ PublishUpdate(p)
             \/ EditRead(p) \/ EditWrite(p)
      PROVE  imp' = imp
  BY <1>3 DEF Subscribe, DeletePack, RateSticker, PurgeSticker, PublishPackRead, PublishStickers,
       PublishExisting, PublishUpdate, EditRead, EditWrite, PublishGoTo
<1> QED BY <1>1, <1>2, <1>3 DEF Next

LEMMA OverlappedType ==
  ASSUME TypeOK, Next
  PROVE  overlapped' \in BOOLEAN
<1>1. overlapped' = ~Quiet \/ overlapped' = overlapped
  BY DEF Next, Subscribe, DeletePack, RateSticker, PurgeSticker, PublishPackRead, PublishStickers,
    PublishExisting, PublishUpdate, EditRead, EditWrite, ImpRead, ImpCommit, ImpAbort, HandlerStarts
<1>2. Quiet \in BOOLEAN BY DEF Quiet
<1> QED BY <1>1, <1>2 DEF TypeOK

LEMMA TypeStep == TypeOK /\ [Next]_vars => TypeOK'
<1> SUFFICES ASSUME TypeOK, [Next]_vars PROVE TypeOK' OBVIOUS
<1>1. CASE Next BY <1>1, PacksType, StickersType, RatedType, HandlersType, ImpType, OverlappedType DEF TypeOK, PackStates, ImpStates, Stickers
<1>2. CASE UNCHANGED vars
  <2>1. overlapped' \in BOOLEAN BY <1>2 DEF TypeOK, vars
  <2> QED BY <1>2, <2>1 DEF TypeOK, vars, Stickers
<1> QED BY <1>1, <1>2

LEMMA TypeInit == Init => TypeOK
<1> SUFFICES ASSUME Init PROVE TypeOK OBVIOUS
<1>1. overlapped \in BOOLEAN BY DEF Init
<1> QED BY <1>1 DEF Init, TypeOK, ImpIdle

(* Every state is well typed. *)
THEOREM TypeCorrect == Spec => []TypeOK
<1>1. Init => TypeOK BY TypeInit
<1> QED BY <1>1, TypeStep, PTL DEF Spec

-----------------------------------------------------------------------------
(* At most one pack of a Telegram set is public. *)
THEOREM OneCopy == Spec => []OnePublishedCopy
<1> DEFINE Inv == TypeOK /\ OnePublishedCopy
<1>1. Init => Inv BY TypeInit DEF Init, OnePublishedCopy, Published
<1>2. Inv /\ [Next]_vars => OnePublishedCopy'
  <2> SUFFICES ASSUME TypeOK, OnePublishedCopy, [Next]_vars, NEW p \in Published', NEW q \in Published'
               PROVE  p = q
    BY DEF OnePublishedCopy
  <2> USE DEF TypeOK, handlers, OnePublishedCopy, Published
  <2>1. ASSUME NEW x \in Packs, PublishUpdate(x) PROVE p = q BY <2>1 DEF PublishUpdate, IndexAllows
  <2>2. ASSUME NEW x \in Packs, EditWrite(x) PROVE p = q BY <2>2 DEF EditWrite, IndexAllows
  <2>3. ASSUME NEW x \in Packs, Subscribe(x) \/ DeletePack(x) PROVE p = q BY <2>3 DEF Subscribe, DeletePack
  <2>4. CASE ImpCommit BY <2>4 DEF ImpCommit, PacksAfterImport
  <2>5. ASSUME NEW x \in Packs,
               \/ \E r \in Rows : RateSticker(x, r) \/ PurgeSticker(x, r)
               \/ PublishPackRead(x) \/ PublishStickers(x) \/ PublishExisting(x) \/ EditRead(x)
        PROVE  p = q
    BY <2>5 DEF RateSticker, PurgeSticker, PublishPackRead, PublishStickers, PublishExisting, EditRead, PublishGoTo
  <2>6. CASE ImpRead \/ ImpAbort \/ UNCHANGED vars BY <2>6 DEF ImpRead, ImpAbort, vars
  <2> QED BY <2>1, <2>2, <2>3, <2>4, <2>5, <2>6 DEF Next
<1> QED BY <1>1, <1>2, TypeStep, PTL DEF Spec, Inv

(* An import changes no rating of a row it finds. *)
THEOREM EditsSurvive == Spec => OwnEditsSurvive
<1> DEFINE Spared == imp.pc = "commit" /\ imp'.pc = "idle" =>
                       \A s \in Stickers : stickers[s] # "none" => (s \in rated' <=> s \in rated)
<1>1. TypeOK /\ [Next]_vars => Spared
  <2> SUFFICES ASSUME TypeOK, [Next]_vars, imp.pc = "commit", imp'.pc = "idle", NEW s \in Stickers, stickers[s] # "none"
               PROVE  s \in rated' <=> s \in rated
    OBVIOUS
  <2>1. CASE ImpCommit BY <2>1 DEF ImpCommit, RatedAfterImport, Missing
  <2>2. CASE ImpAbort \/ UNCHANGED vars BY <2>2 DEF ImpAbort, vars
  <2>3. ASSUME NEW p \in Packs,
               \/ Subscribe(p) \/ DeletePack(p) \/ (\E r \in Rows : RateSticker(p, r) \/ PurgeSticker(p, r))
               \/ PublishPackRead(p) \/ PublishStickers(p) \/ PublishExisting(p) \/ PublishUpdate(p)
               \/ EditRead(p) \/ EditWrite(p)
        PROVE  imp' = imp
    BY <2>3 DEF Subscribe, DeletePack, RateSticker, PurgeSticker, PublishPackRead, PublishStickers,
         PublishExisting, PublishUpdate, EditRead, EditWrite, PublishGoTo, handlers
  <2>4. CASE ImpRead BY <2>4 DEF ImpRead
  <2> QED BY <2>1, <2>2, <2>3, <2>4 DEF Next
<1>2. Spec => [][Spared]_vars BY <1>1, TypeCorrect, PTL DEF Spec
<1> QED BY <1>2 DEF OwnEditsSurvive

-----------------------------------------------------------------------------
(* As long as handlers do not overlap, what a handler has read is still so when
   it writes. *)

OneHandler ==
  /\ \A p, q \in Packs : publish[p] # "idle" =>
       imp.pc = "idle" /\ edit[q] = "idle" /\ (p # q => publish[q] = "idle")
  /\ \A p, q \in Packs : edit[p] # "idle" =>
       imp.pc = "idle" /\ publish[q] = "idle" /\ (p # q => edit[q] = "idle")

ReadsHold ==
  /\ \A p \in Packs : publish[p] \in {"existing", "update"} => Unrated(p) = {}
  /\ \A p \in Packs : edit[p] = "public" => packs[p] = "public"

AloneInv == TypeOK /\ (~overlapped => OneHandler /\ ReadsHold)

StartsNow ==
  \/ \E p \in Packs :
       \/ Subscribe(p) \/ DeletePack(p) \/ (\E r \in Rows : RateSticker(p, r) \/ PurgeSticker(p, r))
       \/ PublishPackRead(p) \/ EditRead(p)
  \/ ImpRead

(* Where handlers do not overlap after a step, either they did not before, or
   the step starts a handler when none is in flight. *)
LEMMA OverlapStep ==
  ASSUME TypeOK, [Next]_vars, ~overlapped'
  PROVE  IF StartsNow THEN Quiet ELSE ~overlapped
<1>1. CASE StartsNow
  BY <1>1 DEF StartsNow, Subscribe, DeletePack, RateSticker, PurgeSticker, PublishPackRead, EditRead,
       ImpRead, HandlerStarts
<1>2. CASE ~StartsNow
  <2>1. \/ \E p \in Packs : PublishStickers(p) \/ PublishExisting(p) \/ PublishUpdate(p) \/ EditWrite(p)
        \/ ImpCommit \/ ImpAbort \/ UNCHANGED vars
    BY <1>2 DEF Next, StartsNow
  <2> QED BY <1>2, <2>1 DEF PublishStickers, PublishExisting, PublishUpdate, EditWrite, ImpCommit, ImpAbort, vars
<1> QED BY <1>1, <1>2

LEMMA OneHandlerStep ==
  ASSUME TypeOK, [Next]_vars, IF StartsNow THEN Quiet ELSE OneHandler
  PROVE  OneHandler'
<1> USE DEF TypeOK
<1>1. CASE StartsNow
  <2>0. Quiet BY <1>1
  <2>1. ASSUME NEW p \in Packs,
               \/ Subscribe(p) \/ DeletePack(p) \/ (\E r \in Rows : RateSticker(p, r) \/ PurgeSticker(p, r))
        PROVE  OneHandler'
    BY <2>0, <2>1 DEF Subscribe, DeletePack, RateSticker, PurgeSticker, handlers, Quiet, OneHandler
  <2>2. ASSUME NEW p \in Packs, PublishPackRead(p) PROVE OneHandler'
    BY <2>0, <2>2 DEF PublishPackRead, PublishGoTo, Quiet, OneHandler
  <2>3. ASSUME NEW p \in Packs, EditRead(p) PROVE OneHandler'
    BY <2>0, <2>3 DEF EditRead, Quiet, OneHandler
  <2>4. CASE ImpRead BY <2>0, <2>4 DEF ImpRead, Quiet, OneHandler
  <2> QED BY <1>1, <2>1, <2>2, <2>3, <2>4 DEF StartsNow
<1>2. CASE ~StartsNow
  <2>0. OneHandler BY <1>2
  <2>1. ASSUME NEW p \in Packs, PublishStickers(p) \/ PublishExisting(p) \/ PublishUpdate(p) PROVE OneHandler'
    BY <2>0, <2>1 DEF PublishStickers, PublishExisting, PublishUpdate, PublishGoTo, OneHandler
  <2>2. ASSUME NEW p \in Packs, EditWrite(p) PROVE OneHandler' BY <2>0, <2>2 DEF EditWrite, OneHandler
  <2>3. CASE ImpCommit \/ ImpAbort BY <2>0, <2>3 DEF ImpCommit, ImpAbort, ImpIdle, OneHandler
  <2>4. CASE UNCHANGED vars BY <2>0, <2>4 DEF vars, OneHandler
  <2> QED BY <1>2, <2>1, <2>2, <2>3, <2>4 DEF Next, StartsNow
<1> QED BY <1>1, <1>2

LEMMA ReadsHoldStep ==
  ASSUME TypeOK, [Next]_vars, IF StartsNow THEN Quiet ELSE OneHandler /\ ReadsHold
  PROVE  ReadsHold'
<1> USE DEF TypeOK
<1>1. CASE StartsNow
  <2>0. Quiet BY <1>1
  <2>1. ASSUME NEW p \in Packs,
               \/ Subscribe(p) \/ DeletePack(p) \/ (\E r \in Rows : RateSticker(p, r) \/ PurgeSticker(p, r))
        PROVE  ReadsHold'
    BY <2>0, <2>1 DEF Subscribe, DeletePack, RateSticker, PurgeSticker, handlers, Quiet, ReadsHold
  <2>2. ASSUME NEW p \in Packs, PublishPackRead(p) PROVE ReadsHold'
    BY <2>0, <2>2 DEF PublishPackRead, PublishGoTo, Quiet, ReadsHold
  <2>3. ASSUME NEW p \in Packs, EditRead(p) PROVE ReadsHold'
    BY <2>0, <2>3 DEF EditRead, Quiet, ReadsHold
  <2>4. CASE ImpRead BY <2>0, <2>4 DEF ImpRead, Quiet, ReadsHold
  <2> QED BY <1>1, <2>1, <2>2, <2>3, <2>4 DEF StartsNow
<1>2. CASE ~StartsNow
  <2>0. OneHandler /\ ReadsHold BY <1>2
  <2>1. ASSUME NEW p \in Packs, PublishStickers(p) \/ PublishExisting(p) PROVE ReadsHold'
    BY <2>0, <2>1 DEF PublishStickers, PublishExisting, PublishGoTo, Unrated, Shown, ReadsHold
  <2>2. ASSUME NEW p \in Packs, PublishUpdate(p) PROVE ReadsHold'
    BY <2>0, <2>2 DEF PublishUpdate, Unrated, Shown, ReadsHold, OneHandler
  <2>3. ASSUME NEW p \in Packs, EditWrite(p) PROVE ReadsHold'
    BY <2>0, <2>3 DEF EditWrite, Unrated, Shown, ReadsHold, OneHandler
  <2>4. CASE ImpCommit \/ ImpAbort
    <3>1. CASE imp.pc = "commit" BY <2>0, <2>4, <3>1 DEF ImpCommit, ImpAbort, ReadsHold, OneHandler
    <3> QED BY <2>4, <3>1 DEF ImpCommit, ImpAbort
  <2>5. CASE UNCHANGED vars BY <2>0, <2>5 DEF vars, Unrated, Shown, ReadsHold
  <2> QED BY <1>2, <2>1, <2>2, <2>3, <2>4, <2>5 DEF Next, StartsNow
<1> QED BY <1>1, <1>2

LEMMA AloneCorrect == Spec => []AloneInv
<1>1. Init => AloneInv BY TypeInit DEF Init, AloneInv, OneHandler, ReadsHold, ImpIdle
<1>2. AloneInv /\ [Next]_vars => AloneInv'
  <2> SUFFICES ASSUME AloneInv, [Next]_vars, ~overlapped' PROVE OneHandler' /\ ReadsHold'
    BY TypeStep DEF AloneInv
  <2>1. IF StartsNow THEN Quiet ELSE OneHandler /\ ReadsHold BY OverlapStep DEF AloneInv
  <2> QED BY <2>1, OneHandlerStep, ReadsHoldStep DEF AloneInv
<1> QED BY <1>1, <1>2, PTL DEF Spec

(* As long as handlers do not overlap, only packs whose stickers are all rated
   become public. *)
THEOREM Reviewed == Spec => PublishedIsReviewed
<1> DEFINE Step == ~overlapped => \A p \in Packs : packs[p] # "public" /\ packs'[p] = "public" => Unrated(p)' = {}
<1>1. AloneInv /\ [Next]_vars => Step
  <2> SUFFICES ASSUME AloneInv, [Next]_vars, ~overlapped, NEW p \in Packs, packs[p] # "public", packs'[p] = "public"
               PROVE  Unrated(p)' = {}
    OBVIOUS
  <2> USE DEF AloneInv, TypeOK, handlers
  <2>1. ASSUME NEW x \in Packs, PublishUpdate(x) PROVE Unrated(p)' = {}
    <3>1. p = x BY <2>1 DEF PublishUpdate
    <3> QED BY <2>1, <3>1 DEF PublishUpdate, ReadsHold, Unrated, Shown
  <2>2. ASSUME NEW x \in Packs, EditWrite(x) PROVE FALSE
    <3>1. p = x /\ edit[x] = "public" BY <2>2 DEF EditWrite
    <3> QED BY <3>1 DEF ReadsHold
  <2>3. ASSUME NEW x \in Packs,
               \/ Subscribe(x) \/ DeletePack(x) \/ (\E r \in Rows : RateSticker(x, r) \/ PurgeSticker(x, r))
               \/ PublishPackRead(x) \/ PublishStickers(x) \/ PublishExisting(x) \/ EditRead(x)
        PROVE  FALSE
    BY <2>3 DEF Subscribe, DeletePack, RateSticker, PurgeSticker, PublishPackRead, PublishStickers,
         PublishExisting, EditRead, PublishGoTo
  <2>4. CASE ImpRead \/ ImpCommit \/ ImpAbort \/ UNCHANGED vars
    BY <2>4 DEF ImpRead, ImpCommit, ImpAbort, PacksAfterImport, vars
  <2> QED BY <2>1, <2>2, <2>3, <2>4 DEF Next
<1>2. Spec => []AloneInv BY AloneCorrect
<1>3. Spec => [][Step]_vars BY <1>1, <1>2, PTL DEF Spec
<1> QED BY <1>3 DEF PublishedIsReviewed

(* What an import has read of the packs, when nothing else is under way. *)
ImportKnows == imp.pc = "commit" => imp.subscribers = {p \in Packs : Exists(p)} /\ imp.public = Published

LEMMA ImportKnowsStep ==
  ASSUME TypeOK, [Next]_vars, IF StartsNow THEN Quiet ELSE OneHandler /\ ImportKnows
  PROVE  ImportKnows'
<1> USE DEF TypeOK
<1>1. CASE StartsNow
  <2>0. Quiet BY <1>1
  <2>1. ASSUME NEW p \in Packs,
               \/ Subscribe(p) \/ DeletePack(p) \/ (\E r \in Rows : RateSticker(p, r) \/ PurgeSticker(p, r))
               \/ PublishPackRead(p) \/ EditRead(p)
        PROVE  imp'.pc # "commit"
    BY <2>0, <2>1 DEF Subscribe, DeletePack, RateSticker, PurgeSticker, PublishPackRead, PublishGoTo, EditRead,
         handlers, Quiet
  <2>2. CASE ImpRead BY <2>2 DEF ImpRead, ImportKnows, Exists, Published
  <2> QED BY <1>1, <2>1, <2>2 DEF StartsNow, ImportKnows
<1>2. CASE ~StartsNow
  <2>0. OneHandler /\ ImportKnows BY <1>2
  <2>1. ASSUME NEW p \in Packs, PublishStickers(p) \/ PublishExisting(p) \/ PublishUpdate(p) PROVE imp'.pc # "commit"
    BY <2>0, <2>1 DEF PublishStickers, PublishExisting, PublishUpdate, PublishGoTo, OneHandler
  <2>2. ASSUME NEW p \in Packs, EditWrite(p) PROVE imp'.pc # "commit" BY <2>0, <2>2 DEF EditWrite, OneHandler
  <2>3. CASE ImpCommit \/ ImpAbort BY <2>3 DEF ImpCommit, ImpAbort, ImpIdle, ImportKnows
  <2>4. CASE UNCHANGED vars BY <2>0, <2>4 DEF vars, ImportKnows, Exists, Published
  <2> QED BY <1>2, <2>1, <2>2, <2>3, <2>4 DEF Next, StartsNow, ImportKnows
<1> QED BY <1>1, <1>2

(* As long as handlers do not overlap, an import makes a public pack private
   in the same transaction in which it creates an unrated sticker there. *)
THEOREM NothingNewExposed == Spec => CreatedNeverExposed
<1> DEFINE Step == ~overlapped =>
                     \A p \in Packs, r \in Rows :
                       stickers[<<p, r>>] = "none" /\ r \in Unrated(p)' => packs'[p] # "public"
           Knows == ~overlapped => ImportKnows
<1>1. Init => Knows BY DEF Init, ImportKnows, ImpIdle
<1>2. AloneInv /\ Knows /\ [Next]_vars => Knows'
  <2> SUFFICES ASSUME AloneInv, Knows, [Next]_vars, ~overlapped' PROVE ImportKnows'
    OBVIOUS
  <2>1. IF StartsNow THEN Quiet ELSE OneHandler /\ ImportKnows BY OverlapStep DEF AloneInv
  <2> QED BY <2>1, ImportKnowsStep DEF AloneInv
<1>3. AloneInv /\ Knows /\ [Next]_vars => Step
  <2> SUFFICES ASSUME AloneInv, ImportKnows, [Next]_vars, NEW p \in Packs, NEW r \in Rows,
                      stickers[<<p, r>>] = "none", r \in Unrated(p)', packs'[p] = "public"
               PROVE  FALSE
    OBVIOUS
  <2> USE DEF AloneInv, TypeOK, handlers
  <2>0. <<p, r>> \in Stickers /\ stickers'[<<p, r>>] = "live" BY DEF Unrated, Shown, Stickers
  <2>1. ASSUME NEW x \in Packs,
               \/ Subscribe(x) \/ (\E q \in Rows : RateSticker(x, q)) \/ PublishPackRead(x) \/ PublishStickers(x)
               \/ PublishExisting(x) \/ PublishUpdate(x) \/ EditRead(x) \/ EditWrite(x)
        PROVE  UNCHANGED stickers
    BY <2>1 DEF Subscribe, RateSticker, PublishPackRead, PublishStickers, PublishExisting, PublishUpdate, EditRead,
         EditWrite, PublishGoTo
  <2>2. ASSUME NEW x \in Packs, DeletePack(x) PROVE FALSE BY <2>0, <2>2 DEF DeletePack
  <2>3. ASSUME NEW x \in Packs, NEW q \in Rows, PurgeSticker(x, q) PROVE FALSE BY <2>0, <2>3 DEF PurgeSticker
  <2>4. CASE ImpCommit
    <3>1. p \in imp.subscribers /\ r \in imp.served
      BY <2>0, <2>4 DEF ImpCommit, StickersAfterImport
    <3>2. <<p, r>> \in Missing BY <3>1 DEF Missing
    <3>3. imp.public = Published BY <2>4 DEF ImpCommit, ImportKnows
    <3>4. packs'[p] = IF p \in imp.public /\ Exists(p) /\ (\E s \in Missing : s[1] = p) THEN "private" ELSE packs[p]
      BY <2>4 DEF ImpCommit, PacksAfterImport
    <3>5. packs[p] = "public" BY <3>4
    <3> QED BY <3>2, <3>3, <3>4, <3>5 DEF Published, Exists
  <2>5. CASE ImpRead \/ ImpAbort \/ UNCHANGED vars BY <2>0, <2>5 DEF ImpRead, ImpAbort, vars
  <2> QED BY <2>0, <2>1, <2>2, <2>3, <2>4, <2>5 DEF Next
<1>4. Spec => [][Step]_vars BY <1>1, <1>2, <1>3, AloneCorrect, PTL DEF Spec
<1> QED BY <1>4 DEF CreatedNeverExposed
=============================================================================
