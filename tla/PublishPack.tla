------------------------------ MODULE PublishPack ------------------------------
(***************************************************************************)
(* Publishing imported packs. The packs that mirror one Telegram sticker   *)
(* set start private; an owner publishes one after rating every sticker,   *)
(* and only one copy of a set may be public. Ratings are edited, packs are *)
(* edited and deleted, and imports add, restore and remove stickers, each  *)
(* in a handler of its own that reads first and writes some awaits later.  *)
(*                                                                         *)
(* Two rows that matter here are abstracted: a Sticker row is named by its *)
(* pack and the TelegramSticker it mirrors, and is rated when its          *)
(* nsfwOverride is not null. That a name may be unfit for publishing is    *)
(* left to the owner's changing mind: PublishStickers may always give up.  *)
(* One variable is not the code's: overlapped tells whether the handlers   *)
(* in flight have seen another one start, which is when what they have     *)
(* read may be out of date.                                                *)
(***************************************************************************)
CONSTANTS
  Packs,      \* packs of the users who import the set, one per user
  Rows        \* TelegramSticker rows of the set

VARIABLES
  packs,      \* Pack rows
  stickers,   \* Sticker rows
  rated,      \* the Sticker rows that have an nsfwOverride
  publish,    \* the await of each owner's publishConfirm handler
  edit,       \* the visibility each owner's edit-pack handler is to write
  imp,        \* phase 2 of the import handler
  overlapped  \* a handler started while another one was in flight

handlers == <<publish, edit, imp>>
vars == <<packs, stickers, rated, publish, edit, imp, overlapped>>

Stickers == Packs \X Rows
ImpIdle == [pc |-> "idle", served |-> {}, seeds |-> {}, subscribers |-> {}, public |-> {}]

TypeOK ==
  /\ packs \in [Packs -> {"unused", "private", "public", "deleted"}]
  /\ stickers \in [Stickers -> {"none", "live", "deleted"}]
  /\ rated \subseteq {s \in Stickers : stickers[s] # "none"}
  /\ publish \in [Packs -> {"idle", "stickers", "existing", "update"}]
  /\ edit \in [Packs -> {"idle", "private", "public"}]
  /\ imp \in [pc : {"idle", "commit"}, served : SUBSET Rows, seeds : SUBSET Rows,
              subscribers : SUBSET Packs, public : SUBSET Packs]
  /\ overlapped \in BOOLEAN

Init ==
  /\ packs = [p \in Packs |-> "unused"]
  /\ stickers = [s \in Stickers |-> "none"]
  /\ rated = {}
  /\ publish = [p \in Packs |-> "idle"]
  /\ edit = [p \in Packs |-> "idle"]
  /\ imp = ImpIdle
  /\ overlapped = FALSE

Exists(p) == packs[p] \in {"private", "public"}
Published == {p \in Packs : packs[p] = "public"}
Shown(p) == {r \in Rows : stickers[<<p, r>>] = "live"}
Unrated(p) == {r \in Shown(p) : <<p, r>> \notin rated}

Quiet == imp.pc = "idle" /\ \A p \in Packs : publish[p] = "idle" /\ edit[p] = "idle"

(* A handler starts: of those of several steps, the first one. *)
HandlerStarts == overlapped' = ~Quiet

(* Pack_telegramPackId_public_unique, the partial unique index over the public
   packs of a Telegram pack that are not deleted. *)
IndexAllows(p) == Published \subseteq {p}

-----------------------------------------------------------------------------
(* Steps that read and write in one go. *)

Subscribe(p) ==
  /\ HandlerStarts
  /\ packs[p] = "unused"
  /\ packs' = [packs EXCEPT ![p] = "private"]
  /\ UNCHANGED <<stickers, rated, handlers>>

DeletePack(p) ==
  /\ HandlerStarts
  /\ Exists(p)
  /\ packs' = [packs EXCEPT ![p] = "deleted"]
  /\ stickers' = [s \in Stickers |-> IF s[1] = p /\ stickers[s] = "live" THEN "deleted" ELSE stickers[s]]
  /\ UNCHANGED <<rated, handlers>>

(* The metadata modal sets a rating or puts it back to the pack's default,
   whether the pack is public or not. *)
RateSticker(p, r) ==
  /\ HandlerStarts
  /\ r \in Shown(p)
  /\ rated' \in {rated \union {<<p, r>>}, rated \ {<<p, r>>}}
  /\ UNCHANGED <<packs, stickers, handlers>>

(* Slip: the label outlives its row. *)
PurgeRowOnly(p, r) ==
  /\ HandlerStarts
  /\ stickers[<<p, r>>] = "deleted"
  /\ stickers' = [stickers EXCEPT ![<<p, r>>] = "none"]
  /\ UNCHANGED <<packs, rated, handlers>>

(* hardDeleteOldStickers, for one sticker. *)
PurgeSticker(p, r) ==
  /\ HandlerStarts
  /\ stickers[<<p, r>>] = "deleted"
  /\ stickers' = [stickers EXCEPT ![<<p, r>>] = "none"]
  /\ rated' = rated \ {<<p, r>>}
  /\ UNCHANGED <<packs, handlers>>

-----------------------------------------------------------------------------
(* publishConfirm: three reads, then the write. *)

PublishGoTo(p, await) ==
  /\ publish' = [publish EXCEPT ![p] = await]
  /\ UNCHANGED <<packs, stickers, rated, edit, imp>>

PublishPackRead(p) ==
  /\ HandlerStarts
  /\ publish[p] = "idle"
  /\ packs[p] = "private"
  /\ PublishGoTo(p, "stickers")

(* Slip: one rated sticker is enough. *)
PublishSomeRated(p) ==
  /\ UNCHANGED overlapped
  /\ publish[p] = "stickers"
  /\ \/ Shown(p) # Unrated(p) /\ PublishGoTo(p, "existing")
     \/ PublishGoTo(p, "idle")

PublishStickers(p) ==
  /\ UNCHANGED overlapped
  /\ publish[p] = "stickers"
  /\ \/ Shown(p) # {} /\ Unrated(p) = {} /\ PublishGoTo(p, "existing")
     \/ PublishGoTo(p, "idle")

PublishExisting(p) ==
  /\ UNCHANGED overlapped
  /\ publish[p] = "existing"
  /\ PublishGoTo(p, IF Published = {} THEN "update" ELSE "idle")

(* Slip: without the index, the check made before is trusted. *)
PublishTrustingTheCheck(p) ==
  /\ publish[p] = "update"
  /\ packs' = IF Exists(p) THEN [packs EXCEPT ![p] = "public"] ELSE packs
  /\ publish' = [publish EXCEPT ![p] = "idle"]
  /\ UNCHANGED <<stickers, rated, edit, imp, overlapped>>

(* The write throws if the index refuses it, and changes nothing of a pack that
   was deleted meanwhile that anybody sees. *)
PublishUpdate(p) ==
  /\ publish[p] = "update"
  /\ packs' = IF Exists(p) /\ IndexAllows(p) THEN [packs EXCEPT ![p] = "public"] ELSE packs
  /\ publish' = [publish EXCEPT ![p] = "idle"]
  /\ UNCHANGED <<stickers, rated, edit, imp, overlapped>>

-----------------------------------------------------------------------------
(* editPackModalHandler, on an imported pack: it writes public only where it
   has read public, and where the owner chose so. *)

EditRead(p) ==
  /\ HandlerStarts
  /\ edit[p] = "idle"
  /\ Exists(p)
  /\ edit' \in {[edit EXCEPT ![p] = "private"], [edit EXCEPT ![p] = packs[p]]}
  /\ UNCHANGED <<packs, stickers, rated, publish, imp>>

EditWrite(p) ==
  /\ edit[p] # "idle"
  /\ packs' = IF Exists(p) /\ (edit[p] = "public" => IndexAllows(p))
                THEN [packs EXCEPT ![p] = edit[p]] ELSE packs
  /\ edit' = [edit EXCEPT ![p] = "idle"]
  /\ UNCHANGED <<stickers, rated, publish, imp, overlapped>>

-----------------------------------------------------------------------------
(* Phase 2 of the import: the transaction reads the published copy and the
   subscriber packs, and then writes to every subscriber. *)

ImpRead ==
  /\ HandlerStarts
  /\ imp.pc = "idle"
  /\ \E served \in SUBSET Rows :
       imp' = [pc |-> "commit", served |-> served,
               seeds |-> {r \in Rows : \E p \in Published : r \in Shown(p) \ Unrated(p)},
               subscribers |-> {p \in Packs : Exists(p)}, public |-> Published]
  /\ UNCHANGED <<packs, stickers, rated, publish, edit>>

(* The sticker rows the import is to create. *)
Missing == {s \in imp.subscribers \X imp.served : stickers[s] = "none"}

StickersAfterImport ==
  [s \in Stickers |->
     IF s[1] \notin imp.subscribers THEN stickers[s]
     ELSE IF s[2] \in imp.served THEN "live"
     ELSE IF stickers[s] = "live" THEN "deleted"
     ELSE stickers[s]]

(* New rows take the published copy's rating; a restored row keeps its own. *)
RatedAfterImport == rated \union {s \in Missing : s[2] \in imp.seeds}

(* Slip: nobody is made private. *)
PacksUntouched == packs

PacksAfterImport ==
  [p \in Packs |-> IF p \in imp.public /\ Exists(p) /\ (\E s \in Missing : s[1] = p)
                     THEN "private" ELSE packs[p]]

ImpCommit ==
  /\ imp.pc = "commit"
  /\ stickers' = StickersAfterImport
  /\ rated' = RatedAfterImport
  /\ packs' = PacksAfterImport
  /\ imp' = ImpIdle
  /\ UNCHANGED <<publish, edit, overlapped>>

ImpAbort ==
  /\ imp.pc = "commit"
  /\ imp' = ImpIdle
  /\ UNCHANGED <<packs, stickers, rated, publish, edit, overlapped>>

-----------------------------------------------------------------------------

Next ==
  \/ \E p \in Packs :
       \/ Subscribe(p) \/ DeletePack(p)
       \/ \E r \in Rows : RateSticker(p, r) \/ PurgeSticker(p, r)
       \/ PublishPackRead(p) \/ PublishStickers(p) \/ PublishExisting(p) \/ PublishUpdate(p)
       \/ EditRead(p) \/ EditWrite(p)
  \/ ImpRead \/ ImpCommit \/ ImpAbort

Spec == Init /\ [][Next]_vars

-----------------------------------------------------------------------------

(* "at most one published (public) copy per Telegram pack", with the check of
   publishConfirm out of date as often as not. *)
OnePublishedCopy == \A p, q \in Published : p = q

(* "existing rows are never touched, so nobody's own edits are overwritten": an
   import changes the rating of no row it finds, live or soft-deleted. *)
OwnEditsSurvive ==
  [][imp.pc = "commit" /\ imp'.pc = "idle" =>
       \A s \in Stickers : stickers[s] # "none" => (s \in rated' <=> s \in rated)]_vars

(* A pack that becomes public has been reviewed: none of its stickers lacks a
   rating at that moment, unless handlers overlap. *)
PublishedIsReviewed ==
  [][~overlapped =>
       \A p \in Packs : packs[p] # "public" /\ packs'[p] = "public" => Unrated(p)' = {}]_vars

(* "Unpublish ... instead of silently exposing an unrated sticker": a row that
   an import creates without a rating is never in a pack that stays public,
   unless handlers overlap. *)
CreatedNeverExposed ==
  [][~overlapped =>
       \A p \in Packs, r \in Rows :
         stickers[<<p, r>>] = "none" /\ r \in Unrated(p)' => packs'[p] # "public"]_vars

-----------------------------------------------------------------------------
(* What a comment of the code promises and the code does not keep. *)

(* The same promise of an import as CreatedNeverExposed, for every sticker it
   puts into a public pack, restored ones included. *)
ImportExposesNothingUnrated ==
  [][~overlapped /\ imp.pc = "commit" /\ imp'.pc = "idle" =>
       \A p \in Packs : packs'[p] = "public" => Unrated(p)' \subseteq Unrated(p)]_vars
=============================================================================
