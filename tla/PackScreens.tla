------------------------------ MODULE PackScreens ------------------------------
(***************************************************************************)
(* The messages with buttons that lead through the stickers of one pack:   *)
(* the review before publishing and the mass edit show one sticker at a    *)
(* time, the pack preview a page of them. A press starts a handler that    *)
(* reads, and answers some awaits later by replacing the message; several  *)
(* presses may be in flight and answer in any order, while other handlers  *)
(* rate, delete, insert and reorder the stickers.                          *)
(*                                                                         *)
(* A sticker whose name is unfit for publishing counts as unrated here.    *)
(* Variables and fields that are not the code's: seen and excused follow   *)
(* one walk through the pack, steady tells whether the pack has changed    *)
(* since a handler read it, and changes counts the changes to the pack, up *)
(* to MaxChanges.                                                          *)
(***************************************************************************)
EXTENDS Integers, Sequences, FiniteSets, SequencesExt

CONSTANTS
  Stickers,
  PerPage,      \* packItemsPerPage
  Presses,      \* handlers that may be in flight
  MaxChanges,
  None

ASSUME ScreensAssumption ==
  IsFiniteSet(Stickers) /\ None \notin Stickers /\ PerPage \in Nat \ {0} /\ MaxChanges \in Nat

VARIABLES
  flow,         \* what was opened: "review", "massEdit", "pages"
  safe,         \* the preview was opened by /pack, not by /nsfw-pack
  list,         \* the live stickers in their order
  rating,       \* nsfwOverride, "unset" for null
  public,       \* the pack is public
  screen,       \* the message
  handler,
  seen,         \* stickers shown since the message was opened
  excused,      \* stickers the walk may miss
  changes

vars == <<flow, safe, list, rating, public, screen, handler, seen, excused, changes>>
packVars == <<flow, safe, list, rating, public, changes>>

Ratings == {"unset", "sfw", "nsfw"}
Steps == {"prev", "next"}
Leaps == {"first", "last"}
Ops == Steps \union Leaps \union {"open", "edit", "replace", "jump", "confirm"}

Blank == [kind |-> "none", at |-> None, index |-> 0, total |-> 0, ready |-> FALSE, rating |-> "unset", shown |-> {}]
Idle == [pc |-> "idle", op |-> "open", at |-> None, index |-> 0, total |-> 0, value |-> "unset",
         touched |-> FALSE, steady |-> TRUE, answer |-> Blank]

Screens == [kind : {"none", "sticker", "done", "page"}, at : Stickers \union {None}, index : Nat, total : Nat,
            ready : BOOLEAN, rating : Ratings, shown : SUBSET Stickers]

Handlers == [pc : {"idle", "sticker", "modal", "reread", "write", "list", "count", "find", "check", "publish", "respond"},
             op : Ops, at : Stickers \union {None}, index : Nat, total : Nat, value : Ratings,
             touched : BOOLEAN, steady : BOOLEAN, answer : Screens]

TypeOK ==
  /\ flow \in {"review", "massEdit", "pages"} /\ safe \in BOOLEAN
  /\ list \in Seq(Stickers) /\ IsInjective(list)
  /\ rating \in [Stickers -> Ratings]
  /\ public \in BOOLEAN
  /\ screen \in Screens
  /\ screen.kind \in {"sticker", "page"} => screen.index \in 1 .. screen.total
  /\ handler \in [Presses -> Handlers]
  /\ seen \subseteq Stickers /\ excused \subseteq Stickers
  /\ changes \in 0 .. MaxChanges

Init ==
  /\ flow \in {"review", "massEdit", "pages"}
  /\ safe \in BOOLEAN
  /\ flow # "pages" => ~safe
  /\ \E live \in SUBSET Stickers : list \in SetToSeqs(live)
  /\ \E v \in Ratings : rating = [s \in Stickers |-> v]
  /\ public = FALSE
  /\ screen = Blank
  /\ handler = [h \in Presses |-> Idle]
  /\ seen = {} /\ excused = {}
  /\ changes = 0

-----------------------------------------------------------------------------
(* The contents of the message. *)

Live == ToSet(list)
Ready(s) == rating[s] # "unset"
AllReady == \A s \in Live : Ready(s)

StickerContent(i) ==
  [kind |-> "sticker", at |-> list[i], index |-> i, total |-> Len(list), ready |-> AllReady,
   rating |-> rating[list[i]], shown |-> {list[i]}]
DoneContent == [kind |-> "done", at |-> None, index |-> 0, total |-> 0, ready |-> AllReady, rating |-> "unset", shown |-> {}]

PositionOf(s) == IF s \in Live THEN CHOOSE i \in DOMAIN list : list[i] = s ELSE 0

(* The sticker before or after the one the button was made for, wherever that
   stands by now; Done past the end, and if it has gone. *)
StepContent(at, op) ==
  LET current == PositionOf(at)
      target == IF op # "prev" THEN current + 1 ELSE IF current > 1 THEN current - 1 ELSE 1
  IN  IF current = 0 \/ target > Len(list) THEN DoneContent ELSE StickerContent(target)

JumpToInvalidContent ==
  LET invalid == {i \in DOMAIN list : ~Ready(list[i])}
  IN  IF invalid = {} THEN DoneContent ELSE StickerContent(CHOOSE i \in invalid : \A j \in invalid : i <= j)

(* getNonNsfwStickerFilter *)
VisibleAt == {i \in DOMAIN list : safe => rating[list[i]] # "nsfw"}
Visible == {list[i] : i \in VisibleAt}
Ahead(i) == Cardinality({j \in VisibleAt : j < i})

(* Pages count from 1 here, from 0 in the code. *)
PagesOf(n) == IF n = 0 THEN 1 ELSE (n + PerPage - 1) \div PerPage
PageContent(page, pages) ==
  [kind |-> "page", at |-> None, index |-> page, total |-> pages, ready |-> FALSE, rating |-> "unset",
   shown |-> {list[i] : i \in {j \in VisibleAt : Ahead(j) \in (page - 1) * PerPage .. page * PerPage - 1}}]

RequestedPage(op, index, pages) ==
  CASE op \in {"first", "open"} -> 1 [] op = "last" -> pages [] op = "prev" -> index - 1 [] OTHER -> index + 1

(* Slip: clamped at the first page only. *)
ClampBelow(page, pages) == IF page < 1 THEN 1 ELSE page

Clamp(page, pages) == IF page < 1 THEN 1 ELSE IF page > pages THEN pages ELSE page

-----------------------------------------------------------------------------
(* The commands, and a press of a button the message has and has not disabled. *)

(* publish-imported-pack shows the first sticker, mass-edit-stickers the one
   asked for or the last. *)
StartIndex(start) == IF start > Len(list) THEN Len(list) ELSE start

OpenSticker(start) ==
  /\ screen.kind = "none" /\ flow # "pages"
  /\ flow = "review" => start = 1 /\ ~public
  /\ list # <<>>
  /\ LET i == StartIndex(start)
     IN  /\ screen' = StickerContent(i)
         /\ seen' = {list[i]}
         /\ excused' = {list[j] : j \in 1 .. i - 1}
  /\ UNCHANGED <<packVars, handler>>

OpenPages(h) ==
  /\ screen.kind = "none" /\ flow = "pages"
  /\ \A g \in Presses : handler[g].pc = "idle"
  /\ handler' = [handler EXCEPT ![h] = [Idle EXCEPT !.pc = "count"]]
  /\ UNCHANGED <<packVars, screen, seen, excused>>

PublishRow == IF flow # "review" THEN {} ELSE IF screen.ready THEN {"confirm"} ELSE {"jump"}

Enabled(op) ==
  \/ op \in {"prev", "first"} /\ screen.kind \in {"sticker", "page"} /\ screen.index > 1
  \/ op \in {"next", "last"} /\ screen.kind \in {"sticker", "page"} /\ screen.index < screen.total
  \/ op = "edit" /\ screen.kind = "sticker"
  \/ op = "replace" /\ screen.kind = "sticker" /\ flow = "massEdit"
  \/ op \in PublishRow

Press(h, op) ==
  /\ screen.kind # "none"
  /\ handler[h].pc = "idle"
  /\ Enabled(op) /\ (op \in Leaps => flow = "pages")
  /\ handler' = [handler EXCEPT ![h] =
       CASE flow = "pages" -> [Idle EXCEPT !.pc = "count", !.op = op, !.index = screen.index]
         [] op = "confirm" -> [Idle EXCEPT !.pc = "check", !.op = op]
         [] op = "jump" -> [Idle EXCEPT !.pc = "list", !.op = op]
         [] OTHER -> [Idle EXCEPT !.pc = "sticker", !.op = op, !.at = screen.at]]
  /\ excused' = IF op \in {"jump", "last"} THEN Stickers ELSE excused
  /\ UNCHANGED <<packVars, screen, seen>>

-----------------------------------------------------------------------------
(* The handlers. *)

GoTo(h, await) == [handler EXCEPT ![h].pc = await]
Answer(h, content) == [handler EXCEPT ![h] = [Idle EXCEPT !.pc = "respond", !.answer = content]]
Refuse(h) == [handler EXCEPT ![h] = Idle]
HandlerOnly == UNCHANGED <<packVars, screen, seen, excused>>

Begin(h, ops) == handler[h].pc = "sticker" /\ handler[h].op \in ops

(* Prev and Next begin with the sticker the button was made for. *)
StepSticker(h) ==
  /\ Begin(h, Steps)
  /\ handler' = IF handler[h].at \in Live THEN GoTo(h, "list") ELSE Refuse(h)
  /\ HandlerOnly

(* Slip: the modal is filled in from what the message shows. *)
ModalStickerOnScreen(h) ==
  LET r == handler[h] IN
  /\ Begin(h, {"edit", "replace"})
  /\ handler' = IF r.at \notin Live THEN Refuse(h)
                ELSE [handler EXCEPT ![h].pc = "modal", ![h].value = screen.rating, ![h].steady = TRUE]
  /\ HandlerOnly

ModalSticker(h) ==
  LET r == handler[h] IN
  /\ Begin(h, {"edit", "replace"})
  /\ handler' = IF r.at \notin Live THEN Refuse(h)
                ELSE [handler EXCEPT ![h].pc = "modal", ![h].value = rating[r.at], ![h].steady = TRUE]
  /\ HandlerOnly

(* The user sends the modal as it was filled in, with another rating, or not. *)
Submit(h) ==
  LET r == handler[h] IN
  /\ r.pc = "modal"
  /\ \/ handler' = GoTo(h, "reread")
     \/ /\ r.op = "edit" /\ changes < MaxChanges
        /\ \E v \in Ratings \ {r.value} :
             handler' = [handler EXCEPT ![h].pc = "reread", ![h].value = v, ![h].touched = TRUE]
     \/ handler' = Refuse(h)
  /\ HandlerOnly

RereadSticker(h) ==
  /\ handler[h].pc = "reread"
  /\ handler' = IF handler[h].at \in Live THEN GoTo(h, "write") ELSE Refuse(h)
  /\ HandlerOnly

(* What was read of the pack, and of the sticker a modal is open for, is out
   of date. *)
Outdate(hs, s) ==
  /\ handler' = [h \in Presses |->
       [hs[h] EXCEPT !.steady = @ /\ (hs[h].pc \in {"modal", "reread", "write"} => hs[h].at # s)
                                  /\ hs[h].pc # "find"]]
  /\ UNCHANGED screen

(* The metadata edit writes every field of the modal. *)
EditSticker(h) ==
  LET r == handler[h] IN
  /\ r.pc = "write" /\ r.op = "edit"
  /\ r.touched => changes < MaxChanges
  /\ changes' = IF r.touched THEN changes + 1 ELSE changes
  /\ rating' = [rating EXCEPT ![r.at] = r.value]
  /\ Outdate(GoTo(h, "list"), r.at)
  /\ excused' = IF flow = "pages" THEN Stickers ELSE excused
  /\ UNCHANGED <<flow, safe, list, public, seen>>

(* A replaced file changes nothing that is modelled here. *)
ReplaceFile(h) ==
  /\ handler[h].pc = "write" /\ handler[h].op = "replace"
  /\ handler' = GoTo(h, "list")
  /\ HandlerOnly

(* Slip: the step is taken from the position the message was made for. *)
ReadListByPosition(h) ==
  LET r == handler[h]
      target == IF r.op = "prev" THEN screen.index - 1 ELSE screen.index + 1
  IN
  /\ r.pc = "list"
  /\ handler' = Answer(h, IF r.op = "jump" THEN JumpToInvalidContent
                        ELSE IF target \in DOMAIN list THEN StickerContent(target) ELSE DoneContent)
  /\ HandlerOnly

ReadList(h) ==
  LET r == handler[h] IN
  /\ r.pc = "list"
  /\ handler' = Answer(h, IF r.op = "jump" THEN JumpToInvalidContent ELSE StepContent(r.at, r.op))
  /\ HandlerOnly

(* publishConfirm trusts no button; another published copy is the subject of
   PublishPack. *)
ConfirmCheck(h) ==
  /\ handler[h].pc = "check"
  /\ handler' = IF public \/ list = <<>> \/ ~AllReady THEN Refuse(h) ELSE GoTo(h, "publish")
  /\ HandlerOnly

ConfirmWrite(h) ==
  /\ handler[h].pc = "publish"
  /\ public' = TRUE
  /\ handler' = Refuse(h)
  /\ UNCHANGED <<flow, safe, list, rating, changes, screen, seen, excused>>

CountPages(h) ==
  /\ handler[h].pc = "count"
  /\ handler' = [handler EXCEPT ![h].pc = "find", ![h].total = PagesOf(Cardinality(VisibleAt)), ![h].steady = TRUE]
  /\ HandlerOnly

(* Slip: the page of an old message is taken as it is. *)
FindPageUnclamped(h) ==
  LET r == handler[h] IN
  /\ r.pc = "find"
  /\ handler' = Answer(h, PageContent(RequestedPage(r.op, r.index, r.total), r.total))
  /\ HandlerOnly

FindPage(h) ==
  LET r == handler[h] IN
  /\ r.pc = "find"
  /\ handler' = Answer(h, PageContent(Clamp(RequestedPage(r.op, r.index, r.total), r.total), r.total))
  /\ HandlerOnly

(* interaction.update, and editReply of the command's deferred reply. *)
Respond(h) ==
  /\ handler[h].pc = "respond"
  /\ screen' = handler[h].answer
  /\ seen' = seen \union screen'.shown
  /\ handler' = Refuse(h)
  /\ UNCHANGED <<packVars, excused>>

-----------------------------------------------------------------------------
(* What other handlers do to the pack meanwhile. A step from a sticker that
   was deleted after StepSticker ends the walk early; pages go by position. *)

OnItsWay(s) == \E h \in Presses : handler[h].at = s /\ handler[h].pc \in {"write", "list"}
Chosen == seen \union UNION {handler[h].answer.shown : h \in Presses}
Finding == \E h \in Presses : handler[h].pc = "find"

Change ==
  /\ changes < MaxChanges
  /\ changes' = changes + 1
  /\ UNCHANGED <<flow, safe, public, seen>>

Delete(s) ==
  /\ Change
  /\ s \in Live
  /\ list' = RemoveAt(list, PositionOf(s))
  /\ excused' = IF flow = "pages" \/ OnItsWay(s) THEN Stickers ELSE excused
  /\ Outdate(handler, s)
  /\ UNCHANGED rating

(* A sticker is created at the end, an import brings one back anywhere. *)
Insert(s, i) ==
  /\ Change
  /\ s \notin Live
  /\ list' = InsertAt(list, i, s)
  /\ rating' = [rating EXCEPT ![s] = "unset"]
  /\ excused' = IF s \in Chosen \/ (flow = "pages" /\ (Finding \/ i <= Len(list))) THEN Stickers
                ELSE IF i <= Len(list) THEN excused \union {s} ELSE excused
  /\ Outdate(handler, s)

MoveToFront(s) ==
  /\ Change
  /\ s \in Live
  /\ list' = <<s>> \o RemoveAt(list, PositionOf(s))
  /\ excused' = Stickers
  /\ Outdate(handler, s)
  /\ UNCHANGED rating

Rate(s, v) ==
  /\ Change
  /\ s \in Live
  /\ rating' = [rating EXCEPT ![s] = v]
  /\ excused' = IF flow = "pages" THEN Stickers ELSE excused
  /\ Outdate(handler, s)
  /\ UNCHANGED list

-----------------------------------------------------------------------------

Next ==
  \/ \E start \in 1 .. Len(list) + 1 : OpenSticker(start)
  \/ \E h \in Presses :
       \/ OpenPages(h) \/ (\E op \in Ops : Press(h, op))
       \/ StepSticker(h) \/ ModalSticker(h) \/ Submit(h) \/ RereadSticker(h)
       \/ EditSticker(h) \/ ReplaceFile(h) \/ ReadList(h)
       \/ ConfirmCheck(h) \/ ConfirmWrite(h) \/ CountPages(h) \/ FindPage(h) \/ Respond(h)
  \/ \E s \in Stickers :
       \/ Delete(s) \/ MoveToFront(s)
       \/ \E i \in 1 .. Len(list) + 1 : Insert(s, i)
       \/ \E v \in Ratings \ {rating[s]} : Rate(s, v)

Spec == Init /\ [][Next]_vars

-----------------------------------------------------------------------------

Answers(h) == handler[h].pc \in {"list", "find"} /\ handler'[h].pc = "respond"

(* Whoever follows Next, or edits sticker after sticker, up to the end of the
   pack has been shown every sticker that is then in it, although others delete,
   rate and add stickers meanwhile and although answers overtake each other.
   Excused is a sticker put in before the end; and everything after a reorder, a
   jump, the return of a sticker already shown, or the deletion of one that a
   handler is stepping from. Pages go by position and may leave out what is rated
   NSFW: there a deletion, a rating, or a sticker put in before the end or while a
   handler reads, excuses everything. *)
LastOfAll(a) == a.kind = "done" \/ (a.kind = "page" /\ a.index = a.total)
NothingPassedOver ==
  [][\A h \in Presses : Answers(h) /\ LastOfAll(handler'[h].answer) =>
       Visible \subseteq seen \union handler'[h].answer.shown \union excused]_vars

(* A page is empty only if the pack is, however old the message that was
   pressed, unless the pack changed between the count and the read. *)
PageNeverBlank ==
  [][\A h \in Presses : Answers(h) /\ handler[h].pc = "find" /\ handler[h].steady =>
       (handler'[h].answer.shown = {} => Visible = {})]_vars

(* A modal that is sent as it was filled in changes no rating, unless the
   sticker was edited while the modal was open. *)
UntouchedRatingsStay ==
  [][\A h \in Presses :
       handler[h].pc = "write" /\ handler'[h].pc = "list" /\ handler[h].steady /\ ~handler[h].touched
         => rating' = rating]_vars
=============================================================================
