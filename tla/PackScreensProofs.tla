--------------------------- MODULE PackScreensProofs ---------------------------
(***************************************************************************)
(* Proofs about PackScreens, for any stickers, presses and page size: the  *)
(* types, that a modal sent as it was filled in changes no rating, that no *)
(* page of a pack with stickers is empty, and that whoever goes on to the  *)
(* end has been shown every sticker.                                       *)
(***************************************************************************)
EXTENDS PackScreens, FiniteSetTheorems, SequenceTheorems, TLAPS

-----------------------------------------------------------------------------
(* Sequences and numbers. *)

LEMMA RemoveAtIs ==
  ASSUME NEW l \in Seq(Stickers), NEW k \in 1 .. Len(l)
  PROVE  /\ RemoveAt(l, k) \in Seq(Stickers)
         /\ Len(RemoveAt(l, k)) = Len(l) - 1
         /\ \A i \in 1 .. Len(l) - 1 : RemoveAt(l, k)[i] = IF i < k THEN l[i] ELSE l[i + 1]
<1> DEFINE u == SubSeq(l, 1, k - 1)
           v == SubSeq(l, k + 1, Len(l))
<1>0. Len(l) \in Nat /\ \A i \in 1 .. Len(l) : l[i] \in Stickers
  BY LenProperties, ElementOfSeq
<1>1. u \in Seq(Stickers) /\ Len(u) = k - 1 /\ \A i \in 1 .. k - 1 : u[i] = l[i]
  <2>1. \A i \in 1 .. k - 1 : l[i] \in Stickers
    BY <1>0
  <2>2. /\ u \in Seq(Stickers) /\ Len(u) = IF 1 <= k - 1 THEN k - 1 - 1 + 1 ELSE 0
        /\ \A i \in 1 .. k - 1 - 1 + 1 : u[i] = l[1 + i - 1]
    BY <1>0, <2>1, SubSeqProperties
  <2> QED  BY <1>0, <2>2
<1>2. v \in Seq(Stickers) /\ Len(v) = Len(l) - k /\ \A i \in 1 .. Len(l) - k : v[i] = l[k + i]
  <2>1. \A i \in k + 1 .. Len(l) : l[i] \in Stickers
    BY <1>0
  <2>2. /\ v \in Seq(Stickers) /\ Len(v) = IF k + 1 <= Len(l) THEN Len(l) - (k + 1) + 1 ELSE 0
        /\ \A i \in 1 .. Len(l) - (k + 1) + 1 : v[i] = l[k + 1 + i - 1]
    BY <1>0, <2>1, SubSeqProperties
  <2> QED  BY <1>0, <2>2
<1>3. RemoveAt(l, k) = u \o v
  BY DEF RemoveAt
<1>4. /\ u \o v \in Seq(Stickers) /\ Len(u \o v) = Len(u) + Len(v)
      /\ \A i \in 1 .. Len(u) + Len(v) : (u \o v)[i] = IF i <= Len(u) THEN u[i] ELSE v[i - Len(u)]
  BY <1>1, <1>2, ConcatProperties
<1> HIDE DEF u, v
<1> QED  BY <1>0, <1>1, <1>2, <1>3, <1>4

LEMMA InsertAtIs ==
  ASSUME NEW l \in Seq(Stickers), NEW k \in 1 .. Len(l) + 1, NEW s \in Stickers
  PROVE  /\ InsertAt(l, k, s) \in Seq(Stickers)
         /\ Len(InsertAt(l, k, s)) = Len(l) + 1
         /\ \A i \in 1 .. Len(l) + 1 : InsertAt(l, k, s)[i] = IF i < k THEN l[i] ELSE IF i = k THEN s ELSE l[i - 1]
<1> DEFINE u == SubSeq(l, 1, k - 1)
           v == SubSeq(l, k, Len(l))
           w == u \o <<s>>
<1>0. Len(l) \in Nat /\ \A i \in 1 .. Len(l) : l[i] \in Stickers
  BY LenProperties, ElementOfSeq
<1>1. u \in Seq(Stickers) /\ Len(u) = k - 1 /\ \A i \in 1 .. k - 1 : u[i] = l[i]
  <2>1. \A i \in 1 .. k - 1 : l[i] \in Stickers
    BY <1>0
  <2>2. /\ u \in Seq(Stickers) /\ Len(u) = IF 1 <= k - 1 THEN k - 1 - 1 + 1 ELSE 0
        /\ \A i \in 1 .. k - 1 - 1 + 1 : u[i] = l[1 + i - 1]
    BY <1>0, <2>1, SubSeqProperties
  <2> QED  BY <1>0, <2>2
<1>2. v \in Seq(Stickers) /\ Len(v) = Len(l) - k + 1 /\ \A i \in 1 .. Len(l) - k + 1 : v[i] = l[k + i - 1]
  <2>1. \A i \in k .. Len(l) : l[i] \in Stickers
    BY <1>0
  <2>2. /\ v \in Seq(Stickers) /\ Len(v) = IF k <= Len(l) THEN Len(l) - k + 1 ELSE 0
        /\ \A i \in 1 .. Len(l) - k + 1 : v[i] = l[k + i - 1]
    BY <1>0, <2>1, SubSeqProperties
  <2> QED  BY <1>0, <2>2
<1>3. InsertAt(l, k, s) = w \o v
  BY DEF InsertAt
<1>4. <<s>> \in Seq(Stickers) /\ Len(<<s>>) = 1 /\ <<s>>[1] = s
  OBVIOUS
<1>5. /\ w \in Seq(Stickers) /\ Len(w) = k
      /\ \A i \in 1 .. k : w[i] = IF i < k THEN l[i] ELSE s
  <2> HIDE DEF u, v
  <2>1. /\ w \in Seq(Stickers) /\ Len(w) = Len(u) + Len(<<s>>)
        /\ \A i \in 1 .. Len(u) + Len(<<s>>) : w[i] = IF i <= Len(u) THEN u[i] ELSE <<s>>[i - Len(u)]
    BY <1>1, <1>4, ConcatProperties
  <2> QED  BY <1>0, <1>1, <1>4, <2>1
<1>6. /\ w \o v \in Seq(Stickers) /\ Len(w \o v) = Len(w) + Len(v)
      /\ \A i \in 1 .. Len(w) + Len(v) : (w \o v)[i] = IF i <= Len(w) THEN w[i] ELSE v[i - Len(w)]
  BY <1>2, <1>5, ConcatProperties
<1> HIDE DEF u, v, w
<1> QED  BY <1>0, <1>2, <1>3, <1>5, <1>6

LEMMA Least ==
  ASSUME NEW S \in SUBSET Nat, S # {}
  PROVE  \E i \in S : \A j \in S : i <= j
<1>1. PICK i \in S : \A j \in S : ~ <<j, i>> \in OpToRel(<, Nat)
  BY NatLessThanWellFounded, WFMin
<1>2. \A j \in S : ~ (j < i)
  BY <1>1 DEF OpToRel
<1> QED  BY <1>2

LEMMA Division ==
  ASSUME NEW a \in Nat, NEW b \in Nat \ {0}
  PROVE  a \div b \in Nat /\ b * (a \div b) <= a /\ a < b * (a \div b) + b
  OBVIOUS

-----------------------------------------------------------------------------
(* What the messages hold. *)

LEMMA BlankScreen == Blank \in Screens
<1>1. /\ "none" \in {"none", "sticker", "done", "page"} /\ None \in Stickers \union {None} /\ 0 \in Nat
      /\ "unset" \in Ratings /\ {} \in SUBSET Stickers
  BY DEF Ratings
<1>2. FALSE \in BOOLEAN
  OBVIOUS
<1> QED  BY <1>1, <1>2, Zenon DEF Blank, Screens

LEMMA IdleHandler == Idle \in Handlers
<1>1. /\ "idle" \in {"idle", "sticker", "modal", "reread", "write", "list", "count", "find", "check", "publish", "respond"}
      /\ "open" \in Ops /\ None \in Stickers \union {None} /\ 0 \in Nat /\ "unset" \in Ratings
  BY DEF Ops, Ratings
<1>2. FALSE \in BOOLEAN /\ TRUE \in BOOLEAN
  OBVIOUS
<1> QED  BY <1>1, <1>2, BlankScreen, Zenon DEF Idle, Handlers

LEMMA StickerContentIs ==
  ASSUME TypeOK, NEW i \in DOMAIN list
  PROVE  /\ StickerContent(i) \in Screens
         /\ StickerContent(i).kind = "sticker" /\ StickerContent(i).at = list[i]
         /\ StickerContent(i).index = i /\ StickerContent(i).total = Len(list) /\ i \in 1 .. Len(list)
         /\ StickerContent(i).shown = {list[i]}
<1>1. /\ list[i] \in Stickers /\ i \in Nat /\ Len(list) \in Nat /\ i \in 1 .. Len(list)
      /\ rating[list[i]] \in Ratings /\ {list[i]} \in SUBSET Stickers
  BY LenProperties, ElementOfSeq DEF TypeOK
<1>2. AllReady \in BOOLEAN
  BY DEF AllReady
<1>3. StickerContent(i) \in Screens
  <2>1. "sticker" \in {"none", "sticker", "done", "page"} /\ list[i] \in Stickers \union {None}
    BY <1>1
  <2> QED  BY <1>1, <1>2, <2>1, Zenon DEF Screens, StickerContent
<1> QED  BY <1>1, <1>3 DEF StickerContent

LEMMA DoneContentIs ==
  DoneContent \in Screens /\ DoneContent.kind = "done" /\ DoneContent.shown = {}
<1>1. /\ "done" \in {"none", "sticker", "done", "page"} /\ None \in Stickers \union {None} /\ 0 \in Nat
      /\ "unset" \in Ratings /\ {} \in SUBSET Stickers
  BY DEF Ratings
<1>2. AllReady \in BOOLEAN
  BY DEF AllReady
<1>3. DoneContent \in Screens
  BY <1>1, <1>2, Zenon DEF DoneContent, Screens
<1> QED  BY <1>3 DEF DoneContent

LEMMA PageContentIs ==
  ASSUME TypeOK, NEW page \in Nat, NEW pages \in Nat
  PROVE  /\ PageContent(page, pages) \in Screens
         /\ PageContent(page, pages).kind = "page"
         /\ PageContent(page, pages).index = page /\ PageContent(page, pages).total = pages
         /\ PageContent(page, pages).shown =
              {list[i] : i \in {j \in VisibleAt : Ahead(j) \in (page - 1) * PerPage .. page * PerPage - 1}}
<1> DEFINE shown == {list[i] : i \in {j \in VisibleAt : Ahead(j) \in (page - 1) * PerPage .. page * PerPage - 1}}
<1>1. shown \in SUBSET Stickers
  BY ElementOfSeq, LenProperties DEF TypeOK, VisibleAt
<1> HIDE DEF shown
<1>2. /\ "page" \in {"none", "sticker", "done", "page"} /\ None \in Stickers \union {None}
      /\ "unset" \in Ratings /\ FALSE \in BOOLEAN
  BY DEF Ratings
<1>3. PageContent(page, pages) = [kind |-> "page", at |-> None, index |-> page, total |-> pages, ready |-> FALSE,
                                  rating |-> "unset", shown |-> shown]
  BY Zenon DEF PageContent, shown
<1>4. PageContent(page, pages) \in Screens
  <2>1. [kind |-> "page", at |-> None, index |-> page, total |-> pages, ready |-> FALSE,
         rating |-> "unset", shown |-> shown] \in Screens
    BY <1>1, <1>2, Zenon DEF Screens
  <2> QED  BY <1>3, <2>1, Zenon
<1>5. PageContent(page, pages).shown = shown
  BY DEF PageContent, shown
<1>6. PageContent(page, pages).kind = "page" /\ PageContent(page, pages).index = page /\ PageContent(page, pages).total = pages
  BY DEF PageContent
<1> QED  BY <1>4, <1>5, <1>6 DEF shown

LEMMA PositionIs ==
  ASSUME TypeOK, NEW s
  PROVE  /\ s \in Live => PositionOf(s) \in DOMAIN list /\ list[PositionOf(s)] = s
         /\ s \notin Live => PositionOf(s) = 0
  BY DEF PositionOf, Live, ToSet

(* Where a step from a sticker leads. *)
LEMMA StepContentIs ==
  ASSUME TypeOK, NEW at, NEW op
  PROVE  \/ /\ StepContent(at, op) = DoneContent
            /\ at \in Live => op # "prev" /\ list[Len(list)] = at
         \/ \E i, k \in DOMAIN list :
              /\ StepContent(at, op) = StickerContent(i)
              /\ list[k] = at
              /\ IF op # "prev" THEN i = k + 1 ELSE i <= k
<1>1. Len(list) \in Nat /\ DOMAIN list = 1 .. Len(list)
  BY LenProperties DEF TypeOK
<1>2. CASE at \in Live
  <2> DEFINE k == PositionOf(at)
             target == IF op # "prev" THEN k + 1 ELSE IF k > 1 THEN k - 1 ELSE 1
  <2>1. k \in 1 .. Len(list) /\ list[k] = at
    BY <1>1, <1>2, PositionIs
  <2>2. StepContent(at, op) = IF k = 0 \/ target > Len(list) THEN DoneContent ELSE StickerContent(target)
    BY DEF StepContent
  <2> HIDE DEF k
  <2>3. /\ target \in Nat \ {0}
        /\ op # "prev" => target = k + 1
        /\ op = "prev" => target <= k
    BY <1>1, <2>1
  <2> HIDE DEF target
  <2>4. CASE target > Len(list)
    <3>1. op # "prev" /\ k = Len(list)
      <4>1. k \in Nat /\ k <= Len(list)
        BY <1>1, <2>1
      <4>2. ~(target <= k)
        BY <1>1, <2>3, <2>4, <4>1
      <4>3. op # "prev"
        BY <2>3, <4>2
      <4>4. target = k + 1
        BY <2>3, <4>3
      <4>5. k + 1 > Len(list) /\ Len(list) \in Nat
        BY <1>1, <2>4, <4>4
      <4>6. k = Len(list)
        BY <4>1, <4>5
      <4> QED  BY <4>3, <4>6
    <3> QED  BY <2>1, <2>2, <2>4, <3>1
  <2>5. CASE ~(target > Len(list))
    <3>1. target \in 1 .. Len(list)
      BY <1>1, <2>3, <2>5
    <3>2. StepContent(at, op) = StickerContent(target)
      BY <2>1, <2>2, <2>5
    <3> QED  BY <1>1, <2>1, <2>3, <3>1, <3>2
  <2> QED  BY <2>4, <2>5
<1>3. CASE at \notin Live
  BY <1>3, PositionIs DEF StepContent
<1> QED  BY <1>2, <1>3

LEMMA JumpContentIs ==
  ASSUME TypeOK
  PROVE  JumpToInvalidContent = DoneContent \/ \E i \in DOMAIN list : JumpToInvalidContent = StickerContent(i)
<1> DEFINE invalid == {i \in DOMAIN list : ~Ready(list[i])}
<1>1. JumpToInvalidContent = IF invalid = {} THEN DoneContent
                             ELSE StickerContent(CHOOSE i \in invalid : \A j \in invalid : i <= j)
  BY DEF JumpToInvalidContent
<1>2. invalid \in SUBSET Nat
  BY LenProperties DEF TypeOK
<1>3. invalid \subseteq DOMAIN list
  OBVIOUS
<1> HIDE DEF invalid
<1>4. CASE invalid # {}
  <2>1. \E i \in invalid : \A j \in invalid : i <= j
    BY <1>2, <1>4, Least
  <2>2. (CHOOSE i \in invalid : \A j \in invalid : i <= j) \in invalid
    BY <2>1
  <2> QED  BY <1>1, <1>3, <1>4, <2>2
<1> QED  BY <1>1, <1>4

-----------------------------------------------------------------------------
(* What the actions do to the handlers. *)

Answered(r) ==
  /\ r.pc = "find" => r.total >= 1
  /\ r.answer.kind \in {"sticker", "page"} => r.answer.index \in 1 .. r.answer.total
TypeInv == TypeOK /\ \A h \in Presses : Answered(handler[h])

LEMMA HandlerFields ==
  ASSUME TypeOK, NEW h \in Presses
  PROVE  /\ handler[h].pc \in {"idle", "sticker", "modal", "reread", "write", "list", "count", "find", "check", "publish", "respond"}
         /\ handler[h].op \in Ops /\ handler[h].at \in Stickers \union {None}
         /\ handler[h].index \in Nat /\ handler[h].total \in Nat /\ handler[h].value \in Ratings
         /\ handler[h].touched \in BOOLEAN /\ handler[h].steady \in BOOLEAN /\ handler[h].answer \in Screens
<1>1. handler[h] \in Handlers
  BY DEF TypeOK
<1> QED  BY <1>1, Zenon DEF Handlers

LEMMA ScreenFields ==
  ASSUME NEW c \in Screens
  PROVE  /\ c.kind \in {"none", "sticker", "done", "page"} /\ c.at \in Stickers \union {None}
         /\ c.index \in Nat /\ c.total \in Nat /\ c.ready \in BOOLEAN /\ c.rating \in Ratings /\ c.shown \subseteq Stickers
  BY Zenon DEF Screens

(* One handler goes on. *)
LEMMA GoesOn ==
  ASSUME TypeInv, NEW h \in Presses, NEW r \in Handlers, Answered(r), handler' = [handler EXCEPT ![h] = r]
  PROVE  /\ handler' \in [Presses -> Handlers]
         /\ \A g \in Presses : Answered(handler'[g])
         /\ handler'[h] = r
         /\ \A g \in Presses \ {h} : handler'[g] = handler[g]
<1>1. handler \in [Presses -> Handlers]
  BY DEF TypeInv, TypeOK
<1>2. handler' \in [Presses -> Handlers] /\ handler'[h] = r /\ \A g \in Presses \ {h} : handler'[g] = handler[g]
  BY <1>1
<1>3. \A g \in Presses : Answered(handler'[g])
  BY <1>2 DEF TypeInv
<1> QED  BY <1>2, <1>3

LEMMA GoToIs ==
  ASSUME TypeInv, NEW h \in Presses, NEW pc, handler' = GoTo(h, pc),
         pc \in {"modal", "reread", "write", "list", "publish"}
  PROVE  /\ handler' \in [Presses -> Handlers]
         /\ \A g \in Presses : Answered(handler'[g])
         /\ handler'[h] = [handler[h] EXCEPT !.pc = pc]
         /\ \A g \in Presses \ {h} : handler'[g] = handler[g]
<1> DEFINE r == [handler[h] EXCEPT !.pc = pc]
<1>1. handler[h] \in Handlers
  BY DEF TypeInv, TypeOK
<1>2. r \in Handlers
  BY <1>1, Zenon DEF Handlers
<1>3. r.pc = pc /\ r.total = handler[h].total /\ r.answer = handler[h].answer
  BY <1>1 DEF Handlers
<1>4. Answered(r)
  BY <1>3 DEF TypeInv, Answered
<1>5. handler' = [handler EXCEPT ![h] = r]
  BY DEF GoTo
<1> HIDE DEF r
<1>6. /\ handler' \in [Presses -> Handlers]
      /\ \A g \in Presses : Answered(handler'[g])
      /\ handler'[h] = r
      /\ \A g \in Presses \ {h} : handler'[g] = handler[g]
  BY <1>2, <1>4, <1>5, GoesOn
<1> QED  BY <1>6, Zenon DEF r

LEMMA RefuseIs ==
  ASSUME TypeInv, NEW h \in Presses, handler' = Refuse(h)
  PROVE  /\ handler' \in [Presses -> Handlers]
         /\ \A g \in Presses : Answered(handler'[g])
         /\ handler'[h] = Idle
         /\ \A g \in Presses \ {h} : handler'[g] = handler[g]
<1>1. Answered(Idle)
  BY DEF Answered, Idle, Blank
<1> QED  BY <1>1, IdleHandler, GoesOn DEF Refuse

LEMMA AnswerIs ==
  ASSUME TypeInv, NEW h \in Presses, NEW c \in Screens, handler' = Answer(h, c),
         c.kind \in {"sticker", "page"} => c.index \in 1 .. c.total
  PROVE  /\ handler' \in [Presses -> Handlers]
         /\ \A g \in Presses : Answered(handler'[g])
         /\ handler'[h].pc = "respond" /\ handler'[h].answer = c
         /\ \A g \in Presses \ {h} : handler'[g] = handler[g]
<1> DEFINE r == [Idle EXCEPT !.pc = "respond", !.answer = c]
<1>1. r \in Handlers
  BY IdleHandler DEF Handlers
<1>2. r.pc = "respond" /\ r.answer = c
  BY DEF Idle
<1>3. Answered(r)
  BY <1>2 DEF Answered
<1>4. handler' = [handler EXCEPT ![h] = r]
  BY DEF Answer
<1> HIDE DEF r
<1>5. /\ handler' \in [Presses -> Handlers]
      /\ \A g \in Presses : Answered(handler'[g])
      /\ handler'[h] = r
      /\ \A g \in Presses \ {h} : handler'[g] = handler[g]
  BY <1>1, <1>3, <1>4, GoesOn
<1> QED  BY <1>2, <1>5

(* What the pack's changes do to every handler. *)
Dims(r, q) == /\ q.pc = r.pc /\ q.op = r.op /\ q.at = r.at /\ q.index = r.index /\ q.total = r.total
              /\ q.value = r.value /\ q.touched = r.touched /\ q.answer = r.answer

LEMMA OutdateIs ==
  ASSUME NEW hs \in [Presses -> Handlers], \A g \in Presses : Answered(hs[g]), NEW s, Outdate(hs, s)
  PROVE  /\ handler' \in [Presses -> Handlers]
         /\ \A g \in Presses : Answered(handler'[g])
         /\ \A g \in Presses : /\ Dims(hs[g], handler'[g])
                               /\ handler'[g].steady => /\ hs[g].steady /\ hs[g].pc # "find"
                                                        /\ hs[g].pc \in {"modal", "reread", "write"} => hs[g].at # s
         /\ screen' = screen
<1>1. ASSUME NEW g \in Presses
      PROVE  /\ handler'[g] \in Handlers /\ Answered(handler'[g]) /\ Dims(hs[g], handler'[g])
             /\ handler'[g].steady => /\ hs[g].steady /\ hs[g].pc # "find"
                                      /\ hs[g].pc \in {"modal", "reread", "write"} => hs[g].at # s
  <2> DEFINE b == /\ hs[g].steady
                  /\ (hs[g].pc \in {"modal", "reread", "write"} => hs[g].at # s)
                  /\ hs[g].pc # "find"
             q == [hs[g] EXCEPT !.steady = b]
  <2>1. handler'[g] = q
    BY Zenon DEF Outdate
  <2>2. b \in BOOLEAN
    OBVIOUS
  <2>3. hs[g] \in Handlers
    OBVIOUS
  <2>4. q \in Handlers
    <3> HIDE DEF b
    <3> QED  BY <2>2, <2>3, Zenon DEF Handlers
  <2>5. Dims(hs[g], q)
    <3> HIDE DEF b
    <3> QED  BY <2>3 DEF Handlers, Dims
  <2>6. q.steady = b
    <3> HIDE DEF b
    <3> QED  BY <2>3, Zenon DEF Handlers
  <2>7. Answered(q)
    BY <2>5 DEF Dims, Answered
  <2>8. q.steady => /\ hs[g].steady /\ hs[g].pc # "find"
                    /\ hs[g].pc \in {"modal", "reread", "write"} => hs[g].at # s
    BY <2>6, Zenon
  <2> HIDE DEF q
  <2> QED  BY <2>1, <2>4, <2>5, <2>7, <2>8, Zenon
<1>2. handler' \in [Presses -> Handlers]
  BY <1>1 DEF Outdate
<1> QED  BY <1>1, <1>2, Zenon DEF Outdate

-----------------------------------------------------------------------------
(* Pages and ranks. *)

LEMMA VisibleFinite ==
  ASSUME TypeOK
  PROVE  /\ VisibleAt \in SUBSET (1 .. Len(list)) /\ IsFiniteSet(VisibleAt) /\ Cardinality(VisibleAt) \in Nat
         /\ \A i : Ahead(i) \in Nat /\ Ahead(i) <= Cardinality(VisibleAt)
<1>1. VisibleAt \in SUBSET (1 .. Len(list)) /\ Len(list) \in Nat
  BY LenProperties DEF TypeOK, VisibleAt
<1>2. IsFiniteSet(VisibleAt)
  <2>1. IsFiniteSet(1 .. Len(list))
    BY <1>1, FS_Interval
  <2> QED  BY <1>1, <2>1, FS_Subset
<1>3. Cardinality(VisibleAt) \in Nat
  BY <1>2, FS_CardinalityType
<1>4. ASSUME NEW i
      PROVE  Ahead(i) \in Nat /\ Ahead(i) <= Cardinality(VisibleAt)
  <2>1. {j \in VisibleAt : j < i} \subseteq VisibleAt
    OBVIOUS
  <2> QED  BY <1>2, <2>1, FS_Subset, FS_CardinalityType DEF Ahead
<1> QED  BY <1>1, <1>2, <1>3, <1>4

(* The last page is the one with the last sticker. *)
LEMMA PagesIs ==
  ASSUME TypeOK
  PROVE  LET n == Cardinality(VisibleAt)
             p == PagesOf(n)
         IN  p \in Nat /\ p >= 1 /\ n <= p * PerPage /\ (n # 0 => (p - 1) * PerPage < n)
<1> DEFINE n == Cardinality(VisibleAt)
           p == PagesOf(n)
<1>1. n \in Nat /\ PerPage \in Nat \ {0}
  BY VisibleFinite, ScreensAssumption
<1> HIDE DEF n
<1>2. CASE n = 0
  <2>1. p = 1
    BY <1>2 DEF PagesOf
  <2> QED  BY <1>1, <1>2, <2>1 DEF n
<1>3. CASE n # 0
  <2> DEFINE q == (n + PerPage - 1) \div PerPage
  <2>1. p = q
    BY <1>3 DEF PagesOf
  <2>2. n + PerPage - 1 \in Nat
    BY <1>1
  <2>3. q \in Nat /\ PerPage * q <= n + PerPage - 1 /\ n + PerPage - 1 < PerPage * q + PerPage
    BY <1>1, <2>2, Division
  <2> HIDE DEF q, p
  <2>4. q # 0
    <3> SUFFICES ASSUME q = 0 PROVE FALSE
      OBVIOUS
    <3>1. PerPage * q = 0
      BY <1>1
    <3> QED  BY <1>1, <1>3, <2>3, <3>1
  <2>5. PerPage * q \in Nat /\ q * PerPage = PerPage * q /\ (q - 1) * PerPage = PerPage * q - PerPage
    BY <1>1, <2>3
  <2>6. n <= q * PerPage /\ (q - 1) * PerPage < n
    BY <1>1, <2>3, <2>5
  <2> QED  BY <2>1, <2>3, <2>4, <2>6 DEF n, p
<1> QED  BY <1>2, <1>3 DEF n

Others(h) == \A g \in Presses \ {h} : handler'[g] = handler[g]
Typed == handler' \in [Presses -> Handlers] /\ \A g \in Presses : Answered(handler'[g])

LEMMA OpenPagesIs ==
  ASSUME TypeInv, NEW h \in Presses, OpenPages(h)
  PROVE  Typed /\ Others(h) /\ handler'[h].pc = "count" /\ handler'[h].op = "open"
<1> DEFINE r == [Idle EXCEPT !.pc = "count"]
<1>1. r \in Handlers
  BY IdleHandler DEF Handlers
<1>2. r.pc = "count" /\ r.op = "open" /\ r.answer = Blank
  BY DEF Idle
<1>3. Answered(r)
  BY <1>2 DEF Answered, Blank
<1>4. handler' = [handler EXCEPT ![h] = r]
  BY DEF OpenPages
<1> HIDE DEF r
<1> QED  BY <1>1, <1>2, <1>3, <1>4, GoesOn DEF Typed, Others

LEMMA PressIs ==
  ASSUME TypeInv, NEW h \in Presses, NEW op \in Ops, Press(h, op)
  PROVE  /\ Typed /\ Others(h) /\ handler'[h].op = op
         /\ \/ /\ flow = "pages"
               /\ handler'[h].pc = "count" /\ handler'[h].index = screen.index
            \/ flow # "pages" /\ op = "confirm" /\ handler'[h].pc = "check"
            \/ flow # "pages" /\ op = "jump" /\ handler'[h].pc = "list"
            \/ /\ flow # "pages" /\ op \notin {"confirm", "jump"}
               /\ handler'[h].pc = "sticker" /\ handler'[h].at = screen.at
<1>0. screen.at \in Stickers \union {None} /\ screen.index \in Nat
  BY ScreenFields DEF TypeInv, TypeOK
<1>1. CASE flow = "pages"
  <2> DEFINE r == [Idle EXCEPT !.pc = "count", !.op = op, !.index = screen.index]
  <2>1. r \in Handlers
    BY <1>0, IdleHandler DEF Handlers
  <2>2. r.pc = "count" /\ r.op = op /\ r.index = screen.index /\ r.answer = Blank
    BY DEF Idle
  <2>3. Answered(r)
    BY <2>2 DEF Answered, Blank
  <2>4. handler' = [handler EXCEPT ![h] = r]
    <3>1. op \notin {"confirm", "jump"}
      BY <1>1 DEF Press, Enabled, PublishRow
    <3> QED  BY <1>1, <3>1 DEF Press
  <2> HIDE DEF r
  <2> QED  BY <1>1, <2>1, <2>2, <2>3, <2>4, GoesOn DEF Typed, Others
<1>2. CASE flow # "pages" /\ op = "confirm"
  <2> DEFINE r == [Idle EXCEPT !.pc = "check", !.op = op]
  <2>1. r \in Handlers
    BY IdleHandler DEF Handlers
  <2>2. r.pc = "check" /\ r.op = op /\ r.answer = Blank
    BY DEF Idle
  <2>3. Answered(r)
    BY <2>2 DEF Answered, Blank
  <2>4. handler' = [handler EXCEPT ![h] = r]
    BY <1>2 DEF Press
  <2> HIDE DEF r
  <2> QED  BY <1>2, <2>1, <2>2, <2>3, <2>4, GoesOn DEF Typed, Others
<1>3. CASE flow # "pages" /\ op = "jump"
  <2> DEFINE r == [Idle EXCEPT !.pc = "list", !.op = op]
  <2>1. r \in Handlers
    BY IdleHandler DEF Handlers
  <2>2. r.pc = "list" /\ r.op = op /\ r.answer = Blank
    BY DEF Idle
  <2>3. Answered(r)
    BY <2>2 DEF Answered, Blank
  <2>4. handler' = [handler EXCEPT ![h] = r]
    BY <1>3 DEF Press
  <2> HIDE DEF r
  <2> QED  BY <1>3, <2>1, <2>2, <2>3, <2>4, GoesOn DEF Typed, Others
<1>4. CASE flow # "pages" /\ op \notin {"confirm", "jump"}
  <2> DEFINE r == [Idle EXCEPT !.pc = "sticker", !.op = op, !.at = screen.at]
  <2>1. r \in Handlers
    BY <1>0, IdleHandler DEF Handlers
  <2>2. r.pc = "sticker" /\ r.op = op /\ r.at = screen.at /\ r.answer = Blank
    BY DEF Idle
  <2>3. Answered(r)
    BY <2>2 DEF Answered, Blank
  <2>4. handler' = [handler EXCEPT ![h] = r]
    BY <1>4 DEF Press
  <2> HIDE DEF r
  <2> QED  BY <1>4, <2>1, <2>2, <2>3, <2>4, GoesOn DEF Typed, Others
<1> QED  BY <1>1, <1>2, <1>3, <1>4

LEMMA ModalStickerIs ==
  ASSUME TypeInv, NEW h \in Presses, ModalSticker(h)
  PROVE  /\ Typed /\ Others(h)
         /\ \/ handler'[h] = Idle
            \/ /\ handler[h].at \in Live
               /\ handler'[h].pc = "modal" /\ handler'[h].at = handler[h].at /\ handler'[h].op = handler[h].op
               /\ handler'[h].value = rating[handler[h].at]
<1>0. /\ handler[h] \in Handlers
      /\ \A s \in Live : s \in Stickers /\ rating[s] \in Ratings
  BY ElementOfSeq, LenProperties DEF TypeInv, TypeOK, Live, ToSet
<1>1. CASE handler[h].at \notin Live
  BY <1>1, RefuseIs DEF ModalSticker, Typed, Others
<1>2. CASE handler[h].at \in Live
  <2> DEFINE v == rating[handler[h].at]
             r == [handler[h] EXCEPT !.pc = "modal", !.value = v, !.steady = TRUE]
  <2>1. handler' = [handler EXCEPT ![h] = r]
    BY <1>2 DEF ModalSticker
  <2>2. v \in Ratings
    BY <1>0, <1>2
  <2> HIDE DEF v
  <2>3. r \in Handlers
    BY <1>0, <2>2, Zenon DEF Handlers
  <2>4. /\ r.pc = "modal" /\ r.at = handler[h].at /\ r.op = handler[h].op /\ r.value = v
        /\ r.answer = handler[h].answer
    BY <1>0 DEF Handlers
  <2>5. Answered(r)
    BY <2>4 DEF TypeInv, Answered
  <2> HIDE DEF r
  <2> QED  BY <1>2, <2>1, <2>3, <2>4, <2>5, GoesOn DEF Typed, Others, v
<1> QED  BY <1>1, <1>2

LEMMA SubmitIs ==
  ASSUME TypeInv, NEW h \in Presses, Submit(h)
  PROVE  /\ Typed /\ Others(h)
         /\ \/ handler'[h] = Idle
            \/ handler'[h] = [handler[h] EXCEPT !.pc = "reread"]
            \/ /\ handler'[h].pc = "reread" /\ handler'[h].touched
               /\ handler'[h].at = handler[h].at /\ handler'[h].op = handler[h].op
<1>0. handler[h] \in Handlers
  BY DEF TypeInv, TypeOK
<1>1. CASE handler' = GoTo(h, "reread")
  BY <1>1, GoToIs DEF Typed, Others
<1>2. CASE handler' = Refuse(h)
  BY <1>2, RefuseIs DEF Typed, Others
<1>3. ASSUME NEW v \in Ratings,
             handler' = [handler EXCEPT ![h].pc = "reread", ![h].value = v, ![h].touched = TRUE]
      PROVE  /\ Typed /\ Others(h)
             /\ handler'[h].pc = "reread" /\ handler'[h].touched
             /\ handler'[h].at = handler[h].at /\ handler'[h].op = handler[h].op
  <2> DEFINE r == [handler[h] EXCEPT !.pc = "reread", !.value = v, !.touched = TRUE]
  <2>1. handler' = [handler EXCEPT ![h] = r]
    BY <1>3
  <2>3. r \in Handlers
    BY <1>0, Zenon DEF Handlers
  <2>4. /\ r.pc = "reread" /\ r.at = handler[h].at /\ r.op = handler[h].op
        /\ r.answer = handler[h].answer
    BY <1>0 DEF Handlers
  <2>5. r.touched
    BY <1>0, Zenon DEF Handlers
  <2>6. Answered(r)
    BY <2>4 DEF TypeInv, Answered
  <2> HIDE DEF r
  <2>7. handler'[h] = r
    BY <2>1, <2>3, <2>6, GoesOn
  <2>8. handler'[h].touched
    BY <2>5, <2>7, Zenon
  <2> QED  BY <2>1, <2>3, <2>4, <2>6, <2>7, <2>8, GoesOn DEF Typed, Others
<1> QED  BY <1>1, <1>2, <1>3, Zenon DEF Submit

LEMMA CountPagesIs ==
  ASSUME TypeInv, NEW h \in Presses, CountPages(h)
  PROVE  /\ Typed /\ Others(h)
         /\ handler'[h].pc = "find" /\ handler'[h].op = handler[h].op /\ handler'[h].index = handler[h].index
         /\ handler'[h].total = PagesOf(Cardinality(VisibleAt))
         /\ handler'[h].total >= 1 /\ handler'[h].total \in Nat
<1> DEFINE n == PagesOf(Cardinality(VisibleAt))
           r == [handler[h] EXCEPT !.pc = "find", !.total = n, !.steady = TRUE]
<1>0. handler[h] \in Handlers
  BY DEF TypeInv, TypeOK
<1>1. n \in Nat /\ n >= 1
  BY PagesIs DEF TypeInv
<1>2. handler' = [handler EXCEPT ![h] = r]
  BY DEF CountPages
<1> HIDE DEF n
<1>3. r \in Handlers
  BY <1>0, <1>1, Zenon DEF Handlers
<1>4. r.pc = "find" /\ r.op = handler[h].op /\ r.index = handler[h].index /\ r.total = n /\ r.answer = handler[h].answer
  BY <1>0 DEF Handlers
<1>5. Answered(r)
  BY <1>1, <1>4 DEF TypeInv, Answered
<1> HIDE DEF r
<1> QED  BY <1>1, <1>2, <1>3, <1>4, <1>5, GoesOn DEF Typed, Others, n

-----------------------------------------------------------------------------
(* What the changes do to the order. *)

Precedes(l, x, y) == \E i, j \in DOMAIN l : i < j /\ l[i] = x /\ l[j] = y

LEMMA Removed ==
  ASSUME TypeOK, NEW s \in Live
  PROVE  LET l == RemoveAt(list, PositionOf(s))
         IN  /\ l \in Seq(Stickers) /\ IsInjective(l) /\ ToSet(l) = Live \ {s}
             /\ \A x, y : Precedes(l, x, y) => Precedes(list, x, y)
<1> DEFINE k == PositionOf(s)
           l == RemoveAt(list, k)
           at(i) == IF i < k THEN i ELSE i + 1
<1>1. Len(list) \in Nat /\ DOMAIN list = 1 .. Len(list) /\ list \in Seq(Stickers) /\ IsInjective(list)
  BY LenProperties DEF TypeOK
<1>2. k \in 1 .. Len(list) /\ list[k] = s
  BY <1>1, PositionIs
<1> HIDE DEF k
<1>3. /\ l \in Seq(Stickers) /\ Len(l) = Len(list) - 1
      /\ \A i \in 1 .. Len(list) - 1 : l[i] = IF i < k THEN list[i] ELSE list[i + 1]
  BY <1>1, <1>2, RemoveAtIs
<1>4. DOMAIN l = 1 .. Len(list) - 1
  BY <1>3, LenProperties
<1> HIDE DEF l
<1>5. \A i \in DOMAIN l : at(i) \in DOMAIN list \ {k} /\ l[i] = list[at(i)]
  BY <1>1, <1>2, <1>3, <1>4
<1>6. \A i, j \in DOMAIN l : /\ i < j => at(i) < at(j)
                             /\ at(i) = at(j) => i = j
  BY <1>1, <1>2, <1>4
<1>7. \A m \in DOMAIN list \ {k} : \E i \in DOMAIN l : at(i) = m
  <2> SUFFICES ASSUME NEW m \in DOMAIN list \ {k} PROVE \E i \in DOMAIN l : at(i) = m
    OBVIOUS
  <2>1. CASE m < k
    <3>1. m \in DOMAIN l /\ at(m) = m
      BY <1>1, <1>2, <1>4, <2>1
    <3> QED  BY <3>1
  <2>2. CASE ~(m < k)
    <3>1. m - 1 \in DOMAIN l /\ at(m - 1) = m
      BY <1>1, <1>2, <1>4, <2>2
    <3> QED  BY <3>1
  <2> QED  BY <2>1, <2>2
<1> HIDE DEF at
<1>8. IsInjective(l)
  BY <1>1, <1>5, <1>6 DEF IsInjective
<1>9. ToSet(l) = Live \ {s}
  <2>1. ToSet(l) \subseteq Live \ {s}
    BY <1>1, <1>2, <1>5 DEF ToSet, Live, IsInjective
  <2>2. Live \ {s} \subseteq ToSet(l)
    BY <1>2, <1>5, <1>7 DEF ToSet, Live
  <2> QED  BY <2>1, <2>2
<1>10. \A x, y : Precedes(l, x, y) => Precedes(list, x, y)
  BY <1>5, <1>6 DEF Precedes
<1> QED  BY <1>3, <1>8, <1>9, <1>10 DEF k, l

LEMMA Inserted ==
  ASSUME TypeOK, NEW s \in Stickers \ Live, NEW k \in 1 .. Len(list) + 1
  PROVE  LET l == InsertAt(list, k, s)
         IN  /\ l \in Seq(Stickers) /\ IsInjective(l) /\ ToSet(l) = Live \union {s}
             /\ \A x, y : Precedes(l, x, y) => \/ Precedes(list, x, y)
                                               \/ y = s
                                               \/ x = s /\ k <= Len(list)
<1> DEFINE l == InsertAt(list, k, s)
           at(i) == IF i < k THEN i ELSE i - 1
<1>1. Len(list) \in Nat /\ DOMAIN list = 1 .. Len(list) /\ list \in Seq(Stickers) /\ IsInjective(list)
  BY LenProperties DEF TypeOK
<1>3. /\ l \in Seq(Stickers) /\ Len(l) = Len(list) + 1
      /\ \A i \in 1 .. Len(list) + 1 : l[i] = IF i < k THEN list[i] ELSE IF i = k THEN s ELSE list[i - 1]
  BY <1>1, InsertAtIs, ZenonT(60)
<1>4. DOMAIN l = 1 .. Len(list) + 1
  BY <1>3, LenProperties
<1> HIDE DEF l
<1>5. /\ k \in DOMAIN l /\ l[k] = s
      /\ \A i \in DOMAIN l \ {k} : at(i) \in DOMAIN list /\ l[i] = list[at(i)]
  BY <1>1, <1>3, <1>4
<1>6. \A i, j \in DOMAIN l \ {k} : /\ i < j => at(i) < at(j)
                                   /\ at(i) = at(j) => i = j
  BY <1>1, <1>4
<1>7. \A m \in DOMAIN list : \E i \in DOMAIN l \ {k} : at(i) = m
  <2> SUFFICES ASSUME NEW m \in DOMAIN list PROVE \E i \in DOMAIN l \ {k} : at(i) = m
    OBVIOUS
  <2>1. CASE m < k
    <3>1. m \in DOMAIN l \ {k} /\ at(m) = m
      BY <1>1, <1>4, <2>1
    <3> QED  BY <3>1
  <2>2. CASE ~(m < k)
    <3>1. m + 1 \in DOMAIN l \ {k} /\ at(m + 1) = m
      BY <1>1, <1>4, <2>2
    <3> QED  BY <3>1
  <2> QED  BY <2>1, <2>2
<1>7a. \A j \in DOMAIN l : k < j => k <= Len(list)
  BY <1>1, <1>4
<1> HIDE DEF at
<1>7b. \A i \in DOMAIN l \ {k} : l[i] \in Live
  BY <1>5 DEF Live, ToSet
<1>8. IsInjective(l)
  BY <1>1, <1>5, <1>6, <1>7b DEF IsInjective
<1>9. ToSet(l) = Live \union {s}
  <2>1. ToSet(l) \subseteq Live \union {s}
    BY <1>5, <1>7b DEF ToSet
  <2>2. Live \union {s} \subseteq ToSet(l)
    BY <1>5, <1>7 DEF ToSet, Live
  <2> QED  BY <2>1, <2>2
<1>10. ASSUME NEW x, NEW y, Precedes(l, x, y)
       PROVE  Precedes(list, x, y) \/ y = s \/ (x = s /\ k <= Len(list))
  <2>1. PICK i \in DOMAIN l, j \in DOMAIN l : i < j /\ l[i] = x /\ l[j] = y
    BY <1>10 DEF Precedes
  <2>2. CASE j = k
    BY <1>5, <2>1, <2>2
  <2>3. CASE i = k
    BY <1>5, <1>7a, <2>1, <2>3
  <2>4. CASE i # k /\ j # k
    BY <1>5, <1>6, <2>1, <2>4 DEF Precedes
  <2> QED  BY <2>2, <2>3, <2>4
<1> QED  BY <1>3, <1>8, <1>9, <1>10 DEF l

LEMMA MovedToFront ==
  ASSUME TypeOK, NEW s \in Live
  PROVE  LET l == <<s>> \o RemoveAt(list, PositionOf(s))
         IN  l \in Seq(Stickers) /\ IsInjective(l)
<1> DEFINE m == RemoveAt(list, PositionOf(s))
           l == <<s>> \o m
<1>1. m \in Seq(Stickers) /\ IsInjective(m) /\ ToSet(m) = Live \ {s}
  BY Removed
<1>2. s \in Stickers
  BY ElementOfSeq, LenProperties DEF TypeOK, Live, ToSet
<1>3. <<s>> \in Seq(Stickers) /\ Len(<<s>>) = 1 /\ <<s>>[1] = s
  BY <1>2
<1> HIDE DEF m
<1>4. /\ l \in Seq(Stickers) /\ Len(l) = 1 + Len(m)
      /\ \A i \in 1 .. 1 + Len(m) : l[i] = IF i <= 1 THEN <<s>>[i] ELSE m[i - 1]
  BY <1>1, <1>3, ConcatProperties
<1>5. Len(m) \in Nat /\ DOMAIN m = 1 .. Len(m) /\ DOMAIN l = 1 .. 1 + Len(m)
  BY <1>1, <1>4, LenProperties
<1> HIDE DEF l
<1>6. 1 \in DOMAIN l /\ l[1] = s /\ \A i \in DOMAIN l \ {1} : i - 1 \in DOMAIN m /\ l[i] = m[i - 1] /\ i \in Nat
  BY <1>3, <1>4, <1>5
<1>7. \A i \in DOMAIN m : m[i] # s
  BY <1>1 DEF ToSet
<1>8. ASSUME NEW i \in DOMAIN l, NEW j \in DOMAIN l, l[i] = l[j]
      PROVE  i = j
  <2>1. CASE i # 1 /\ j # 1
    <3>1. i - 1 = j - 1
      BY <1>1, <1>6, <1>8, <2>1 DEF IsInjective
    <3> QED  BY <1>6, <2>1, <3>1
  <2>2. CASE i = 1 \/ j = 1
    BY <1>6, <1>7, <1>8, <2>2
  <2> QED  BY <2>1, <2>2
<1>9. IsInjective(l)
  BY <1>8 DEF IsInjective
<1> QED  BY <1>4, <1>9 DEF l, m

-----------------------------------------------------------------------------
(* Type correctness. *)

LEMMA Listed ==
  ASSUME TypeOK
  PROVE  /\ Live \subseteq Stickers /\ Len(list) \in Nat /\ DOMAIN list = 1 .. Len(list)
         /\ \A i \in DOMAIN list : list[i] \in Live
  BY ElementOfSeq, LenProperties DEF TypeOK, Live, ToSet

LEMMA ReadListIs ==
  ASSUME TypeInv, NEW h \in Presses, ReadList(h)
  PROVE  /\ Typed /\ Others(h) /\ handler'[h].pc = "respond"
         /\ \/ handler[h].op = "jump" /\ handler'[h].answer.kind \in {"sticker", "done"}
            \/ /\ handler[h].op # "jump"
               /\ handler'[h].answer = StepContent(handler[h].at, handler[h].op)
               /\ handler'[h].answer.kind \in {"sticker", "done"}
<1> DEFINE c == IF handler[h].op = "jump" THEN JumpToInvalidContent ELSE StepContent(handler[h].at, handler[h].op)
<1>0. TypeOK
  BY DEF TypeInv
<1>1. c = DoneContent \/ \E i \in DOMAIN list : c = StickerContent(i)
  <2>1. CASE handler[h].op = "jump"
    BY <1>0, <2>1, JumpContentIs
  <2>2. CASE handler[h].op # "jump"
    BY <1>0, <2>2, StepContentIs
  <2> QED  BY <2>1, <2>2
<1>2. handler' = Answer(h, c)
  BY DEF ReadList
<1>3. handler[h].op # "jump" => c = StepContent(handler[h].at, handler[h].op)
  OBVIOUS
<1> HIDE DEF c
<1>4. /\ c \in Screens /\ c.kind \in {"sticker", "done"}
      /\ c.kind \in {"sticker", "page"} => c.index \in 1 .. c.total
  <2>1. CASE c = DoneContent
    BY <2>1, DoneContentIs
  <2>2. ASSUME NEW i \in DOMAIN list, c = StickerContent(i)
        PROVE  /\ c \in Screens /\ c.kind \in {"sticker", "done"}
               /\ c.kind \in {"sticker", "page"} => c.index \in 1 .. c.total
    BY <1>0, <2>2, StickerContentIs
  <2> QED  BY <1>1, <2>1, <2>2
<1>5. Typed /\ Others(h) /\ handler'[h].pc = "respond" /\ handler'[h].answer = c
  BY <1>2, <1>4, AnswerIs DEF Typed, Others
<1> QED  BY <1>3, <1>4, <1>5

LEMMA ClampIs ==
  ASSUME NEW page \in Int, NEW pages \in Nat, pages >= 1
  PROVE  /\ Clamp(page, pages) \in 1 .. pages
         /\ page <= 1 => Clamp(page, pages) = 1
         /\ page >= 1 => Clamp(page, pages) <= page
  BY DEF Clamp

LEMMA RequestIs ==
  ASSUME NEW op \in Ops, NEW index \in Nat, NEW pages \in Nat
  PROVE  /\ RequestedPage(op, index, pages) \in Int
         /\ op \in {"first", "open"} => RequestedPage(op, index, pages) = 1
         /\ op = "prev" => RequestedPage(op, index, pages) = index - 1
         /\ op = "next" => RequestedPage(op, index, pages) = index + 1
  BY DEF RequestedPage, Ops

LEMMA FindPageIs ==
  ASSUME TypeInv, NEW h \in Presses, FindPage(h)
  PROVE  LET r == handler[h]
             page == Clamp(RequestedPage(r.op, r.index, r.total), r.total)
         IN  /\ Typed /\ Others(h) /\ handler'[h].pc = "respond"
             /\ handler'[h].answer = PageContent(page, r.total)
             /\ handler'[h].answer.kind = "page"
             /\ handler'[h].answer.index = page /\ handler'[h].answer.total = r.total
             /\ page \in 1 .. r.total
<1> DEFINE n == handler[h].total
           page == Clamp(RequestedPage(handler[h].op, handler[h].index, n), n)
           c == PageContent(page, n)
<1>0. TypeOK
  BY DEF TypeInv
<1>1. n \in Nat /\ n >= 1
  BY <1>0, HandlerFields DEF TypeInv, FindPage, Answered
<1>2. RequestedPage(handler[h].op, handler[h].index, n) \in Int
  BY <1>0, <1>1, HandlerFields, RequestIs
<1>3. page \in 1 .. n
  BY <1>1, <1>2, ClampIs
<1>4. handler' = Answer(h, c)
  BY DEF FindPage
<1> HIDE DEF page, n
<1>5. c \in Screens /\ c.kind = "page" /\ c.index = page /\ c.total = n
  BY <1>0, <1>1, <1>3, PageContentIs
<1> HIDE DEF c
<1>6. Typed /\ Others(h) /\ handler'[h].pc = "respond" /\ handler'[h].answer = c
  BY <1>3, <1>4, <1>5, AnswerIs DEF Typed, Others
<1> QED  BY <1>3, <1>5, <1>6 DEF c, page, n

ScreenTyped == screen \in Screens /\ (screen.kind \in {"sticker", "page"} => screen.index \in 1 .. screen.total)

LEMMA InitTyped == Init => TypeInv
<1> SUFFICES ASSUME Init PROVE TypeInv
  OBVIOUS
<1>1. list \in Seq(Stickers) /\ IsInjective(list)
  <2>1. PICK live \in SUBSET Stickers : list \in SetToSeqs(live)
    BY DEF Init
  <2>2. Cardinality(live) \in Nat
    BY ScreensAssumption, FS_Subset, FS_CardinalityType
  <2>3. list \in [1 .. Cardinality(live) -> live] /\ \A i, j \in 1 .. Cardinality(live) : i # j => list[i] # list[j]
    BY <2>1, Zenon DEF SetToSeqs
  <2>4. list \in Seq(live)
    BY <2>2, <2>3, IsASeq
  <2>5. list \in Seq(Stickers)
    BY <2>4, SeqMonotonic
  <2>6. IsInjective(list)
    BY <2>3 DEF IsInjective
  <2> QED  BY <2>5, <2>6
<1>2. rating \in [Stickers -> Ratings]
  BY DEF Init
<1>3. screen \in Screens /\ screen.kind = "none"
  BY BlankScreen DEF Init, Blank
<1>4. handler \in [Presses -> Handlers] /\ \A h \in Presses : handler[h] = Idle
  BY IdleHandler DEF Init
<1>5. Answered(Idle)
  BY DEF Answered, Idle, Blank
<1>6. changes \in 0 .. MaxChanges
  BY ScreensAssumption DEF Init
<1>7. public \in BOOLEAN /\ safe \in BOOLEAN
  BY Zenon DEF Init
<1>8. flow \in {"review", "massEdit", "pages"} /\ seen \subseteq Stickers /\ excused \subseteq Stickers
  BY DEF Init
<1>9. screen.kind \in {"sticker", "page"} => screen.index \in 1 .. screen.total
  BY <1>3
<1>10. TypeOK
  BY <1>1, <1>2, <1>3, <1>4, <1>6, <1>7, <1>8, <1>9, Zenon DEF TypeOK
<1> QED  BY <1>4, <1>5, <1>10 DEF TypeInv

PackTyped ==
  /\ list \in Seq(Stickers) /\ IsInjective(list)
  /\ rating \in [Stickers -> Ratings]
WalkTyped == seen \subseteq Stickers /\ excused \subseteq Stickers /\ changes \in 0 .. MaxChanges /\ public \in BOOLEAN

LEMMA TypedBy ==
  ASSUME TypeOK, flow' = flow, safe' = safe, Typed, ScreenTyped', PackTyped', WalkTyped'
  PROVE  TypeInv'
<1>1. TypeOK'
  BY Zenon DEF TypeOK, Typed, ScreenTyped, PackTyped, WalkTyped
<1>2. \A h \in Presses : Answered(handler'[h])
  BY Zenon DEF Typed
<1> QED  BY <1>1, <1>2, Zenon DEF TypeInv

(* A handler goes on, and changes neither the pack nor the message. *)
LEMMA TypedByHandler ==
  ASSUME TypeInv, Typed, UNCHANGED <<packVars, screen, seen>>, excused' \subseteq Stickers
  PROVE  TypeInv'
<1>1. TypeOK /\ ScreenTyped /\ PackTyped /\ WalkTyped
  BY DEF TypeInv, TypeOK, ScreenTyped, PackTyped, WalkTyped
<1>2. ScreenTyped'
  BY <1>1 DEF ScreenTyped
<1>3. PackTyped'
  BY <1>1 DEF PackTyped, packVars
<1>4. WalkTyped'
  BY <1>1 DEF WalkTyped, packVars
<1>5. flow' = flow /\ safe' = safe
  BY DEF packVars
<1> QED  BY <1>1, <1>2, <1>3, <1>4, <1>5, TypedBy

LEMMA ChangeTyped ==
  ASSUME TypeInv, Change, PackTyped', excused' \subseteq Stickers, NEW s, Outdate(handler, s)
  PROVE  TypeInv'
<1>1. TypeOK /\ ScreenTyped /\ PackTyped /\ WalkTyped
  BY DEF TypeInv, TypeOK, ScreenTyped, PackTyped, WalkTyped
<1>2. handler \in [Presses -> Handlers] /\ \A g \in Presses : Answered(handler[g])
  BY DEF TypeInv, TypeOK
<1>3. Typed /\ screen' = screen
  BY <1>2, OutdateIs DEF Typed
<1>4. ScreenTyped'
  BY <1>1, <1>3 DEF ScreenTyped
<1>5. changes' \in 0 .. MaxChanges
  BY <1>1, ScreensAssumption DEF WalkTyped, Change
<1>6. public' = public /\ seen' = seen /\ flow' = flow /\ safe' = safe
  BY DEF Change
<1>7. WalkTyped'
  BY <1>1, <1>5, <1>6 DEF WalkTyped
<1> QED  BY <1>1, <1>3, <1>4, <1>6, <1>7, TypedBy

LEMMA EditStickerIs ==
  ASSUME TypeInv, NEW h \in Presses, EditSticker(h)
  PROVE  /\ Typed
         /\ \A g \in Presses : /\ Dims(IF g = h THEN [handler[h] EXCEPT !.pc = "list"] ELSE handler[g], handler'[g])
                               /\ handler'[g].steady => /\ handler[g].steady
                                                        /\ g # h => handler[g].pc # "find"
                                                        /\ g # h /\ handler[g].pc \in {"modal", "reread", "write"}
                                                             => handler[g].at # handler[h].at
         /\ screen' = screen
<1> DEFINE hs == GoTo(h, "list")
<1>0. handler[h] \in Handlers
  BY DEF TypeInv, TypeOK
<1>1. /\ hs \in [Presses -> Handlers] /\ \A g \in Presses : Answered(hs[g])
      /\ hs[h] = [handler[h] EXCEPT !.pc = "list"]
      /\ \A g \in Presses \ {h} : hs[g] = handler[g]
  <2> DEFINE r == [handler[h] EXCEPT !.pc = "list"]
  <2>1. r \in Handlers
    BY <1>0, Zenon DEF Handlers
  <2>2. r.pc = "list" /\ r.answer = handler[h].answer
    BY <1>0 DEF Handlers
  <2>3. Answered(r)
    BY <2>2 DEF TypeInv, Answered
  <2>4. hs = [handler EXCEPT ![h] = r]
    BY DEF GoTo
  <2>5. handler \in [Presses -> Handlers] /\ \A g \in Presses : Answered(handler[g])
    BY DEF TypeInv, TypeOK
  <2> HIDE DEF r, hs
  <2>6. hs \in [Presses -> Handlers] /\ hs[h] = r /\ \A g \in Presses \ {h} : hs[g] = handler[g]
    BY <2>1, <2>4, <2>5
  <2>7. \A g \in Presses : Answered(hs[g])
    BY <2>3, <2>5, <2>6
  <2> QED  BY <2>6, <2>7 DEF r
<1>2. Outdate(hs, handler[h].at)
  BY DEF EditSticker
<1> HIDE DEF hs
<1>3. /\ handler' \in [Presses -> Handlers]
      /\ \A g \in Presses : Answered(handler'[g])
      /\ \A g \in Presses : /\ Dims(hs[g], handler'[g])
                            /\ handler'[g].steady => /\ hs[g].steady /\ hs[g].pc # "find"
                                                     /\ hs[g].pc \in {"modal", "reread", "write"} => hs[g].at # handler[h].at
      /\ screen' = screen
  BY <1>1, <1>2, OutdateIs
<1>4. hs[h].steady = handler[h].steady
  BY <1>0, <1>1, Zenon DEF Handlers
<1>5. ASSUME NEW g \in Presses
      PROVE  /\ Dims(IF g = h THEN [handler[h] EXCEPT !.pc = "list"] ELSE handler[g], handler'[g])
             /\ handler'[g].steady => /\ handler[g].steady
                                      /\ g # h => handler[g].pc # "find"
                                      /\ g # h /\ handler[g].pc \in {"modal", "reread", "write"}
                                           => handler[g].at # handler[h].at
  <2>1. CASE g = h
    BY <1>1, <1>3, <1>4, <2>1, Zenon
  <2>2. CASE g # h
    BY <1>1, <1>3, <2>2, Zenon
  <2> QED  BY <2>1, <2>2
<1> QED  BY <1>3, <1>5 DEF Typed

LEMMA TypeStep == TypeInv /\ [Next]_vars => TypeInv'
<1> SUFFICES ASSUME TypeInv, [Next]_vars PROVE TypeInv'
  OBVIOUS
<1>0. TypeOK /\ ScreenTyped /\ PackTyped /\ WalkTyped /\ \A g \in Presses : Answered(handler[g])
  BY DEF TypeInv, TypeOK, ScreenTyped, PackTyped, WalkTyped
<1>1. ASSUME NEW start \in 1 .. Len(list) + 1, OpenSticker(start)
      PROVE  TypeInv'
  <2> DEFINE i == StartIndex(start)
  <2>1. i \in DOMAIN list
    <3>1. Len(list) \in Nat /\ Len(list) # 0 /\ DOMAIN list = 1 .. Len(list)
      BY <1>0, <1>1, Listed, EmptySeq DEF OpenSticker, TypeOK
    <3> QED  BY <3>1 DEF StartIndex
  <2>2. screen' = StickerContent(i) /\ seen' = {list[i]} /\ excused' = {list[j] : j \in 1 .. i - 1}
    BY <1>1 DEF OpenSticker
  <2> HIDE DEF i
  <2>3. ScreenTyped'
    BY <1>0, <2>1, <2>2, StickerContentIs DEF ScreenTyped
  <2>4. seen' \subseteq Stickers /\ excused' \subseteq Stickers
    <3>1. \A j \in 1 .. i - 1 : j \in DOMAIN list
      BY <1>0, <2>1, Listed
    <3> QED  BY <1>0, <2>1, <2>2, <3>1, Listed
  <2>5. UNCHANGED <<packVars, handler>>
    BY <1>1 DEF OpenSticker
  <2>6. Typed
    BY <1>0, <2>5 DEF Typed, TypeOK
  <2>7. PackTyped'
    BY <1>0, <2>5 DEF PackTyped, packVars
  <2>8. WalkTyped'
    BY <1>0, <2>4, <2>5 DEF WalkTyped, packVars
  <2>9. flow' = flow /\ safe' = safe
    BY <2>5 DEF packVars
  <2> QED  BY <1>0, <2>3, <2>6, <2>7, <2>8, <2>9, TypedBy
<1>2. ASSUME NEW h \in Presses, OpenPages(h)
      PROVE  TypeInv'
  BY <1>0, <1>2, OpenPagesIs, TypedByHandler DEF OpenPages, WalkTyped
<1>3. ASSUME NEW h \in Presses, NEW op \in Ops, Press(h, op)
      PROVE  TypeInv'
  <2>1. Typed
    BY <1>3, PressIs
  <2>2. excused' \subseteq Stickers /\ UNCHANGED <<packVars, screen, seen>>
    BY <1>0, <1>3 DEF Press, WalkTyped
  <2> QED  BY <2>1, <2>2, TypedByHandler
<1>4. ASSUME NEW h \in Presses, HandlerOnly, Typed
      PROVE  TypeInv'
  BY <1>0, <1>4, TypedByHandler DEF HandlerOnly, WalkTyped
<1>5. ASSUME NEW h \in Presses,
             \/ StepSticker(h) \/ ModalSticker(h) \/ Submit(h) \/ RereadSticker(h)
             \/ ReplaceFile(h) \/ ReadList(h) \/ ConfirmCheck(h) \/ CountPages(h) \/ FindPage(h)
      PROVE  TypeInv'
  <2>1. HandlerOnly
    BY <1>5 DEF StepSticker, ModalSticker, Submit, RereadSticker, ReplaceFile, ReadList, ConfirmCheck, CountPages, FindPage
  <2>2. Typed
    <3>1. CASE StepSticker(h)
      BY <3>1, GoToIs, RefuseIs DEF StepSticker, Typed
    <3>2. CASE ModalSticker(h)
      BY <3>2, ModalStickerIs
    <3>3. CASE Submit(h)
      BY <3>3, SubmitIs
    <3>4. CASE RereadSticker(h)
      BY <3>4, GoToIs, RefuseIs DEF RereadSticker, Typed
    <3>5. CASE ReplaceFile(h)
      BY <3>5, GoToIs DEF ReplaceFile, Typed
    <3>6. CASE ReadList(h)
      BY <3>6, ReadListIs
    <3>7. CASE ConfirmCheck(h)
      BY <3>7, GoToIs, RefuseIs DEF ConfirmCheck, Typed
    <3>8. CASE CountPages(h)
      BY <3>8, CountPagesIs
    <3>9. CASE FindPage(h)
      BY <3>9, FindPageIs
    <3> QED  BY <1>5, <3>1, <3>2, <3>3, <3>4, <3>5, <3>6, <3>7, <3>8, <3>9
  <2> QED  BY <1>4, <2>1, <2>2
<1>6. ASSUME NEW h \in Presses, EditSticker(h)
      PROVE  TypeInv'
  <2>1. Typed /\ screen' = screen
    BY <1>6, EditStickerIs
  <2>2. handler[h].value \in Ratings /\ handler[h].touched \in BOOLEAN
    BY <1>0, HandlerFields
  <2>3. PackTyped'
    BY <1>0, <1>6, <2>2 DEF EditSticker, PackTyped
  <2>4. changes' \in 0 .. MaxChanges
    <3>1. CASE handler[h].touched
      BY <1>0, <1>6, <3>1, ScreensAssumption DEF EditSticker, WalkTyped
    <3>2. CASE ~handler[h].touched
      <4>1. changes' = changes
        BY <1>6, <3>2, Zenon DEF EditSticker
      <4> QED  BY <1>0, <4>1 DEF WalkTyped
    <3> QED  BY <3>1, <3>2
  <2>5. /\ seen' = seen /\ public' = public /\ flow' = flow /\ safe' = safe
        /\ excused' \subseteq Stickers
    BY <1>0, <1>6 DEF EditSticker, WalkTyped
  <2>6. ScreenTyped' /\ WalkTyped'
    BY <1>0, <2>1, <2>4, <2>5 DEF ScreenTyped, WalkTyped
  <2> QED  BY <1>0, <2>1, <2>3, <2>5, <2>6, TypedBy
<1>7. ASSUME NEW h \in Presses, ConfirmWrite(h)
      PROVE  TypeInv'
  <2>1. Typed
    BY <1>7, RefuseIs DEF ConfirmWrite, Typed
  <2>2. ScreenTyped' /\ PackTyped' /\ flow' = flow /\ safe' = safe
    BY <1>0, <1>7 DEF ConfirmWrite, ScreenTyped, PackTyped
  <2>3. public' \in BOOLEAN
    BY <1>7, Zenon DEF ConfirmWrite
  <2>4. WalkTyped'
    BY <1>0, <1>7, <2>3 DEF ConfirmWrite, WalkTyped
  <2> QED  BY <1>0, <2>1, <2>2, <2>4, TypedBy
<1>8. ASSUME NEW h \in Presses, Respond(h)
      PROVE  TypeInv'
  <2>1. Typed
    BY <1>8, RefuseIs DEF Respond, Typed
  <2>2. screen' = handler[h].answer /\ handler[h].answer \in Screens
    BY <1>0, <1>8, HandlerFields DEF Respond
  <2>3. ScreenTyped'
    BY <1>0, <2>2 DEF ScreenTyped, Answered
  <2>4. screen'.shown \subseteq Stickers
    BY <2>2, ScreenFields
  <2>5. PackTyped' /\ flow' = flow /\ safe' = safe
    BY <1>0, <1>8 DEF Respond, PackTyped, packVars
  <2>6. WalkTyped'
    BY <1>0, <1>8, <2>4 DEF Respond, WalkTyped, packVars
  <2> QED  BY <1>0, <2>1, <2>3, <2>5, <2>6, TypedBy
<1>9. ASSUME NEW s \in Stickers, Delete(s)
      PROVE  TypeInv'
  <2>1. PackTyped'
    BY <1>0, <1>9, Removed DEF Delete, PackTyped
  <2> QED  BY <1>0, <1>9, <2>1, ChangeTyped DEF Delete, WalkTyped
<1>10. ASSUME NEW s \in Stickers, MoveToFront(s)
       PROVE  TypeInv'
  <2>1. PackTyped'
    BY <1>0, <1>10, MovedToFront DEF MoveToFront, PackTyped
  <2> QED  BY <1>0, <1>10, <2>1, ChangeTyped DEF MoveToFront, WalkTyped
<1>11. ASSUME NEW s \in Stickers, NEW i \in 1 .. Len(list) + 1, Insert(s, i)
       PROVE  TypeInv'
  <2>1. PackTyped'
    <3>1. list' \in Seq(Stickers) /\ IsInjective(list')
      BY <1>0, <1>11, Inserted DEF Insert
    <3>2. rating' \in [Stickers -> Ratings]
      BY <1>0, <1>11 DEF Insert, PackTyped, Ratings
    <3> QED  BY <3>1, <3>2 DEF PackTyped
  <2>2. excused' \subseteq Stickers
    BY <1>0, <1>11 DEF Insert, WalkTyped
  <2>3. Change /\ Outdate(handler, s)
    BY <1>11 DEF Insert
  <2> QED  BY <2>1, <2>2, <2>3, ChangeTyped
<1>12. ASSUME NEW s \in Stickers, NEW v \in Ratings \ {rating[s]}, Rate(s, v)
       PROVE  TypeInv'
  <2>1. PackTyped'
    BY <1>0, <1>12 DEF Rate, PackTyped
  <2>2. excused' \subseteq Stickers
    BY <1>0, <1>12 DEF Rate, WalkTyped
  <2>3. Change /\ Outdate(handler, s)
    BY <1>12 DEF Rate
  <2> QED  BY <2>1, <2>2, <2>3, ChangeTyped
<1>13. CASE UNCHANGED vars
  <2>1. UNCHANGED <<packVars, screen, seen>> /\ excused' = excused /\ handler' = handler
    BY <1>13 DEF vars, packVars
  <2>2. Typed
    BY <1>0, <2>1 DEF Typed, TypeOK
  <2> QED  BY <1>0, <2>1, <2>2, TypedByHandler DEF WalkTyped
<1> QED  BY <1>1, <1>2, <1>3, <1>5, <1>6, <1>7, <1>8, <1>9, <1>10, <1>11, <1>12, <1>13, Zenon DEF Next

(* Whatever is pressed and whatever answers late, a message that shows a
   sticker or a page says that it is one of those there are: the position is
   never past the total of the same message. *)
THEOREM TypeCorrect == Spec => []TypeOK
<1>1. TypeInv => TypeOK
  BY DEF TypeInv
<1> QED  BY InitTyped, TypeStep, <1>1, PTL DEF Spec

-----------------------------------------------------------------------------
(* A modal sent as it was filled in. *)

Filled(r) ==
  r.pc \in {"modal", "reread", "write"} =>
    r.at \in Stickers /\ (r.steady /\ ~r.touched => r.value = rating[r.at])
FilledInv == \A h \in Presses : Filled(handler[h])

LEMMA FilledOutdated ==
  ASSUME NEW r, NEW q, NEW t, Filled(r), Dims(r, q), rating \in [Stickers -> Ratings],
         rating' \in [Stickers -> Ratings], \A s \in Stickers \ {t} : rating'[s] = rating[s],
         q.steady => r.steady /\ (r.pc \in {"modal", "reread", "write"} => r.at # t)
  PROVE  /\ q.pc \in {"modal", "reread", "write"} => q.at \in Stickers
         /\ q.pc \in {"modal", "reread", "write"} /\ q.steady /\ ~q.touched => q.value = rating'[q.at]
<1>1. q.pc = r.pc /\ q.at = r.at /\ q.value = r.value
  BY DEF Dims
<1>2. q.touched = r.touched
  BY Zenon DEF Dims
<1>3. q.pc \in {"modal", "reread", "write"} => q.at \in Stickers
  BY <1>1 DEF Filled
<1>4. ASSUME q.pc \in {"modal", "reread", "write"}, q.steady, ~q.touched
      PROVE  q.value = rating'[q.at]
  <2>1. r.steady /\ ~r.touched /\ r.at # t
    BY <1>1, <1>2, <1>4, Zenon
  <2>2. r.at \in Stickers /\ r.value = rating[r.at]
    BY <1>1, <1>4, <2>1, Zenon DEF Filled
  <2> QED  BY <1>1, <2>1, <2>2
<1> QED  BY <1>3, <1>4, Zenon

LEMMA FilledChange ==
  ASSUME TypeInv, TypeInv', FilledInv, NEW s, Outdate(handler, s),
         \A t \in Stickers \ {s} : rating'[t] = rating[t]
  PROVE  FilledInv'
<1>1. /\ handler \in [Presses -> Handlers] /\ \A g \in Presses : Answered(handler[g])
      /\ rating \in [Stickers -> Ratings] /\ rating' \in [Stickers -> Ratings]
  BY DEF TypeInv, TypeOK
<1>2. ASSUME NEW g \in Presses
      PROVE  Filled(handler[g])'
  <2>1. /\ Dims(handler[g], handler'[g])
        /\ handler'[g].steady => /\ handler[g].steady
                                 /\ handler[g].pc \in {"modal", "reread", "write"} => handler[g].at # s
    BY <1>1, OutdateIs, Zenon
  <2>2. Filled(handler[g])
    BY DEF FilledInv
  <2>3. /\ handler'[g].pc \in {"modal", "reread", "write"} => handler'[g].at \in Stickers
        /\ handler'[g].pc \in {"modal", "reread", "write"} /\ handler'[g].steady /\ ~handler'[g].touched
             => handler'[g].value = rating'[handler'[g].at]
    BY <1>1, <2>1, <2>2, FilledOutdated
  <2> QED  BY <2>3, Zenon DEF Filled
<1> QED  BY <1>2 DEF FilledInv

LEMMA FilledOther ==
  ASSUME FilledInv, NEW h \in Presses, Others(h), rating' = rating,
         \/ handler'[h].pc \notin {"modal", "reread", "write"}
         \/ /\ handler'[h].at \in Stickers
            /\ handler'[h].touched \/ handler'[h].value = rating[handler'[h].at]
         \/ /\ handler[h].pc \in {"modal", "reread", "write"} /\ handler'[h].at = handler[h].at
            /\ handler'[h].value = handler[h].value
            /\ handler'[h].steady = handler[h].steady /\ handler'[h].touched = handler[h].touched
  PROVE  FilledInv'
<1>1. ASSUME NEW g \in Presses
      PROVE  Filled(handler[g])'
  <2>1. CASE g # h
    <3>1. handler'[g] = handler[g]
      BY <2>1 DEF Others
    <3> QED  BY <3>1, Zenon DEF FilledInv, Filled
  <2>2. CASE g = h
    <3>1. Filled(handler[h])
      BY DEF FilledInv
    <3> QED  BY <2>2, <3>1, Zenon DEF Filled
  <2> QED  BY <2>1, <2>2
<1> QED  BY <1>1 DEF FilledInv

LEMMA OnlyPc ==
  ASSUME TypeInv, NEW h \in Presses, NEW pc, handler'[h] = [handler[h] EXCEPT !.pc = pc]
  PROVE  /\ handler'[h].pc = pc /\ handler'[h].op = handler[h].op /\ handler'[h].at = handler[h].at
         /\ handler'[h].index = handler[h].index /\ handler'[h].total = handler[h].total
         /\ handler'[h].value = handler[h].value /\ handler'[h].answer = handler[h].answer
         /\ handler'[h].steady = handler[h].steady /\ handler'[h].touched = handler[h].touched
<1>1. handler[h] \in Handlers
  BY DEF TypeInv, TypeOK
<1>2. /\ handler'[h].pc = pc /\ handler'[h].op = handler[h].op /\ handler'[h].at = handler[h].at
      /\ handler'[h].index = handler[h].index /\ handler'[h].total = handler[h].total
      /\ handler'[h].value = handler[h].value /\ handler'[h].answer = handler[h].answer
  BY <1>1 DEF Handlers
<1>3. handler'[h].steady = handler[h].steady /\ handler'[h].touched = handler[h].touched
  BY <1>1, Zenon DEF Handlers
<1> QED  BY <1>2, <1>3

LEMMA IdleIs == Idle.pc = "idle" /\ Idle.answer.shown = {}
  BY DEF Idle, Blank

LEMMA FilledStep == TypeInv /\ TypeInv' /\ FilledInv /\ [Next]_vars => FilledInv'
<1> SUFFICES ASSUME TypeInv, TypeInv', FilledInv, [Next]_vars PROVE FilledInv'
  OBVIOUS
<1>0. TypeOK /\ rating \in [Stickers -> Ratings]
  BY DEF TypeInv, TypeOK
<1>1. ASSUME handler' = handler, rating' = rating
      PROVE  FilledInv'
  BY <1>1, Zenon DEF FilledInv, Filled
<1>2. ASSUME NEW h \in Presses, Others(h), rating' = rating, handler'[h].pc \notin {"modal", "reread", "write"}
      PROVE  FilledInv'
  BY <1>2, FilledOther
<1>3. ASSUME NEW h \in Presses, NEW pc, handler' = GoTo(h, pc), rating' = rating, pc \in {"reread", "write", "list", "publish"},
             handler[h].pc \in {"modal", "reread", "write"} \/ pc \in {"list", "publish"}
      PROVE  FilledInv'
  <2>1. handler'[h] = [handler[h] EXCEPT !.pc = pc] /\ Others(h)
    BY <1>3, GoToIs DEF Others
  <2>2. /\ handler'[h].pc = pc /\ handler'[h].at = handler[h].at
        /\ handler'[h].value = handler[h].value
        /\ handler'[h].steady = handler[h].steady /\ handler'[h].touched = handler[h].touched
    BY <2>1, OnlyPc, Zenon
  <2>3. CASE pc \in {"list", "publish"}
    BY <1>3, <2>1, <2>2, <2>3, FilledOther
  <2>4. CASE handler[h].pc \in {"modal", "reread", "write"}
    BY <1>3, <2>1, <2>2, <2>4, FilledOther, Zenon
  <2> QED  BY <1>3, <2>3, <2>4
<1>4. ASSUME NEW h \in Presses, handler' = Refuse(h), rating' = rating
      PROVE  FilledInv'
  BY <1>2, <1>4, RefuseIs, IdleIs DEF Others
<1>5. ASSUME NEW h \in Presses, HandlerOnly
      PROVE  rating' = rating
  BY <1>5 DEF HandlerOnly, packVars
<1>6. ASSUME NEW start \in 1 .. Len(list) + 1, OpenSticker(start)
      PROVE  FilledInv'
  BY <1>1, <1>6 DEF OpenSticker, packVars
<1>7. ASSUME NEW h \in Presses, OpenPages(h)
      PROVE  FilledInv'
  BY <1>2, <1>7, OpenPagesIs DEF OpenPages, packVars
<1>8. ASSUME NEW h \in Presses, NEW op \in Ops, Press(h, op)
      PROVE  FilledInv'
  BY <1>2, <1>8, PressIs DEF Press, packVars
<1>9. ASSUME NEW h \in Presses, StepSticker(h)
      PROVE  FilledInv'
  BY <1>3, <1>4, <1>5, <1>9 DEF StepSticker
<1>10. ASSUME NEW h \in Presses, ModalSticker(h)
       PROVE  FilledInv'
  <2>1. rating' = rating
    BY <1>5, <1>10 DEF ModalSticker
  <2>2. CASE handler'[h] = Idle
    BY <1>2, <1>10, <2>1, <2>2, ModalStickerIs, IdleIs
  <2>3. CASE handler'[h] # Idle
    BY <1>0, <1>10, <2>1, <2>3, ModalStickerIs, Listed, FilledOther
  <2> QED  BY <2>2, <2>3
<1>11. ASSUME NEW h \in Presses, Submit(h)
       PROVE  FilledInv'
  <2>1. rating' = rating /\ handler[h].pc = "modal"
    BY <1>5, <1>11 DEF Submit
  <2>2. CASE handler'[h] = Idle
    BY <1>2, <1>11, <2>1, <2>2, SubmitIs, IdleIs
  <2>3. CASE handler'[h] = [handler[h] EXCEPT !.pc = "reread"]
    <3>1. Others(h) /\ handler'[h].at = handler[h].at /\ handler'[h].value = handler[h].value
      BY <1>11, <2>3, SubmitIs, OnlyPc
    <3>2. handler'[h].steady = handler[h].steady /\ handler'[h].touched = handler[h].touched
      BY <2>3, OnlyPc, Zenon
    <3> QED  BY <2>1, <3>1, <3>2, FilledOther, Zenon
  <2>4. CASE /\ handler'[h].pc = "reread" /\ handler'[h].touched
             /\ handler'[h].at = handler[h].at /\ handler'[h].op = handler[h].op
    <3>1. handler'[h].at \in Stickers
      BY <2>1, <2>4 DEF FilledInv, Filled
    <3>2. Others(h)
      BY <1>11, SubmitIs
    <3> QED  BY <2>1, <2>4, <3>1, <3>2, FilledOther, Zenon
  <2> QED  BY <1>11, <2>2, <2>3, <2>4, SubmitIs
<1>12. ASSUME NEW h \in Presses, RereadSticker(h)
       PROVE  FilledInv'
  BY <1>3, <1>4, <1>5, <1>12 DEF RereadSticker
<1>13. ASSUME NEW h \in Presses, ReplaceFile(h)
       PROVE  FilledInv'
  BY <1>3, <1>5, <1>13 DEF ReplaceFile
<1>14. ASSUME NEW h \in Presses, ReadList(h)
       PROVE  FilledInv'
  BY <1>2, <1>5, <1>14, ReadListIs DEF ReadList
<1>15. ASSUME NEW h \in Presses, ConfirmCheck(h)
       PROVE  FilledInv'
  BY <1>3, <1>4, <1>5, <1>15 DEF ConfirmCheck
<1>16. ASSUME NEW h \in Presses, ConfirmWrite(h)
       PROVE  FilledInv'
  BY <1>4, <1>16 DEF ConfirmWrite
<1>17. ASSUME NEW h \in Presses, CountPages(h)
       PROVE  FilledInv'
  BY <1>2, <1>5, <1>17, CountPagesIs DEF CountPages
<1>18. ASSUME NEW h \in Presses, FindPage(h)
       PROVE  FilledInv'
  BY <1>2, <1>5, <1>18, FindPageIs DEF FindPage
<1>19. ASSUME NEW h \in Presses, Respond(h)
       PROVE  FilledInv'
  BY <1>4, <1>19 DEF Respond, packVars
<1>20. ASSUME NEW h \in Presses, EditSticker(h)
       PROVE  FilledInv'
  <2> DEFINE t == handler[h].at
  <2>1. rating' \in [Stickers -> Ratings] /\ \A s \in Stickers \ {t} : rating'[s] = rating[s]
    BY <1>0, <1>20 DEF EditSticker, TypeInv, TypeOK
  <2>2. ASSUME NEW g \in Presses
        PROVE  Filled(handler[g])'
    <3>1. CASE g = h
      <4>1. Dims([handler[h] EXCEPT !.pc = "list"], handler'[h])
        BY <1>20, EditStickerIs, Zenon
      <4>2. handler'[h].pc = "list"
        BY <4>1, <1>0, HandlerFields DEF Dims, TypeOK, Handlers
      <4> QED  BY <3>1, <4>2 DEF Filled
    <3>2. CASE g # h
      <4>1. /\ Dims(handler[g], handler'[g])
            /\ handler'[g].steady => /\ handler[g].steady
                                     /\ handler[g].pc \in {"modal", "reread", "write"} => handler[g].at # t
        BY <1>20, <3>2, EditStickerIs, Zenon
      <4>2. Filled(handler[g])
        BY DEF FilledInv
      <4>3. /\ handler'[g].pc \in {"modal", "reread", "write"} => handler'[g].at \in Stickers
            /\ handler'[g].pc \in {"modal", "reread", "write"} /\ handler'[g].steady /\ ~handler'[g].touched
                 => handler'[g].value = rating'[handler'[g].at]
        BY <1>0, <2>1, <4>1, <4>2, FilledOutdated
      <4> QED  BY <4>3, Zenon DEF Filled
    <3> QED  BY <3>1, <3>2
  <2> QED  BY <2>2 DEF FilledInv
<1>21. ASSUME NEW s \in Stickers, Delete(s)
       PROVE  FilledInv'
  BY <1>21, FilledChange DEF Delete
<1>22. ASSUME NEW s \in Stickers, MoveToFront(s)
       PROVE  FilledInv'
  BY <1>22, FilledChange DEF MoveToFront
<1>23. ASSUME NEW s \in Stickers, NEW i \in 1 .. Len(list) + 1, Insert(s, i)
       PROVE  FilledInv'
  BY <1>0, <1>23, FilledChange DEF Insert
<1>24. ASSUME NEW s \in Stickers, NEW v \in Ratings \ {rating[s]}, Rate(s, v)
       PROVE  FilledInv'
  BY <1>0, <1>24, FilledChange DEF Rate
<1>25. CASE UNCHANGED vars
  BY <1>1, <1>25 DEF vars
<1> QED  BY <1>6, <1>7, <1>8, <1>9, <1>10, <1>11, <1>12, <1>13, <1>14, <1>15, <1>16, <1>17, <1>18, <1>19,
            <1>20, <1>21, <1>22, <1>23, <1>24, <1>25, Zenon DEF Next

(* Whoever opens the modal of a sticker, looks, and sends it unchanged leaves
   the rating alone: what the modal was filled in with is still the rating
   unless the sticker was rated meanwhile. *)
THEOREM UnchangedModalsChangeNothing == Spec => UntouchedRatingsStay
<1> DEFINE Untouched == \A h \in Presses :
             handler[h].pc = "write" /\ handler'[h].pc = "list" /\ handler[h].steady /\ ~handler[h].touched
               => rating' = rating
<1>1. Init => FilledInv
  BY IdleHandler DEF Init, FilledInv, Filled, Idle
<1>2. TypeInv /\ FilledInv /\ [Next]_vars => Untouched
  <2> SUFFICES ASSUME TypeInv, FilledInv, [Next]_vars, NEW h \in Presses,
                      handler[h].pc = "write", handler'[h].pc = "list", handler[h].steady, ~handler[h].touched
               PROVE  rating' = rating
    OBVIOUS
  <2>0. handler \in [Presses -> Handlers] /\ \A g \in Presses : Answered(handler[g])
    BY DEF TypeInv, TypeOK
  <2>1. ASSUME NEW s, Outdate(handler, s)
        PROVE  FALSE
    <3>1. Dims(handler[h], handler'[h])
      BY <2>0, <2>1, OutdateIs
    <3> QED  BY <3>1 DEF Dims
  <2>2. ASSUME NEW g \in Presses, EditSticker(g), g # h
        PROVE  FALSE
    <3>1. Dims(handler[h], handler'[h])
      BY <2>2, EditStickerIs, Zenon
    <3> QED  BY <3>1 DEF Dims
  <2>3. ASSUME EditSticker(h)
        PROVE  rating' = rating
    <3>1. handler[h].value = rating[handler[h].at] /\ handler[h].at \in Stickers
      BY Zenon DEF FilledInv, Filled
    <3>2. rating' = [rating EXCEPT ![handler[h].at] = handler[h].value]
      BY <2>3 DEF EditSticker
    <3>3. rating \in [Stickers -> Ratings]
      BY DEF TypeInv, TypeOK
    <3> QED  BY <3>1, <3>2, <3>3
  <2>4. ASSUME NEW g \in Presses,
               \/ OpenPages(g) \/ (\E op \in Ops : Press(g, op))
               \/ StepSticker(g) \/ ModalSticker(g) \/ Submit(g) \/ RereadSticker(g)
               \/ ReplaceFile(g) \/ ReadList(g)
               \/ ConfirmCheck(g) \/ ConfirmWrite(g) \/ CountPages(g) \/ FindPage(g) \/ Respond(g)
        PROVE  rating' = rating
    BY <2>4 DEF OpenPages, Press, StepSticker, ModalSticker, Submit, RereadSticker, ReplaceFile, ReadList,
                ConfirmCheck, ConfirmWrite, CountPages, FindPage, Respond, HandlerOnly, packVars
  <2>5. ASSUME NEW start \in 1 .. Len(list) + 1, OpenSticker(start)
        PROVE  rating' = rating
    BY <2>5 DEF OpenSticker, packVars
  <2>6. ASSUME NEW s \in Stickers,
               \/ Delete(s) \/ MoveToFront(s)
               \/ \E i \in 1 .. Len(list) + 1 : Insert(s, i)
               \/ \E v \in Ratings \ {rating[s]} : Rate(s, v)
        PROVE  FALSE
    BY <2>1, <2>6 DEF Delete, MoveToFront, Insert, Rate
  <2>7. CASE UNCHANGED vars
    BY <2>7 DEF vars
  <2> QED  BY <2>2, <2>3, <2>4, <2>5, <2>6, <2>7, Zenon DEF Next
<1> QED  BY InitTyped, TypeStep, FilledStep, <1>1, <1>2, PTL DEF Spec, UntouchedRatingsStay

-----------------------------------------------------------------------------
(* Each kind of message has its handlers: f is what was opened, k what the
   message shows. *)

KindOf(f, k, r) ==
  /\ f = "pages" => /\ r.pc \in {"idle", "count", "find", "respond"}
                    /\ r.pc = "respond" => r.answer.kind = "page"
  /\ f # "pages" => /\ r.pc \notin {"count", "find"}
                    /\ r.pc = "respond" => r.answer.kind \in {"sticker", "done"}
                    /\ k = "none" => r.pc = "idle"
  /\ r.pc \in {"modal", "reread", "write"} => r.op \in {"edit", "replace"}
  /\ r.pc = "sticker" => r.op \in Steps \union {"edit", "replace"}
  /\ r.pc = "list" => r.op \in Steps \union {"edit", "replace", "jump"}
  /\ r.pc \in {"count", "find"} => r.op \in Steps \union Leaps \union {"open"}
ScreenKind(f, k) == k \in IF f = "pages" THEN {"none", "page"} ELSE {"none", "sticker", "done"}
KindInv ==
  /\ ScreenKind(flow, screen.kind)
  /\ \A h \in Presses : KindOf(flow, screen.kind, handler[h])

LEMMA KindOther ==
  ASSUME KindInv, NEW h \in Presses, Others(h), flow' = flow, screen' = screen, KindOf(flow, screen.kind, handler'[h])
  PROVE  KindInv'
<1>1. \A g \in Presses : KindOf(flow, screen.kind, handler'[g])
  BY DEF KindInv, Others
<1> QED  BY <1>1 DEF KindInv

LEMMA KindDims ==
  ASSUME NEW f, NEW k, NEW r, NEW q, Dims(r, q), KindOf(f, k, r)
  PROVE  KindOf(f, k, q)
<1>1. q.pc = r.pc /\ q.op = r.op /\ q.answer = r.answer
  BY DEF Dims
<1> QED  BY <1>1 DEF KindOf

LEMMA KindChange ==
  ASSUME TypeInv, KindInv, Change, NEW s, Outdate(handler, s)
  PROVE  KindInv'
<1>1. handler \in [Presses -> Handlers] /\ \A g \in Presses : Answered(handler[g])
  BY DEF TypeInv, TypeOK
<1>2. \A g \in Presses : Dims(handler[g], handler'[g])
  BY <1>1, OutdateIs, Zenon
<1>3. screen' = screen /\ flow' = flow
  BY DEF Outdate, Change
<1> QED  BY <1>2, <1>3, KindDims DEF KindInv

LEMMA IdleKind ==
  ASSUME NEW f, NEW k
  PROVE  KindOf(f, k, Idle)
  BY DEF KindOf, Idle

LEMMA KindStep == TypeInv /\ KindInv /\ [Next]_vars => KindInv'
<1> SUFFICES ASSUME TypeInv, KindInv, [Next]_vars PROVE KindInv'
  OBVIOUS
<1>0. TypeOK /\ ScreenKind(flow, screen.kind) /\ \A h \in Presses : KindOf(flow, screen.kind, handler[h])
  BY DEF TypeInv, KindInv
<1>1. ASSUME NEW h \in Presses, handler' = Refuse(h), flow' = flow, screen' = screen
      PROVE  KindInv'
  BY <1>1, RefuseIs, IdleKind, KindOther DEF Others
<1>2. ASSUME NEW h \in Presses, NEW pc, handler' = GoTo(h, pc), pc \in {"reread", "write", "list", "publish"},
             flow' = flow, screen' = screen, handler[h].pc \in {"sticker", "modal", "reread", "write", "check"},
             pc \in {"reread", "write"} => handler[h].pc \in {"modal", "reread", "write"},
             pc = "list" => handler[h].pc # "check"
      PROVE  KindInv'
  <2>1. handler'[h] = [handler[h] EXCEPT !.pc = pc] /\ Others(h)
    BY <1>2, GoToIs DEF Others
  <2>2. handler'[h].pc = pc /\ handler'[h].op = handler[h].op
    BY <2>1, OnlyPc
  <2>3. KindOf(flow, screen.kind, handler'[h])
    BY <1>0, <1>2, <2>2 DEF KindOf
  <2> QED  BY <1>2, <2>1, <2>3, KindOther
<1>3. ASSUME HandlerOnly
      PROVE  flow' = flow /\ screen' = screen
  BY <1>3 DEF HandlerOnly, packVars
<1>4. ASSUME NEW start \in 1 .. Len(list) + 1, OpenSticker(start)
      PROVE  KindInv'
  <2>1. flow' = flow /\ handler' = handler /\ flow # "pages" /\ screen.kind = "none"
    BY <1>4 DEF OpenSticker, packVars
  <2>2. screen'.kind = "sticker"
    BY <1>4 DEF OpenSticker, StickerContent
  <2>3. \A h \in Presses : handler[h].pc = "idle"
    BY <1>0, <2>1 DEF KindOf
  <2> QED  BY <2>1, <2>2, <2>3 DEF KindInv, KindOf, ScreenKind
<1>5. ASSUME NEW h \in Presses, OpenPages(h)
      PROVE  KindInv'
  <2>1. handler'[h].pc = "count" /\ handler'[h].op = "open" /\ Others(h)
    BY <1>5, OpenPagesIs
  <2>2. flow = "pages" /\ flow' = flow /\ screen' = screen
    BY <1>5 DEF OpenPages, packVars
  <2>3. KindOf(flow, screen.kind, handler'[h])
    BY <2>1, <2>2 DEF KindOf
  <2> QED  BY <2>1, <2>2, <2>3, KindOther
<1>6. ASSUME NEW h \in Presses, NEW op \in Ops, Press(h, op)
      PROVE  KindInv'
  <2>1. flow' = flow /\ screen' = screen /\ screen.kind # "none" /\ Enabled(op) /\ (op \in Leaps => flow = "pages")
    BY <1>6 DEF Press, packVars
  <2>2. Others(h) /\ handler'[h].op = op
    BY <1>6, PressIs
  <2>3. CASE flow = "pages"
    <3>1. handler'[h].pc = "count"
      BY <1>6, <2>3, PressIs
    <3>2. screen.kind = "page"
      BY <1>0, <2>1, <2>3 DEF ScreenKind
    <3>3. op \in Steps \union Leaps
      BY <2>1, <2>3, <3>2 DEF Enabled, PublishRow, Steps, Leaps
    <3>4. KindOf(flow, screen.kind, handler'[h])
      BY <2>2, <2>3, <3>1, <3>3 DEF KindOf
    <3> QED  BY <2>1, <2>2, <3>4, KindOther
  <2>4. CASE flow # "pages"
    <3>1. \/ op = "confirm" /\ handler'[h].pc = "check"
          \/ op = "jump" /\ handler'[h].pc = "list"
          \/ op \notin {"confirm", "jump"} /\ handler'[h].pc = "sticker"
      BY <1>6, <2>4, PressIs
    <3>2. op \in Steps \union {"edit", "replace", "jump", "confirm"}
      BY <2>1, <2>4 DEF Enabled, PublishRow, Steps, Leaps
    <3>3. KindOf(flow, screen.kind, handler'[h])
      BY <2>1, <2>2, <2>4, <3>1, <3>2 DEF KindOf
    <3> QED  BY <2>1, <2>2, <3>3, KindOther
  <2> QED  BY <2>3, <2>4
<1>7. ASSUME NEW h \in Presses, StepSticker(h)
      PROVE  KindInv'
  BY <1>1, <1>2, <1>3, <1>7 DEF StepSticker, Begin
<1>8. ASSUME NEW h \in Presses, ModalSticker(h)
      PROVE  KindInv'
  <2>1. flow' = flow /\ screen' = screen /\ handler[h].pc = "sticker" /\ handler[h].op \in {"edit", "replace"}
    BY <1>3, <1>8 DEF ModalSticker, Begin
  <2>2. Others(h)
    BY <1>8, ModalStickerIs
  <2>3. KindOf(flow, screen.kind, handler'[h])
    <3>1. CASE handler'[h] = Idle
      BY <3>1, IdleKind
    <3>2. CASE handler'[h].pc = "modal" /\ handler'[h].op = handler[h].op
      BY <1>0, <2>1, <3>2 DEF KindOf
    <3> QED  BY <1>8, <3>1, <3>2, ModalStickerIs
  <2> QED  BY <2>1, <2>2, <2>3, KindOther
<1>9. ASSUME NEW h \in Presses, Submit(h)
      PROVE  KindInv'
  <2>1. flow' = flow /\ screen' = screen /\ handler[h].pc = "modal"
    BY <1>3, <1>9 DEF Submit
  <2>2. Others(h)
    BY <1>9, SubmitIs
  <2>3. KindOf(flow, screen.kind, handler'[h])
    <3>1. CASE handler'[h] = Idle
      BY <3>1, IdleKind
    <3>2. handler'[h] # Idle => handler'[h].pc = "reread" /\ handler'[h].op = handler[h].op
      BY <1>9, SubmitIs, OnlyPc
    <3>3. CASE handler'[h] # Idle
      BY <1>0, <2>1, <3>2, <3>3 DEF KindOf
    <3> QED  BY <3>1, <3>3
  <2> QED  BY <2>1, <2>2, <2>3, KindOther
<1>10. ASSUME NEW h \in Presses, RereadSticker(h)
       PROVE  KindInv'
  BY <1>1, <1>2, <1>3, <1>10 DEF RereadSticker
<1>11. ASSUME NEW h \in Presses, ReplaceFile(h)
       PROVE  KindInv'
  BY <1>2, <1>3, <1>11 DEF ReplaceFile
<1>12. ASSUME NEW h \in Presses, ReadList(h)
       PROVE  KindInv'
  <2>1. flow' = flow /\ screen' = screen /\ handler[h].pc = "list"
    BY <1>3, <1>12 DEF ReadList
  <2>2. Others(h) /\ handler'[h].pc = "respond" /\ handler'[h].answer.kind \in {"sticker", "done"}
    BY <1>12, ReadListIs
  <2>3. KindOf(flow, screen.kind, handler'[h])
    BY <1>0, <2>1, <2>2 DEF KindOf
  <2> QED  BY <2>1, <2>2, <2>3, KindOther
<1>13. ASSUME NEW h \in Presses, ConfirmCheck(h)
       PROVE  KindInv'
  BY <1>1, <1>2, <1>3, <1>13 DEF ConfirmCheck
<1>14. ASSUME NEW h \in Presses, ConfirmWrite(h)
       PROVE  KindInv'
  BY <1>1, <1>14 DEF ConfirmWrite
<1>15. ASSUME NEW h \in Presses, CountPages(h)
       PROVE  KindInv'
  <2>1. flow' = flow /\ screen' = screen /\ handler[h].pc = "count"
    BY <1>3, <1>15 DEF CountPages
  <2>2. Others(h) /\ handler'[h].pc = "find" /\ handler'[h].op = handler[h].op
    BY <1>15, CountPagesIs
  <2>3. KindOf(flow, screen.kind, handler'[h])
    BY <1>0, <2>1, <2>2 DEF KindOf
  <2> QED  BY <2>1, <2>2, <2>3, KindOther
<1>16. ASSUME NEW h \in Presses, FindPage(h)
       PROVE  KindInv'
  <2>1. flow' = flow /\ screen' = screen /\ handler[h].pc = "find"
    BY <1>3, <1>16 DEF FindPage
  <2>2. Others(h) /\ handler'[h].pc = "respond" /\ handler'[h].answer.kind = "page"
    BY <1>16, FindPageIs
  <2>3. KindOf(flow, screen.kind, handler'[h])
    BY <1>0, <2>1, <2>2 DEF KindOf
  <2> QED  BY <2>1, <2>2, <2>3, KindOther
<1>17. ASSUME NEW h \in Presses, Respond(h)
       PROVE  KindInv'
  <2>1. handler'[h] = Idle /\ Others(h) /\ flow' = flow /\ screen' = handler[h].answer /\ handler[h].pc = "respond"
    BY <1>17, RefuseIs DEF Respond, packVars, Others
  <2>2. ScreenKind(flow, screen'.kind) /\ screen'.kind # "none"
    BY <1>0, <2>1 DEF KindOf, ScreenKind
  <2>3. \A g \in Presses : KindOf(flow, screen'.kind, handler'[g])
    BY <1>0, <2>1, <2>2, IdleKind DEF KindOf, Others
  <2> QED  BY <2>1, <2>2, <2>3 DEF KindInv
<1>18. ASSUME NEW h \in Presses, EditSticker(h)
       PROVE  KindInv'
  <2>1. flow' = flow /\ screen' = screen
    BY <1>18, EditStickerIs DEF EditSticker
  <2>2. ASSUME NEW g \in Presses
        PROVE  KindOf(flow, screen.kind, handler'[g])
    <3>1. CASE g = h
      <4> DEFINE q == [handler[h] EXCEPT !.pc = "list"]
      <4>1. q.pc = "list" /\ q.op = handler[h].op /\ handler[h].pc = "write"
        BY <1>0, <1>18 DEF EditSticker, TypeOK, Handlers
      <4>2. Dims(q, handler'[g])
        BY <1>18, <3>1, EditStickerIs, Zenon
      <4> HIDE DEF q
      <4>3. KindOf(flow, screen.kind, q)
        BY <1>0, <4>1 DEF KindOf
      <4> QED  BY <4>2, <4>3, KindDims
    <3>2. CASE g # h
      <4>1. Dims(handler[g], handler'[g])
        BY <1>18, <3>2, EditStickerIs, Zenon
      <4> QED  BY <1>0, <4>1, KindDims
    <3> QED  BY <3>1, <3>2
  <2> QED  BY <1>0, <2>1, <2>2 DEF KindInv
<1>19. ASSUME NEW s \in Stickers, Delete(s)
       PROVE  KindInv'
  BY <1>19, KindChange DEF Delete
<1>20. ASSUME NEW s \in Stickers, MoveToFront(s)
       PROVE  KindInv'
  BY <1>20, KindChange DEF MoveToFront
<1>21. ASSUME NEW s \in Stickers, NEW i \in 1 .. Len(list) + 1, Insert(s, i)
       PROVE  KindInv'
  BY <1>21, KindChange DEF Insert
<1>22. ASSUME NEW s \in Stickers, NEW v \in Ratings \ {rating[s]}, Rate(s, v)
       PROVE  KindInv'
  BY <1>22, KindChange DEF Rate
<1>23. CASE UNCHANGED vars
  BY <1>0, <1>23 DEF vars, KindInv
<1> QED  BY <1>4, <1>5, <1>6, <1>7, <1>8, <1>9, <1>10, <1>11, <1>12, <1>13, <1>14, <1>15, <1>16, <1>17,
            <1>18, <1>19, <1>20, <1>21, <1>22, <1>23, Zenon DEF Next

LEMMA InitKind == Init => KindInv
<1> SUFFICES ASSUME Init PROVE KindInv
  OBVIOUS
<1>1. screen.kind = "none" /\ \A h \in Presses : handler[h] = Idle
  BY DEF Init, Blank
<1> QED  BY <1>1, IdleKind DEF KindInv, ScreenKind

-----------------------------------------------------------------------------
(* No page of a pack with stickers is empty. *)

LEMMA WhoAnswers ==
  ASSUME TypeInv, [Next]_vars, NEW h \in Presses, Answers(h)
  PROVE  \/ handler[h].pc = "list" /\ ReadList(h)
         \/ handler[h].pc = "find" /\ FindPage(h)
<1>0. handler \in [Presses -> Handlers] /\ \A g \in Presses : Answered(handler[g])
  BY DEF TypeInv, TypeOK
<1>a. handler[h].pc \in {"list", "find"} /\ handler'[h].pc = "respond"
  BY DEF Answers
<1>1. ASSUME NEW s, Outdate(handler, s)
      PROVE  FALSE
  <2>1. Dims(handler[h], handler'[h])
    BY <1>0, <1>1, OutdateIs
  <2> QED  BY <1>a, <2>1 DEF Dims
<1>2. ASSUME NEW g \in Presses, EditSticker(g)
      PROVE  FALSE
  <2>1. g # h
    BY <1>a, <1>2 DEF EditSticker
  <2>2. Dims(handler[h], handler'[h])
    BY <1>2, <2>1, EditStickerIs, Zenon
  <2> QED  BY <1>a, <2>2 DEF Dims
<1>3. ASSUME NEW g \in Presses, Others(g)
      PROVE  g = h
  BY <1>a, <1>3 DEF Others
<1>4. ASSUME NEW g \in Presses, \/ OpenPages(g) \/ (\E op \in Ops : Press(g, op))
                                \/ ModalSticker(g) \/ Submit(g) \/ CountPages(g)
      PROVE  FALSE
  <2>1. CASE OpenPages(g)
    BY <1>a, <1>3, <2>1, OpenPagesIs
  <2>2. ASSUME NEW op \in Ops, Press(g, op)
        PROVE  FALSE
    BY <1>a, <1>3, <2>2, PressIs
  <2>3. CASE ModalSticker(g)
    BY <1>a, <1>3, <2>3, ModalStickerIs DEF ModalSticker, Begin
  <2>4. CASE Submit(g)
    BY <1>a, <1>3, <2>4, SubmitIs DEF Submit
  <2>5. CASE CountPages(g)
    BY <1>a, <1>3, <2>5, CountPagesIs
  <2> QED  BY <1>4, <2>1, <2>2, <2>3, <2>4, <2>5
<1>5. ASSUME NEW g \in Presses, \/ StepSticker(g) \/ RereadSticker(g) \/ ReplaceFile(g)
                                \/ ConfirmCheck(g) \/ ConfirmWrite(g) \/ Respond(g)
      PROVE  FALSE
  <2>1. handler[g].pc \notin {"list", "find"}
    BY <1>5 DEF StepSticker, Begin, RereadSticker, ReplaceFile, ConfirmCheck, ConfirmWrite, Respond
  <2>2. handler' = Refuse(g) \/ \E pc : handler' = GoTo(g, pc)
    BY <1>5 DEF StepSticker, RereadSticker, ReplaceFile, ConfirmCheck, ConfirmWrite, Respond
  <2>3. Others(g)
    BY <1>0, <2>2 DEF Refuse, GoTo, Others
  <2> QED  BY <1>a, <1>3, <2>1, <2>3
<1>6. ASSUME NEW g \in Presses, ReadList(g)
      PROVE  handler[h].pc = "list" /\ ReadList(h)
  <2>1. g = h
    BY <1>3, <1>6, ReadListIs
  <2> QED  BY <1>6, <2>1 DEF ReadList
<1>7. ASSUME NEW g \in Presses, FindPage(g)
      PROVE  handler[h].pc = "find" /\ FindPage(h)
  <2>1. g = h
    BY <1>3, <1>7, FindPageIs
  <2> QED  BY <1>7, <2>1 DEF FindPage
<1>8. ASSUME NEW start \in 1 .. Len(list) + 1, OpenSticker(start)
      PROVE  FALSE
  BY <1>a, <1>8 DEF OpenSticker
<1>9. ASSUME NEW s \in Stickers,
             \/ Delete(s) \/ MoveToFront(s)
             \/ \E i \in 1 .. Len(list) + 1 : Insert(s, i)
             \/ \E v \in Ratings \ {rating[s]} : Rate(s, v)
      PROVE  FALSE
  BY <1>1, <1>9 DEF Delete, MoveToFront, Insert, Rate
<1>10. CASE UNCHANGED vars
  BY <1>a, <1>10 DEF vars
<1> QED  BY <1>2, <1>4, <1>5, <1>6, <1>7, <1>8, <1>9, <1>10, Zenon DEF Next

(* The order gives the visible stickers the ranks from 0 on, each one once. *)
LEMMA RanksApart ==
  ASSUME TypeOK, NEW i \in VisibleAt, NEW j, j \in Nat, i < j
  PROVE  Ahead(i) < Ahead(j)
<1>0. IsFiniteSet(VisibleAt) /\ VisibleAt \in SUBSET (1 .. Len(list)) /\ Len(list) \in Nat
  BY VisibleFinite, Listed
<1> DEFINE B(m) == {l \in VisibleAt : l < m}
<1>1. IsFiniteSet(B(j))
  BY <1>0, FS_Subset
<1>2. B(i) \subseteq B(j) /\ i \in B(j) /\ i \notin B(i)
  <2>1. \A l \in VisibleAt : l \in Nat
    BY <1>0
  <2>2. \A l \in VisibleAt : l < i => l < j
    BY <2>1
  <2>3. ~(i < i)
    BY <2>1
  <2> QED  BY <2>2, <2>3
<1>3. Cardinality(B(i)) \in Nat /\ Cardinality(B(j)) \in Nat /\ IsFiniteSet(B(i))
  BY <1>1, <1>2, FS_Subset, FS_CardinalityType
<1>4. B(i) # B(j)
  BY <1>2
<1> HIDE DEF B
<1>5. Cardinality(B(i)) < Cardinality(B(j))
  BY <1>1, <1>2, <1>3, <1>4, FS_Subset
<1> QED  BY <1>5 DEF Ahead, B

LEMMA RankBelow ==
  ASSUME TypeOK, NEW i \in VisibleAt
  PROVE  Ahead(i) \in Nat /\ Ahead(i) < Cardinality(VisibleAt)
<1>1. VisibleAt \in SUBSET (1 .. Len(list)) /\ Len(list) \in Nat
  BY VisibleFinite, Listed
<1>2. Ahead(i) < Ahead(Len(list) + 1)
  BY <1>1, RanksApart
<1>3. Ahead(i) \in Nat /\ Ahead(Len(list) + 1) \in Nat /\ Cardinality(VisibleAt) \in Nat
      /\ Ahead(Len(list) + 1) <= Cardinality(VisibleAt)
  BY VisibleFinite
<1> QED  BY <1>2, <1>3

LEMMA EveryRank ==
  ASSUME TypeOK, NEW m \in Nat, m < Cardinality(VisibleAt)
  PROVE  \E i \in VisibleAt : Ahead(i) = m
<1> DEFINE n == Cardinality(VisibleAt)
           T == 0 .. n - 1
           f == [i \in VisibleAt |-> Ahead(i)]
<1>1. n \in Nat /\ IsFiniteSet(VisibleAt) /\ VisibleAt \in SUBSET (1 .. Len(list)) /\ Len(list) \in Nat
  BY VisibleFinite, Listed
<1>2. IsFiniteSet(T) /\ Cardinality(T) = n
  <2>1. n - 1 \in Int
    BY <1>1
  <2>2. IsFiniteSet(T) /\ Cardinality(T) = IF 0 > n - 1 THEN 0 ELSE n - 1 - 0 + 1
    BY <2>1, FS_Interval
  <2> QED  BY <1>1, <2>2
<1>3. f \in [VisibleAt -> T]
  BY <1>1, RankBelow
<1>4. \A i, j \in VisibleAt : f[i] = f[j] => i = j
  <2> SUFFICES ASSUME NEW i \in VisibleAt, NEW j \in VisibleAt, f[i] = f[j] PROVE i = j
    OBVIOUS
  <2>1. i \in Nat /\ j \in Nat /\ Ahead(i) \in Nat /\ Ahead(j) \in Nat /\ Ahead(i) = Ahead(j)
    BY <1>1, RankBelow
  <2>2. ~(i < j)
    BY <2>1, RanksApart
  <2>3. ~(j < i)
    BY <2>1, RanksApart
  <2> QED  BY <2>1, <2>2, <2>3
<1> HIDE DEF f, T, n
<1>5. f \in Injection(VisibleAt, T)
  BY <1>3, <1>4 DEF Injection, IsInjective
<1>6. f \in Surjection(VisibleAt, T)
  BY <1>1, <1>2, <1>5, FS_Injection DEF n
<1>7. \E i \in VisibleAt : f[i] = m
  <2>1. m \in T
    BY <1>1 DEF T, n
  <2> QED  BY <1>6, <2>1 DEF Surjection
<1> QED  BY <1>7 DEF f

LEMMA PageHasStickers ==
  ASSUME TypeOK, Cardinality(VisibleAt) # 0, NEW page \in 1 .. PagesOf(Cardinality(VisibleAt))
  PROVE  \E i \in VisibleAt : Ahead(i) \in (page - 1) * PerPage .. page * PerPage - 1
<1> DEFINE n == Cardinality(VisibleAt)
           p == PagesOf(n)
           m == (page - 1) * PerPage
<1>1. n \in Nat /\ n # 0 /\ PerPage \in Nat \ {0}
  BY VisibleFinite, ScreensAssumption
<1>2. p \in Nat /\ (p - 1) * PerPage < n
  BY <1>1, PagesIs
<1>3. page \in Nat \ {0} /\ page <= p
  BY <1>2
<1> HIDE DEF n, p
<1>4. (page - 1) * PerPage <= (p - 1) * PerPage /\ (page - 1) * PerPage \in Nat /\ (p - 1) * PerPage \in Nat
  BY <1>1, <1>2, <1>3
<1>5. (page - 1) * PerPage = page * PerPage - PerPage /\ page * PerPage \in Nat
  BY <1>1, <1>3
<1>6. m \in Nat /\ m < n /\ m \in (page - 1) * PerPage .. page * PerPage - 1
  BY <1>1, <1>2, <1>4, <1>5
<1> HIDE DEF m
<1>7. PICK i \in VisibleAt : Ahead(i) = m
  BY <1>6, EveryRank DEF n
<1> QED  BY <1>6, <1>7 DEF n

Counted(r) == r.pc = "find" /\ r.steady => r.total = PagesOf(Cardinality(VisibleAt))
CountInv == \A h \in Presses : Counted(handler[h])

LEMMA SameVisible ==
  ASSUME list' = list, rating' = rating, safe' = safe
  PROVE  /\ VisibleAt' = VisibleAt /\ Visible' = Visible
         /\ \A i : Ahead(i)' = Ahead(i)
  BY DEF VisibleAt, Visible, Ahead

LEMMA CountOutdated ==
  ASSUME \A h \in Presses : ~(handler'[h].pc = "find" /\ handler'[h].steady)
  PROVE  CountInv'
  BY Zenon DEF CountInv, Counted

LEMMA CountOther ==
  ASSUME CountInv, NEW h \in Presses, Others(h), list' = list, rating' = rating, safe' = safe,
         handler'[h].pc = "find" => handler'[h].total = PagesOf(Cardinality(VisibleAt))
  PROVE  CountInv'
<1>1. VisibleAt' = VisibleAt
  BY SameVisible
<1>2. ASSUME NEW g \in Presses
      PROVE  handler'[g].pc = "find" /\ handler'[g].steady => handler'[g].total = PagesOf(Cardinality(VisibleAt))
  <2>1. CASE g = h
    BY <2>1
  <2>2. CASE g # h
    <3>1. handler'[g] = handler[g]
      BY <2>2 DEF Others
    <3> QED  BY <3>1, Zenon DEF CountInv, Counted
  <2> QED  BY <2>1, <2>2
<1>3. PagesOf(Cardinality(VisibleAt))' = PagesOf(Cardinality(VisibleAt))
  BY <1>1 DEF PagesOf
<1> QED  BY <1>2, <1>3, Zenon DEF CountInv, Counted

LEMMA CountChange ==
  ASSUME TypeInv, NEW s, Outdate(handler, s)
  PROVE  CountInv'
<1>1. handler \in [Presses -> Handlers] /\ \A g \in Presses : Answered(handler[g])
  BY DEF TypeInv, TypeOK
<1>2. ASSUME NEW g \in Presses
      PROVE  ~(handler'[g].pc = "find" /\ handler'[g].steady)
  <2>1. Dims(handler[g], handler'[g]) /\ (handler'[g].steady => handler[g].pc # "find")
    BY <1>1, OutdateIs, Zenon
  <2>2. handler'[g].pc = handler[g].pc
    BY <2>1 DEF Dims
  <2> QED  BY <2>1, <2>2, Zenon
<1> QED  BY <1>2, CountOutdated

LEMMA CountStep == TypeInv /\ CountInv /\ [Next]_vars => CountInv'
<1> SUFFICES ASSUME TypeInv, CountInv, [Next]_vars PROVE CountInv'
  OBVIOUS
<1>1. ASSUME NEW h \in Presses, handler' = Refuse(h), list' = list, rating' = rating, safe' = safe
      PROVE  CountInv'
  BY <1>1, RefuseIs, IdleIs, CountOther DEF Others
<1>2. ASSUME NEW h \in Presses, NEW pc, handler' = GoTo(h, pc), list' = list, rating' = rating, safe' = safe,
             pc \in {"reread", "write", "list", "publish"}
      PROVE  CountInv'
  <2>1. handler'[h] = [handler[h] EXCEPT !.pc = pc] /\ Others(h)
    BY <1>2, GoToIs DEF Others
  <2>2. handler'[h].pc = pc
    BY <2>1, OnlyPc
  <2> QED  BY <1>2, <2>1, <2>2, CountOther
<1>3. ASSUME HandlerOnly
      PROVE  list' = list /\ rating' = rating /\ safe' = safe
  BY <1>3 DEF HandlerOnly, packVars
<1>4. ASSUME handler' = handler, list' = list, rating' = rating, safe' = safe
      PROVE  CountInv'
  <2>1. VisibleAt' = VisibleAt
    BY <1>4, SameVisible
  <2>2. PagesOf(Cardinality(VisibleAt))' = PagesOf(Cardinality(VisibleAt))
    BY <2>1 DEF PagesOf
  <2> QED  BY <1>4, <2>2, Zenon DEF CountInv, Counted
<1>5. ASSUME NEW start \in 1 .. Len(list) + 1, OpenSticker(start)
      PROVE  CountInv'
  BY <1>4, <1>5 DEF OpenSticker, packVars
<1>6. ASSUME NEW h \in Presses, OpenPages(h)
      PROVE  CountInv'
  BY <1>6, OpenPagesIs, CountOther DEF OpenPages, packVars
<1>7. ASSUME NEW h \in Presses, NEW op \in Ops, Press(h, op)
      PROVE  CountInv'
  BY <1>7, PressIs, CountOther DEF Press, packVars
<1>8. ASSUME NEW h \in Presses, StepSticker(h) \/ RereadSticker(h) \/ ReplaceFile(h) \/ ConfirmCheck(h)
      PROVE  CountInv'
  BY <1>1, <1>2, <1>3, <1>8 DEF StepSticker, RereadSticker, ReplaceFile, ConfirmCheck
<1>9. ASSUME NEW h \in Presses, ModalSticker(h)
      PROVE  CountInv'
  BY <1>3, <1>9, ModalStickerIs, IdleIs, CountOther DEF ModalSticker
<1>10. ASSUME NEW h \in Presses, Submit(h)
       PROVE  CountInv'
  <2>1. handler'[h].pc # "find"
    <3>1. CASE handler'[h] = Idle
      BY <3>1, IdleIs
    <3>2. CASE handler'[h] = [handler[h] EXCEPT !.pc = "reread"]
      <4>1. handler'[h].pc = "reread"
        BY <3>2, OnlyPc
      <4> QED  BY <4>1
    <3>3. CASE handler'[h].pc = "reread"
      BY <3>3
    <3> QED  BY <1>10, <3>1, <3>2, <3>3, SubmitIs, Zenon
  <2>2. HandlerOnly /\ Others(h)
    BY <1>10, SubmitIs DEF Submit
  <2> QED  BY <1>3, <2>1, <2>2, CountOther
<1>11. ASSUME NEW h \in Presses, ReadList(h)
       PROVE  CountInv'
  BY <1>3, <1>11, ReadListIs, CountOther DEF ReadList
<1>12. ASSUME NEW h \in Presses, CountPages(h)
       PROVE  CountInv'
  BY <1>3, <1>12, CountPagesIs, CountOther DEF CountPages
<1>13. ASSUME NEW h \in Presses, FindPage(h)
       PROVE  CountInv'
  BY <1>3, <1>13, FindPageIs, CountOther DEF FindPage
<1>14. ASSUME NEW h \in Presses, Respond(h) \/ ConfirmWrite(h)
       PROVE  CountInv'
  BY <1>1, <1>14 DEF Respond, ConfirmWrite, packVars
<1>15. ASSUME NEW h \in Presses, EditSticker(h)
       PROVE  CountInv'
  <2>1. ASSUME NEW g \in Presses
        PROVE  ~(handler'[g].pc = "find" /\ handler'[g].steady)
    <3>1. CASE g = h
      <4>1. handler[h] \in Handlers
        BY DEF TypeInv, TypeOK
      <4>2. Dims([handler[h] EXCEPT !.pc = "list"], handler'[g])
        BY <1>15, <3>1, EditStickerIs, Zenon
      <4> QED  BY <4>1, <4>2 DEF Dims, Handlers
    <3>2. CASE g # h
      <4>1. Dims(handler[g], handler'[g]) /\ (handler'[g].steady => handler[g].pc # "find")
        BY <1>15, <3>2, EditStickerIs, Zenon
      <4>2. handler'[g].pc = handler[g].pc
        BY <4>1 DEF Dims
      <4> QED  BY <4>1, <4>2, Zenon
    <3> QED  BY <3>1, <3>2
  <2> QED  BY <2>1, CountOutdated
<1>16. ASSUME NEW s \in Stickers,
              \/ Delete(s) \/ MoveToFront(s)
              \/ \E i \in 1 .. Len(list) + 1 : Insert(s, i)
              \/ \E v \in Ratings \ {rating[s]} : Rate(s, v)
       PROVE  CountInv'
  BY <1>16, CountChange DEF Delete, MoveToFront, Insert, Rate
<1>17. CASE UNCHANGED vars
  BY <1>4, <1>17 DEF vars
<1> QED  BY <1>5, <1>6, <1>7, <1>8, <1>9, <1>10, <1>11, <1>12, <1>13, <1>14, <1>15, <1>16, <1>17, Zenon DEF Next

LEMMA InitCount == Init => CountInv
  BY IdleIs DEF Init, CountInv, Counted

(* However old the message and whatever button of it is pressed, the page that
   is sent has a sticker on it if the pack has one to show: the page number is
   brought back into the pages counted, and none of those is empty. *)
THEOREM NoBlankPage == Spec => PageNeverBlank
<1> DEFINE NeverBlank == \A h \in Presses : Answers(h) /\ handler[h].pc = "find" /\ handler[h].steady =>
                           (handler'[h].answer.shown = {} => Visible = {})
<1>1. TypeInv /\ CountInv /\ [Next]_vars => NeverBlank
  <2> SUFFICES ASSUME TypeInv, CountInv, [Next]_vars, NEW h \in Presses, Answers(h), handler[h].pc = "find",
                      handler[h].steady, Visible # {}
               PROVE  handler'[h].answer.shown # {}
    OBVIOUS
  <2> DEFINE n == Cardinality(VisibleAt)
             page == Clamp(RequestedPage(handler[h].op, handler[h].index, handler[h].total), handler[h].total)
  <2>1. TypeOK
    BY DEF TypeInv
  <2>2. FindPage(h)
    BY WhoAnswers
  <2>3. handler[h].total = PagesOf(n)
    BY Zenon DEF CountInv, Counted
  <2>4. handler'[h].answer = PageContent(page, handler[h].total) /\ page \in 1 .. handler[h].total
    BY <2>2, FindPageIs
  <2>5. n # 0
    <3>1. VisibleAt # {} /\ IsFiniteSet(VisibleAt)
      BY <2>1, VisibleFinite DEF Visible
    <3> QED  BY <3>1, FS_EmptySet
  <2> HIDE DEF n, page
  <2>6. page \in 1 .. PagesOf(n)
    BY <2>3, <2>4
  <2>7. PICK i \in VisibleAt : Ahead(i) \in (page - 1) * PerPage .. page * PerPage - 1
    BY <2>1, <2>5, <2>6, PageHasStickers DEF n
  <2>8. handler[h].total \in Nat /\ page \in Nat
    BY <2>1, <2>4, HandlerFields
  <2>9. handler'[h].answer.shown =
          {list[j] : j \in {l \in VisibleAt : Ahead(l) \in (page - 1) * PerPage .. page * PerPage - 1}}
    BY <2>1, <2>4, <2>8, PageContentIs
  <2> QED  BY <2>7, <2>9
<1> QED  BY InitTyped, TypeStep, InitCount, CountStep, <1>1, PTL DEF Spec, PageNeverBlank

-----------------------------------------------------------------------------
(* The walk from sticker to sticker: what stands before the sticker a message
   or a handler is at was shown or is excused, and a handler past its check is
   at a sticker that is still there. *)

Upto(at) == \A x : Precedes(list, x, at) => x \in seen \union excused
OnWay(at) == at \in seen /\ Upto(at)
Walking(r) ==
  /\ r.pc \in {"sticker", "modal", "reread", "write", "list"} => OnWay(r.at)
  /\ r.pc \in {"write", "list"} => r.at \in Live
  /\ r.pc = "list" => r.op # "jump"
  /\ r.pc = "respond" /\ r.answer.kind = "sticker" => r.answer.at \in r.answer.shown /\ Upto(r.answer.at)
Following ==
  /\ screen.kind = "sticker" => OnWay(screen.at)
  /\ \A h \in Presses : Walking(handler[h])
StickerWalk == flow # "pages" => excused = Stickers \/ Following

LEMMA ExcusedStay ==
  ASSUME TypeInv', excused = Stickers, excused \subseteq excused'
  PROVE  excused' = Stickers
  BY DEF TypeInv, TypeOK

(* The walk as it was, after a step that at most adds to what was shown. *)
Kept(s) ==
  /\ seen \subseteq seen' /\ excused \subseteq excused'
  /\ \A x, y : Precedes(list', x, y) => Precedes(list, x, y) \/ y = s \/ x \in excused'

LEMMA UptoKept ==
  ASSUME NEW s, Kept(s), NEW at, at # s, Upto(at)
  PROVE  \A x : Precedes(list', x, at) => x \in seen' \union excused'
  BY DEF Kept, Upto

LEMMA SameKept ==
  ASSUME seen \subseteq seen', excused \subseteq excused', list' = list
  PROVE  \A s : Kept(s)
  BY DEF Kept

LEMMA WalkingKept ==
  ASSUME NEW s, Kept(s), NEW g \in Presses, Walking(handler[g]), Dims(handler[g], handler'[g]),
         s \notin seen, s \notin handler[g].answer.shown,
         handler[g].pc \in {"write", "list"} => handler[g].at \in Live'
  PROVE  Walking(handler[g])'
<1>0. /\ handler'[g].pc = handler[g].pc /\ handler'[g].op = handler[g].op /\ handler'[g].at = handler[g].at
      /\ handler'[g].answer = handler[g].answer
  BY DEF Dims
<1>1. handler'[g].pc \in {"sticker", "modal", "reread", "write", "list"} =>
        handler'[g].at \in seen' /\ \A x : Precedes(list', x, handler'[g].at) => x \in seen' \union excused'
  BY <1>0, UptoKept DEF Walking, OnWay, Kept
<1>2. handler'[g].pc = "respond" /\ handler'[g].answer.kind = "sticker" =>
        /\ handler'[g].answer.at \in handler'[g].answer.shown
        /\ \A x : Precedes(list', x, handler'[g].answer.at) => x \in seen' \union excused'
  BY <1>0, UptoKept DEF Walking
<1>3. /\ handler'[g].pc \in {"write", "list"} => handler'[g].at \in Live'
      /\ handler'[g].pc = "list" => handler'[g].op # "jump"
  BY <1>0 DEF Walking
<1> QED  BY <1>1, <1>2, <1>3 DEF Walking, OnWay, Upto

LEMMA OnWayKept ==
  ASSUME NEW s, Kept(s), s \notin seen, OnWay(screen.at), screen' = screen
  PROVE  OnWay(screen.at)'
<1>1. screen.at \in seen' /\ \A x : Precedes(list', x, screen.at) => x \in seen' \union excused'
  BY UptoKept DEF OnWay, Kept
<1> QED  BY <1>1 DEF OnWay, Upto

(* One handler goes on: what has to be shown of it. *)
LEMMA FollowingOther ==
  ASSUME Following, NEW h \in Presses, Others(h), list' = list, seen' = seen, excused' = excused, screen' = screen,
         Walking(handler'[h])
  PROVE  Following'
<1>1. \A g \in Presses : Walking(handler'[g])
  BY DEF Following, Others
<1>2. Live' = Live
  BY DEF Live
<1>3. ASSUME NEW g \in Presses
      PROVE  Walking(handler[g])'
  <2>1. Walking(handler'[g])
    BY <1>1
  <2> QED  BY <1>2, <2>1 DEF Walking, OnWay, Upto
<1> QED  BY <1>3 DEF Following, OnWay, Upto

LEMMA IdleWalking == Walking(Idle)
  BY DEF Walking, Idle

(* Where the step from a sticker on the way leads is on the way. *)
LEMMA StepOnWay ==
  ASSUME TypeOK, NEW at, OnWay(at), NEW op, NEW i \in DOMAIN list, NEW k \in DOMAIN list, list[k] = at,
         IF op # "prev" THEN i = k + 1 ELSE i <= k
  PROVE  Upto(list[i])
<1>0. IsInjective(list) /\ DOMAIN list = 1 .. Len(list) /\ Len(list) \in Nat
  BY Listed DEF TypeOK
<1>1. i <= k + 1
  <2>1. CASE op = "prev"
    <3>1. i <= k
      BY <2>1
    <3> QED  BY <1>0, <3>1
  <2>2. CASE op # "prev"
    <3>1. i = k + 1
      BY <2>2
    <3> QED  BY <1>0, <3>1
  <2> QED  BY <2>1, <2>2
<1>2. ASSUME NEW x, Precedes(list, x, list[i])
      PROVE  x \in seen \union excused
  <2>1. PICK a \in DOMAIN list, b \in DOMAIN list : a < b /\ list[a] = x /\ list[b] = list[i]
    BY <1>2 DEF Precedes
  <2>2. b = i
    BY <1>0, <2>1 DEF IsInjective
  <2>3. a <= k
    BY <1>0, <1>1, <2>1, <2>2
  <2>4. CASE a = k
    BY <2>1, <2>4 DEF OnWay
  <2>5. CASE a # k
    <3>1. a < k
      BY <1>0, <2>3, <2>5
    <3> QED  BY <2>1, <3>1 DEF OnWay, Upto, Precedes
  <2> QED  BY <2>4, <2>5
<1> QED  BY <1>2 DEF Upto

LEMMA AnswerWalks ==
  ASSUME TypeInv, NEW h \in Presses, Walking(handler[h]), handler[h].pc = "list", ReadList(h)
  PROVE  /\ Walking(handler'[h])
         /\ handler'[h].answer.kind = "done" => Live \subseteq seen \union excused
<1> DEFINE r == handler[h]
           c == StepContent(r.at, r.op)
<1>0. TypeOK /\ OnWay(r.at) /\ r.at \in Live /\ r.op # "jump"
  BY DEF TypeInv, Walking
<1>1. handler'[h].pc = "respond" /\ handler'[h].answer = c
  BY <1>0, ReadListIs
<1>2. \/ c = DoneContent /\ r.op # "prev" /\ list[Len(list)] = r.at
      \/ \E i, k \in DOMAIN list :
           /\ c = StickerContent(i)
           /\ list[k] = r.at
           /\ IF r.op # "prev" THEN i = k + 1 ELSE i <= k
  BY <1>0, StepContentIs
<1>3. CASE c = DoneContent /\ r.op # "prev" /\ list[Len(list)] = r.at
  <2>1. c.kind = "done"
    BY <1>3, DoneContentIs
  <2>2. ASSUME NEW x \in Live
        PROVE  x \in seen \union excused
    <3>1. PICK a \in DOMAIN list : list[a] = x
      BY DEF Live, ToSet
    <3>2. Len(list) \in Nat /\ DOMAIN list = 1 .. Len(list)
      BY <1>0, Listed
    <3>3. CASE a = Len(list)
      BY <1>0, <1>3, <3>1, <3>3 DEF OnWay
    <3>4. CASE a # Len(list)
      <4>1. a < Len(list) /\ Len(list) \in DOMAIN list
        BY <3>2, <3>4
      <4> QED  BY <1>0, <1>3, <3>1, <4>1 DEF OnWay, Upto, Precedes
    <3> QED  BY <3>3, <3>4
  <2> QED  BY <1>1, <2>1, <2>2 DEF Walking
<1>4. ASSUME NEW i \in DOMAIN list, NEW k \in DOMAIN list, c = StickerContent(i), list[k] = r.at,
             IF r.op # "prev" THEN i = k + 1 ELSE i <= k
      PROVE  /\ Walking(handler'[h])
             /\ handler'[h].answer.kind = "done" => Live \subseteq seen \union excused
  <2>1. c.kind = "sticker" /\ c.at = list[i] /\ c.shown = {list[i]}
    BY <1>0, <1>4, StickerContentIs
  <2>2. Upto(list[i])
    BY <1>0, <1>4, StepOnWay
  <2> QED  BY <1>1, <2>1, <2>2 DEF Walking
<1> HIDE DEF c, r
<1> QED  BY <1>2, <1>3, <1>4

LEMMA FlowStays == [Next]_vars => flow' = flow
<1> SUFFICES ASSUME [Next]_vars PROVE flow' = flow
  OBVIOUS
<1>1. ASSUME NEW start \in 1 .. Len(list) + 1, OpenSticker(start)
      PROVE  flow' = flow
  BY <1>1 DEF OpenSticker, packVars
<1>2. ASSUME NEW h \in Presses,
             \/ OpenPages(h) \/ (\E op \in Ops : Press(h, op))
             \/ StepSticker(h) \/ ModalSticker(h) \/ Submit(h) \/ RereadSticker(h)
             \/ EditSticker(h) \/ ReplaceFile(h) \/ ReadList(h)
             \/ ConfirmCheck(h) \/ ConfirmWrite(h) \/ CountPages(h) \/ FindPage(h) \/ Respond(h)
      PROVE  flow' = flow
  BY <1>2 DEF OpenPages, Press, StepSticker, ModalSticker, Submit, RereadSticker, EditSticker, ReplaceFile, ReadList,
              ConfirmCheck, ConfirmWrite, CountPages, FindPage, Respond, HandlerOnly, packVars
<1>3. ASSUME NEW s \in Stickers,
             \/ Delete(s) \/ MoveToFront(s)
             \/ \E i \in 1 .. Len(list) + 1 : Insert(s, i)
             \/ \E v \in Ratings \ {rating[s]} : Rate(s, v)
      PROVE  flow' = flow
  BY <1>3 DEF Delete, MoveToFront, Insert, Rate, Change
<1>4. CASE UNCHANGED vars
  BY <1>4 DEF vars
<1> QED  BY <1>1, <1>2, <1>3, <1>4, Zenon DEF Next

LEMMA OpenedWalks ==
  ASSUME TypeInv, KindInv, NEW start \in 1 .. Len(list) + 1, OpenSticker(start)
  PROVE  StickerWalk'
<1> DEFINE i == StartIndex(start)
<1>0. TypeOK /\ IsInjective(list) /\ Len(list) \in Nat /\ DOMAIN list = 1 .. Len(list)
  BY Listed DEF TypeInv, TypeOK
<1>1. i \in DOMAIN list
  <2>1. Len(list) # 0
    BY <1>0, EmptySeq DEF OpenSticker, TypeOK
  <2> QED  BY <1>0, <2>1 DEF StartIndex
<1>2. /\ screen' = StickerContent(i) /\ seen' = {list[i]} /\ excused' = {list[j] : j \in 1 .. i - 1}
      /\ list' = list /\ handler' = handler
  BY DEF OpenSticker, packVars
<1>3. \A h \in Presses : handler[h].pc = "idle"
  BY DEF OpenSticker, KindInv, KindOf
<1> HIDE DEF i
<1>4. screen'.at = list[i]
  BY <1>0, <1>1, <1>2, StickerContentIs
<1>5. ASSUME NEW x, Precedes(list, x, list[i])
      PROVE  x \in excused'
  <2>1. PICK a \in DOMAIN list, b \in DOMAIN list : a < b /\ list[a] = x /\ list[b] = list[i]
    BY <1>5 DEF Precedes
  <2>2. b = i
    BY <1>0, <1>1, <2>1 DEF IsInjective
  <2>3. a \in 1 .. i - 1
    BY <1>0, <1>1, <2>1, <2>2
  <2> QED  BY <1>2, <2>1, <2>3
<1>6. (screen.kind = "sticker" => OnWay(screen.at))'
  BY <1>2, <1>4, <1>5 DEF OnWay, Upto
<1>7. \A h \in Presses : Walking(handler[h])'
  BY <1>2, <1>3 DEF Walking
<1> QED  BY <1>6, <1>7 DEF StickerWalk, Following

LEMMA StickerWalkStep == TypeInv /\ TypeInv' /\ KindInv /\ StickerWalk /\ [Next]_vars => StickerWalk'
<1> SUFFICES ASSUME TypeInv, TypeInv', KindInv, StickerWalk, [Next]_vars, flow # "pages"
             PROVE  StickerWalk'
  <2>1. [Next]_vars => flow' = flow
    BY FlowStays
  <2> QED  BY <2>1 DEF StickerWalk
<1>0. /\ TypeOK /\ handler \in [Presses -> Handlers] /\ \A g \in Presses : Answered(handler[g])
      /\ \A h \in Presses : KindOf(flow, screen.kind, handler[h])
  BY DEF TypeInv, TypeOK, KindInv
<1>1. CASE excused = Stickers
  <2>1. ASSUME excused \subseteq excused'
        PROVE  StickerWalk'
    BY <1>1, <2>1, ExcusedStay DEF StickerWalk
  <2>2. ASSUME NEW start \in 1 .. Len(list) + 1, OpenSticker(start)
        PROVE  StickerWalk'
    BY <2>2, OpenedWalks
  <2>3. ASSUME NEW h \in Presses,
               \/ OpenPages(h) \/ (\E op \in Ops : Press(h, op))
               \/ StepSticker(h) \/ ModalSticker(h) \/ Submit(h) \/ RereadSticker(h)
               \/ EditSticker(h) \/ ReplaceFile(h) \/ ReadList(h)
               \/ ConfirmCheck(h) \/ ConfirmWrite(h) \/ CountPages(h) \/ FindPage(h) \/ Respond(h)
        PROVE  excused \subseteq excused'
    BY <1>1, <2>3 DEF OpenPages, Press, StepSticker, ModalSticker, Submit, RereadSticker, EditSticker, ReplaceFile,
                ReadList, ConfirmCheck, ConfirmWrite, CountPages, FindPage, Respond, HandlerOnly
  <2>4. ASSUME NEW s \in Stickers,
               \/ Delete(s) \/ MoveToFront(s)
               \/ \E i \in 1 .. Len(list) + 1 : Insert(s, i)
               \/ \E v \in Ratings \ {rating[s]} : Rate(s, v)
        PROVE  excused \subseteq excused'
    BY <1>1, <2>4 DEF Delete, MoveToFront, Insert, Rate
  <2>5. CASE UNCHANGED vars
    BY <2>1, <2>5 DEF vars
  <2> QED  BY <2>1, <2>2, <2>3, <2>4, <2>5, Zenon DEF Next
<1>2. CASE Following
  <2>0. ASSUME Following'
        PROVE  StickerWalk'
    BY <2>0 DEF StickerWalk
  <2>00. ASSUME excused' = Stickers
         PROVE  StickerWalk'
    BY <2>00 DEF StickerWalk
  <2>1. ASSUME HandlerOnly
        PROVE  list' = list /\ seen' = seen /\ excused' = excused /\ screen' = screen
    BY <2>1 DEF HandlerOnly, packVars
  <2>2. ASSUME NEW h \in Presses, handler' = Refuse(h), list' = list, seen' = seen, excused' = excused, screen' = screen
        PROVE  Following'
    BY <1>2, <2>2, RefuseIs, IdleWalking, FollowingOther DEF Others
  <2>3. ASSUME NEW h \in Presses, NEW pc, handler' = GoTo(h, pc), list' = list, seen' = seen, excused' = excused, screen' = screen,
               pc \in {"reread", "write", "list"},
               handler[h].pc \in {"sticker", "modal", "reread", "write"},
               pc \in {"write", "list"} => handler[h].at \in Live,
               pc = "list" => handler[h].op # "jump"
        PROVE  Following'
    <3>1. handler'[h] = [handler[h] EXCEPT !.pc = pc] /\ Others(h)
      BY <2>3, GoToIs DEF Others
    <3>2. handler'[h].pc = pc /\ handler'[h].at = handler[h].at /\ handler'[h].op = handler[h].op
      BY <3>1, OnlyPc
    <3>3. Walking(handler'[h])
      BY <1>2, <2>3, <3>2 DEF Following, Walking
    <3> QED  BY <1>2, <2>3, <3>1, <3>3, FollowingOther
  <2>4. ASSUME NEW start \in 1 .. Len(list) + 1, OpenSticker(start)
        PROVE  StickerWalk'
    BY <2>4, OpenedWalks
  <2>5. ASSUME NEW h \in Presses, OpenPages(h)
        PROVE  StickerWalk'
    BY <2>5 DEF OpenPages
  <2>6. ASSUME NEW h \in Presses, NEW op \in Ops, Press(h, op)
        PROVE  StickerWalk'
    <3>1. CASE op \in {"jump", "last"}
      BY <2>00, <2>6, <3>1 DEF Press
    <3>2. CASE op \notin {"jump", "last"}
      <4>1. list' = list /\ seen' = seen /\ excused' = excused /\ screen' = screen
        BY <2>6, <3>2 DEF Press, packVars
      <4>2. Others(h) /\ handler'[h].op = op
        BY <2>6, PressIs
      <4>3. CASE op = "confirm"
        <5>1. handler'[h].pc = "check"
          BY <2>6, <4>3, PressIs
        <5>2. Walking(handler'[h])
          BY <5>1 DEF Walking
        <5> QED  BY <1>2, <2>0, <4>1, <4>2, <5>2, FollowingOther
      <4>4. CASE op # "confirm"
        <5>1. handler'[h].pc = "sticker" /\ handler'[h].at = screen.at
          BY <2>6, <3>2, <4>4, PressIs
        <5>2. screen.kind = "sticker"
          <6>1. screen.kind \in {"none", "sticker", "done"}
            BY DEF KindInv, ScreenKind
          <6> QED  BY <2>6, <3>2, <4>4, <6>1 DEF Press, Enabled, PublishRow
        <5>3. Walking(handler'[h])
          BY <1>2, <5>1, <5>2 DEF Walking, Following
        <5> QED  BY <1>2, <2>0, <4>1, <4>2, <5>3, FollowingOther
      <4> QED  BY <4>3, <4>4
    <3> QED  BY <3>1, <3>2
  <2>7. ASSUME NEW h \in Presses, StepSticker(h)
        PROVE  StickerWalk'
    <3>1. handler[h].pc = "sticker" /\ handler[h].op # "jump"
      BY <2>7 DEF StepSticker, Begin, Steps
    <3> QED  BY <2>0, <2>1, <2>2, <2>3, <2>7, <3>1 DEF StepSticker
  <2>8. ASSUME NEW h \in Presses, ModalSticker(h)
        PROVE  StickerWalk'
    <3>1. Others(h) /\ HandlerOnly /\ handler[h].pc = "sticker"
      BY <2>8, ModalStickerIs DEF ModalSticker, Begin
    <3>2. Walking(handler'[h])
      <4>1. CASE handler'[h] = Idle
        BY <4>1, IdleWalking
      <4>2. CASE handler'[h].pc = "modal" /\ handler'[h].at = handler[h].at
        BY <1>2, <3>1, <4>2 DEF Walking, Following
      <4> QED  BY <2>8, <4>1, <4>2, ModalStickerIs
    <3> QED  BY <1>2, <2>0, <2>1, <3>1, <3>2, FollowingOther
  <2>9. ASSUME NEW h \in Presses, Submit(h)
        PROVE  StickerWalk'
    <3>1. Others(h) /\ HandlerOnly /\ handler[h].pc = "modal"
      BY <2>9, SubmitIs DEF Submit
    <3>2. Walking(handler'[h])
      <4>1. CASE handler'[h] = Idle
        BY <4>1, IdleWalking
      <4>2. handler'[h] # Idle => handler'[h].pc = "reread" /\ handler'[h].at = handler[h].at
        <5>1. CASE handler'[h] = [handler[h] EXCEPT !.pc = "reread"]
          <6>1. handler'[h].pc = "reread" /\ handler'[h].at = handler[h].at
            BY <5>1, OnlyPc
          <6> QED  BY <6>1
        <5> QED  BY <2>9, <5>1, SubmitIs, Zenon
      <4>3. CASE handler'[h] # Idle
        BY <1>2, <3>1, <4>2, <4>3 DEF Walking, Following
      <4> QED  BY <4>1, <4>3
    <3> QED  BY <1>2, <2>0, <2>1, <3>1, <3>2, FollowingOther
  <2>10. ASSUME NEW h \in Presses, RereadSticker(h)
         PROVE  StickerWalk'
    BY <2>0, <2>1, <2>2, <2>3, <2>10 DEF RereadSticker
  <2>11. ASSUME NEW h \in Presses, handler[h].pc = "write"
         PROVE  handler[h].at \in Live /\ handler[h].op # "jump"
    BY <1>0, <1>2, <2>11 DEF Following, Walking, KindOf
  <2>12. ASSUME NEW h \in Presses, ReplaceFile(h)
         PROVE  StickerWalk'
    BY <2>0, <2>1, <2>3, <2>11, <2>12 DEF ReplaceFile
  <2>13. ASSUME NEW h \in Presses, ReadList(h)
         PROVE  StickerWalk'
    <3>1. Others(h) /\ HandlerOnly /\ handler[h].pc = "list"
      BY <2>13, ReadListIs DEF ReadList
    <3>2. Walking(handler[h])
      BY <1>2 DEF Following
    <3>3. Walking(handler'[h])
      BY <2>13, <3>1, <3>2, AnswerWalks
    <3> QED  BY <1>2, <2>0, <2>1, <3>1, <3>3, FollowingOther
  <2>14. ASSUME NEW h \in Presses, ConfirmCheck(h)
         PROVE  StickerWalk'
    <3>1. CASE handler' = Refuse(h)
      BY <2>0, <2>1, <2>2, <2>14, <3>1 DEF ConfirmCheck
    <3>2. CASE handler' = GoTo(h, "publish")
      <4>1. handler'[h] = [handler[h] EXCEPT !.pc = "publish"] /\ Others(h)
        BY <3>2, GoToIs DEF Others
      <4>2. handler'[h].pc = "publish"
        BY <4>1, OnlyPc
      <4>3. Walking(handler'[h])
        BY <4>2 DEF Walking
      <4> QED  BY <1>2, <2>0, <2>1, <2>14, <4>1, <4>3, FollowingOther DEF ConfirmCheck
    <3> QED  BY <2>14, <3>1, <3>2 DEF ConfirmCheck
  <2>15. ASSUME NEW h \in Presses, ConfirmWrite(h)
         PROVE  StickerWalk'
    BY <2>0, <2>2, <2>15 DEF ConfirmWrite
  <2>16. ASSUME NEW h \in Presses, CountPages(h) \/ FindPage(h)
         PROVE  StickerWalk'
    BY <1>0, <2>16 DEF CountPages, FindPage, KindOf
  <2>17. ASSUME NEW h \in Presses, Respond(h)
         PROVE  StickerWalk'
    <3>1. /\ handler'[h] = Idle /\ Others(h) /\ handler[h].pc = "respond"
          /\ screen' = handler[h].answer /\ seen' = seen \union handler[h].answer.shown
          /\ list' = list /\ excused' = excused
      BY <2>17, RefuseIs DEF Respond, packVars, Others
    <3>2. \A s : Kept(s)
      BY <3>1, SameKept
    <3>3. screen'.kind = "sticker" => screen'.at \in seen' /\ \A x : Precedes(list', x, screen'.at) => x \in seen' \union excused'
      BY <1>2, <3>1 DEF Following, Walking, Upto
    <3>4. ASSUME NEW g \in Presses
          PROVE  Walking(handler[g])'
      <4>1. CASE g = h
        BY <3>1, <4>1 DEF Walking, Idle
      <4>2. CASE g # h
        <5>1. handler'[g] = handler[g] /\ Walking(handler[g])
          BY <1>2, <3>1, <4>2 DEF Others, Following
        <5> QED  BY <3>1, <5>1 DEF Walking, OnWay, Upto, Live
      <4> QED  BY <4>1, <4>2
    <3> QED  BY <2>0, <3>3, <3>4 DEF Following, OnWay, Upto
  <2>18. ASSUME NEW h \in Presses, EditSticker(h)
         PROVE  StickerWalk'
    <3>1. list' = list /\ seen' = seen /\ excused' = excused /\ screen' = screen /\ handler[h].pc = "write"
      BY <2>18, EditStickerIs DEF EditSticker
    <3>2. ASSUME NEW g \in Presses
          PROVE  Walking(handler'[g])
      <4>1. CASE g = h
        <5> DEFINE q == [handler[h] EXCEPT !.pc = "list"]
        <5>1. q.pc = "list" /\ q.op = handler[h].op /\ q.at = handler[h].at
          BY <1>0 DEF TypeOK, Handlers
        <5>2. Dims(q, handler'[g])
          BY <2>18, <4>1, EditStickerIs, Zenon
        <5> HIDE DEF q
        <5>3. handler'[g].pc = "list" /\ handler'[g].op = handler[h].op /\ handler'[g].at = handler[h].at
          BY <5>1, <5>2 DEF Dims
        <5> QED  BY <1>2, <2>11, <3>1, <5>3 DEF Walking, Following
      <4>2. CASE g # h
        <5>1. Dims(handler[g], handler'[g]) /\ Walking(handler[g])
          BY <1>2, <2>18, <4>2, EditStickerIs, Zenon DEF Following
        <5> QED  BY <5>1 DEF Dims, Walking
      <4> QED  BY <4>1, <4>2
    <3>3. ASSUME NEW g \in Presses
          PROVE  Walking(handler[g])'
      <4>1. Walking(handler'[g])
        BY <3>2
      <4> QED  BY <3>1, <4>1 DEF Walking, OnWay, Upto, Live
    <3> QED  BY <1>2, <2>0, <3>1, <3>3 DEF Following, OnWay, Upto
  <2>19. ASSUME NEW t, Kept(t), NEW s, Outdate(handler, s), t \notin seen,
                \A g \in Presses : t \notin handler[g].answer.shown,
                \A g \in Presses : handler[g].pc \in {"write", "list"} => handler[g].at \in Live'
         PROVE  Following'
    <3>1. \A g \in Presses : Dims(handler[g], handler'[g])
      BY <1>0, <2>19, OutdateIs, Zenon
    <3>2. screen' = screen
      BY <2>19 DEF Outdate
    <3>3. \A g \in Presses : Walking(handler[g])'
      BY <1>2, <2>19, <3>1, WalkingKept DEF Following
    <3>4. (screen.kind = "sticker" => OnWay(screen.at))'
      BY <1>2, <2>19, <3>2, OnWayKept DEF Following
    <3> QED  BY <3>3, <3>4 DEF Following
  <2>20. /\ None \notin Stickers /\ None \notin seen
         /\ \A g \in Presses : None \notin handler[g].answer.shown /\ handler[g].answer.shown \subseteq Stickers
    BY <1>0, HandlerFields, ScreenFields, ScreensAssumption DEF TypeOK
  <2>21. ASSUME NEW s \in Stickers, Delete(s)
         PROVE  StickerWalk'
    <3>1. CASE OnItsWay(s)
      BY <2>00, <2>21, <3>1 DEF Delete
    <3>2. CASE ~OnItsWay(s)
      <4>1. excused' = excused /\ seen' = seen /\ s \in Live /\ list' = RemoveAt(list, PositionOf(s)) /\ Outdate(handler, s)
        BY <2>21, <3>2 DEF Delete, Change
      <4>2. Live' = Live \ {s} /\ \A x, y : Precedes(list', x, y) => Precedes(list, x, y)
        BY <1>0, <4>1, Removed DEF Live
      <4>3. Kept(None)
        BY <4>1, <4>2 DEF Kept
      <4>4. \A g \in Presses : handler[g].pc \in {"write", "list"} => handler[g].at \in Live'
        BY <1>2, <3>2, <4>2 DEF Following, Walking, OnItsWay
      <4> QED  BY <2>0, <2>19, <2>20, <4>1, <4>3, <4>4
    <3> QED  BY <3>1, <3>2
  <2>22. ASSUME NEW s \in Stickers, MoveToFront(s)
         PROVE  StickerWalk'
    BY <2>00, <2>22 DEF MoveToFront
  <2>23. ASSUME NEW s \in Stickers, NEW i \in 1 .. Len(list) + 1, Insert(s, i)
         PROVE  StickerWalk'
    <3>1. CASE s \in Chosen
      BY <2>00, <2>23, <3>1 DEF Insert
    <3>2. CASE s \notin Chosen
      <4>1. /\ excused' = IF i <= Len(list) THEN excused \union {s} ELSE excused
            /\ seen' = seen /\ s \notin Live /\ list' = InsertAt(list, i, s) /\ Outdate(handler, s)
        BY <2>23, <3>2 DEF Insert, Change
      <4>2. /\ Live' = Live \union {s}
            /\ \A x, y : Precedes(list', x, y) => Precedes(list, x, y) \/ y = s \/ (x = s /\ i <= Len(list))
        BY <1>0, <4>1, Inserted DEF Live
      <4>3. Kept(s)
        BY <4>1, <4>2 DEF Kept
      <4>4. \A g \in Presses : handler[g].pc \in {"write", "list"} => handler[g].at \in Live'
        BY <1>2, <4>2 DEF Following, Walking
      <4>5. s \notin seen /\ \A g \in Presses : s \notin handler[g].answer.shown
        BY <3>2 DEF Chosen
      <4> QED  BY <2>0, <2>19, <4>1, <4>3, <4>4, <4>5
    <3> QED  BY <3>1, <3>2
  <2>24. ASSUME NEW s \in Stickers, NEW v \in Ratings \ {rating[s]}, Rate(s, v)
         PROVE  StickerWalk'
    <3>1. excused' = excused /\ seen' = seen /\ list' = list /\ Outdate(handler, s)
      BY <2>24 DEF Rate, Change
    <3>2. Kept(None)
      BY <3>1, SameKept
    <3>3. \A g \in Presses : handler[g].pc \in {"write", "list"} => handler[g].at \in Live'
      BY <1>2, <3>1 DEF Following, Walking, Live
    <3> QED  BY <2>0, <2>19, <2>20, <3>1, <3>2, <3>3
  <2>25. CASE UNCHANGED vars
    <3>1. list' = list /\ seen' = seen /\ excused' = excused /\ screen' = screen /\ handler' = handler
      BY <2>25 DEF vars
    <3>2. Following'
      BY <1>2, <3>1 DEF Following, Walking, OnWay, Upto, Live
    <3> QED  BY <2>0, <3>2
  <2> QED  BY <2>4, <2>5, <2>6, <2>7, <2>8, <2>9, <2>10, <2>12, <2>13, <2>14, <2>15, <2>16, <2>17, <2>18,
              <2>21, <2>22, <2>23, <2>24, <2>25, Zenon DEF Next
<1> QED  BY <1>1, <1>2 DEF StickerWalk

-----------------------------------------------------------------------------
(* The walk from page to page: what ranks before the page a message shows or a
   handler goes to was shown or is excused, and there are that many stickers. *)

Shown(m, more) ==
  /\ m <= Cardinality(VisibleAt)
  /\ \A i \in VisibleAt : Ahead(i) < m => list[i] \in seen \union excused \union more
PageShown(c, more) ==
  Shown((c.index - 1) * PerPage, {}) /\ (c.index < c.total => Shown(c.index * PerPage, more))
Paging(r) ==
  /\ r.pc = "respond" => PageShown(r.answer, r.answer.shown)
  /\ r.pc \in {"count", "find"} => /\ r.op # "last"
                                   /\ r.op = "next" => Shown(r.index * PerPage, {})
                                   /\ r.op = "prev" => Shown((r.index - 1) * PerPage, {})
  /\ r.pc = "find" => r.total = PagesOf(Cardinality(VisibleAt))
Leafing ==
  /\ screen.kind = "page" => PageShown(screen, {})
  /\ \A h \in Presses : Paging(handler[h])
PageWalk == flow = "pages" => excused = Stickers \/ Leafing

LEMMA FewerShown ==
  ASSUME TypeOK, NEW more, NEW m \in Int, Shown(m, more), NEW l \in Int, l <= m
  PROVE  Shown(l, more)
<1>1. Cardinality(VisibleAt) \in Nat /\ \A i : Ahead(i) \in Nat
  BY VisibleFinite
<1>2. l <= Cardinality(VisibleAt)
  BY <1>1 DEF Shown
<1>3. \A i \in VisibleAt : Ahead(i) < l => Ahead(i) < m
  BY <1>1
<1> QED  BY <1>2, <1>3 DEF Shown

LEMMA NoneShown ==
  ASSUME TypeOK, NEW more
  PROVE  Shown(0, more)
<1>1. Cardinality(VisibleAt) \in Nat /\ \A i : Ahead(i) \in Nat
  BY VisibleFinite
<1>2. 0 <= Cardinality(VisibleAt) /\ \A i : ~(Ahead(i) < 0)
  BY <1>1
<1> QED  BY <1>2 DEF Shown

LEMMA Products ==
  ASSUME NEW a \in Int, NEW b \in Int, a <= b
  PROVE  /\ a * PerPage \in Int /\ b * PerPage \in Int /\ a * PerPage <= b * PerPage
         /\ (a - 1) * PerPage = a * PerPage - PerPage
<1>1. PerPage \in Nat
  BY ScreensAssumption
<1> QED  BY <1>1

(* The page a handler finds is on the way, and if it is the last, it is the
   rest of the pack. *)
LEMMA AnswerPages ==
  ASSUME TypeInv, KindInv, flow = "pages", NEW h \in Presses, Paging(handler[h]), handler[h].pc = "find", FindPage(h)
  PROVE  /\ Paging(handler'[h])
         /\ handler'[h].answer.index = handler'[h].answer.total
              => Visible \subseteq seen \union handler'[h].answer.shown \union excused
<1> DEFINE r == handler[h]
           n == Cardinality(VisibleAt)
           asked == RequestedPage(r.op, r.index, r.total)
           page == Clamp(asked, r.total)
           c == PageContent(page, r.total)
<1>0. TypeOK
  BY DEF TypeInv
<1>1. /\ handler'[h].pc = "respond" /\ handler'[h].answer = c
      /\ page \in 1 .. r.total
  BY FindPageIs
<1>2. r.op \in Ops /\ r.index \in Nat /\ r.total \in Nat
  BY <1>0, HandlerFields
<1>3. r.total >= 1 /\ page \in Nat /\ page >= 1 /\ page <= r.total
  BY <1>1, <1>2
<1>4. c.index = page /\ c.total = r.total
      /\ c.shown = {list[i] : i \in {j \in VisibleAt : Ahead(j) \in (page - 1) * PerPage .. page * PerPage - 1}}
  BY <1>0, <1>2, <1>3, PageContentIs
<1>5. r.total = PagesOf(n) /\ r.op # "last"
  BY DEF Paging
<1>6. /\ n \in Nat /\ PerPage \in Nat \ {0}
      /\ n <= r.total * PerPage /\ (n # 0 => (r.total - 1) * PerPage < n)
      /\ (n = 0 => r.total = 1)
  BY <1>0, <1>5, PagesIs, VisibleFinite, ScreensAssumption DEF PagesOf
<1>7. /\ r.op \in {"first", "open"} => page = 1
      /\ r.op = "prev" => page = 1 \/ page <= r.index - 1
      /\ r.op = "next" => page <= r.index + 1
  <2>1. /\ asked \in Int
        /\ r.op \in {"first", "open"} => asked = 1
        /\ r.op = "prev" => asked = r.index - 1
        /\ r.op = "next" => asked = r.index + 1
    BY <1>2, RequestIs
  <2>2. (asked <= 1 => page = 1) /\ (asked >= 1 => page <= asked)
    BY <1>2, <1>3, <2>1, ClampIs
  <2> HIDE DEF asked, page
  <2>3. r.op \in {"first", "open"} => page = 1
    BY <2>1, <2>2
  <2>4. ASSUME r.op = "prev"
        PROVE  page = 1 \/ page <= r.index - 1
    <3>1. asked = r.index - 1
      BY <2>1, <2>4
    <3>2. asked <= 1 \/ asked >= 1
      BY <2>1
    <3> QED  BY <2>2, <3>1, <3>2
  <2>5. ASSUME r.op = "next"
        PROVE  page <= r.index + 1
    <3>1. asked = r.index + 1 /\ asked >= 1
      BY <1>2, <2>1, <2>5
    <3> QED  BY <2>2, <3>1
  <2> QED  BY <2>3, <2>4, <2>5
<1>8. r.op \in {"first", "open", "prev", "next"}
  BY <1>5 DEF KindInv, KindOf, Steps, Leaps
<1> HIDE DEF page, c, n, asked
<1>9. Shown((page - 1) * PerPage, {})
  <2>1. CASE page = 1
    <3>1. (page - 1) * PerPage = 0
      BY <1>6, <2>1
    <3> QED  BY <1>0, <3>1, NoneShown
  <2>2. CASE page # 1 /\ r.op = "prev"
    <3>1. page <= r.index - 1 /\ Shown((r.index - 1) * PerPage, {})
      BY <1>7, <2>2 DEF Paging
    <3>2. page - 1 \in Int /\ r.index - 1 \in Int
      BY <1>2, <1>3
    <3>3. page - 1 <= r.index - 1
      BY <1>2, <1>3, <3>1
    <3>4. (page - 1) * PerPage \in Int /\ (r.index - 1) * PerPage \in Int /\ (page - 1) * PerPage <= (r.index - 1) * PerPage
      BY <3>2, <3>3, Products
    <3> QED  BY <1>0, <3>1, <3>4, FewerShown
  <2>3. CASE r.op = "next"
    <3>1. page <= r.index + 1 /\ Shown(r.index * PerPage, {})
      BY <1>7, <2>3 DEF Paging
    <3>2. page - 1 \in Int /\ r.index \in Int /\ page - 1 <= r.index
      BY <1>2, <1>3, <3>1
    <3>3. (page - 1) * PerPage \in Int /\ r.index * PerPage \in Int /\ (page - 1) * PerPage <= r.index * PerPage
      BY <3>2, Products
    <3> QED  BY <1>0, <3>1, <3>3, FewerShown
  <2> QED  BY <1>7, <1>8, <2>1, <2>2, <2>3
<1>10. ASSUME NEW i \in VisibleAt, Ahead(i) < page * PerPage
       PROVE  list[i] \in seen \union excused \union c.shown
  <2>1. Ahead(i) \in Nat /\ (page - 1) * PerPage \in Int /\ page * PerPage \in Int
    BY <1>0, <1>3, <1>6, VisibleFinite
  <2>2. CASE Ahead(i) < (page - 1) * PerPage
    BY <1>9, <2>2 DEF Shown
  <2>3. CASE ~(Ahead(i) < (page - 1) * PerPage)
    <3>1. Ahead(i) \in (page - 1) * PerPage .. page * PerPage - 1
      BY <1>10, <2>1, <2>3
    <3> QED  BY <1>4, <3>1
  <2> QED  BY <2>2, <2>3
<1>11. ASSUME page < r.total
       PROVE  page * PerPage <= n
  <2>1. page <= r.total - 1 /\ r.total - 1 \in Int /\ n # 0
    BY <1>2, <1>3, <1>6, <1>11
  <2>2. page * PerPage \in Int /\ (r.total - 1) * PerPage \in Int /\ page * PerPage <= (r.total - 1) * PerPage
    BY <1>3, <2>1, Products
  <2> QED  BY <1>6, <2>1, <2>2
<1>12. c.index < c.total => Shown(c.index * PerPage, c.shown)
  BY <1>4, <1>10, <1>11 DEF Shown, n
<1>13. Paging(handler'[h])
  BY <1>1, <1>4, <1>9, <1>12 DEF Paging, PageShown
<1>14. ASSUME page = r.total
       PROVE  Visible \subseteq seen \union c.shown \union excused
  <2>1. ASSUME NEW i \in VisibleAt
        PROVE  list[i] \in seen \union c.shown \union excused
    <3>1. Ahead(i) \in Nat /\ Ahead(i) < n
      BY <1>0, RankBelow DEF n
    <3>2. page * PerPage \in Int /\ n <= page * PerPage
      BY <1>3, <1>6, <1>14
    <3>3. Ahead(i) < page * PerPage
      BY <1>6, <3>1, <3>2
    <3> QED  BY <1>10, <3>3
  <2> QED  BY <2>1 DEF Visible
<1> QED  BY <1>1, <1>4, <1>13, <1>14

LEMMA PagingSame ==
  ASSUME list' = list, rating' = rating, safe' = safe, seen' = seen, excused' = excused,
         NEW h \in Presses, Paging(handler'[h])
  PROVE  Paging(handler[h])'
<1>1. VisibleAt' = VisibleAt /\ \A i : Ahead(i)' = Ahead(i)
  BY SameVisible
<1>2. PagesOf(Cardinality(VisibleAt))' = PagesOf(Cardinality(VisibleAt))
  BY <1>1 DEF PagesOf
<1> QED  BY <1>1, <1>2 DEF Paging, PageShown, Shown

LEMMA LeafingOther ==
  ASSUME Leafing, NEW h \in Presses, Others(h), list' = list, rating' = rating, safe' = safe, seen' = seen,
         excused' = excused, screen' = screen, Paging(handler'[h])
  PROVE  Leafing'
<1>1. \A g \in Presses : Paging(handler'[g])
  BY DEF Leafing, Others
<1>2. \A g \in Presses : Paging(handler[g])'
  BY <1>1, PagingSame
<1>3. VisibleAt' = VisibleAt /\ \A i : Ahead(i)' = Ahead(i)
  BY SameVisible
<1>4. (screen.kind = "page" => PageShown(screen, {}))'
  BY <1>3 DEF Leafing, PageShown, Shown
<1> QED  BY <1>2, <1>4 DEF Leafing

LEMMA IdlePaging == Paging(Idle)
  BY DEF Paging, Idle

(* A sticker put in at the end ranks last. *)
LEMMA Appended ==
  ASSUME TypeOK, NEW s \in Stickers \ Live, list' = InsertAt(list, Len(list) + 1, s),
         rating' = [rating EXCEPT ![s] = "unset"], safe' = safe
  PROVE  /\ VisibleAt \subseteq VisibleAt' /\ VisibleAt' \subseteq VisibleAt \union {Len(list) + 1}
         /\ \A i \in VisibleAt' : Ahead(i)' = Ahead(i)
         /\ Ahead(Len(list) + 1) = Cardinality(VisibleAt)
         /\ Cardinality(VisibleAt') \in Nat /\ Cardinality(VisibleAt) <= Cardinality(VisibleAt')
         /\ \A i \in VisibleAt : list'[i] = list[i]
<1> DEFINE n == Len(list)
<1>0. /\ n \in Nat /\ DOMAIN list = 1 .. n /\ (\A i \in DOMAIN list : list[i] \in Live) /\ Live \subseteq Stickers
      /\ list \in Seq(Stickers) /\ rating \in [Stickers -> Ratings]
  BY Listed DEF TypeOK
<1>1. /\ list' \in Seq(Stickers) /\ Len(list') = n + 1
      /\ \A i \in 1 .. n + 1 : list'[i] = IF i < n + 1 THEN list[i] ELSE IF i = n + 1 THEN s ELSE list[i - 1]
  <2>1. n + 1 \in 1 .. n + 1
    BY <1>0
  <2>2. LET l == InsertAt(list, n + 1, s)
        IN  /\ l \in Seq(Stickers) /\ Len(l) = n + 1
            /\ \A i \in 1 .. n + 1 : l[i] = IF i < n + 1 THEN list[i] ELSE IF i = n + 1 THEN s ELSE list[i - 1]
    BY <1>0, <2>1, InsertAtIs, ZenonT(60)
  <2> QED  BY <2>2
<1>2. DOMAIN list' = 1 .. n + 1
  BY <1>1, LenProperties
<1> HIDE DEF n
<1>3. \A i \in DOMAIN list : i \in DOMAIN list' /\ list'[i] = list[i] /\ rating'[list'[i]] = rating[list[i]]
  BY <1>0, <1>1, <1>2
<1>4. \A i \in DOMAIN list' : i \in DOMAIN list \/ i = n + 1
  BY <1>0, <1>2
<1>5. /\ VisibleAt \subseteq VisibleAt' /\ VisibleAt' \subseteq VisibleAt \union {n + 1}
      /\ VisibleAt \subseteq DOMAIN list
  <2>1. VisibleAt \subseteq VisibleAt'
    BY <1>3, Zenon DEF VisibleAt
  <2>2. VisibleAt' \subseteq VisibleAt \union {n + 1}
    BY <1>3, <1>4, Zenon DEF VisibleAt
  <2> QED  BY <2>1, <2>2 DEF VisibleAt
<1>6. ASSUME NEW i \in VisibleAt'
      PROVE  Ahead(i)' = Ahead(i)
  <2>1. i \in 1 .. n + 1
    BY <1>0, <1>5, <1>6
  <2>2. ~(n + 1 < i)
    BY <1>0, <2>1
  <2>3. {j \in VisibleAt' : j < i} = {j \in VisibleAt : j < i}
    BY <1>5, <2>2
  <2> QED  BY <2>3 DEF Ahead
<1>7. Ahead(n + 1) = Cardinality(VisibleAt)
  <2>1. \A j \in VisibleAt : j < n + 1
    BY <1>0, <1>5
  <2>2. {j \in VisibleAt : j < n + 1} = VisibleAt
    BY <2>1
  <2> QED  BY <2>2 DEF Ahead
<1>8. Cardinality(VisibleAt') \in Nat /\ Cardinality(VisibleAt) <= Cardinality(VisibleAt')
  <2>1. IsFiniteSet(1 .. n + 1)
    BY <1>0, FS_Interval
  <2>2. VisibleAt' \subseteq 1 .. n + 1
    BY <1>0, <1>5
  <2>3. IsFiniteSet(VisibleAt')
    BY <2>1, <2>2, FS_Subset
  <2> QED  BY <1>5, <2>3, FS_Subset, FS_CardinalityType
<1> QED  BY <1>3, <1>5, <1>6, <1>7, <1>8 DEF n

LEMMA StillShown ==
  ASSUME TypeOK, NEW s \in Stickers \ Live, list' = InsertAt(list, Len(list) + 1, s),
         rating' = [rating EXCEPT ![s] = "unset"], safe' = safe, seen' = seen, excused' = excused,
         NEW m \in Int, NEW more, Shown(m, more)
  PROVE  /\ m <= Cardinality(VisibleAt')
         /\ \A i \in VisibleAt' : Ahead(i)' < m => list'[i] \in seen' \union excused' \union more
<1>1. /\ VisibleAt \subseteq VisibleAt' /\ VisibleAt' \subseteq VisibleAt \union {Len(list) + 1}
      /\ \A i \in VisibleAt' : Ahead(i)' = Ahead(i)
      /\ Ahead(Len(list) + 1) = Cardinality(VisibleAt)
      /\ Cardinality(VisibleAt') \in Nat /\ Cardinality(VisibleAt) <= Cardinality(VisibleAt')
      /\ \A i \in VisibleAt : list'[i] = list[i]
  BY Appended
<1>2. Cardinality(VisibleAt) \in Nat /\ m <= Cardinality(VisibleAt)
  BY VisibleFinite DEF Shown
<1>3. m <= Cardinality(VisibleAt')
  BY <1>1, <1>2
<1>4. ASSUME NEW i \in VisibleAt', Ahead(i)' < m
      PROVE  list'[i] \in seen' \union excused' \union more
  <2>1. Ahead(i) < m
    BY <1>1, <1>4
  <2>2. i # Len(list) + 1
    <3> SUFFICES ASSUME i = Len(list) + 1 PROVE FALSE
      OBVIOUS
    <3>1. Cardinality(VisibleAt) < m
      BY <1>1, <2>1
    <3> QED  BY <1>2, <3>1
  <2>3. i \in VisibleAt
    BY <1>1, <2>2
  <2> QED  BY <1>1, <2>1, <2>3 DEF Shown
<1> QED  BY <1>3, <1>4

LEMMA PageWalkStep == TypeInv /\ TypeInv' /\ KindInv /\ PageWalk /\ [Next]_vars => PageWalk'
<1> SUFFICES ASSUME TypeInv, TypeInv', KindInv, PageWalk, [Next]_vars, flow = "pages"
             PROVE  PageWalk'
  <2>1. [Next]_vars => flow' = flow
    BY FlowStays
  <2> QED  BY <2>1 DEF PageWalk
<1>0. /\ TypeOK /\ handler \in [Presses -> Handlers] /\ \A g \in Presses : Answered(handler[g])
      /\ \A h \in Presses : handler[h].pc \in {"idle", "count", "find", "respond"}
      /\ screen.kind \in {"none", "page"}
  BY DEF TypeInv, TypeOK, KindInv, KindOf, ScreenKind
<1>1. ASSUME NEW start \in 1 .. Len(list) + 1, OpenSticker(start)
      PROVE  FALSE
  BY <1>1 DEF OpenSticker
<1>2. ASSUME NEW h \in Presses,
             \/ StepSticker(h) \/ ModalSticker(h) \/ Submit(h) \/ RereadSticker(h) \/ EditSticker(h)
             \/ ReplaceFile(h) \/ ReadList(h) \/ ConfirmCheck(h) \/ ConfirmWrite(h)
      PROVE  FALSE
  BY <1>0, <1>2 DEF StepSticker, Begin, ModalSticker, Submit, RereadSticker, EditSticker, ReplaceFile, ReadList,
                    ConfirmCheck, ConfirmWrite
<1>3. ASSUME NEW s \in Stickers,
             \/ Delete(s) \/ MoveToFront(s)
             \/ \E v \in Ratings \ {rating[s]} : Rate(s, v)
      PROVE  excused' = Stickers
  BY <1>3 DEF Delete, MoveToFront, Rate
<1>4. CASE excused = Stickers
  <2>1. ASSUME excused \subseteq excused'
        PROVE  PageWalk'
    BY <1>4, <2>1, ExcusedStay DEF PageWalk
  <2>2. ASSUME NEW h \in Presses,
               OpenPages(h) \/ (\E op \in Ops : Press(h, op)) \/ CountPages(h) \/ FindPage(h) \/ Respond(h)
        PROVE  excused \subseteq excused'
    BY <1>4, <2>2 DEF OpenPages, Press, CountPages, FindPage, Respond, HandlerOnly
  <2>3. ASSUME NEW s \in Stickers, \E i \in 1 .. Len(list) + 1 : Insert(s, i)
        PROVE  excused \subseteq excused'
    BY <1>4, <2>3 DEF Insert
  <2>4. CASE UNCHANGED vars
    BY <2>1, <2>4 DEF vars
  <2> QED  BY <1>1, <1>2, <1>3, <1>4, <2>1, <2>2, <2>3, <2>4, Zenon DEF Next
<1>5. CASE Leafing
  <2>0. ASSUME Leafing'
        PROVE  PageWalk'
    BY <2>0 DEF PageWalk
  <2>00. ASSUME excused' = Stickers
         PROVE  PageWalk'
    BY <2>00 DEF PageWalk
  <2>1. ASSUME HandlerOnly
        PROVE  /\ list' = list /\ rating' = rating /\ safe' = safe
               /\ seen' = seen /\ excused' = excused /\ screen' = screen
    BY <2>1 DEF HandlerOnly, packVars
  <2>2. ASSUME NEW h \in Presses, OpenPages(h)
        PROVE  PageWalk'
    <3>1. Others(h) /\ handler'[h].pc = "count" /\ handler'[h].op = "open"
      BY <2>2, OpenPagesIs
    <3>2. Paging(handler'[h])
      BY <3>1 DEF Paging
    <3> QED  BY <1>5, <2>0, <2>2, <3>1, <3>2, LeafingOther DEF OpenPages, packVars
  <2>3. ASSUME NEW h \in Presses, NEW op \in Ops, Press(h, op)
        PROVE  PageWalk'
    <3>1. CASE op \in {"jump", "last"}
      BY <2>00, <2>3, <3>1 DEF Press
    <3>2. CASE op \notin {"jump", "last"}
      <4>1. /\ list' = list /\ rating' = rating /\ safe' = safe
            /\ seen' = seen /\ excused' = excused /\ screen' = screen
        BY <2>3, <3>2 DEF Press, packVars
      <4>2. Others(h) /\ handler'[h].op = op /\ handler'[h].pc = "count" /\ handler'[h].index = screen.index
        BY <2>3, PressIs
      <4>3. screen.kind = "page" /\ Enabled(op)
        BY <1>0, <2>3 DEF Press
      <4>4. PageShown(screen, {})
        BY <1>5, <4>3 DEF Leafing
      <4>5. op = "next" => screen.index < screen.total
        BY <4>3 DEF Enabled, PublishRow
      <4>6. Paging(handler'[h])
        BY <3>2, <4>2, <4>4, <4>5 DEF Paging, PageShown
      <4> QED  BY <1>5, <2>0, <4>1, <4>2, <4>6, LeafingOther
    <3> QED  BY <3>1, <3>2
  <2>4. ASSUME NEW h \in Presses, CountPages(h)
        PROVE  PageWalk'
    <3>1. /\ Others(h) /\ handler'[h].pc = "find" /\ handler'[h].op = handler[h].op
          /\ handler'[h].index = handler[h].index /\ handler'[h].total = PagesOf(Cardinality(VisibleAt))
      BY <2>4, CountPagesIs
    <3>2. Paging(handler[h]) /\ handler[h].pc = "count"
      BY <1>5, <2>4 DEF Leafing, CountPages
    <3>3. Paging(handler'[h])
      BY <3>1, <3>2 DEF Paging
    <3> QED  BY <1>5, <2>0, <2>1, <2>4, <3>1, <3>3, LeafingOther DEF CountPages
  <2>5. ASSUME NEW h \in Presses, FindPage(h)
        PROVE  PageWalk'
    <3>1. Paging(handler[h]) /\ handler[h].pc = "find"
      BY <1>5, <2>5 DEF Leafing, FindPage
    <3>2. Paging(handler'[h]) /\ Others(h)
      BY <2>5, <3>1, AnswerPages, FindPageIs
    <3> QED  BY <1>5, <2>0, <2>1, <2>5, <3>2, LeafingOther DEF FindPage
  <2>6. ASSUME NEW h \in Presses, Respond(h)
        PROVE  PageWalk'
    <3>1. /\ handler'[h] = Idle /\ Others(h) /\ handler[h].pc = "respond"
          /\ screen' = handler[h].answer /\ seen' = seen \union handler[h].answer.shown
          /\ list' = list /\ rating' = rating /\ safe' = safe /\ excused' = excused
      BY <2>6, RefuseIs DEF Respond, packVars, Others
    <3>2. VisibleAt' = VisibleAt /\ \A i : Ahead(i)' = Ahead(i)
      BY <3>1, SameVisible
    <3>3. PagesOf(Cardinality(VisibleAt))' = PagesOf(Cardinality(VisibleAt))
      BY <3>2 DEF PagesOf
    <3>4. PageShown(screen, {})'
      <4>1. PageShown(handler[h].answer, handler[h].answer.shown)
        BY <1>5, <3>1 DEF Leafing, Paging
      <4> QED  BY <3>1, <3>2, <4>1 DEF PageShown, Shown
    <3>5. ASSUME NEW g \in Presses
          PROVE  Paging(handler[g])'
      <4>1. CASE g = h
        BY <3>1, <4>1 DEF Paging, Idle
      <4>2. CASE g # h
        <5>1. handler'[g] = handler[g] /\ Paging(handler[g])
          BY <1>5, <3>1, <4>2 DEF Others, Leafing
        <5> QED  BY <3>1, <3>2, <3>3, <5>1 DEF Paging, PageShown, Shown
      <4> QED  BY <4>1, <4>2
    <3> QED  BY <2>0, <3>4, <3>5 DEF Leafing
  <2>7. ASSUME NEW s \in Stickers, NEW k \in 1 .. Len(list) + 1, Insert(s, k)
        PROVE  PageWalk'
    <3>1. CASE s \in Chosen \/ Finding \/ k <= Len(list)
      BY <2>00, <2>7, <3>1 DEF Insert
    <3>2. CASE ~(s \in Chosen \/ Finding \/ k <= Len(list))
      <4>1. k = Len(list) + 1
        BY <1>0, <3>2, Listed
      <4>2. /\ s \in Stickers \ Live /\ list' = InsertAt(list, Len(list) + 1, s)
            /\ rating' = [rating EXCEPT ![s] = "unset"] /\ safe' = safe /\ seen' = seen /\ excused' = excused
        BY <2>7, <3>2, <4>1 DEF Insert, Change
      <4>3. screen' = screen /\ \A g \in Presses : Dims(handler[g], handler'[g])
        BY <1>0, <2>7, OutdateIs, Zenon DEF Insert
      <4>4. ASSUME NEW c \in Screens, NEW more, PageShown(c, more)
            PROVE  /\ (c.index - 1) * PerPage <= Cardinality(VisibleAt')
                   /\ \A i \in VisibleAt' : Ahead(i)' < (c.index - 1) * PerPage => list'[i] \in seen' \union excused' \union {}
                   /\ c.index < c.total =>
                        /\ c.index * PerPage <= Cardinality(VisibleAt')
                        /\ \A i \in VisibleAt' : Ahead(i)' < c.index * PerPage => list'[i] \in seen' \union excused' \union more
        <5>1. c.index \in Int /\ c.index - 1 \in Int
          BY <4>4, ScreenFields
        <5>2. (c.index - 1) * PerPage \in Int /\ c.index * PerPage \in Int
          BY <5>1, ScreensAssumption
        <5>3. Shown((c.index - 1) * PerPage, {}) /\ (c.index < c.total => Shown(c.index * PerPage, more))
          BY <4>4 DEF PageShown
        <5>4. /\ (c.index - 1) * PerPage <= Cardinality(VisibleAt')
              /\ \A i \in VisibleAt' : Ahead(i)' < (c.index - 1) * PerPage => list'[i] \in seen' \union excused' \union {}
          BY <1>0, <4>2, <5>2, <5>3, StillShown
        <5>5. ASSUME c.index < c.total
              PROVE  /\ c.index * PerPage <= Cardinality(VisibleAt')
                     /\ \A i \in VisibleAt' : Ahead(i)' < c.index * PerPage => list'[i] \in seen' \union excused' \union more
          BY <1>0, <4>2, <5>2, <5>3, <5>5, StillShown
        <5> QED  BY <5>4, <5>5
      <4>5. (screen.kind = "page" => PageShown(screen, {}))'
        <5>1. screen \in Screens
          BY <1>0 DEF TypeOK
        <5> QED  BY <1>5, <4>3, <4>4, <5>1 DEF Leafing, PageShown, Shown
      <4>6. ASSUME NEW g \in Presses
            PROVE  Paging(handler[g])'
        <5>1. /\ handler'[g].pc = handler[g].pc /\ handler'[g].op = handler[g].op
              /\ handler'[g].index = handler[g].index /\ handler'[g].answer = handler[g].answer
          BY <4>3 DEF Dims
        <5>2. handler[g].pc # "find" /\ Paging(handler[g])
          BY <1>5, <3>2 DEF Finding, Leafing
        <5>3. CASE handler[g].pc = "respond"
          <6>1. handler[g].answer \in Screens /\ PageShown(handler[g].answer, handler[g].answer.shown)
            BY <1>0, <5>2, <5>3, HandlerFields DEF Paging
          <6> DEFINE c == handler[g].answer
          <6>2. /\ (c.index - 1) * PerPage <= Cardinality(VisibleAt')
                /\ \A i \in VisibleAt' : Ahead(i)' < (c.index - 1) * PerPage => list'[i] \in seen' \union excused' \union {}
                /\ c.index < c.total =>
                     /\ c.index * PerPage <= Cardinality(VisibleAt')
                     /\ \A i \in VisibleAt' : Ahead(i)' < c.index * PerPage => list'[i] \in seen' \union excused' \union c.shown
            BY <4>4, <6>1
          <6>3. handler'[g].pc = "respond" /\ handler'[g].answer = c
            BY <5>1, <5>3
          <6> HIDE DEF c
          <6> QED  BY <6>2, <6>3 DEF Paging, PageShown, Shown
        <5>4. CASE handler[g].pc = "count"
          <6>1. handler[g].index \in Nat
            BY <1>0, HandlerFields
          <6>2. handler[g].index * PerPage \in Int /\ (handler[g].index - 1) * PerPage \in Int
            BY <6>1, ScreensAssumption
          <6>3. ASSUME handler[g].op = "next"
                PROVE  /\ handler[g].index * PerPage <= Cardinality(VisibleAt')
                       /\ \A i \in VisibleAt' : Ahead(i)' < handler[g].index * PerPage => list'[i] \in seen' \union excused' \union {}
            <7>1. Shown(handler[g].index * PerPage, {})
              BY <5>2, <5>4, <6>3 DEF Paging
            <7> QED  BY <1>0, <4>2, <6>2, <7>1, StillShown
          <6>4. ASSUME handler[g].op = "prev"
                PROVE  /\ (handler[g].index - 1) * PerPage <= Cardinality(VisibleAt')
                       /\ \A i \in VisibleAt' : Ahead(i)' < (handler[g].index - 1) * PerPage => list'[i] \in seen' \union excused' \union {}
            <7>1. Shown((handler[g].index - 1) * PerPage, {})
              BY <5>2, <5>4, <6>4 DEF Paging
            <7> QED  BY <1>0, <4>2, <6>2, <7>1, StillShown
          <6>5. handler[g].op # "last"
            BY <5>2, <5>4 DEF Paging
          <6> QED  BY <5>1, <5>4, <6>3, <6>4, <6>5 DEF Paging, Shown
        <5>5. CASE handler[g].pc = "idle"
          BY <5>1, <5>5 DEF Paging
        <5> QED  BY <1>0, <5>2, <5>3, <5>4, <5>5
      <4> QED  BY <2>0, <4>5, <4>6 DEF Leafing
    <3> QED  BY <3>1, <3>2
  <2>8. CASE UNCHANGED vars
    <3>1. /\ list' = list /\ rating' = rating /\ safe' = safe
          /\ seen' = seen /\ excused' = excused /\ screen' = screen /\ handler' = handler
      BY <2>8 DEF vars
    <3>2. VisibleAt' = VisibleAt /\ \A i : Ahead(i)' = Ahead(i)
      BY <3>1, SameVisible
    <3>3. \A g \in Presses : Paging(handler[g])'
      BY <1>5, <3>1, PagingSame DEF Leafing
    <3>4. (screen.kind = "page" => PageShown(screen, {}))'
      BY <1>5, <3>1, <3>2 DEF Leafing, PageShown, Shown
    <3> QED  BY <2>0, <3>3, <3>4 DEF Leafing
  <2> QED  BY <1>1, <1>2, <1>3, <2>00, <2>2, <2>3, <2>4, <2>5, <2>6, <2>7, <2>8, Zenon DEF Next
<1> QED  BY <1>4, <1>5 DEF PageWalk

LEMMA InitWalk == Init => StickerWalk /\ PageWalk
<1> SUFFICES ASSUME Init PROVE StickerWalk /\ PageWalk
  OBVIOUS
<1>1. screen.kind = "none" /\ \A h \in Presses : handler[h] = Idle
  BY DEF Init, Blank
<1> QED  BY <1>1, IdleWalking, IdlePaging DEF StickerWalk, PageWalk, Following, Leafing

(* Whoever follows Next to the end of the pack, or to the last page, has been
   shown every sticker that is then in it: an answer is found from the sticker
   the button was made for, or from a page number that is brought back, so no
   deletion, rating or late answer makes it step over one. *)
THEOREM EveryStickerIsShown == Spec => NothingPassedOver
<1> DEFINE NonePassed == \A h \in Presses : Answers(h) /\ LastOfAll(handler'[h].answer) =>
                           Visible \subseteq seen \union handler'[h].answer.shown \union excused
<1>1. TypeInv /\ KindInv /\ StickerWalk /\ PageWalk /\ [Next]_vars => NonePassed
  <2> SUFFICES ASSUME TypeInv, KindInv, StickerWalk, PageWalk, [Next]_vars, NEW h \in Presses,
                      Answers(h), LastOfAll(handler'[h].answer)
               PROVE  Visible \subseteq seen \union handler'[h].answer.shown \union excused
    OBVIOUS
  <2>0. TypeOK /\ KindOf(flow, screen.kind, handler[h])
    BY DEF TypeInv, KindInv
  <2>1. Visible \subseteq Live /\ Live \subseteq Stickers
    BY <2>0, Listed DEF Visible, VisibleAt
  <2>2. CASE excused = Stickers
    BY <2>1, <2>2
  <2>3. CASE excused # Stickers /\ handler[h].pc = "list" /\ ReadList(h)
    <3>1. Following
      BY <2>0, <2>3 DEF KindOf, StickerWalk
    <3>2. handler'[h].answer.kind \in {"sticker", "done"}
      BY <2>3, ReadListIs
    <3>3. handler'[h].answer.kind = "done"
      BY <3>2 DEF LastOfAll
    <3>4. Live \subseteq seen \union excused
      BY <2>3, <3>1, <3>3, AnswerWalks DEF Following
    <3> QED  BY <2>1, <3>4
  <2>4. CASE excused # Stickers /\ handler[h].pc = "find" /\ FindPage(h)
    <3>1. flow = "pages" /\ Leafing
      BY <2>0, <2>4 DEF KindOf, PageWalk
    <3>2. handler'[h].answer.kind = "page"
      BY <2>4, FindPageIs
    <3>3. handler'[h].answer.index = handler'[h].answer.total
      BY <3>2 DEF LastOfAll
    <3> QED  BY <2>4, <3>1, <3>3, AnswerPages DEF Leafing
  <2> QED  BY <2>2, <2>3, <2>4, WhoAnswers
<1> QED  BY InitTyped, TypeStep, InitKind, KindStep, InitWalk, StickerWalkStep, PageWalkStep, <1>1, PTL
         DEF Spec, NothingPassedOver
=============================================================================
