------------------------------ MODULE SetSync ------------------------------
(***************************************************************************)
(* What phase 1 of a Telegram import promises, whatever the number of      *)
(* workers that carry it out: every sticker of the set is settled at most  *)
(* once, its file is stored at most once and only if the bot has no row    *)
(* for it, and the phase counts as drained only when nothing is left open. *)
(* ImportPool is shown to implement this module.                           *)
(***************************************************************************)
EXTENDS Naturals

CONSTANT Total                  \* stickers in the set Telegram returned

Entries == 0 .. Total - 1

Kinds == {"static", "animated", "video"}
RowStates == {"absent", "current", "changed"}
Outcomes == {"open", "existing", "created", "failed", "skipped"}

VARIABLES
  input,      \* what Telegram and the database hold for each entry
  outcome,    \* how each entry was settled
  stored,     \* entries whose file has been written to storage
  phase       \* the pool runs, has drained, or has been given up on

vars == <<input, outcome, stored, phase>>

Inputs == [kind : Kinds, row : RowStates]

TypeOK ==
  /\ input \in [Entries -> Inputs]
  /\ outcome \in [Entries -> Outcomes]
  /\ stored \subseteq Entries
  /\ phase \in {"pool", "drained", "threw"}

Init ==
  /\ input \in [Entries -> Inputs]
  /\ outcome = [e \in Entries |-> "open"]
  /\ stored = {}
  /\ phase = "pool"

(* The outcomes an entry may still get, given what is known of it. *)
Allowed(e) ==
  IF e \in stored THEN {"created"}
  ELSE (IF input[e].row = "absent" THEN {"failed"} ELSE {"existing"})
         \union (IF input[e].kind = "static" THEN {} ELSE {"skipped"})

Store(e) ==
  /\ phase # "drained"
  /\ input[e].row = "absent"
  /\ outcome[e] = "open"
  /\ e \notin stored
  /\ stored' = stored \union {e}
  /\ UNCHANGED <<input, outcome, phase>>

Settle(e) ==
  /\ phase # "drained"
  /\ outcome[e] = "open"
  /\ \E o \in Allowed(e) : outcome' = [outcome EXCEPT ![e] = o]
  /\ UNCHANGED <<input, stored, phase>>

Drain ==
  /\ phase = "pool"
  /\ \A e \in Entries : outcome[e] # "open"
  /\ phase' = "drained"
  /\ UNCHANGED <<input, outcome, stored>>

GiveUp ==
  /\ phase = "pool"
  /\ phase' = "threw"
  /\ UNCHANGED <<input, outcome, stored>>

Next ==
  \/ \E e \in Entries : Store(e) \/ Settle(e)
  \/ Drain
  \/ GiveUp

Spec == Init /\ [][Next]_vars
=============================================================================
