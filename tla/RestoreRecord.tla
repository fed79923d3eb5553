--------------------------- MODULE RestoreRecord ---------------------------
(***************************************************************************)
(* What a restore journal promises (RestoreJournal, restorer.py): a set of *)
(* facts about one restore.  A journal without facts is bound to a target  *)
(* and a source; facts are added one at a time and never lost, except that *)
(* the mapping of an object that is gone is retired; and the binding never *)
(* changes.                                                                *)
(*                                                                         *)
(* The promise ends, "spoiled", where a process dies between a record and  *)
(* its line end, and nowhere else.  From there a write costs the journal   *)
(* the record before it, the next one costs all of them; a process that    *)
(* opens it in between mends it.                                           *)
(***************************************************************************)
CONSTANT Facts  \* records [kind, about]

VARIABLES facts, spoiled, open

\* "bound", "attempt", "done" or "map": what a fact is about.
Bound == {f \in facts : f.kind = "bound"}

RecordInit == facts = {} /\ spoiled = FALSE /\ open = FALSE

Bind(f) == f.kind = "bound" /\ facts = {} /\ facts' = {f}

Add(f) ==
  /\ Bound # {} /\ f.kind # "bound" /\ f \notin facts
  /\ facts' = facts \cup {f}

Retire(f) == f.kind = "map" /\ f \in facts /\ facts' = facts \ {f}

Change == \E f \in Facts : Bind(f) \/ Add(f) \/ Retire(f)

\* One record is undone, a retired mapping for one; or the file is refused.
Undo ==
  \/ facts' \in {facts, {}}
  \/ \E f \in Facts : \/ facts' = facts \ {f}
                      \/ f.kind = "map" /\ facts' = facts \cup {f}

Open == ~open /\ open' /\ facts' = facts /\ (spoiled' => spoiled)

Write ==
  /\ open /\ open'
  /\ \/ ~spoiled /\ ~spoiled' /\ Change
     \/ spoiled /\ spoiled' /\ Undo

Die ==
  /\ open /\ ~open'
  /\ \/ UNCHANGED <<facts, spoiled>>
     \/ ~spoiled /\ spoiled' /\ (Change \/ UNCHANGED facts)
     \/ spoiled /\ Undo

RecordStep == Open \/ Write \/ Die

RecordSpec == RecordInit /\ [][RecordStep]_<<facts, spoiled, open>>

=============================================================================
