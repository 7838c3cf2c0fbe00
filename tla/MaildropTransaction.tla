------------------------ MODULE MaildropTransaction -------------------------
(***************************************************************************)
(* What one POP3 session promises the caller who deletes messages: a       *)
(* transaction.  dele and rset change a private set; the session ends once *)
(* and for all, by committing exactly that set, by a commit the server     *)
(* reports as failed, or by being lost without effect.  The promise is     *)
(* void ("unknown") once the caller has given up on a call half-way.       *)
(***************************************************************************)
CONSTANT Msgs

VARIABLES
  phase,     \* "new", "open", "committed", "failed", "lost", "unknown"
  deleted,   \* what the caller knows to be marked
  removed    \* what the maildrop has lost

vars == <<phase, deleted, removed>>

Init == phase = "new" /\ deleted = {} /\ removed = {}

Open == phase = "new" /\ phase' = "open" /\ UNCHANGED <<deleted, removed>>

(* A reply may still be read after the connection was lost. *)
Delete(m) == /\ phase \in {"open", "lost"}
             /\ deleted' = deleted \cup {m} /\ UNCHANGED <<phase, removed>>
Reset     == /\ phase \in {"open", "lost"}
             /\ deleted' = {} /\ UNCHANGED <<phase, removed>>

Commit == /\ phase = "open" /\ phase' = "committed"
          /\ removed' = deleted /\ UNCHANGED deleted
Fail   == /\ phase = "open" /\ phase' = "failed"
          /\ removed' \in SUBSET deleted /\ UNCHANGED deleted
Lose   == /\ phase \in {"new", "open"} /\ phase' = "lost"
          /\ UNCHANGED <<deleted, removed>>
GiveUp == phase # "unknown" /\ phase' = "unknown" /\ deleted' = {} /\ removed' = {}

Next == \/ Open \/ Reset \/ Commit \/ Fail \/ Lose \/ GiveUp
        \/ \E m \in Msgs : Delete(m)

Spec == Init /\ [][Next]_vars
=============================================================================
