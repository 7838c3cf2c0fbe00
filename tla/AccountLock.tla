---------------------------- MODULE AccountLock -----------------------------
(***************************************************************************)
(* What Pop3Pool promises the tasks that share an account: a lock with a   *)
(* time limit.  A task asks for an account, waits, and then holds it alone *)
(* or gives up.  A registration is the span from add_account to            *)
(* remove_account; each has a lock of its own.                             *)
(***************************************************************************)
CONSTANTS Tasks, Registrations, None

VARIABLES
  wanted,    \* the registration a task waits for
  holder     \* the task that holds a registration

vars == <<wanted, holder>>

Init == /\ wanted = [t \in Tasks |-> None]
        /\ holder = [r \in Registrations |-> None]

Ask(t, r) == /\ wanted[t] = None /\ \A s \in Registrations : holder[s] # t
             /\ wanted' = [wanted EXCEPT ![t] = r]
             /\ UNCHANGED holder

Grant(t) == /\ wanted[t] # None /\ holder[wanted[t]] = None
            /\ holder' = [holder EXCEPT ![wanted[t]] = t]
            /\ wanted' = [wanted EXCEPT ![t] = None]

GiveUp(t) == /\ wanted[t] # None
             /\ wanted' = [wanted EXCEPT ![t] = None]
             /\ UNCHANGED holder

Release(t) == \E r \in Registrations :
  /\ holder[r] = t
  /\ holder' = [holder EXCEPT ![r] = None]
  /\ UNCHANGED wanted

Next == \E t \in Tasks :
          Grant(t) \/ GiveUp(t) \/ Release(t) \/ \E r \in Registrations : Ask(t, r)

Spec == Init /\ [][Next]_vars
=============================================================================
