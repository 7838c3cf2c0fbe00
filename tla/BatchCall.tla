----------------------------- MODULE BatchCall ------------------------------
(***************************************************************************)
(* What retr_many and dele_many promise: a procedure called once for each  *)
(* id, in order.  The server decides each of them once, the caller gets    *)
(* the decisions in the same order, one for each id, and after a failure   *)
(* of the connection nothing but failures.  What is in flight, and how     *)
(* many at a time, is not visible here.                                    *)
(***************************************************************************)
EXTENDS Naturals, Sequences

VARIABLES
  size,      \* the number of ids of the call
  decided,   \* the server's decisions: "ok", "err"
  out        \* the results: "ok", "err", "fail"

vars == <<size, decided, out>>

Init == size = 0 /\ decided = <<>> /\ out = <<>>

(* A new call; and the promise is void when one is cancelled or made on a  *)
(* connection that is out of step, for which size is 0.                    *)
Call == size' \in Nat /\ decided' = <<>> /\ out' = <<>>

Decide == /\ Len(decided) < size
          /\ decided' \in {Append(decided, v) : v \in {"ok", "err"}}
          /\ UNCHANGED <<size, out>>

Failed == \E i \in DOMAIN out : out[i] = "fail"

Deliver == /\ ~Failed /\ Len(out) < Len(decided)
           /\ out' = Append(out, decided[Len(out) + 1])
           /\ UNCHANGED <<size, decided>>

Fail == /\ \E n \in Len(out) + 1 .. size :
             out' = [i \in 1 .. n |-> IF i <= Len(out) THEN out[i] ELSE "fail"]
        /\ UNCHANGED <<size, decided>>

Next == Call \/ Decide \/ Deliver \/ Fail

Spec == Init /\ [][Next]_vars
=============================================================================
