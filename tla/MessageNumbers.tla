--------------------------- MODULE MessageNumbers ---------------------------
(***************************************************************************)
(* Message numbers.  A message is known by its arrival number, which is    *)
(* its own for ever; in a session the server numbers the messages of the   *)
(* maildrop 1, 2, ... in the order in which they arrived.                  *)
(***************************************************************************)
EXTENDS Naturals, Sequences, FiniteSets

(* Message number n of maildrop S is its n-th oldest message.              *)
Rank(S, u) == Cardinality({v \in S : v <= u})
Nth(S, n)  == CHOOSE u \in S : Rank(S, u) = n
Numbers(S) == 1 .. Cardinality(S)

(* The messages these numbers name: a number out of range names none.      *)
Named(S, ns) == {Nth(S, n) : n \in ns \cap Numbers(S)}

(* The entries of a listing at these positions, in order.                  *)
EntriesAt(l, S) == [k \in Numbers(S) |-> l[Nth(S, k)]]
=============================================================================
