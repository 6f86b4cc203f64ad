-------------------------------- MODULE Data --------------------------------
(***************************************************************************)
(* Sums over finite sets and parts of sequences, in a form that can be     *)
(* reasoned about: the summands are a function and the elements to keep a  *)
(* set of positions, not operators.                                        *)
(***************************************************************************)
EXTENDS Integers, FiniteSetsExt

(* The sum of w[x] for x in S.                                             *)
SumOf(w, S) == MapThenSumSet(LAMBDA x : w[x], S)

(* The elements of a sequence at the positions in I, in their order.       *)
Kept(seq, I) ==
  LET nth(k) == CHOOSE i \in I : Cardinality({j \in I : j <= i}) = k
  IN  [k \in 1..Cardinality(I) |-> seq[nth(k)]]
=============================================================================
