------------------------------- MODULE Lists -------------------------------
(***************************************************************************)
(* What a list is to the assumptions and to the proofs.                    *)
(***************************************************************************)
EXTENDS Integers, Sequences

\* TLC can evaluate this one.
IsSequence(w) == w \in Seq({w[k] : k \in DOMAIN w})

IsList(w) == \E S : w \in Seq(S)

\* The numbers from 1 to n, in order.
Upto(n) == [i \in 1..n |-> i]
=============================================================================
