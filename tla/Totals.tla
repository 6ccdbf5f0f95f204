------------------------------- MODULE Totals -------------------------------
(***************************************************************************)
(* Sums of natural numbers over a finite set, as a count: each member      *)
(* contributes that many units.  A sum defined by recursion gives the same *)
(* number; of a cardinality the prover can reason for any set.             *)
(***************************************************************************)
EXTENDS Naturals, FiniteSets

(* f[x] units of each x in S *)
Units(f, S) == UNION {{x} \X (1..f[x]) : x \in S}

Total(f, S) == Cardinality(Units(f, S))
=============================================================================
