------------------------------- MODULE Powers -------------------------------
(***************************************************************************)
(* Powers, as a recursive function: of the operator ^ the provers know     *)
(* nothing.                                                                *)
(***************************************************************************)
EXTENDS Integers

(* b to the n.                                                             *)
Power(b, n) ==
  LET power[k \in 0 .. n] == IF k = 0 THEN 1 ELSE b * power[k - 1]
  IN  power[n]
=============================================================================
