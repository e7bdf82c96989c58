----------------------------- MODULE MCActivity -----------------------------
(* An instance of Activity for TLC: everything is one customer's.           *)
EXTENDS Activity, TLC

CONSTANTS c1, c2, s1, cA

AllOfOne == [x \in Charges \cup Subs |-> cA]
\* The sum tells which are in it.
Amounts == (c1 :> 1) @@ (c2 :> 2)
=============================================================================
