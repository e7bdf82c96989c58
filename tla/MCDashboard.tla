---------------------------- MODULE MCDashboard ----------------------------
(* Instances of Dashboard for TLC: subscriptions billed by the week and by  *)
(* the month.                                                               *)
EXTENDS Dashboard, TLC

CONSTANTS s1, s2, cA, cB

OneEach == (s1 :> cA) @@ (s2 :> cB)

\* 13 and 29 cents a month: the sum tells which are in it.
Prices ==
    (s1 :> [amount |-> 3, interval |-> "week", count |-> 1])
    @@ (s2 :> [amount |-> 58, interval |-> "month", count |-> 2])
=============================================================================
