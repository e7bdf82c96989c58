-------------------------- MODULE MCStripeConnect --------------------------
(* Instances of StripeConnect for TLC: two organizations, a customer's      *)
(* account with a key that may read it, and the platform's own account with *)
(* a key that may not.                                                      *)
EXTENDS StripeConnect, TLC

CONSTANTS acctA, platformAcct, readKey, blindKey

TwoAccounts == {acctA, platformAcct}
KeyOwners == (readKey :> acctA) @@ (blindKey :> platformAcct)

\* Two threads share the first process, the third has one of its own.
CONSTANTS t1, t2, t3, first, second
TwoProcesses == (t1 :> first) @@ (t2 :> first) @@ (t3 :> second)

Symmetry == Permutations(Orgs) \cup Permutations({t1, t2}) \cup Permutations(States)
=============================================================================
