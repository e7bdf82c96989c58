---------------------------- MODULE MCWorkspaces ----------------------------
(* An instance of Workspaces for TLC: one user with two organizations, and  *)
(* another with one of his own.                                             *)
EXTENDS Workspaces, TLC

CONSTANTS ann, bob, a1, a2, b1

Orgs2 == (ann :> {a1, a2}) @@ (bob :> {b1})
Symmetry == Permutations(Tabs)

First2 == (ann :> a1) @@ (bob :> b1)
=============================================================================
