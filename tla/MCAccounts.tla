----------------------------- MODULE MCAccounts -----------------------------
(* Instances of Accounts for TLC: two emails, three usernames; one of the   *)
(* test users has the identity a registration asks for, and another         *)
(* registration asks for the username of the demo account.                  *)
EXTENDS Accounts

CONSTANTS ann, bob, demo

Id(e, n) == [email |-> e, name |-> n]

Asked == {Id(ann, ann), Id(bob, ann), Id(bob, demo)}
DemoId == Id(demo, demo)
Seeds == <<Id(ann, ann), Id(bob, bob)>>
=============================================================================
