--------------------------- MODULE AccountMirror ---------------------------
(***************************************************************************)
(* What the Stripe mirror promises a reader of the stripe_* tables, with   *)
(* no word about sync runs, sessions, keys or workers:                     *)
(*                                                                         *)
(*   - the rows of a connection come from that connection's account only;  *)
(*   - a row never steps back to an older state of the account, and is     *)
(*     never ahead of it;                                                  *)
(*   - the rows of a connection change all together, and go with it.       *)
(*                                                                         *)
(* StripeSync implements this module when one sync runs at a time.         *)
(***************************************************************************)
EXTENDS Naturals

CONSTANTS
    Conns,          \* platform_connections ids
    Accounts,       \* Stripe accounts
    Resources,      \* the mirrored tables
    AccountOf,      \* the account a connection was granted for
    MaxVersion      \* bound on the edits made at Stripe to one account

VARIABLES
    version,        \* version[a]: how often account a was edited at Stripe
    live,           \* the connections that have a row
    mirror          \* mirror[c][r][a]: version of a's objects stored under c, 0 for none

vars == <<version, live, mirror>>

NoRows == [r \in Resources |-> [a \in Accounts |-> 0]]

Init ==
    /\ version = [a \in Accounts |-> 0]
    /\ live = {}
    /\ mirror = [c \in Conns |-> NoRows]

Edit(a) ==
    /\ version[a] < MaxVersion
    /\ version' = [version EXCEPT ![a] = @ + 1]
    /\ UNCHANGED <<live, mirror>>

Connect(c) ==
    /\ c \notin live
    /\ live' = live \cup {c}
    /\ UNCHANGED <<version, mirror>>

\* One transaction moves the rows of c forward, each to a state its account had.
Refresh(c) ==
    /\ c \in live
    /\ \E snapshot \in [Resources -> 0 .. version[AccountOf[c]]] :
         /\ \A r \in Resources : snapshot[r] >= mirror[c][r][AccountOf[c]]
         /\ mirror' = [mirror EXCEPT ![c] =
              [r \in Resources |-> [@[r] EXCEPT ![AccountOf[c]] = snapshot[r]]]]
    /\ UNCHANGED <<version, live>>

Drop(c) ==
    /\ c \in live
    /\ live' = live \ {c}
    /\ mirror' = [mirror EXCEPT ![c] = NoRows]
    /\ UNCHANGED version

Next ==
    \/ \E a \in Accounts : Edit(a)
    \/ \E c \in Conns : Connect(c) \/ Refresh(c) \/ Drop(c)

Spec == Init /\ [][Next]_vars
=============================================================================
