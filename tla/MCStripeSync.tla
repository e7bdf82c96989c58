--------------------------- MODULE MCStripeSync ---------------------------
(* Instances of StripeSync for TLC: two connections, one per way of         *)
(* authenticating, a demo connection, and the deployments the code          *)
(* supports.                                                                *)
EXTENDS StripeSync, TLC

CONSTANTS oauthConn, keyConn, demoConn, oauthAcct, keyAcct, demoAcct, platformAcct,
          api1, api2, worker1, worker2

\* Both kinds of connection, each to an account of its own.
BothConns == {oauthConn, keyConn}
BothAccountOf == (oauthConn :> oauthAcct) @@ (keyConn :> keyAcct)
BothAuthMethod == (oauthConn :> "oauth") @@ (keyConn :> "restricted_key")
AllAccounts == {oauthAcct, keyAcct, platformAcct}

\* The same and a seeded demo connection, to an account Stripe does not have.
WithDemoConns == BothConns \cup {demoConn}
WithDemoAccountOf == (demoConn :> demoAcct) @@ BothAccountOf
WithDemoAuthMethod == (demoConn :> "oauth") @@ BothAuthMethod
WithDemoAccounts == AllAccounts \cup {demoAcct}

\* One connection only, for the runs about syncs of one connection.
OneConn == {oauthConn}
OneAccountOf == oauthConn :> oauthAcct
OneAuthMethod == oauthConn :> "oauth"
OneAccounts == {oauthAcct, platformAcct}

\* Every runner a process of its own / two request threads in one API process.
OwnProcess == [r \in Runners |-> r]
SharedApiProcess == [r \in Runners |-> IF r \in ApiRunners THEN api1 ELSE r]

LogSymmetry == Permutations(LogIds)
=============================================================================
