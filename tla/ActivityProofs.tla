--------------------------- MODULE ActivityProofs ---------------------------
(***************************************************************************)
(* Theorems about Activity: the figures of every window the dashboard and  *)
(* the review use are those of the last sync, lists with a limit leave out *)
(* only what they must, and the figures of a review add up; for any        *)
(* lookback, any windows within it, any limits, and any number of charges  *)
(* and subscriptions.                                                      *)
(***************************************************************************)
EXTENDS Activity, Sums

\* What a charge and its row hold.
Row == [created : Nat, status : {"pending", "succeeded", "failed"}]

\* A charge keeps the time it was made, at Stripe, in the listing and in its row; and the
\* row of a charge that is not yet older than the lookback is as it was listed.
ChargeInv(c) ==
    /\ listed[c] # Absent =>
         charges[c] # Absent /\ charges[c].created = listed[c].created
    /\ stripe_charges[c] # Absent =>
         listed[c] # Absent /\ listed[c].created = stripe_charges[c].created
    /\ listed[c] # Absent /\ listed[c].created >= now - LookbackDays =>
         stripe_charges[c] = listed[c]

\* The inductive invariant of the charges.
ActivityInv ==
    /\ now \in Nat
    /\ {charges, listed, stripe_charges} \subseteq [Charges -> Row \cup {Absent}]
    /\ \A c \in Charges : ChargeInv(c)

\* A row is never taken for the absence of one.
LEMMA RowsAreThere == Absent \notin Row
  BY ActivityAssumption DEF Absent, Row

\* The actions that leave the charges, their rows and the clock alone.
LEMMA OtherSteps ==
    ASSUME ActivityInv, UNCHANGED <<now, charges, stripe_charges, listed>>
    PROVE  ActivityInv'
  BY DEF ActivityInv, ChargeInv, Absent, Row

\* A sync lists a charge or leaves its row as it was: either way the row is of the charge.
LEMMA SyncStep ==
    ASSUME ActivityInv, Sync
    PROVE  ActivityInv'
<1>1. now' = now /\ charges' = charges /\ listed' = charges
  BY DEF Sync, stripe
<1>2. stripe_charges' \in [Charges -> Row \cup {Absent}]
  BY DEF ActivityInv, Sync
<1>3. ASSUME NEW c \in Charges
      PROVE  ChargeInv(c)'
  <2>1. stripe_charges'[c] = IF Listed(c) THEN charges[c] ELSE stripe_charges[c]
    BY DEF Sync
  <2>2. Absent' = Absent
    BY DEF Absent
  <2>3. ChargeInv(c)
    BY DEF ActivityInv
  <2>. QED  BY <1>1, <2>1, <2>2, <2>3 DEF ChargeInv, Listed, Exists
<1>. QED  BY <1>1, <1>2, <1>3 DEF ActivityInv, Row, Absent

\* Every step keeps the invariant.
LEMMA ActivityStep ==
    ASSUME ActivityInv, [Next]_vars
    PROVE  ActivityInv'
<1>. USE ActivityAssumption
<1>1. CASE Tick
  <2>1. now' = now + 1 /\ UNCHANGED <<charges, stripe_charges, listed>>
    BY <1>1 DEF Tick, stripe, mirror
  <2>2. ASSUME NEW c \in Charges
        PROVE  ChargeInv(c)'
    <3>1. ChargeInv(c) /\ listed[c] \in Row \cup {Absent} /\ now \in Nat
      BY DEF ActivityInv
    <3>2. Absent' = Absent
      BY DEF Absent
    <3>3. listed[c] # Absent => listed[c].created \in Nat
      BY <3>1 DEF Row
    <3>. QED  BY <2>1, <3>1, <3>2, <3>3 DEF ChargeInv
  <2>. QED  BY <2>1, <2>2 DEF ActivityInv, Row, Absent
<1>2. ASSUME NEW c \in Charges, NEW status \in {"pending", "succeeded", "failed"}, Charge(c, status)
      PROVE  ActivityInv'
  <2>1. UNCHANGED <<now, stripe_charges, listed>> /\ charges[c] = Absent
        /\ charges' = [charges EXCEPT ![c] = [created |-> now, status |-> status]]
    BY <1>2 DEF Charge, mirror, Exists
  <2>2. charges' \in [Charges -> Row \cup {Absent}]
    BY <2>1 DEF ActivityInv, Row
  <2>3. \A d \in Charges : ChargeInv(d)'
    BY <2>1 DEF ActivityInv, ChargeInv, Absent
  <2>. QED  BY <2>1, <2>2, <2>3 DEF ActivityInv, Row, Absent
<1>3. ASSUME NEW c \in Charges, NEW status \in {"succeeded", "failed"}, Settle(c, status)
      PROVE  ActivityInv'
  <2>1. UNCHANGED <<now, stripe_charges, listed>> /\ charges[c] # Absent
        /\ charges' = [charges EXCEPT ![c].status = status]
    BY <1>3 DEF Settle, mirror, Exists
  <2>2. charges[c] \in Row
    BY <2>1 DEF ActivityInv
  <2>3. charges'[c] \in Row /\ charges'[c].created = charges[c].created
    BY <2>1, <2>2 DEF ActivityInv, Row
  <2>4. charges' \in [Charges -> Row \cup {Absent}]
    BY <2>1, <2>3 DEF ActivityInv
  <2>5. \A d \in Charges : ChargeInv(d)'
    BY <2>1, <2>3, RowsAreThere DEF ActivityInv, ChargeInv, Absent
  <2>. QED  BY <2>1, <2>4, <2>5 DEF ActivityInv, Row, Absent
<1>4. ASSUME NEW s \in Subs,
             Subscribe(s, "active") \/ Subscribe(s, "incomplete") \/ Activate(s) \/ Cancel(s)
      PROVE  ActivityInv'
  BY <1>4, OtherSteps DEF Subscribe, Activate, Cancel, mirror
<1>5. CASE Sync
  BY <1>5, SyncStep
<1>6. CASE ReadOverview \/ ReadActivity \/ Regenerate
  BY <1>6, OtherSteps DEF ReadOverview, ReadActivity, Regenerate, stripe, mirror
<1>7. CASE UNCHANGED vars
  BY <1>7, OtherSteps DEF vars, stripe, mirror
<1>. QED  BY <1>1, <1>2, <1>3, <1>4, <1>5, <1>6, <1>7 DEF Next

\* And so it always holds.
LEMMA ActivityInvAlways == Spec => []ActivityInv
<1>1. Init => ActivityInv
  BY DEF Init, ActivityInv, ChargeInv, Absent
<1>2. ActivityInv /\ [Next]_vars => ActivityInv'
  BY ActivityStep
<1>. QED  BY <1>1, <1>2, PTL DEF Spec

\* Within the lookback the rows and the listing are alike.
LEMMA WindowsAgree ==
    ASSUME ActivityInv
    PROVE  FiguresAreAsOfSync
<1>. SUFFICES ASSUME NEW days \in {TopDays, PeriodDays, ReviewDays},
                     NEW status \in {"succeeded", "failed"},
                     NEW c \in Charges
              PROVE  c \in Of(stripe_charges, status, days) <=> c \in Of(listed, status, days)
  BY DEF FiguresAreAsOfSync, Of
<1>1. days \in Nat /\ LookbackDays \in Nat /\ days <= LookbackDays /\ now \in Nat
  BY ActivityAssumption DEF ActivityInv
<1>2. /\ stripe_charges[c] # Absent => stripe_charges[c].created \in Nat
      /\ listed[c] # Absent => listed[c].created \in Nat
  BY DEF ActivityInv, Row
<1>3. ASSUME listed[c] # Absent, now - days <= listed[c].created
      PROVE  stripe_charges[c] = listed[c]
  BY <1>1, <1>2, <1>3 DEF ActivityInv, ChargeInv
<1>4. ASSUME stripe_charges[c] # Absent, now - days <= stripe_charges[c].created
      PROVE  stripe_charges[c] = listed[c]
  BY <1>3, <1>4 DEF ActivityInv, ChargeInv
<1>. QED  BY <1>3, <1>4 DEF Of, Exists

\* Failed payments, top customers and the revenue of a review are what Stripe had when
\* the last sync listed the charges, although rows that left the lookback are never
\* brought up to date: no window may reach further back than the lookback.
THEOREM FiguresAreAsOfSyncAlways == Spec => []FiguresAreAsOfSync
<1>1. ActivityInv => FiguresAreAsOfSync
  BY WindowsAgree
<1>. QED  BY <1>1, ActivityInvAlways, PTL

-----------------------------------------------------------------------------
(* Lists with a limit.                                                     *)

\* What a list with a limit leaves out: it is full, of what is no older.
LEMMA LeftOut ==
    ASSUME NEW time, IsFiniteSet(DOMAIN time), NEW n \in Nat, NEW page \in Newest(time, n)
    PROVE  /\ page \subseteq DOMAIN time
           /\ \A x \in DOMAIN time \ page :
                Cardinality(page) = n /\ \A y \in page : time[y] >= time[x]
<1> DEFINE rows == DOMAIN time
           size == Min({n, Cardinality(rows)})
<1>1. page \in SUBSET rows /\ Cardinality(page) = size
  BY DEF Newest, kSubset
<1>2. \A y \in page, x \in rows \ page : time[y] >= time[x]
  BY DEF Newest
<1>3. Cardinality(rows) \in Nat
  BY FS_CardinalityType
<1>4. size = n \/ size = Cardinality(rows)
  <2> HIDE DEF rows
  <2> QED
    BY <1>3 DEF Min
<1>5. ASSUME NEW x \in rows \ page PROVE size = n
  <2>1. Cardinality(page) # Cardinality(rows)
    BY <1>1, <1>5, FS_Subset
  <2> QED
    BY <1>1, <1>4, <2>1
<1> QED
  BY <1>1, <1>2, <1>5

\* An image of a finite set is finite, and no larger.
LEMMA ImageIsFinite ==
    ASSUME NEW S, IsFiniteSet(S), NEW f
    PROVE  /\ IsFiniteSet({f[x] : x \in S})
           /\ Cardinality({f[x] : x \in S}) <= Cardinality(S)
<1> DEFINE T == {f[x] : x \in S}
           g == [x \in S |-> f[x]]
<1>1. g \in Surjection(S, T)
  BY DEF Surjection
<1> HIDE DEF g, T
<1> QED
  BY <1>1, FS_Surjection DEF T

\* LifetimeCoversRecent: a recent charge that is not on the page of its customer is left
\* out for charges that are as recent, which with it are more than the page has room for.
THEOREM LifetimeCoversRecentAlways == Spec => []LifetimeCoversRecent
<1>1. ActivityInv => LifetimeCoversRecent
  <2> DEFINE recent(cust) == {c \in Charges : /\ CustomerOf[c] = cust /\ Exists(stripe_charges, c)
                                              /\ stripe_charges[c].created >= now - TopDays}
  <2> SUFFICES ASSUME ActivityInv, NEW cust \in Customers, NEW page \in ChargePages(cust),
                      ~ PageLimit < Cardinality(recent(cust))
               PROVE  LifetimeValue(page) >= TopRevenue(cust)
    BY DEF LifetimeCoversRecent
  <2> DEFINE rows == RowsOf(cust)
             time == [c \in rows |-> stripe_charges[c].created]
             top == {c \in Of(stripe_charges, "succeeded", TopDays) : CustomerOf[c] = cust}
             paid == {c \in page : stripe_charges[c].status = "succeeded"}
  <2>1. /\ rows \in SUBSET Charges /\ IsFiniteSet(rows) /\ DOMAIN time = rows
        /\ IsFiniteSet(recent(cust)) /\ Cardinality(recent(cust)) \in Nat
        /\ PageLimit \in Nat /\ TopDays \in Nat /\ now \in Nat
    BY ActivityAssumption, FS_Subset, FS_CardinalityType DEF RowsOf, ActivityInv
  <2>2. \A c \in rows : stripe_charges[c].created \in Nat
    BY DEF RowsOf, Exists, ActivityInv, Row
  <2>3. page \in Newest(time, PageLimit)
    BY DEF ChargePages
  <2>4. recent(cust) \subseteq page
    <3> SUFFICES ASSUME NEW c \in recent(cust), c \notin page PROVE FALSE
      OBVIOUS
    <3>1. c \in rows /\ stripe_charges[c].created >= now - TopDays
      BY DEF RowsOf
    <3>2. page \subseteq rows /\ Cardinality(page) = PageLimit /\ \A y \in page : time[y] >= time[c]
      <4> HIDE DEF rows, time
      <4> QED
        BY <2>1, <2>3, <3>1, LeftOut
    <3>3. \A y \in page : stripe_charges[y].created >= stripe_charges[c].created
      BY <3>1, <3>2
    <3>4. \A y \in page : stripe_charges[y].created >= now - TopDays
      <4> HIDE DEF rows, time
      <4> QED
        BY <2>1, <2>2, <3>1, <3>2, <3>3
    <3>5. page \subseteq recent(cust) \ {c}
      BY <3>2, <3>4 DEF RowsOf
    <3> HIDE DEF recent, rows, time
    <3>6. Cardinality(page) <= Cardinality(recent(cust) \ {c})
      BY <2>1, <3>5, FS_Subset
    <3>7. Cardinality(recent(cust) \ {c}) = Cardinality(recent(cust)) - 1
      BY <2>1, FS_RemoveElement
    <3> QED
      BY <2>1, <3>2, <3>6, <3>7
  <2>5. top \subseteq paid
    BY <2>4 DEF Of
  <2>6. paid \in SUBSET Charges /\ IsFiniteSet(paid)
    <3>1. page \subseteq rows
      <4> HIDE DEF rows, time
      <4> QED
        BY <2>1, <2>3, LeftOut
    <3> QED
      BY <2>1, <3>1, FS_Subset
  <2>7. \A c \in paid : Amount[c] \in Nat
    BY <2>6, ActivityAssumption
  <2> HIDE DEF paid, top
  <2>8. SumFunctionOnSet(Amount, top) \in Int /\ SumFunctionOnSet(Amount, paid) \in Int
    <3>1. IsFiniteSet(top) /\ \A c \in top : Amount[c] \in Int
      BY <2>5, <2>6, <2>7, FS_Subset
    <3> QED
      BY <2>6, <2>7, <3>1, SumPick
  <2>9. SumFunctionOnSet(Amount, top) <= SumFunctionOnSet(Amount, paid)
    BY <2>5, <2>6, <2>7, SumSubset
  <2>10. Total(top) <= Total(paid) /\ Total(top) \in Int /\ Total(paid) \in Int
    BY <2>8, <2>9, SumOfLambda DEF Total
  <2> QED
    BY <2>10 DEF LifetimeValue, TopRevenue, top, paid
<1>. QED  BY <1>1, ActivityInvAlways, PTL

\* FailuresAreInFeed: a failed payment that the overview counts is an event of a feed that
\* reaches as far back, and is left out only as any event is.
THEOREM FailuresAreInFeedAlways == Spec => []FailuresAreInFeed
<1>1. ActivityInv => FailuresAreInFeed
  <2> SUFFICES ASSUME ActivityInv, FeedDays >= PeriodDays,
                      NEW feed \in Feeds, NEW c \in FailedPayments, \A e \in feed : e.of # c
               PROVE  /\ Cardinality(feed) = FeedLimit
                      /\ \A e \in feed : e.timestamp >= stripe_charges[c].created
    BY DEF FailuresAreInFeed
  <2> DEFINE time == [e \in Events |-> e.timestamp]
             event == [kind |-> "charge_failed", of |-> c, timestamp |-> stripe_charges[c].created]
  <2>1. event \in Events
    <3>1. c \in Of(stripe_charges, "failed", FeedDays)
      <4>1. now \in Nat /\ PeriodDays \in Nat /\ FeedDays \in Nat
        BY ActivityAssumption DEF ActivityInv
      <4>2. c \in Charges /\ stripe_charges[c] # Absent => stripe_charges[c].created \in Nat
        BY DEF FailedPayments, Of, ActivityInv, Row
      <4> QED
        BY <4>1, <4>2 DEF FailedPayments, Of, Exists
    <3> QED
      BY <3>1 DEF Events
  <2>2. IsFiniteSet(Events)
    <3> DEFINE started == [s \in Subs |-> [kind |-> "subscription_started", of |-> s,
                                           timestamp |-> stripe_subscriptions[s].created]]
               canceled == [s \in Subs |-> [kind |-> "subscription_canceled", of |-> s,
                                            timestamp |-> stripe_subscriptions[s].canceled]]
               failed == [d \in Charges |-> [kind |-> "charge_failed", of |-> d,
                                             timestamp |-> stripe_charges[d].created]]
               all == {started[s] : s \in Subs} \cup {canceled[s] : s \in Subs}
                        \cup {failed[d] : d \in Charges}
    <3>1. Events \in SUBSET all
      BY DEF Events, New, Churned, Rows, Of
    <3> HIDE DEF started, canceled, failed
    <3>2. IsFiniteSet(all)
      <4> DEFINE S1 == {started[s] : s \in Subs}
                 S2 == {canceled[s] : s \in Subs}
                 S3 == {failed[d] : d \in Charges}
      <4>1. IsFiniteSet(S1) /\ IsFiniteSet(S2) /\ IsFiniteSet(S3)
        BY ActivityAssumption, ImageIsFinite
      <4> HIDE DEF S1, S2, S3
      <4>2. IsFiniteSet((S1 \cup S2) \cup S3)
        BY <4>1, FS_Union
      <4> QED
        BY <4>2 DEF S1, S2, S3
    <3> HIDE DEF all
    <3> QED
      BY <3>1, <3>2, FS_Subset
  <2>3. feed \in Newest(time, FeedLimit) /\ FeedLimit \in Nat /\ DOMAIN time = Events
    BY ActivityAssumption DEF Feeds
  <2>4. event \notin feed /\ time[event] = stripe_charges[c].created
    BY <2>1
  <2>5. \A e \in Events : time[e] = e.timestamp
    OBVIOUS
  <2> HIDE DEF time, event
  <2>6. feed \subseteq Events /\ Cardinality(feed) = FeedLimit
        /\ \A e \in feed : time[e] >= time[event]
    BY <2>1, <2>2, <2>3, <2>4, LeftOut
  <2> QED
    BY <2>4, <2>5, <2>6
<1>. QED  BY <1>1, ActivityInvAlways, PTL

-----------------------------------------------------------------------------
(* The review.                                                             *)

\* What a subscription and its row hold.
Sub == [created : Nat, canceled : Nat \cup {None},
        status : {"active", "incomplete", "canceled"}]

\* A subscription is canceled once it has been created, and until then it may be active.
SubOK(sub) ==
    sub # Absent =>
      /\ sub \in Sub
      /\ sub.created <= now
      /\ sub.canceled # None => sub.created <= sub.canceled /\ sub.canceled <= now
      /\ sub.canceled # None <=> sub.status = "canceled"

\* The customers who count as active, whatever the time is.
Active == CustomersOf({s \in Rows : stripe_subscriptions[s].status = "active"})

\* A review: not begun, after the first of its two calls, or written.
Reviews ==
    [at : {"none"}]
    \cup [at : {"overview"}, torn : BOOLEAN, active : Nat]
    \cup [at : {"written"}, torn : BOOLEAN, active : Nat, new : Nat, unpaid : Nat, churned : Nat]

\* The inductive invariant of the review: between its calls the customers who count
\* as active are still those it has counted, unless a sync has torn it.
ReviewInv ==
    /\ now \in Nat
    /\ review \in Reviews
    /\ {subs, stripe_subscriptions} \subseteq [Subs -> Sub \cup {Absent}]
    /\ \A s \in Subs : SubOK(subs[s]) /\ SubOK(stripe_subscriptions[s])
    /\ review.at = "overview" /\ ~review.torn => review.active = Cardinality(Active)
    /\ ReviewAddsUp

\* Customers can be counted.
LEMMA CountsAreNat ==
    ASSUME NEW S \in SUBSET Subs
    PROVE  IsFiniteSet(CustomersOf(S)) /\ Cardinality(CustomersOf(S)) \in Nat
<1>1. IsFiniteSet(CustomersOf(S))
  BY ActivityAssumption, FS_Subset, ImageIsFinite DEF CustomersOf
<1> QED
  BY <1>1, FS_CardinalityType

\* A row that says active has not been canceled: the clock does not matter.
LEMMA ActiveIsActiveNow ==
    ASSUME ReviewInv
    PROVE  ActiveNow = Active
<1>1. ASSUME NEW s \in Rows, stripe_subscriptions[s].status = "active"
      PROVE  Running(s)
  BY <1>1 DEF ReviewInv, SubOK, Rows, Exists, Running
<1> QED
  BY <1>1 DEF Active, ActiveNow

\* Of the new customers, those who neither count as active nor have yet to pay churned.
LEMMA NewAreSomewhere ==
    ASSUME ReviewInv
    PROVE  Cardinality(CustomersOf(New(ReviewDays)))
             <= Cardinality(Active) + Cardinality(CustomersOf(Churned(ReviewDays)))
                  + Cardinality(CustomersOf({s \in New(ReviewDays) :
                                  stripe_subscriptions[s].status = "incomplete"}))
<1> DEFINE new == New(ReviewDays)
           churned == Churned(ReviewDays)
           unpaid == {s \in new : stripe_subscriptions[s].status = "incomplete"}
           active == {s \in Rows : stripe_subscriptions[s].status = "active"}
           N == CustomersOf(new)
           A == CustomersOf(active)
           C == CustomersOf(churned)
           U == CustomersOf(unpaid)
<1>1. ASSUME NEW s \in new PROVE s \in active \cup churned \cup unpaid
  <2>1. /\ s \in Rows /\ s \in Subs /\ now \in Nat /\ ReviewDays \in Nat
        /\ stripe_subscriptions[s] \in Sub /\ SubOK(stripe_subscriptions[s])
        /\ stripe_subscriptions[s] # Absent
        /\ now - ReviewDays <= stripe_subscriptions[s].created
    BY ActivityAssumption DEF New, Within, Rows, Exists, ReviewInv, SubOK
  <2>2. CASE stripe_subscriptions[s].status = "canceled"
    <3>1. Within(stripe_subscriptions[s].canceled, ReviewDays)
      BY <2>1, <2>2 DEF SubOK, Sub, Within
    <3> QED
      BY <2>1, <3>1 DEF Churned
  <2> QED
    BY <2>1, <2>2 DEF Sub
<1>2. N \subseteq A \cup C \cup U
  BY <1>1 DEF CustomersOf
<1>3. \A S \in SUBSET Subs : IsFiniteSet(CustomersOf(S))
  BY CountsAreNat
<1>4. {active, churned, unpaid} \subseteq SUBSET Subs
  BY DEF Rows, New, Churned
<1> HIDE DEF new, churned, unpaid, active
<1>5. IsFiniteSet(A) /\ IsFiniteSet(C) /\ IsFiniteSet(U)
  BY <1>3, <1>4
<1> HIDE DEF N, A, C, U
<1>6. /\ IsFiniteSet(A \cup C)
      /\ Cardinality(A \cup C) = Cardinality(A) + Cardinality(C) - Cardinality(A \cap C)
      /\ IsFiniteSet(A \cap C) /\ Cardinality(A \cap C) \in Nat
      /\ Cardinality(A) \in Nat /\ Cardinality(C) \in Nat /\ Cardinality(U) \in Nat
  BY <1>5, FS_Union, FS_Intersection, FS_CardinalityType
<1>7. /\ IsFiniteSet((A \cup C) \cup U)
      /\ Cardinality((A \cup C) \cup U)
           = Cardinality(A \cup C) + Cardinality(U) - Cardinality((A \cup C) \cap U)
      /\ IsFiniteSet((A \cup C) \cap U) /\ Cardinality((A \cup C) \cap U) \in Nat
  BY <1>5, <1>6, FS_Union, FS_Intersection, FS_CardinalityType
<1>8. Cardinality(N) <= Cardinality((A \cup C) \cup U) /\ Cardinality(N) \in Nat
  BY <1>2, <1>7, FS_Subset, FS_CardinalityType
<1>9. Cardinality(N) <= Cardinality(A) + Cardinality(C) + Cardinality(U)
  BY <1>6, <1>7, <1>8
<1> QED
  BY <1>9 DEF N, A, C, U, new, churned, unpaid, active, Active

\* A step of Stripe's or of the clock's leaves the rows and the review alone.
LEMMA ReviewStands ==
    ASSUME ReviewInv, UNCHANGED <<stripe_subscriptions, review>>
    PROVE  /\ review' \in Reviews
           /\ review'.at = "overview" /\ ~review'.torn => review'.active = Cardinality(Active')
           /\ ReviewAddsUp'
<1>1. Active' = Active
  BY DEF Active, CustomersOf, Rows, Exists, Absent
<1> QED
  BY <1>1 DEF ReviewInv, ReviewAddsUp, Reviews

\* A subscription changes at Stripe: neither its row nor the review does.
LEMMA SubChange ==
    ASSUME ReviewInv, NEW s \in Subs, NEW sub \in Sub, SubOK(sub),
           subs' = [subs EXCEPT ![s] = sub], UNCHANGED <<now, stripe_subscriptions, review>>
    PROVE  ReviewInv'
<1>1. Absent' = Absent /\ now' = now /\ stripe_subscriptions' = stripe_subscriptions
  BY DEF Absent
<1>2. subs' \in [Subs -> Sub \cup {Absent}]
  BY DEF ReviewInv
<1>3. \A t \in Subs : SubOK(subs[t])' /\ SubOK(stripe_subscriptions[t])'
  BY <1>1 DEF ReviewInv, SubOK
<1> QED
  BY <1>1, <1>2, <1>3, ReviewStands DEF ReviewInv, Sub

\* Every step keeps the invariant.
LEMMA ReviewSteps ==
    ASSUME ReviewInv, [Next]_vars
    PROVE  ReviewInv'
<1> USE ActivityAssumption
<1>0. Absent' = Absent /\ now \in Nat /\ None \notin Nat
  BY DEF Absent, ReviewInv
<1>1. CASE Tick
  <2>1. now' = now + 1 /\ UNCHANGED <<subs, stripe_subscriptions, review>>
    BY <1>1 DEF Tick, stripe, mirror
  <2>2. \A s \in Subs : SubOK(subs[s])' /\ SubOK(stripe_subscriptions[s])'
    BY <1>0, <2>1 DEF ReviewInv, SubOK, Sub
  <2> QED
    BY <1>0, <2>1, <2>2, ReviewStands DEF ReviewInv
<1>2. CASE UNCHANGED <<now, subs, stripe_subscriptions, review>>
  <2>1. \A s \in Subs : SubOK(subs[s])' /\ SubOK(stripe_subscriptions[s])'
    BY <1>0, <1>2 DEF ReviewInv, SubOK
  <2> QED
    BY <1>0, <1>2, <2>1, ReviewStands DEF ReviewInv
<1>3. ASSUME NEW s \in Subs, NEW status \in {"active", "incomplete"}, Subscribe(s, status)
      PROVE  ReviewInv'
  <2> DEFINE sub == [created |-> now, canceled |-> None, status |-> status]
  <2>1. sub \in Sub /\ SubOK(sub)
    BY <1>0 DEF Sub, SubOK
  <2> QED
    BY <1>3, <2>1, SubChange DEF Subscribe, mirror
<1>4. ASSUME NEW s \in Subs, Activate(s)
      PROVE  ReviewInv'
  <2> DEFINE sub == [subs[s] EXCEPT !.status = "active"]
  <2>1. subs[s] \in Sub /\ SubOK(subs[s]) /\ subs[s] # Absent /\ subs[s].status = "incomplete"
    BY <1>4 DEF Activate, Exists, ReviewInv
  <2>2. sub \in Sub /\ SubOK(sub)
    BY <1>0, <2>1 DEF Sub, SubOK
  <2>3. subs' = [subs EXCEPT ![s] = sub] /\ UNCHANGED <<now, stripe_subscriptions, review>>
    BY <1>4 DEF Activate, mirror, ReviewInv
  <2> HIDE DEF sub
  <2> QED
    BY <2>2, <2>3, SubChange
<1>5. ASSUME NEW s \in Subs, Cancel(s)
      PROVE  ReviewInv'
  <2> DEFINE sub == [subs[s] EXCEPT !.canceled = now, !.status = "canceled"]
  <2>1. subs[s] \in Sub /\ SubOK(subs[s]) /\ subs[s] # Absent
    BY <1>5 DEF Cancel, Exists, ReviewInv
  <2>2. sub \in Sub /\ SubOK(sub)
    <3>1. /\ sub \in Sub /\ sub.created = subs[s].created
          /\ sub.canceled = now /\ sub.status = "canceled"
      BY <1>0, <2>1 DEF Sub
    <3> HIDE DEF sub
    <3> QED
      BY <1>0, <2>1, <3>1 DEF Sub, SubOK
  <2>3. subs' = [subs EXCEPT ![s] = sub] /\ UNCHANGED <<now, stripe_subscriptions, review>>
    BY <1>5 DEF Cancel, mirror, ReviewInv
  <2> HIDE DEF sub
  <2> QED
    BY <2>2, <2>3, SubChange
<1>6. CASE Sync
  <2>1. now' = now /\ subs' = subs /\ stripe_subscriptions' = subs
    BY <1>6 DEF Sync, stripe
  <2>2. \A s \in Subs : SubOK(subs[s])' /\ SubOK(stripe_subscriptions[s])'
    BY <1>0, <2>1 DEF ReviewInv, SubOK
  <2>3. /\ review' \in Reviews
        /\ review.at = "overview" => review'.at = "overview" /\ review'.torn
        /\ review.at # "overview" => review' = review
    <3>1. review \in Reviews
      BY DEF ReviewInv
    <3>2. review.at = "overview" => review' = [review EXCEPT !.torn = TRUE]
      BY <1>6 DEF Sync
    <3>3. review.at # "overview" => review' = review
      BY <1>6 DEF Sync
    <3> QED
      BY <3>1, <3>2, <3>3 DEF Reviews
  <2>4. ReviewAddsUp'
    BY <2>3 DEF ReviewInv, ReviewAddsUp
  <2> QED
    BY <1>0, <2>1, <2>2, <2>3, <2>4 DEF ReviewInv
<1>7. CASE ReadOverview
  <2>1. UNCHANGED <<now, subs, stripe_subscriptions>>
        /\ review' = [at |-> "overview", torn |-> FALSE, active |-> Cardinality(ActiveNow)]
    BY <1>7 DEF ReadOverview, stripe, mirror
  <2>2. Active' = Active
    BY <2>1 DEF Active, CustomersOf, Rows, Exists, Absent
  <2>3. \A s \in Subs : SubOK(subs[s])' /\ SubOK(stripe_subscriptions[s])'
    BY <1>0, <2>1 DEF ReviewInv, SubOK
  <2>4. Cardinality(ActiveNow) \in Nat
    BY CountsAreNat DEF ActiveNow, Rows
  <2>5. review' \in Reviews /\ review'.at = "overview"
    BY <2>1, <2>4 DEF Reviews
  <2> QED
    BY <1>0, <2>1, <2>2, <2>3, <2>5, ActiveIsActiveNow DEF ReviewInv, ReviewAddsUp
<1>8. CASE ReadActivity
  <2>1. UNCHANGED <<now, subs, stripe_subscriptions>> /\ review.at = "overview"
    BY <1>8 DEF ReadActivity, stripe, mirror
  <2>2. /\ review'.at = "written" /\ review'.torn = review.torn /\ review'.active = review.active
        /\ review'.new = Cardinality(CustomersOf(New(ReviewDays)))
        /\ review'.unpaid = Cardinality(CustomersOf({s \in New(ReviewDays) :
                               stripe_subscriptions[s].status = "incomplete"}))
        /\ review'.churned = Cardinality(CustomersOf(Churned(ReviewDays)))
    BY <1>8 DEF ReadActivity
  <2>3. \A s \in Subs : SubOK(subs[s])' /\ SubOK(stripe_subscriptions[s])'
    BY <1>0, <2>1 DEF ReviewInv, SubOK
  <2>4. ReviewAddsUp'
    <3>1. ~review.torn => review.active = Cardinality(Active)
      BY <2>1 DEF ReviewInv
    <3> QED
      BY <2>2, <3>1, NewAreSomewhere DEF ReviewAddsUp
  <2>5. review' \in Reviews
    <3> DEFINE new == Cardinality(CustomersOf(New(ReviewDays)))
               unpaid == Cardinality(CustomersOf({s \in New(ReviewDays) :
                               stripe_subscriptions[s].status = "incomplete"}))
               churned == Cardinality(CustomersOf(Churned(ReviewDays)))
    <3>1. new \in Nat /\ unpaid \in Nat /\ churned \in Nat
      BY CountsAreNat DEF New, Churned, Rows
    <3>2. review.torn \in BOOLEAN /\ review.active \in Nat
      BY <2>1 DEF ReviewInv, Reviews
    <3>3. review' = [at |-> "written", torn |-> review.torn, active |-> review.active,
                     new |-> new, unpaid |-> unpaid, churned |-> churned]
      BY <1>8 DEF ReadActivity
    <3> HIDE DEF new, unpaid, churned
    <3> QED
      BY <3>1, <3>2, <3>3 DEF Reviews
  <2> QED
    BY <1>0, <2>1, <2>2, <2>3, <2>4, <2>5 DEF ReviewInv
<1>9. CASE Regenerate
  <2>1. UNCHANGED <<now, subs, stripe_subscriptions>> /\ review' = [at |-> "none"]
    BY <1>9 DEF Regenerate, Nothing, stripe, mirror
  <2>2. \A s \in Subs : SubOK(subs[s])' /\ SubOK(stripe_subscriptions[s])'
    BY <1>0, <2>1 DEF ReviewInv, SubOK
  <2> QED
    BY <1>0, <2>1, <2>2 DEF ReviewInv, ReviewAddsUp, Reviews
<1> QED
  BY <1>1, <1>2, <1>3, <1>4, <1>5, <1>6, <1>7, <1>8, <1>9
  DEF Next, vars, Charge, Settle, stripe, mirror

\* ReviewAddsUp: nothing but a sync changes who counts as active between the two calls a
\* review is made of, and the new customers of its window are active, unpaid or gone.
THEOREM ReviewAddsUpAlways == Spec => []ReviewAddsUp
<1>1. Init => ReviewInv
  BY DEF Init, ReviewInv, ReviewAddsUp, SubOK, Nothing, Reviews
<1>2. ReviewInv /\ [Next]_vars => ReviewInv'
  BY ReviewSteps
<1>3. ReviewInv => ReviewAddsUp
  BY DEF ReviewInv
<1>. QED  BY <1>1, <1>2, <1>3, PTL DEF Spec
=============================================================================
