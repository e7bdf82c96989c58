------------------------------ MODULE Activity ------------------------------
(***************************************************************************)
(* The recent past as the dashboard shows it: charges and what is made of  *)
(* them (failed payments, top customers, the activity feed, the page of a  *)
(* customer), and the figures a weekly review is written from.             *)
(*                                                                         *)
(* A sync lists the charges of the last LookbackDays only and updates the  *)
(* rows of those; every view has a window or a limit of its own.  A review *)
(* takes its figures from two calls of DashboardService, each of several   *)
(* queries, and a sync may commit in between.                              *)
(*                                                                         *)
(* Abstractions.  One organization, one connection; a tick is a day.  A    *)
(* sync lists and commits in one step: StripeSync has what happens in      *)
(* between.  Of the statuses of a subscription that runs there are two,    *)
(* one that counts as paid and one that does not: Dashboard has the rest,  *)
(* and MRR.  AIJobs has the Anthropic call of a review and its row.        *)
(***************************************************************************)
EXTENDS Integers, FiniteSets, FiniteSetsExt

CONSTANTS
    Charges, Subs, Customers,
    CustomerOf,         \* the customer of a charge or a subscription, None for a guest
    Amount,             \* of a charge
    LookbackDays,       \* CHARGE_LOOKBACK_DAYS
    TopDays,            \* the window of top_customers
    PeriodDays,         \* period_days of overview
    FeedDays,           \* days of activity_feed, up to the caller
    ReviewDays,         \* period_days of a review
    FeedLimit,          \* limit of activity_feed
    PageLimit,          \* charges on the page of a customer
    MaxTime,            \* bound on the clock
    None

ASSUME ActivityAssumption ==
    /\ IsFiniteSet(Charges) /\ IsFiniteSet(Subs)
    /\ CustomerOf \in [Charges \cup Subs -> Customers \cup {None}]
    /\ Amount \in [Charges -> Nat]
    /\ {TopDays, PeriodDays, ReviewDays} \subseteq 0 .. LookbackDays
    /\ {LookbackDays, FeedDays, FeedLimit, PageLimit, MaxTime} \subseteq Nat
    /\ None \notin Customers \cup Nat

VARIABLES
    now,                \* the clock
    charges,            \* charges at Stripe
    subs,               \* subscriptions at Stripe
    stripe_charges,     \* their rows
    stripe_subscriptions,
    listed,             \* history: the charges at Stripe when the last sync listed them
    review              \* the figures of the review that is written, or was written last,
                        \* and history: torn, a sync came in between; unpaid, new
                        \* customers who do not count as active

stripe == <<charges, subs>>
mirror == <<stripe_charges, stripe_subscriptions, listed>>
vars == <<now, stripe, mirror, review>>

Absent == [created |-> None]

Exists(table, x) == table[x] # Absent

-----------------------------------------------------------------------------
(* Stripe (external).                                                      *)

Tick ==
    /\ now < MaxTime
    /\ now' = now + 1
    /\ UNCHANGED <<stripe, mirror, review>>

Charge(c, status) ==
    /\ ~Exists(charges, c)
    /\ charges' = [charges EXCEPT ![c] = [created |-> now, status |-> status]]
    /\ UNCHANGED <<now, subs, mirror, review>>

\* A bank debit settles days after it was made.
Settle(c, status) ==
    /\ Exists(charges, c) /\ charges[c].status = "pending"
    /\ charges' = [charges EXCEPT ![c].status = status]
    /\ UNCHANGED <<now, subs, mirror, review>>

Subscribe(s, status) ==
    /\ ~Exists(subs, s)
    /\ subs' = [subs EXCEPT ![s] = [created |-> now, canceled |-> None, status |-> status]]
    /\ UNCHANGED <<now, charges, mirror, review>>

\* The first payment of an incomplete subscription comes in.
Activate(s) ==
    /\ Exists(subs, s) /\ subs[s].status = "incomplete"
    /\ subs' = [subs EXCEPT ![s].status = "active"]
    /\ UNCHANGED <<now, charges, mirror, review>>

Cancel(s) ==
    /\ Exists(subs, s) /\ subs[s].canceled = None
    /\ subs' = [subs EXCEPT ![s].canceled = now, ![s].status = "canceled"]
    /\ UNCHANGED <<now, charges, mirror, review>>

-----------------------------------------------------------------------------
(* A sync.                                                                 *)

\* Fault: charges are listed for a period of the overview.
ListedOfPeriod(c) == Exists(charges, c) /\ charges[c].created >= now - PeriodDays

Listed(c) == Exists(charges, c) /\ charges[c].created >= now - LookbackDays

Sync ==
    /\ stripe_charges' = [c \in Charges |-> IF Listed(c) THEN charges[c] ELSE stripe_charges[c]]
    /\ stripe_subscriptions' = subs
    /\ listed' = charges
    /\ review' = IF review.at = "overview" THEN [review EXCEPT !.torn = TRUE] ELSE review
    /\ UNCHANGED <<now, stripe>>

-----------------------------------------------------------------------------
(* DashboardService.                                                       *)

\* The charges of a table with a status, of the last so many days.
Of(table, status, days) ==
    {c \in Charges : /\ Exists(table, c) /\ table[c].status = status
                     /\ now - days <= table[c].created /\ table[c].created <= now}

Total(cs) == MapThenSumSet(LAMBDA c : Amount[c], cs)

\* overview: the failed payments.
FailedPayments == Of(stripe_charges, "failed", PeriodDays)

\* top_customers: the revenue it orders customers by.
TopRevenue(cust) ==
    Total({c \in Of(stripe_charges, "succeeded", TopDays) : CustomerOf[c] = cust})

\* What .order_by(time.desc()).limit(n) may return, for the times of its rows: rows of
\* one time come in any order.
Newest(time, n) ==
    LET rows == DOMAIN time IN
    {page \in kSubset(Min({n, Cardinality(rows)}), rows) :
       \A x \in page, y \in rows \ page : time[x] >= time[y]}

(* customer_detail.                                                        *)

RowsOf(cust) == {c \in Charges : Exists(stripe_charges, c) /\ CustomerOf[c] = cust}

\* Fault: the oldest charges come first.
OldestCharges(cust) == Newest([c \in RowsOf(cust) |-> -stripe_charges[c].created], PageLimit)

ChargePages(cust) == Newest([c \in RowsOf(cust) |-> stripe_charges[c].created], PageLimit)

\* lifetime_value_cents.
LifetimeValue(page) == Total({c \in page : stripe_charges[c].status = "succeeded"})

(* recent_activity and activity_feed.                                      *)

Rows == {s \in Subs : Exists(stripe_subscriptions, s)}

Within(stamp, days) == stamp # None /\ now - days <= stamp /\ stamp <= now

New(days) == {s \in Rows : Within(stripe_subscriptions[s].created, days)}

Churned(days) == {s \in Rows : Within(stripe_subscriptions[s].canceled, days)}

Events ==
    {[kind |-> "subscription_started", of |-> s,
      timestamp |-> stripe_subscriptions[s].created] : s \in New(FeedDays)}
    \cup {[kind |-> "subscription_canceled", of |-> s,
           timestamp |-> stripe_subscriptions[s].canceled] : s \in Churned(FeedDays)}
    \cup {[kind |-> "charge_failed", of |-> c, timestamp |-> stripe_charges[c].created] :
            c \in Of(stripe_charges, "failed", FeedDays)}

\* Fault: failed charges are left out.
SubscriptionFeeds ==
    Newest([e \in {e \in Events : e.kind # "charge_failed"} |-> e.timestamp], FeedLimit)

Feeds == Newest([e \in Events |-> e.timestamp], FeedLimit)

(* overview.                                                               *)

CustomersOf(xs) == {CustomerOf[x] : x \in xs}

Running(s) ==
    stripe_subscriptions[s].canceled = None \/ stripe_subscriptions[s].canceled > now

\* Fault: active_now is asked for as active_prev is, of customers there were by then.
ActiveSincePrev ==
    CustomersOf({s \in Rows : /\ stripe_subscriptions[s].status = "active" /\ Running(s)
                              /\ stripe_subscriptions[s].created <= now - PeriodDays})

ActiveNow ==
    CustomersOf({s \in Rows : stripe_subscriptions[s].status = "active" /\ Running(s)})

-----------------------------------------------------------------------------
(* AIReviewService.generate, up to the call.                               *)

ReadOverview ==
    /\ review.at = "none"
    /\ review' = [at |-> "overview", torn |-> FALSE, active |-> Cardinality(ActiveNow)]
    /\ UNCHANGED <<now, stripe, mirror>>

ReadActivity ==
    /\ review.at = "overview"
    /\ review' = [at |-> "written", torn |-> review.torn, active |-> review.active,
                  new |-> Cardinality(CustomersOf(New(ReviewDays))),
                  unpaid |-> Cardinality(CustomersOf({s \in New(ReviewDays) :
                               stripe_subscriptions[s].status = "incomplete"})),
                  churned |-> Cardinality(CustomersOf(Churned(ReviewDays)))]
    /\ UNCHANGED <<now, stripe, mirror>>

Nothing == [at |-> "none"]

\* The next review.
Regenerate ==
    /\ review.at = "written"
    /\ review' = Nothing
    /\ UNCHANGED <<now, stripe, mirror>>

Init ==
    /\ now = 0
    /\ charges = [c \in Charges |-> Absent]
    /\ subs = [s \in Subs |-> Absent]
    /\ stripe_charges = [c \in Charges |-> Absent]
    /\ stripe_subscriptions = [s \in Subs |-> Absent]
    /\ listed = [c \in Charges |-> Absent]
    /\ review = Nothing

Next ==
    \/ Tick
    \/ \E c \in Charges, status \in {"pending", "succeeded", "failed"} : Charge(c, status)
    \/ \E c \in Charges, status \in {"succeeded", "failed"} : Settle(c, status)
    \/ \E s \in Subs : Subscribe(s, "active") \/ Subscribe(s, "incomplete")
    \/ \E s \in Subs : Activate(s) \/ Cancel(s)
    \/ Sync
    \/ ReadOverview \/ ReadActivity \/ Regenerate

Spec == Init /\ [][Next]_vars

-----------------------------------------------------------------------------
(* Properties.                                                             *)

\* However old the rows a sync no longer lists, every figure of a window is what Stripe
\* had when the last sync listed the charges.
FiguresAreAsOfSync ==
    \A days \in {TopDays, PeriodDays, ReviewDays}, status \in {"succeeded", "failed"} :
      Of(stripe_charges, status, days) = Of(listed, status, days)

\* "lifetime_value_cents: sum of succeeded charges, all time" is at least what the same
\* customer is listed with among the top customers, unless the recent charges alone are
\* more than the page has room for.
LifetimeCoversRecent ==
    \A cust \in Customers : \A page \in ChargePages(cust) :
      \/ LifetimeValue(page) >= TopRevenue(cust)
      \/ PageLimit < Cardinality({c \in Charges :
           /\ CustomerOf[c] = cust /\ Exists(stripe_charges, c)
           /\ stripe_charges[c].created >= now - TopDays})

\* A feed that reaches as far back as the overview shows every failed payment it counts,
\* or is full of what is no older, be it of customers who came or left.
FailuresAreInFeed ==
    FeedDays >= PeriodDays => \A feed \in Feeds : \A c \in FailedPayments :
      \/ \E e \in feed : e.of = c
      \/ /\ Cardinality(feed) = FeedLimit
         /\ \A e \in feed : e.timestamp >= stripe_charges[c].created

\* A review never tells of more new customers than it counts as active or churned, but for
\* those who have yet to pay, unless a sync committed between its queries.
ReviewAddsUp ==
    review.at = "written" /\ ~review.torn =>
      review.new <= review.active + review.churned + review.unpaid
=============================================================================
