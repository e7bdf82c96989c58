------------------------------ MODULE Dashboard ------------------------------
(***************************************************************************)
(* The figures of the dashboard, and the subscriptions they are made of.   *)
(*                                                                         *)
(* Subscriptions live at Stripe (stripe); a sync copies them (mirror) and  *)
(* lists customers before subscriptions.  DashboardService keeps no state: *)
(* its figures are operators over the mirror and the clock, and the        *)
(* properties say how the figures of its several views agree, at the       *)
(* borders of months and windows too, while both go on changing.           *)
(*                                                                         *)
(* Time.  A tick is half a second: Stripe's timestamps are whole seconds,  *)
(* the clock of the server is not.  Every month has MonthTicks ticks.      *)
(*                                                                         *)
(* Abstractions.  One organization with one connection, one currency; a    *)
(* price never changes; charges are left out.                              *)
(***************************************************************************)
EXTENDS Integers, FiniteSets, FiniteSetsExt, Functions

CONSTANTS
    Subs, Customers,
    CustomerOf,         \* CustomerOf[s]: the customer of subscription s
    Price,              \* Price[s]: what is due each period, and how long one is
    Statuses,           \* the statuses of a subscription before it is canceled
    MonthTicks,
    PeriodTicks,        \* period_days
    Months,             \* the months of the trend and of the movements
    MaxTime,            \* bound on the clock
    None

TicksPerSecond == 2

ASSUME DashboardAssumption ==
    /\ IsFiniteSet(Subs) /\ IsFiniteSet(Customers)
    /\ CustomerOf \in [Subs -> Customers]
    /\ \A s \in Subs : Price[s].amount \in Nat /\ Price[s].count \in Int
    /\ {"canceled", "missing"} \cap Statuses = {}
    /\ {MonthTicks, PeriodTicks, Months} \subseteq Nat \ {0}
    /\ MonthTicks % TicksPerSecond = 0
    /\ MaxTime \in Nat
    /\ None \notin Nat

VARIABLES
    now,                \* the clock
    stripe,             \* subscriptions at Stripe
    mirror,             \* stripe_subscriptions
    customers,          \* stripe_customers
    listing             \* the customers a sync under way has listed

vars == <<now, stripe, mirror, customers, listing>>

-----------------------------------------------------------------------------
(* Subscriptions.                                                          *)

Missing == [status |-> "missing", created |-> None, canceled |-> None]

Exists(table, s) == table[s] # Missing

\* _ts: a timestamp of Stripe's.
Stamp == now - (now % TicksPerSecond)

Uncanceled(s) == stripe[s].status \in Statuses

Tick ==
    /\ now < MaxTime
    /\ now' = now + 1
    /\ UNCHANGED <<stripe, mirror, customers, listing>>

Change(s, sub) ==
    /\ stripe' = [stripe EXCEPT ![s] = sub]
    /\ UNCHANGED <<now, mirror, customers, listing>>

Start(s, status) ==
    /\ ~Exists(stripe, s)
    /\ Change(s, [status |-> status, created |-> Stamp, canceled |-> None])

\* A payment fails, or is made after all.
SetStatus(s, status) ==
    /\ Uncanceled(s)
    /\ stripe[s].status # status
    /\ Change(s, [stripe[s] EXCEPT !.status = status])

CancelNow(s) ==
    /\ Uncanceled(s)
    /\ Change(s, [stripe[s] EXCEPT !.status = "canceled", !.canceled = Stamp])

\* canceled_at is the time of the request; the status stays until the period is over.
CancelAtPeriodEnd(s) ==
    /\ Uncanceled(s)
    /\ stripe[s].canceled = None
    /\ Change(s, [stripe[s] EXCEPT !.canceled = Stamp])

Resume(s) ==
    /\ Uncanceled(s)
    /\ stripe[s].canceled # None
    /\ Change(s, [stripe[s] EXCEPT !.canceled = None])

EndPeriod(s) ==
    /\ Uncanceled(s)
    /\ stripe[s].canceled # None
    /\ Change(s, [stripe[s] EXCEPT !.status = "canceled"])

-----------------------------------------------------------------------------
(* A sync, as far as the dashboard can tell.                               *)

ListCustomers ==
    /\ listing = None
    /\ listing' = {CustomerOf[s] : s \in {s \in Subs : Exists(stripe, s)}}
    /\ UNCHANGED <<now, stripe, mirror, customers>>

\* The subscriptions are listed, and both lists are committed.
ListSubscriptions ==
    /\ listing # None
    /\ mirror' = stripe
    /\ customers' = customers \cup listing
    /\ listing' = None
    /\ UNCHANGED <<now, stripe>>

-----------------------------------------------------------------------------
(* DashboardService.                                                       *)

\* _INTERVAL_PER_MONTH as fractions; the float product is truncated.
PerMonth ==
    [day |-> <<365, 12>>, week |-> <<52, 12>>, month |-> <<1, 1>>, year |-> <<1, 12>>]

normalize_to_monthly_cents(p) ==
    IF p.count <= 0 \/ p.interval \notin DOMAIN PerMonth THEN 0
    ELSE LET f == PerMonth[p.interval]
         IN (p.amount * f[1]) \div (p.count * f[2])

MonthlyPrice == [s \in Subs |-> normalize_to_monthly_cents(Price[s])]

Monthly(subs) == SumFunctionOnSet(MonthlyPrice, subs)

Mirrored == {s \in Subs : Exists(mirror, s)}

PaidStatuses == {"active", "trialing", "past_due"}

Paid(s) == mirror[s].status \in PaidStatuses

Started(s, at) == mirror[s].created <= at

\* Not canceled, or canceled after at.
Running(s, at) == mirror[s].canceled = None \/ mirror[s].canceled > at

CountedAt(at) == {s \in Mirrored : Started(s, at) /\ Running(s, at) /\ Paid(s)}

mrr_at(at) == Monthly(CountedAt(at))

\* Whether a timestamp that may be None lies in [from, to).
Within(stamp, from, to) == stamp # None /\ from <= stamp /\ stamp < to

(* Months, the current one among them, oldest first.                       *)
CurrentMonth == now \div MonthTicks
MonthStart(m) == m * MonthTicks
ShownMonths == CurrentMonth - Months + 1 .. CurrentMonth

\* Fault: a month is sampled at its start.
SampleAtStart(m) == MonthStart(m)

\* Fault: samples are a month's length apart, counted from now.
SampleFromNow(m) == now - (CurrentMonth - m) * MonthTicks

\* Fault: the last second is not taken off.
SampleAtBorder(m) == Min({MonthStart(m + 1), now})

SampleAt(m) == Min({MonthStart(m + 1) - TicksPerSecond, now})

mrr_trend(m) == mrr_at(SampleAt(m))

NewIn(m) == {s \in Mirrored : Within(mirror[s].created, MonthStart(m), MonthStart(m + 1))}

ChurnedIn(m) ==
    {s \in Mirrored : Within(mirror[s].canceled, MonthStart(m), MonthStart(m + 1))}

\* Whatever the status is today.
new_mrr(m) == Monthly(NewIn(m))
churn_mrr(m) == Monthly(ChurnedIn(m))

(* overview: customers and churn of the period that ends now.              *)
PeriodStart == now - PeriodTicks

CustomersOf(subs) == {CustomerOf[s] : s \in subs}

\* Fault: today's status, which active_now asks for, is asked for here too.
ActiveStillPaid(at) == CustomersOf(CountedAt(at))

\* active_prev: whatever the status is today.
ActiveCustomers(at) ==
    CustomersOf({s \in Mirrored : Started(s, at) /\ Running(s, at)})

CanceledInPeriod ==
    {s \in Mirrored : /\ mirror[s].canceled # None
                      /\ PeriodStart <= mirror[s].canceled
                      /\ mirror[s].canceled <= now}

(* customer_detail: 404 without a row of the customer.                     *)

\* Fault: only the status is looked at.
CurrentByStatus(c) == {s \in Mirrored : CustomerOf[s] = c /\ Paid(s)}

CurrentSubs(c) ==
    {s \in Mirrored : CustomerOf[s] = c /\ Paid(s) /\ mirror[s].canceled = None}

current_mrr(c) == IF c \in customers THEN Monthly(CurrentSubs(c)) ELSE 0

-----------------------------------------------------------------------------
Init ==
    /\ now = 0
    /\ stripe = [s \in Subs |-> Missing]
    /\ mirror = [s \in Subs |-> Missing]
    /\ customers = {}
    /\ listing = None

Next ==
    \/ Tick
    \/ \E s \in Subs, status \in Statuses : Start(s, status) \/ SetStatus(s, status)
    \/ \E s \in Subs : CancelNow(s) \/ CancelAtPeriodEnd(s) \/ Resume(s) \/ EndPeriod(s)
    \/ ListCustomers
    \/ ListSubscriptions

Spec == Init /\ [][Next]_vars

-----------------------------------------------------------------------------
(* Properties.                                                             *)

\* The pages of the customers add up to the MRR of the overview, though they look at
\* canceled_at differently, but for subscriptions of customers without a row.
CustomersSumToMrr ==
    MapThenSumSet(current_mrr, Customers)
        + Monthly({s \in CountedAt(now) : CustomerOf[s] \notin customers}) = mrr_at(now)

\* The last point of the trend is the MRR of the overview, also in the last second of a
\* month, which the sample leaves out.
TrendEndsNow == mrr_trend(CurrentMonth) = mrr_at(now)

\* "Per-month decomposition of MRR change into new vs. churn": new less churned is what
\* the trend moves by, but for subscriptions that are not paid today, which the trend
\* has forgotten and the movements have not; and the trend never moves by more than the
\* movements show. A timestamp at the border of two months is of the same one in both.
TrendMovesWithMovements ==
    \A m \in ShownMonths :
        LET move == mrr_trend(m) - mrr_trend(m - 1)
            forgotten(subs) == Monthly({s \in subs : ~Paid(s)})
        IN /\ new_mrr(m) - churn_mrr(m)
                = move + forgotten(NewIn(m)) - forgotten(ChurnedIn(m))
           /\ -churn_mrr(m) <= move /\ move <= new_mrr(m)

\* "churn_rate: float # 0..1": more cancellations than customers to lose are counted
\* only if a customer canceled twice, or a subscription both began and was canceled
\* within the period, or was canceled at the instant it begins.
ChurnIsExplained ==
    \/ Cardinality(CanceledInPeriod) <= Cardinality(ActiveCustomers(PeriodStart))
    \/ \E s \in CanceledInPeriod :
         \/ mirror[s].created > PeriodStart
         \/ mirror[s].canceled = PeriodStart
         \/ \E t \in CanceledInPeriod \ {s} : CustomerOf[t] = CustomerOf[s]

\* Time alone changes no point of a month that is over, or in its last second: it takes
\* a sync that changes a subscription which had started by then.
PastNeedsAChange ==
    [][\/ UNCHANGED <<now, mirror>>
       \/ \A m \in ShownMonths \cap ShownMonths' :
            now >= MonthStart(m + 1) - TicksPerSecond =>
              \/ mrr_trend(m)' = mrr_trend(m)
              \/ \E s \in Subs : /\ mirror'[s] # mirror[s]
                               /\ mirror'[s].created <= SampleAt(m)]_vars

=============================================================================
