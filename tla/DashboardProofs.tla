-------------------------- MODULE DashboardProofs ---------------------------
(***************************************************************************)
(* Theorems about Dashboard: its views agree with each other, for any      *)
(* subscriptions, customers, prices, lengths of a month and of a period,   *)
(* numbers of months, and however long the clock runs.                     *)
(*                                                                         *)
(* All five follow from what DashboardInv says of the timestamps: they are *)
(* whole seconds that are not in the future, a cancellation is no older    *)
(* than its subscription, and a row has the creation time of the           *)
(* subscription at Stripe.                                                 *)
(***************************************************************************)
EXTENDS Dashboard, Sums

\* What a subscription and its row hold.
Sub == [status : Statuses \cup {"canceled"}, created : Nat, canceled : Nat \cup {None}]

\* A timestamp of Stripe's: a whole second that is over, or the one that runs.
IsStamp(t) == t \in Nat /\ t % TicksPerSecond = 0 /\ t <= now

\* The timestamps of a subscription, if it is there.
SubOK(sub) ==
    sub # Missing =>
      /\ sub \in Sub
      /\ IsStamp(sub.created)
      /\ sub.canceled # None => IsStamp(sub.canceled) /\ sub.created <= sub.canceled

\* A row is of a subscription that is at Stripe, and as old.
RowOK(s) ==
    /\ SubOK(stripe[s])
    /\ SubOK(mirror[s])
    /\ mirror[s] # Missing => stripe[s] # Missing /\ stripe[s].created = mirror[s].created

\* The inductive invariant.
DashboardInv ==
    /\ now \in Nat
    /\ stripe \in [Subs -> Sub \cup {Missing}]
    /\ mirror \in [Subs -> Sub \cup {Missing}]
    /\ \A s \in Subs : RowOK(s)

\* A subscription is never taken for the absence of one.
LEMMA MissingIsNone == Missing \notin Sub
  BY DashboardAssumption DEF Missing, Sub

\* The clock is in the current month.
LEMMA Clock ==
    ASSUME now \in Nat
    PROVE  /\ CurrentMonth \in Int
           /\ MonthStart(CurrentMonth) <= now
           /\ now < MonthStart(CurrentMonth + 1)
<1>1. MonthTicks \in Nat \ {0}
  BY DashboardAssumption
<1> QED
  BY <1>1 DEF CurrentMonth, MonthStart

\* Whatever the interval is, a month costs a natural number of cents.
LEMMA Prices == MonthlyPrice \in [Subs -> Nat]
<1>1. ASSUME NEW s \in Subs
      PROVE  normalize_to_monthly_cents(Price[s]) \in Nat
  <2>1. Price[s].amount \in Nat /\ Price[s].count \in Int
    BY DashboardAssumption
  <2>2. CASE Price[s].count <= 0 \/ Price[s].interval \notin DOMAIN PerMonth
    BY <2>2 DEF normalize_to_monthly_cents
  <2>3. CASE ~(Price[s].count <= 0 \/ Price[s].interval \notin DOMAIN PerMonth)
    <3> DEFINE f == PerMonth[Price[s].interval]
    <3>1. f[1] \in Nat /\ f[2] \in Nat \ {0}
      BY <2>3 DEF PerMonth
    <3>2. normalize_to_monthly_cents(Price[s]) =
            (Price[s].amount * f[1]) \div (Price[s].count * f[2])
      BY <2>3 DEF normalize_to_monthly_cents
    <3> HIDE DEF f
    <3>3. Price[s].amount * f[1] \in Nat /\ Price[s].count * f[2] \in Nat \ {0}
      BY <2>1, <2>3, <3>1
    <3> QED
      BY <3>2, <3>3
  <2> QED
    BY <2>2, <2>3
<1> QED
  BY <1>1 DEF MonthlyPrice

-----------------------------------------------------------------------------
(* The invariant.                                                          *)

\* The last whole second is a timestamp, and the latest.
LEMMA StampIsStamp ==
    ASSUME now \in Nat
    PROVE  IsStamp(Stamp) /\ \A t : IsStamp(t) => t <= Stamp
  BY DEF IsStamp, Stamp, TicksPerSecond

\* A change at Stripe to a subscription whose timestamps are right.
LEMMA ChangeStep ==
    ASSUME DashboardInv, NEW s \in Subs, NEW sub \in Sub, SubOK(sub), Change(s, sub),
           stripe[s] # Missing => stripe[s].created = sub.created,
           sub # Missing
    PROVE  DashboardInv'
<1>1. now' = now /\ mirror' = mirror /\ stripe' \in [Subs -> Sub \cup {Missing}]
  BY DEF DashboardInv, Change
<1>2. ASSUME NEW t \in Subs
      PROVE  RowOK(t)'
  <2>1. RowOK(t) /\ Missing' = Missing
    BY DEF DashboardInv, Missing
  <2>2. stripe'[t] = IF t = s THEN sub ELSE stripe[t]
    BY DEF DashboardInv, Change
  <2>3. SubOK(stripe'[t])
    BY <2>1, <2>2 DEF RowOK
  <2>4. mirror[t] # Missing =>
          stripe'[t] # Missing /\ stripe'[t].created = mirror[t].created
    BY <2>1, <2>2 DEF RowOK
  <2>5. SubOK(mirror[t])
    BY <2>1 DEF RowOK
  <2> QED
    BY <1>1, <2>1, <2>3, <2>4, <2>5 DEF RowOK, SubOK, IsStamp
<1> QED
  BY <1>1, <1>2 DEF DashboardInv

\* A sync that copies the subscriptions as they are.
LEMMA ListStep ==
    ASSUME DashboardInv, ListSubscriptions
    PROVE  DashboardInv'
<1>1. now' = now /\ mirror' = stripe /\ stripe' = stripe /\ Missing' = Missing
  BY DEF ListSubscriptions, Missing
<1> QED
  BY <1>1 DEF DashboardInv, RowOK, SubOK, IsStamp

\* At first there are no subscriptions and no rows.
LEMMA InvInit == Init => DashboardInv
  BY DEF Init, DashboardInv, RowOK, SubOK

\* Every step keeps the invariant.
LEMMA InvStep == DashboardInv /\ [Next]_vars => DashboardInv'
<1> SUFFICES ASSUME DashboardInv, [Next]_vars PROVE DashboardInv'
  OBVIOUS
<1> DEFINE stamp == Stamp
<1>0. /\ IsStamp(stamp) /\ \A t : IsStamp(t) => t <= stamp
      /\ now \in Nat /\ stamp \in Nat /\ None \notin Nat
  BY StampIsStamp, DashboardAssumption DEF DashboardInv, IsStamp
<1>a. ASSUME NEW s \in Subs, Uncanceled(s)
      PROVE  stripe[s] \in Sub /\ stripe[s] # Missing /\ SubOK(stripe[s])
    BY <1>a, DashboardAssumption DEF DashboardInv, RowOK, Uncanceled, Missing
<1>1. CASE Tick
  <2>1. now' = now + 1 /\ stripe' = stripe /\ mirror' = mirror /\ Missing' = Missing
    BY <1>1 DEF Tick, Missing
  <2> QED
    BY <2>1 DEF DashboardInv, RowOK, SubOK, IsStamp
<1>2. ASSUME NEW s \in Subs, NEW st \in Statuses, Start(s, st)
      PROVE  DashboardInv'
  <2> DEFINE sub == [status |-> st, created |-> stamp, canceled |-> None]
  <2>1. sub \in Sub /\ sub # Missing /\ SubOK(sub)
    BY <1>0 DEF Sub, Missing, SubOK
  <2>2. stripe[s] = Missing /\ Change(s, sub)
    BY <1>2 DEF Start, Exists
  <2> HIDE DEF sub
  <2> QED
    BY <2>1, <2>2, ChangeStep
<1>3. ASSUME NEW s \in Subs, NEW st \in Statuses, SetStatus(s, st)
      PROVE  DashboardInv'
  <2> DEFINE sub == [stripe[s] EXCEPT !.status = st]
  <2>1. Uncanceled(s) /\ Change(s, sub)
    BY <1>3 DEF SetStatus
  <2>2. stripe[s] \in Sub /\ stripe[s] # Missing /\ SubOK(stripe[s])
    BY <1>a, <2>1
  <2>3. sub \in Sub /\ sub.created = stripe[s].created
    BY <1>0, <2>2 DEF Sub
  <2>4. SubOK(sub)
    BY <1>0, <2>1, <2>2 DEF Sub, SubOK, IsStamp
  <2> HIDE DEF sub
  <2> QED
    BY <2>1, <2>2, <2>3, <2>4, MissingIsNone, ChangeStep
<1>4. ASSUME NEW s \in Subs, CancelNow(s)
      PROVE  DashboardInv'
  <2> DEFINE sub == [stripe[s] EXCEPT !.status = "canceled", !.canceled = stamp]
  <2>1. Uncanceled(s) /\ Change(s, sub)
    BY <1>4 DEF CancelNow
  <2>2. stripe[s] \in Sub /\ stripe[s] # Missing /\ SubOK(stripe[s])
    BY <1>a, <2>1
  <2>3. sub \in Sub /\ sub.created = stripe[s].created
    BY <1>0, <2>2 DEF Sub
  <2>4. SubOK(sub)
    BY <1>0, <2>1, <2>2 DEF Sub, SubOK, IsStamp
  <2> HIDE DEF sub
  <2> QED
    BY <2>1, <2>2, <2>3, <2>4, MissingIsNone, ChangeStep
<1>5. ASSUME NEW s \in Subs, CancelAtPeriodEnd(s)
      PROVE  DashboardInv'
  <2> DEFINE sub == [stripe[s] EXCEPT !.canceled = stamp]
  <2>1. Uncanceled(s) /\ Change(s, sub)
    BY <1>5 DEF CancelAtPeriodEnd
  <2>2. stripe[s] \in Sub /\ stripe[s] # Missing /\ SubOK(stripe[s])
    BY <1>a, <2>1
  <2>3. sub \in Sub /\ sub.created = stripe[s].created
    BY <1>0, <2>2 DEF Sub
  <2>4. SubOK(sub)
    BY <1>0, <2>1, <2>2 DEF Sub, SubOK, IsStamp
  <2> HIDE DEF sub
  <2> QED
    BY <2>1, <2>2, <2>3, <2>4, MissingIsNone, ChangeStep
<1>6. ASSUME NEW s \in Subs, Resume(s)
      PROVE  DashboardInv'
  <2> DEFINE sub == [stripe[s] EXCEPT !.canceled = None]
  <2>1. Uncanceled(s) /\ Change(s, sub)
    BY <1>6 DEF Resume
  <2>2. stripe[s] \in Sub /\ stripe[s] # Missing /\ SubOK(stripe[s])
    BY <1>a, <2>1
  <2>3. sub \in Sub /\ sub.created = stripe[s].created
    BY <1>0, <2>2 DEF Sub
  <2>4. SubOK(sub)
    BY <1>0, <2>1, <2>2 DEF Sub, SubOK, IsStamp
  <2> HIDE DEF sub
  <2> QED
    BY <2>1, <2>2, <2>3, <2>4, MissingIsNone, ChangeStep
<1>7. ASSUME NEW s \in Subs, EndPeriod(s)
      PROVE  DashboardInv'
  <2> DEFINE sub == [stripe[s] EXCEPT !.status = "canceled"]
  <2>1. Uncanceled(s) /\ Change(s, sub)
    BY <1>7 DEF EndPeriod
  <2>2. stripe[s] \in Sub /\ stripe[s] # Missing /\ SubOK(stripe[s])
    BY <1>a, <2>1
  <2>3. sub \in Sub /\ sub.created = stripe[s].created
    BY <1>0, <2>2 DEF Sub
  <2>4. SubOK(sub)
    BY <1>0, <2>1, <2>2 DEF Sub, SubOK, IsStamp
  <2> HIDE DEF sub
  <2> QED
    BY <2>1, <2>2, <2>3, <2>4, MissingIsNone, ChangeStep
<1>8. CASE UNCHANGED <<now, stripe, mirror>>
  BY <1>8 DEF DashboardInv, RowOK, SubOK, IsStamp, Missing
<1> QED
  BY <1>1, <1>2, <1>3, <1>4, <1>5, <1>6, <1>7, <1>8, ListStep
  DEF Next, vars, ListCustomers

\* And so it always holds.
LEMMA InvAlways == Spec => []DashboardInv
  BY InvInit, InvStep, PTL DEF Spec

-----------------------------------------------------------------------------
(* The figures.                                                            *)

\* What the figures may rely on in a row.
LEMMA Rows ==
    ASSUME DashboardInv, NEW s \in Mirrored
    PROVE  /\ s \in Subs
           /\ mirror[s] \in Sub /\ mirror[s].created \in Nat
           /\ IsStamp(mirror[s].created)
           /\ mirror[s].canceled # None =>
                 IsStamp(mirror[s].canceled) /\ mirror[s].created <= mirror[s].canceled
  BY DEF DashboardInv, RowOK, SubOK, Mirrored, Exists, Sub

\* What a set of subscriptions pays a month.
LEMMA MonthlyIsSum ==
    ASSUME NEW S \in SUBSET Subs, NEW T \in SUBSET Subs
    PROVE  /\ IsFiniteSet(S) /\ Monthly(S) \in Nat
           /\ S \cap T = {} => Monthly(S \cup T) = Monthly(S) + Monthly(T)
<1>1. IsFiniteSet(S) /\ IsFiniteSet(T) /\ \A s \in S \cup T : MonthlyPrice[s] \in Nat
  BY DashboardAssumption, Prices, FS_Subset
<1>2. Monthly(S) \in Nat
  BY <1>1, SumNat DEF Monthly
<1>3. S \cap T = {} => Monthly(S \cup T) = Monthly(S) + Monthly(T)
  BY <1>1, SumDisjoint DEF Monthly
<1> QED
  BY <1>1, <1>2, <1>3

\* The end of a month, as the trend samples it, parts the timestamps as the movements do.
LEMMA Border ==
    ASSUME now \in Nat, NEW m \in Int, m <= CurrentMonth, NEW t, IsStamp(t)
    PROVE  /\ SampleAt(m) \in Int
           /\ SampleAt(m) <= now
           /\ t <= SampleAt(m) <=> t < MonthStart(m + 1)
<1>1. MonthTicks \in Nat \ {0} /\ MonthTicks % 2 = 0
  BY DashboardAssumption DEF TicksPerSecond
<1>2. PICK k \in Nat : MonthTicks = 2 * k
  BY <1>1
<1> DEFINE end == MonthStart(m + 1)
<1>3. end \in Int /\ end = 2 * ((m + 1) * k)
  BY <1>2 DEF MonthStart
<1>4. SampleAt(m) = IF end - 2 <= now THEN end - 2 ELSE now
  BY <1>3 DEF SampleAt, TicksPerSecond, Min
<1>5. m < CurrentMonth => end <= now
  BY <1>1, Clock DEF MonthStart
<1>6. m = CurrentMonth => now < end
  BY Clock
<1>7. t \in Nat /\ t % 2 = 0 /\ t <= now
  BY DEF IsStamp, TicksPerSecond
<1>8. PICK j \in Int : end = 2 * j
  BY <1>2, <1>3
<1> HIDE DEF end
<1> QED
  BY <1>3, <1>4, <1>5, <1>6, <1>7, <1>8, Clock DEF end

\* What counts at the end of a month: what was created by then and is not canceled by then.
LEMMA CountedAtSample ==
    ASSUME DashboardInv, NEW m \in Int, m <= CurrentMonth
    PROVE  CountedAt(SampleAt(m)) =
             {s \in Mirrored : /\ Paid(s)
                               /\ mirror[s].created < MonthStart(m + 1)
                               /\ \/ mirror[s].canceled = None
                                  \/ mirror[s].canceled >= MonthStart(m + 1)}
<1>1. ASSUME NEW s \in Mirrored
      PROVE  /\ Started(s, SampleAt(m)) <=> mirror[s].created < MonthStart(m + 1)
             /\ mirror[s].canceled # None =>
                  (mirror[s].canceled > SampleAt(m) <=> mirror[s].canceled >= MonthStart(m + 1))
  <2>1. now \in Nat /\ MonthStart(m + 1) \in Int
    BY DashboardAssumption DEF DashboardInv, MonthStart
  <2>2. ASSUME NEW t, IsStamp(t)
        PROVE  t \in Nat /\ SampleAt(m) \in Int /\ (t <= SampleAt(m) <=> t < MonthStart(m + 1))
    BY <2>1, <2>2, Border DEF IsStamp
  <2>3. Started(s, SampleAt(m)) <=> mirror[s].created < MonthStart(m + 1)
    BY <2>2, Rows DEF Started
  <2>4. mirror[s].canceled # None =>
          (mirror[s].canceled > SampleAt(m) <=> mirror[s].canceled >= MonthStart(m + 1))
    BY <2>1, <2>2, Rows
  <2> QED
    BY <2>3, <2>4
<1> QED
  BY <1>1 DEF CountedAt, Running

\* What counts now: nothing was created or canceled later.
LEMMA CountedNow ==
    ASSUME DashboardInv
    PROVE  CountedAt(now) = {s \in Mirrored : Paid(s) /\ mirror[s].canceled = None}
<1>1. ASSUME NEW s \in Mirrored
      PROVE  Started(s, now) /\ (Running(s, now) <=> mirror[s].canceled = None)
  BY Rows DEF DashboardInv, IsStamp, Started, Running
<1> QED
  BY <1>1 DEF CountedAt

-----------------------------------------------------------------------------
(* The views agree.                                                        *)

\* TrendEndsNow: the sample of the current month leaves out the last second of the month
\* only, and what is counted in that second is counted before.
THEOREM TrendEndsNowAlways == Spec => []TrendEndsNow
<1>1. DashboardInv => TrendEndsNow
  <2> SUFFICES ASSUME DashboardInv PROVE TrendEndsNow
    OBVIOUS
  <2> DEFINE m == CurrentMonth
  <2>1. m \in Int /\ now \in Nat /\ now < MonthStart(m + 1) /\ MonthStart(m + 1) \in Int
    BY Clock, DashboardAssumption DEF DashboardInv, MonthStart
  <2>2. ASSUME NEW s \in Mirrored
        PROVE  /\ mirror[s].created < MonthStart(m + 1)
               /\ mirror[s].canceled # None => ~ mirror[s].canceled >= MonthStart(m + 1)
    <3> HIDE DEF m
    <3> QED
      BY <2>1, Rows DEF IsStamp
  <2>3. CountedAt(SampleAt(m)) = CountedAt(now)
    <3> HIDE DEF m
    <3>1. m <= CurrentMonth
      BY <2>1 DEF m
    <3> QED
      BY <2>1, <2>2, <3>1, CountedAtSample, CountedNow
  <2> QED
    BY <2>3 DEF TrendEndsNow, mrr_trend, mrr_at
<1> QED
  BY <1>1, InvAlways, PTL

\* What a set of rows pays is what those paid today pay and those that are not.
LEMMA PaidAndForgotten ==
    ASSUME NEW S \in SUBSET Mirrored
    PROVE  /\ {s \in S : Paid(s)} \in SUBSET Subs
           /\ Monthly({s \in S : Paid(s)}) \in Nat
           /\ Monthly({s \in S : ~Paid(s)}) \in Nat
           /\ Monthly(S) = Monthly({s \in S : Paid(s)}) + Monthly({s \in S : ~Paid(s)})
<1> DEFINE paid == {s \in S : Paid(s)}
           unpaid == {s \in S : ~Paid(s)}
<1>1. paid \in SUBSET Subs /\ unpaid \in SUBSET Subs
  BY DEF Mirrored
<1>2. paid \cap unpaid = {} /\ paid \cup unpaid = S
  OBVIOUS
<1> HIDE DEF paid, unpaid
<1>3. Monthly(paid) \in Nat /\ Monthly(unpaid) \in Nat
      /\ Monthly(S) = Monthly(paid) + Monthly(unpaid)
  BY <1>1, <1>2, MonthlyIsSum
<1> QED
  BY <1>1, <1>3 DEF paid, unpaid

\* TrendMovesWithMovements: of the subscriptions paid today, those who count at the end
\* of the month before and those new in the month are those who count at its end and
\* those who churn in it; the movements add the subscriptions that are not.
THEOREM TrendMovesWithMovementsAlways == Spec => []TrendMovesWithMovements
<1>1. DashboardInv => TrendMovesWithMovements
  <2> SUFFICES ASSUME DashboardInv, NEW m \in ShownMonths
               PROVE  LET move == mrr_trend(m) - mrr_trend(m - 1)
                          forgotten(subs) == Monthly({s \in subs : ~Paid(s)})
                      IN /\ new_mrr(m) - churn_mrr(m)
                              = move + forgotten(NewIn(m)) - forgotten(ChurnedIn(m))
                         /\ -churn_mrr(m) <= move /\ move <= new_mrr(m)
    BY DEF TrendMovesWithMovements
  <2> DEFINE start == MonthStart(m)
             end == MonthStart(m + 1)
             before == CountedAt(SampleAt(m - 1))
             after == CountedAt(SampleAt(m))
             new == {s \in NewIn(m) : Paid(s)}
             churned == {s \in ChurnedIn(m) : Paid(s)}
  <2>1. /\ m \in Int /\ m - 1 \in Int /\ m <= CurrentMonth /\ m - 1 <= CurrentMonth
        /\ start \in Int /\ end \in Int /\ start <= end
    BY Clock, DashboardAssumption DEF DashboardInv, ShownMonths, MonthStart
  <2>2. before = {s \in Mirrored : /\ Paid(s) /\ mirror[s].created < start
                                   /\ mirror[s].canceled = None \/ mirror[s].canceled >= start}
    <3>1. MonthStart((m - 1) + 1) = start
      BY <2>1
    <3> QED
      BY <2>1, <3>1, CountedAtSample
  <2>3. after = {s \in Mirrored : /\ Paid(s) /\ mirror[s].created < end
                                  /\ mirror[s].canceled = None \/ mirror[s].canceled >= end}
    BY <2>1, CountedAtSample
  <2>4. new = {s \in Mirrored : Paid(s) /\ start <= mirror[s].created /\ mirror[s].created < end}
    <3>1. \A s \in Mirrored : mirror[s].created # None
      BY Rows, DashboardAssumption
    <3> QED
      BY <3>1 DEF NewIn, Within
  <2>5. churned = {s \in Mirrored : /\ Paid(s) /\ mirror[s].canceled # None
                                    /\ start <= mirror[s].canceled /\ mirror[s].canceled < end}
    BY DEF ChurnedIn, Within
  <2>6. \A s \in Mirrored :
          /\ mirror[s].created \in Nat
          /\ mirror[s].canceled # None =>
               mirror[s].canceled \in Nat /\ mirror[s].created <= mirror[s].canceled
    BY Rows DEF IsStamp
  <2> HIDE DEF before, after, new, churned, start, end
  <2>7. before \cap new = {} /\ after \cap churned = {}
    BY <2>1, <2>2, <2>3, <2>4, <2>5, <2>6
  <2>8. before \cup new = after \cup churned
    <3>1. ASSUME NEW s \in Mirrored, Paid(s)
          PROVE  s \in before \cup new <=> s \in after \cup churned
      BY <2>1, <2>2, <2>3, <2>4, <2>5, <2>6, <3>1
    <3> QED
      BY <2>2, <2>3, <2>4, <2>5, <3>1
  <2>9. {before, new, after, churned} \subseteq SUBSET Subs
    BY <2>2, <2>3, <2>4, <2>5 DEF Mirrored
  <2>10. /\ Monthly(before \cup new) = Monthly(before) + Monthly(new)
         /\ Monthly(after \cup churned) = Monthly(after) + Monthly(churned)
         /\ Monthly(before) \in Nat /\ Monthly(new) \in Nat
         /\ Monthly(after) \in Nat /\ Monthly(churned) \in Nat
    BY <2>7, <2>9, MonthlyIsSum
  <2>11. Monthly(after) - Monthly(before) = Monthly(new) - Monthly(churned)
    BY <2>8, <2>10
  <2> DEFINE forgottenNew == Monthly({s \in NewIn(m) : ~Paid(s)})
             forgottenChurned == Monthly({s \in ChurnedIn(m) : ~Paid(s)})
  <2>12. /\ new_mrr(m) = Monthly(new) + forgottenNew /\ forgottenNew \in Nat
         /\ churn_mrr(m) = Monthly(churned) + forgottenChurned /\ forgottenChurned \in Nat
    <3>1. NewIn(m) \in SUBSET Mirrored /\ ChurnedIn(m) \in SUBSET Mirrored
      BY DEF NewIn, ChurnedIn
    <3> QED
      BY <3>1, PaidAndForgotten DEF new_mrr, churn_mrr, new, churned
  <2>13. mrr_trend(m) = Monthly(after) /\ mrr_trend(m - 1) = Monthly(before)
    BY DEF before, after, mrr_trend, mrr_at
  <2> HIDE DEF forgottenNew, forgottenChurned
  <2>14. /\ new_mrr(m) - churn_mrr(m)
              = (mrr_trend(m) - mrr_trend(m - 1)) + forgottenNew - forgottenChurned
         /\ -churn_mrr(m) <= mrr_trend(m) - mrr_trend(m - 1)
         /\ mrr_trend(m) - mrr_trend(m - 1) <= new_mrr(m)
    BY <2>10, <2>11, <2>12, <2>13
  <2> QED
    BY <2>14 DEF forgottenNew, forgottenChurned
<1> QED
  BY <1>1, InvAlways, PTL

\* ChurnIsExplained: but for the three exceptions, whoever canceled in the period had one
\* subscription that ran when the period began.
THEOREM ChurnIsExplainedAlways == Spec => []ChurnIsExplained
<1>1. DashboardInv => ChurnIsExplained
  <2> SUFFICES ASSUME DashboardInv,
                      \A s \in CanceledInPeriod :
                        /\ ~ mirror[s].created > PeriodStart
                        /\ mirror[s].canceled # PeriodStart
                        /\ \A t \in CanceledInPeriod \ {s} : CustomerOf[t] # CustomerOf[s]
               PROVE  Cardinality(CanceledInPeriod) <= Cardinality(ActiveCustomers(PeriodStart))
    BY DEF ChurnIsExplained
  <2> DEFINE active == ActiveCustomers(PeriodStart)
             owner == [s \in CanceledInPeriod |-> CustomerOf[s]]
  <2>1. PeriodStart \in Int
    BY DashboardAssumption DEF DashboardInv, PeriodStart
  <2>2. ASSUME NEW s \in CanceledInPeriod
        PROVE  CustomerOf[s] \in active
    <3>1. s \in Mirrored /\ mirror[s].canceled # None /\ PeriodStart <= mirror[s].canceled
      BY DEF CanceledInPeriod
    <3>2. Started(s, PeriodStart) /\ Running(s, PeriodStart)
      BY <2>1, <3>1, Rows DEF Started, Running, IsStamp
    <3> QED
      BY <3>1, <3>2 DEF ActiveCustomers, CustomersOf
  <2>3. IsFiniteSet(active)
    <3>1. active \in SUBSET Customers
      BY DashboardAssumption DEF ActiveCustomers, CustomersOf, Mirrored
    <3> QED
      BY <3>1, DashboardAssumption, FS_Subset
  <2>4. owner \in Injection(CanceledInPeriod, active)
    BY <2>2 DEF Injection, IsInjective
  <2> HIDE DEF active, owner
  <2>5. Cardinality(CanceledInPeriod) <= Cardinality(active)
    BY <2>3, <2>4, FS_Injection
  <2> QED
    BY <2>5 DEF active
<1> QED
  BY <1>1, InvAlways, PTL

\* The pages of the customers as the sum of a function.
LEMMA PagesAreSum ==
    MapThenSumSet(current_mrr, Customers)
      = SumFunctionOnSet([c \in Customers |-> current_mrr(c)], Customers)
<1> DEFINE page == [c \in Customers |-> current_mrr(c)]
           byPage(g) == [T \in SUBSET Customers |->
             IF T = {} THEN 0
             ELSE LET x == CHOOSE x \in T : TRUE IN current_mrr(x) + g[T \ {x}]]
           byFunction(g) == [T \in SUBSET Customers |->
             IF T = {} THEN 0
             ELSE LET x == CHOOSE x \in T : TRUE IN page[x] + g[T \ {x}]]
<1>1. MapThenSumSet(current_mrr, Customers) = (CHOOSE g : g = byPage(g))[Customers]
  BY DEF MapThenSumSet, MapThenFoldSet
<1>2. SumFunctionOnSet(page, Customers) = (CHOOSE g : g = byFunction(g))[Customers]
  BY SumIsFold DEF IsSum
<1>3. ASSUME NEW g PROVE byPage(g) = byFunction(g)
  <2>1. \A T \in SUBSET Customers : T # {} =>
          page[CHOOSE x \in T : TRUE] = current_mrr(CHOOSE x \in T : TRUE)
    OBVIOUS
  <2> HIDE DEF page
  <2> QED
    BY <2>1
<1> HIDE DEF byPage, byFunction, page
<1>4. (CHOOSE g : g = byPage(g)) = (CHOOSE g : g = byFunction(g))
  BY <1>3
<1> QED
  BY <1>1, <1>2, <1>4 DEF page

\* CustomersSumToMrr: every subscription that counts has one customer, whose page counts
\* it if the customer has a row.
THEOREM CustomersSumToMrrAlways == Spec => []CustomersSumToMrr
<1>1. DashboardInv => CustomersSumToMrr
  <2> SUFFICES ASSUME DashboardInv PROVE CustomersSumToMrr
    OBVIOUS
  <2> DEFINE page == [c \in Customers |-> current_mrr(c)]
             shown == Customers \cap customers
             counted == CountedAt(now)
             part == [c \in shown |-> {s \in counted : CustomerOf[s] = c}]
             here == {s \in counted : CustomerOf[s] \in shown}
             gone == {s \in counted : CustomerOf[s] \notin customers}
             others == Customers \ customers
  <2>1. /\ counted \in SUBSET Subs /\ IsFiniteSet(counted)
        /\ IsFiniteSet(Customers) /\ IsFiniteSet(shown) /\ IsFiniteSet(others)
    BY DashboardAssumption, FS_Subset DEF CountedAt, Mirrored
  <2>2. \A s \in counted : MonthlyPrice[s] \in Int
    BY <2>1, Prices
  <2>3. ASSUME NEW c \in Customers
        PROVE  CurrentSubs(c) = {s \in counted : CustomerOf[s] = c}
    BY CountedNow DEF CurrentSubs
  <2>4. \A c \in Customers : Monthly(CurrentSubs(c)) \in Nat
    BY MonthlyIsSum DEF CurrentSubs, Mirrored
  <2>5. SumFunctionOnSet(page, Customers)
          = SumFunctionOnSet(page, shown) + SumFunctionOnSet(page, others)
    <3>1. shown \cap others = {} /\ shown \cup others = Customers
      OBVIOUS
    <3>2. \A c \in Customers : page[c] \in Int
      BY <2>4 DEF current_mrr
    <3> HIDE DEF page, shown, others
    <3> QED
      BY <2>1, <3>1, <3>2, SumDisjoint
  <2>6. SumFunctionOnSet(page, others) = 0
    <3>1. \A c \in others : page[c] = 0
      BY DEF current_mrr
    <3> HIDE DEF page, others
    <3> QED
      BY <2>1, <3>1, SumZero
  <2>7. SumFunctionOnSet(page, shown) = SumFunctionOnSet(MonthlyPrice, here)
    <3>1. \A c \in shown : page[c] = SumFunctionOnSet(MonthlyPrice, part[c])
      BY <2>3 DEF current_mrr, Monthly
    <3>2. \A c \in shown : part[c] = {s \in counted : CustomerOf[s] = c}
      OBVIOUS
    <3> HIDE DEF page, shown, counted, part
    <3> QED
      BY <2>1, <2>2, <3>1, <3>2, SumOfParts
  <2>8. Monthly(counted) = Monthly(here) + Monthly(gone) /\ Monthly(here) \in Nat
    <3>1. here \cap gone = {} /\ here \cup gone = counted
      BY <2>1, DashboardAssumption
    <3>2. here \in SUBSET Subs /\ gone \in SUBSET Subs
      BY <2>1
    <3> HIDE DEF here, gone, counted
    <3> QED
      BY <3>1, <3>2, MonthlyIsSum
  <2>9. SumFunctionOnSet(page, Customers) + Monthly(gone) = Monthly(counted)
    <3> HIDE DEF page, here, gone, counted, shown, others
    <3> QED
      BY <2>5, <2>6, <2>7, <2>8 DEF Monthly
  <2> QED
    BY <2>9, PagesAreSum DEF CustomersSumToMrr, mrr_at
<1> QED
  BY <1>1, InvAlways, PTL

\* PastNeedsAChange: the clock moves no sample of a month that is over, and a sync that
\* changes only what was created later changes nothing that counts there.
THEOREM PastNeedsAChangeAlways == Spec => PastNeedsAChange
<1> DEFINE Settled ==
      \/ UNCHANGED <<now, mirror>>
      \/ \A m \in ShownMonths \cap ShownMonths' :
           now >= MonthStart(m + 1) - TicksPerSecond =>
             \/ mrr_trend(m)' = mrr_trend(m)
             \/ \E s \in Subs : /\ mirror'[s] # mirror[s]
                              /\ mirror'[s].created <= SampleAt(m)
<1>1. ASSUME DashboardInv, [Next]_vars
      PROVE  Settled
  <2>1. CASE Tick
    <3> SUFFICES ASSUME NEW m \in ShownMonths, now >= MonthStart(m + 1) - TicksPerSecond
                 PROVE  mrr_trend(m)' = mrr_trend(m)
      OBVIOUS
    <3>1. m \in Int /\ now \in Nat
      BY <1>1, Clock, DashboardAssumption DEF DashboardInv, ShownMonths
    <3>2. MonthStart(m + 1) \in Int
      BY <3>1, DashboardAssumption DEF MonthStart
    <3>3. now' = now + 1 /\ mirror' = mirror
      BY <2>1 DEF Tick
    <3>4. SampleAt(m)' = SampleAt(m)
      <4> DEFINE end == MonthStart(m + 1)
      <4>1. end' = end
        BY DEF MonthStart
      <4> HIDE DEF end
      <4> QED
        BY <3>1, <3>2, <3>3, <4>1 DEF SampleAt, Min, TicksPerSecond, end
    <3> QED
      BY <3>3, <3>4
      DEF mrr_trend, mrr_at, CountedAt, Mirrored, Exists, Missing, Started, Running, Paid,
          Monthly, MonthlyPrice
  <2>2. CASE ListSubscriptions
    <3> SUFFICES ASSUME NEW m \in ShownMonths,
                        \A s \in Subs :
                          mirror'[s] # mirror[s] => ~ mirror'[s].created <= SampleAt(m)
                 PROVE  mrr_trend(m)' = mrr_trend(m)
      OBVIOUS
    <3> DEFINE at == SampleAt(m)
    <3>1. now' = now /\ mirror' = stripe /\ Missing' = Missing
      BY <2>2 DEF ListSubscriptions, Missing
    <3>2. at' = at /\ at \in Int
      <4>1. m \in Int /\ now \in Nat
        BY <1>1, Clock, DashboardAssumption DEF DashboardInv, ShownMonths
      <4>2. MonthStart(m + 1) \in Int
        BY <4>1, DashboardAssumption DEF MonthStart
      <4>3. at' = at
        BY <3>1 DEF SampleAt, MonthStart, TicksPerSecond
      <4>4. at \in Int
        BY <4>1, <4>2 DEF SampleAt, Min, TicksPerSecond
      <4> QED
        BY <4>3, <4>4
    <3>3. ASSUME NEW s \in Subs, mirror'[s] # mirror[s]
          PROVE  s \notin CountedAt(at)' /\ s \notin CountedAt(at)
      <4>1. RowOK(s)
        BY <1>1 DEF DashboardInv
      <4>2. mirror'[s] = stripe[s] /\ mirror'[s] # Missing
        BY <3>1, <3>3, <4>1 DEF RowOK
      <4>3. ~ mirror'[s].created <= at
        BY <3>3
      <4>4. mirror[s] # Missing => mirror[s].created = mirror'[s].created
        BY <4>1, <4>2 DEF RowOK
      <4> HIDE DEF at
      <4> QED
        BY <3>1, <3>2, <4>3, <4>4 DEF CountedAt, Mirrored, Exists, Started
    <3>4. ASSUME NEW s \in Subs, mirror'[s] = mirror[s]
          PROVE  s \in CountedAt(at)' <=> s \in CountedAt(at)
      <4> HIDE DEF at
      <4> QED
        BY <3>1, <3>2, <3>4 DEF CountedAt, Mirrored, Exists, Started, Running, Paid
    <3>5. CountedAt(at)' = CountedAt(at)
      BY <3>3, <3>4 DEF CountedAt, Mirrored
    <3> QED
      BY <3>5 DEF mrr_trend, mrr_at, Monthly, MonthlyPrice
  <2>3. CASE UNCHANGED <<now, mirror>>
    BY <2>3
  <2> HIDE DEF Settled
  <2> QED
    BY <1>1, <2>1, <2>2, <2>3
    DEF Next, vars, Change, Start, SetStatus, CancelNow, CancelAtPeriodEnd, Resume,
        EndPeriod, ListCustomers
<1> QED
  BY <1>1, InvAlways, PTL DEF Spec, PastNeedsAChange

=============================================================================
