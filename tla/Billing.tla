------------------------------ MODULE Billing ------------------------------
(***************************************************************************)
(* What a provision run costs its tenant (apps/api/src/modules/billing and *)
(* billRunOnce in modules/provision).  The transaction that finalizes or   *)
(* locks a run takes the run's row, counts the usage events of the current *)
(* month, decides from the subscription whether the run is free, included  *)
(* or overage, and inserts the run's one usage event.  The events of other *)
(* runs are not locked, so two transactions may count the same ones.       *)
(*                                                                         *)
(* Two clocks meet here: the count starts at the month the server sees     *)
(* when it counts (currentMonthStart), but the event is dated by the       *)
(* database with the start of its transaction (DEFAULT now()).             *)
(***************************************************************************)
EXTENDS Naturals, FiniteSets

CONSTANTS
  Runs,          \* provision runs of one tenant
  NoRun,
  Sessions,      \* database connections serving finalize and lock requests
  Standings,     \* statuses a subscription may be given
  Allowances,    \* included_runs_per_month a subscription may be given
  Limits,        \* limit_value an override may be given
  MaxAllowance,  \* the largest of these
  LastMonth      \* bound on the clock

Suspended == {"past_due", "cancelled", "expired"}

ASSUME BillingAssumption ==
  /\ IsFiniteSet(Runs) /\ IsFiniteSet(Sessions) /\ NoRun \notin Runs
  /\ Standings \subseteq {"trialing", "active"} \cup Suspended
  /\ Allowances \subseteq Nat /\ Limits \subseteq Nat /\ LastMonth \in Nat
  /\ MaxAllowance \in Nat \ {0}
  /\ \A n \in Allowances \cup Limits : n <= MaxAllowance

VARIABLES
  month,         \* the calendar month, counted from 0
  subscription,  \* the tenant's subscription, status "none" without a row
  override,      \* the tenant's provision_runs entitlement
  events,        \* usage_events rows
  tx             \* what each connection's transaction has read

vars == <<month, subscription, override, events, tx>>

\* Without a row the tenant is on the pilot plan, and trialing.
Pilot(status) == [status |-> status, included |-> 1]

NoTx == [phase |-> "idle", run |-> NoRun, began |-> 0, decision |-> "none", price |-> "none"]

\* No override has the effect of one that allows runs and has no limit.
NoOverride == [allowed |-> TRUE, limit |-> 0]

\* An override can only raise the allowance.
Allowance ==
  IF override.limit > subscription.included THEN override.limit ELSE subscription.included

Overrides == [allowed : BOOLEAN, limit : {0} \cup Limits]

Disabled == ~override.allowed \/ subscription.status \in Suspended

\* Wrong on purpose: only this month's events are looked for.
BilledThisMonth(r) == \E e \in events : e.run = r /\ e.at = month

\* hasUsageEvent
Billed(r) == \E e \in events : e.run = r

\* Wrong on purpose: the count forgets the month.
UsedRunsEver == Cardinality(events)

\* countMonthRuns: every event since the first of the month.
UsedRuns == Cardinality({e \in events : e.at >= month})

\* Wrong on purpose: the comparison with the allowance is off by one.
EntitlementOffByOne ==
  IF Disabled
    THEN [decision |-> "overage", price |-> "env"]
  ELSE IF UsedRuns <= Allowance
    THEN [price |-> "zero",
          decision |-> IF UsedRuns = 0 /\ subscription.status \in {"none", "trialing"}
                       THEN "free_trial" ELSE "included"]
  ELSE [decision |-> "overage", price |-> "plan"]

\* checkProvisionEntitlement: what the next run of the tenant costs.
Entitlement ==
  IF Disabled
    THEN [decision |-> "overage", price |-> "env"]
  ELSE IF UsedRuns < Allowance
    THEN [price |-> "zero",
          decision |-> IF UsedRuns = 0 /\ subscription.status \in {"none", "trialing"}
                       THEN "free_trial" ELSE "included"]
  ELSE [decision |-> "overage", price |-> "plan"]

-----------------------------------------------------------------------------
Init ==
  /\ month = 0
  /\ subscription = Pilot("none")
  /\ override = NoOverride
  /\ events = {}
  /\ tx = [s \in Sessions |-> NoTx]

\* The transaction of a finalize or lock request begins, and waits for the row.
Begin(s, r) ==
  /\ tx[s] = NoTx
  /\ tx' = [tx EXCEPT ![s] = [NoTx EXCEPT !.phase = "begun", !.run = r, !.began = month]]
  /\ UNCHANGED <<month, subscription, override, events>>

RowHeld(r) == \E s \in Sessions : tx[s].phase = "priced" /\ tx[s].run = r

\* billRunOnce up to the decision; a run already billed is left alone.
Price(s) ==
  /\ tx[s].phase = "begun" /\ ~RowHeld(tx[s].run)
  /\ tx' = [tx EXCEPT ![s] =
       IF Billed(tx[s].run) THEN NoTx
       ELSE [tx[s] EXCEPT !.phase = "priced", !.decision = Entitlement.decision,
                          !.price = Entitlement.price]]
  /\ UNCHANGED <<month, subscription, override, events>>

\* recordUsageEvent, which inserts nothing where the run has its event, and the
\* commit.
Record(s) ==
  /\ tx[s].phase = "priced"
  /\ events' = IF Billed(tx[s].run) THEN events
               ELSE events \cup {[run |-> tx[s].run, at |-> tx[s].began,
                                 decision |-> tx[s].decision, price |-> tx[s].price]}
  /\ tx' = [tx EXCEPT ![s] = NoTx]
  /\ UNCHANGED <<month, subscription, override>>

\* An error in any statement aborts the transaction, the caught ones too.
Abort(s) ==
  /\ tx[s] # NoTx
  /\ tx' = [tx EXCEPT ![s] = NoTx]
  /\ UNCHANGED <<month, subscription, override, events>>

\* ensureTenantSubscription
EnsureSubscription ==
  /\ subscription.status = "none"
  /\ subscription' = Pilot("trialing")
  /\ UNCHANGED <<month, override, events, tx>>

\* A plan is sold, a payment fails, a subscription ends: outside the system.
ChangeSubscription ==
  /\ subscription' \in [status : Standings, included : Allowances]
  /\ UNCHANGED <<month, override, events, tx>>

\* An override is granted, limited, disabled or expires: outside the system.
ChangeOverride ==
  /\ override' \in Overrides
  /\ UNCHANGED <<month, subscription, events, tx>>

NextMonth ==
  /\ month < LastMonth
  /\ month' = month + 1
  /\ UNCHANGED <<subscription, override, events, tx>>

Next ==
  \/ \E s \in Sessions, r \in Runs : Begin(s, r)
  \/ \E s \in Sessions : Price(s) \/ Record(s) \/ Abort(s)
  \/ EnsureSubscription
  \/ ChangeSubscription
  \/ ChangeOverride
  \/ NextMonth

Spec == Init /\ [][Next]_vars

-----------------------------------------------------------------------------
(* Properties. *)

Decisions == {"free_trial", "included", "overage"}
Prices    == {"zero", "plan", "env"}

UsageEvents ==
  [run : Runs, at : 0 .. LastMonth, decision : Decisions, price : Prices]
BegunTx ==
  [phase : {"begun"}, run : Runs, began : 0 .. LastMonth, decision : {"none"}, price : {"none"}]
PricedTx ==
  [phase : {"priced"}, run : Runs, began : 0 .. LastMonth, decision : Decisions, price : Prices]

TypeOK ==
  /\ month \in 0 .. LastMonth
  /\ subscription \in [status : {"none"} \cup Standings \cup {"trialing"},
                       included : {1} \cup Allowances]
  /\ override \in Overrides
  /\ events \in SUBSET UsageEvents
  /\ tx \in [Sessions -> {NoTx} \cup BegunTx \cup PricedTx]

\* billRunOnce: whatever overlaps, a run has at most one usage event (what a
\* retry or a lock after a finalize would add), and none is about to be added
\* by two transactions at once.
OneEventPerRun ==
  /\ \A e, f \in events : e.run = f.run => e = f
  /\ \A s \in Sessions : tx[s].phase = "priced" =>
       /\ ~Billed(tx[s].run)
       /\ \A t \in Sessions : tx[t].phase = "priced" /\ tx[t].run = tx[s].run => t = s

FreeEvents(m) == {e \in events : e.at = m /\ e.price = "zero"}

\* The allowance is checked without a lock, so it can be exceeded; but never by
\* more than the transactions that were open together at a count (one less
\* than there are connections) and those that straddled the month's end.
OverrunBounded ==
  \A m \in 0 .. LastMonth :
    Cardinality(FreeEvents(m)) < MaxAllowance + 2 * Cardinality(Sessions)

\* A run is charged at the plan's price only when the tenant's runs of the month
\* it was counted in, or of a later one, had used up the smallest allowance
\* the tenant ever had: nobody pays while runs are still included.
OverageAfterAllowance ==
  \A e \in events : e.price = "plan" =>
    \E n \in {1} \cup Allowances :
      Cardinality({f \in events : f.at >= e.at /\ f # e}) >= n

=============================================================================
