---------------------------- MODULE BillingProofs ----------------------------
(***************************************************************************)
(* Proofs about Billing for finitely many runs and connections and every   *)
(* allowance.  The bound on the free runs of a month is not inductive: the *)
(* invariant also counts the open transactions that will still add one.    *)
(* In the running month these are the priced ones, all of which counted    *)
(* fewer events than the allowance; once the month is over, every          *)
(* transaction that began in it may count the next month's events instead. *)
(***************************************************************************)
EXTENDS Billing, FiniteSetTheorems, TLAPS

\* The transactions that will add a free event to month m as they stand.
FreeTx(m) == {s \in Sessions : tx[s].phase = "priced" /\ tx[s].price = "zero" /\ tx[s].began = m}

\* Those that may still do so once m is over.
LateTx(m) == FreeTx(m) \cup {s \in Sessions : tx[s].phase = "begun" /\ tx[s].began = m}

\* Nothing is dated in the future, and there are finitely many events.
Dated ==
  /\ IsFiniteSet(events)
  /\ \A e \in events : e.at <= month
  /\ \A s \in Sessions : tx[s] # NoTx => tx[s].began <= month

\* A month's free events, those to come included.
OverrunCounted(m) ==
  /\ m = month => Cardinality(FreeEvents(m)) + Cardinality(FreeTx(m))
                    < MaxAllowance + Cardinality(Sessions)
  /\ m < month => Cardinality(FreeEvents(m)) + Cardinality(LateTx(m))
                    < MaxAllowance + 2 * Cardinality(Sessions)

\* What an overage of month m rests on.
UsedUp(m, others) ==
  \E n \in {1} \cup Allowances : Cardinality({f \in others : f.at >= m}) >= n

OverageCounted ==
  /\ \A e \in events : e.price = "plan" => UsedUp(e.at, events \ {e})
  /\ \A s \in Sessions : tx[s].phase = "priced" /\ tx[s].price = "plan" =>
       UsedUp(tx[s].began, events)

BillingInv ==
  /\ TypeOK
  /\ Dated
  /\ OneEventPerRun
  /\ \A m \in 0 .. LastMonth : OverrunCounted(m)
  /\ OverageCounted

-----------------------------------------------------------------------------
(* Counting. *)

\* A part of a finite set is finite and no larger.
LEMMA PartSmaller ==
  ASSUME NEW S, IsFiniteSet(S), NEW T, T \subseteq S
  PROVE  /\ IsFiniteSet(T) /\ Cardinality(T) \in Nat /\ Cardinality(S) \in Nat
         /\ Cardinality(T) <= Cardinality(S)
<1>1. IsFiniteSet(T) /\ Cardinality(T) <= Cardinality(S)
  BY FS_Subset
<1> QED
  BY <1>1, FS_CardinalityType

\* More events use up whatever fewer events did, for the same month or earlier.
LEMMA UsedUpGrows ==
  ASSUME NEW S, NEW T, IsFiniteSet(T), S \subseteq T, NEW m \in Nat, NEW k \in Nat, k <= m,
         \A f \in T : f.at \in Nat, UsedUp(m, S), BillingAssumption
  PROVE  UsedUp(k, T)
<1> DEFINE few  == {f \in S : f.at >= m}
           many == {f \in T : f.at >= k}
<1>1. few \subseteq many
  BY SMT
<1>2. IsFiniteSet(many)
  BY PartSmaller
<1>3. /\ Cardinality(few) \in Nat /\ Cardinality(many) \in Nat
      /\ Cardinality(few) <= Cardinality(many)
  BY <1>1, <1>2, PartSmaller
<1>4. PICK n \in {1} \cup Allowances : Cardinality(few) >= n
  BY DEF UsedUp
<1>5. n \in Nat
  BY DEF BillingAssumption
<1>6. Cardinality(many) >= n
  BY <1>3, <1>4, <1>5
<1> QED
  BY <1>6 DEF UsedUp

\* What the type invariant says of the sets that are counted.
LEMMA Counted ==
  ASSUME BillingInv, BillingAssumption, NEW m
  PROVE  /\ IsFiniteSet(FreeEvents(m)) /\ Cardinality(FreeEvents(m)) \in Nat
         /\ IsFiniteSet(FreeTx(m)) /\ Cardinality(FreeTx(m)) \in Nat
         /\ IsFiniteSet(LateTx(m)) /\ Cardinality(LateTx(m)) \in Nat
         /\ Cardinality(FreeTx(m)) <= Cardinality(Sessions)
         /\ Cardinality(LateTx(m)) <= Cardinality(Sessions)
         /\ Cardinality(Sessions) \in Nat
<1>1. FreeEvents(m) \subseteq events /\ IsFiniteSet(events)
  BY DEF FreeEvents, BillingInv, Dated
<1>2. FreeTx(m) \subseteq Sessions /\ LateTx(m) \subseteq Sessions /\ IsFiniteSet(Sessions)
  BY DEF FreeTx, LateTx, BillingAssumption
<1> QED
  BY <1>1, <1>2, PartSmaller

\* The allowance is never larger than the largest there is.
LEMMA AllowanceBounded ==
  ASSUME TypeOK, BillingAssumption
  PROVE  /\ Allowance \in Nat /\ Allowance <= MaxAllowance
         /\ subscription.included <= Allowance
         /\ subscription.included \in {1} \cup Allowances
<1>1. override.limit \in {0} \cup Limits /\ subscription.included \in {1} \cup Allowances
  BY DEF TypeOK, Overrides
<1>2. \A n \in {0, 1} \cup Allowances \cup Limits : n \in Nat /\ n <= MaxAllowance
  <2>1. MaxAllowance \in Nat /\ 0 <= MaxAllowance /\ 1 <= MaxAllowance
    BY DEF BillingAssumption
  <2>2. \A n \in Allowances \cup Limits : n \in Nat /\ n <= MaxAllowance
    BY DEF BillingAssumption
  <2> QED
    BY <2>1, <2>2
<1>3. /\ override.limit \in Nat /\ override.limit <= MaxAllowance
      /\ subscription.included \in Nat /\ subscription.included <= MaxAllowance
  BY <1>1, <1>2
<1> QED
  BY <1>1, <1>3 DEF Allowance

\* What a decision says of the count it was made from.
LEMMA EntitlementCounts ==
  ASSUME BillingInv, BillingAssumption
  PROVE  /\ Entitlement.decision \in Decisions /\ Entitlement.price \in Prices
         /\ UsedRuns \in Nat
         /\ Entitlement.price = "zero" => UsedRuns < MaxAllowance
         /\ Entitlement.price = "plan" => UsedRuns >= subscription.included
<1>1. UsedRuns \in Nat
  BY PartSmaller DEF UsedRuns, BillingInv, Dated
<1>2. /\ Allowance \in Nat /\ Allowance <= MaxAllowance /\ MaxAllowance \in Nat
      /\ subscription.included <= Allowance /\ subscription.included \in Nat
  <2>1. /\ Allowance \in Nat /\ Allowance <= MaxAllowance
        /\ subscription.included <= Allowance
        /\ subscription.included \in {1} \cup Allowances
    BY AllowanceBounded DEF BillingInv
  <2>2. MaxAllowance \in Nat /\ \A n \in {1} \cup Allowances : n \in Nat
    BY DEF BillingAssumption
  <2> QED
    BY <2>1, <2>2
<1>3. CASE Disabled
  BY <1>1, <1>3 DEF Entitlement, Decisions, Prices
<1>4. CASE ~Disabled /\ UsedRuns < Allowance
  <2>1. Entitlement.price = "zero" /\ Entitlement.decision \in Decisions
    BY <1>4 DEF Entitlement, Decisions
  <2> QED
    BY <1>1, <1>2, <1>4, <2>1 DEF Prices
<1>5. CASE ~Disabled /\ ~(UsedRuns < Allowance)
  <2>1. Entitlement.price = "plan" /\ Entitlement.decision \in Decisions
    BY <1>5 DEF Entitlement, Decisions
  <2> QED
    BY <1>1, <1>2, <1>5, <2>1 DEF Prices
<1> QED
  BY <1>3, <1>4, <1>5

-----------------------------------------------------------------------------
(* The steps. *)

\* The invariant holds at first.
LEMMA InitBillingInv == Init /\ BillingAssumption => BillingInv
<1> SUFFICES ASSUME Init, BillingAssumption PROVE BillingInv
  OBVIOUS
<1>1. TypeOK
  BY DEF Init, TypeOK, Pilot, NoOverride, Overrides, BillingAssumption
<1>2. Dated /\ OneEventPerRun /\ OverageCounted
  BY FS_EmptySet DEF Init, Dated, OneEventPerRun, OverageCounted, NoTx
<1>3. ASSUME NEW m \in 0 .. LastMonth PROVE OverrunCounted(m)
  <2>1. FreeEvents(m) = {} /\ FreeTx(m) = {}
    BY DEF Init, FreeEvents, FreeTx, NoTx
  <2>2. Cardinality(Sessions) \in Nat /\ MaxAllowance \in Nat /\ MaxAllowance > 0
    BY FS_CardinalityType DEF BillingAssumption
  <2>3. LastMonth \in Nat /\ month = 0
    BY DEF Init, BillingAssumption
  <2> QED
    BY <2>1, <2>2, <2>3, FS_EmptySet DEF OverrunCounted
<1> QED
  BY <1>1, <1>2, <1>3 DEF BillingInv

\* A transaction begins, or ends without an event: what may still be added to a
\* month that is over only shrinks.
LEMMA NoEventOK ==
  ASSUME BillingInv, BillingAssumption, NEW s \in Sessions,
         NEW new \in {NoTx} \cup BegunTx, tx' = [tx EXCEPT ![s] = new],
         new # NoTx => new.began = month,
         UNCHANGED <<month, subscription, override, events>>
  PROVE  BillingInv'
<1>1. tx \in [Sessions -> {NoTx} \cup BegunTx \cup PricedTx] /\ month \in Nat
  BY DEF BillingInv, TypeOK, BillingAssumption
<1>2. TypeOK'
  BY <1>1 DEF BillingInv, TypeOK
<1>3. new.phase # "priced"
  BY DEF NoTx, BegunTx
<1>4. Dated'
  BY <1>1 DEF BillingInv, Dated
<1>5. OneEventPerRun' /\ OverageCounted'
  BY <1>1, <1>3 DEF BillingInv, OneEventPerRun, OverageCounted, Billed, UsedUp
<1>6. ASSUME NEW m \in 0 .. LastMonth PROVE OverrunCounted(m)'
  <2>1. FreeEvents(m)' = FreeEvents(m)
    BY DEF FreeEvents
  <2>2. FreeTx(m)' \subseteq FreeTx(m)
    BY <1>1, <1>3 DEF FreeTx
  <2>3. m # month => LateTx(m)' \subseteq LateTx(m)
    BY <1>1, <1>3, <2>2 DEF LateTx, BegunTx, NoTx
  <2>4. Cardinality(FreeTx(m)') \in Nat /\ Cardinality(FreeTx(m)') <= Cardinality(FreeTx(m))
    BY <2>2, Counted, PartSmaller
  <2>5. m # month => /\ Cardinality(LateTx(m)') \in Nat
                     /\ Cardinality(LateTx(m)') <= Cardinality(LateTx(m))
    BY <2>3, Counted, PartSmaller
  <2>6. OverrunCounted(m) /\ MaxAllowance \in Nat /\ m \in Nat
    BY DEF BillingInv, BillingAssumption
  <2> QED
    BY <1>1, <2>1, <2>4, <2>5, <2>6, Counted DEF OverrunCounted
<1> QED
  BY <1>2, <1>4, <1>5, <1>6 DEF BillingInv

\* A transaction begins: nothing is charged yet.
LEMMA BeginOK ==
  ASSUME BillingInv, BillingAssumption, NEW s \in Sessions, NEW r \in Runs, Begin(s, r)
  PROVE  BillingInv'
<1> DEFINE new == [NoTx EXCEPT !.phase = "begun", !.run = r, !.began = month]
<1>1. new \in BegunTx /\ new.began = month
  BY DEF NoTx, BegunTx, BillingInv, TypeOK
<1> QED
  BY <1>1, NoEventOK DEF Begin

\* A transaction that is rolled back leaves its counters alone.
LEMMA AbortOK ==
  ASSUME BillingInv, BillingAssumption, NEW s \in Sessions, Abort(s)
  PROVE  BillingInv'
BY NoEventOK DEF Abort

\* A run is priced: a free one counted fewer events than the allowance, so that
\* even with every connection about to add one the month stays within its bound.
LEMMA PriceOK ==
  ASSUME BillingInv, BillingAssumption, NEW s \in Sessions, Price(s)
  PROVE  BillingInv'
<1>1. CASE Billed(tx[s].run)
  BY <1>1, NoEventOK DEF Price
<1>2. CASE ~Billed(tx[s].run)
  <2> DEFINE new == [tx[s] EXCEPT !.phase = "priced", !.decision = Entitlement.decision,
                                  !.price = Entitlement.price]
  <2>1. /\ tx \in [Sessions -> {NoTx} \cup BegunTx \cup PricedTx] /\ month \in Nat
        /\ month \in 0 .. LastMonth /\ tx[s] \in BegunTx /\ tx[s] # NoTx
    BY DEF BillingInv, TypeOK, BillingAssumption, Price, NoTx, PricedTx
  <2>2. tx' = [tx EXCEPT ![s] = new] /\ UNCHANGED <<month, subscription, override, events>>
    BY <1>2 DEF Price
  <2>3. /\ new \in PricedTx /\ new.run = tx[s].run /\ new.began = tx[s].began
        /\ new.phase = "priced" /\ new.price = Entitlement.price
    BY <2>1, EntitlementCounts DEF BegunTx, PricedTx
  <2>4. tx[s].began \in Nat /\ tx[s].began <= month
    BY <2>1 DEF BegunTx, BillingInv, Dated, BillingAssumption
  <2>5. TypeOK'
    BY <2>1, <2>2, <2>3 DEF BillingInv, TypeOK
  <2>6. Dated'
    BY <2>1, <2>2, <2>3, <2>4 DEF BillingInv, Dated
  <2>7. OneEventPerRun'
    <3>1. ~RowHeld(tx[s].run)
      BY DEF Price
    <3> QED
      BY <1>2, <2>1, <2>2, <2>3, <3>1 DEF BillingInv, OneEventPerRun, Billed, RowHeld
  <2>8. OverageCounted'
    <3>1. new.price = "plan" => UsedUp(new.began, events)
      <4> SUFFICES ASSUME new.price = "plan" PROVE UsedUp(new.began, events)
        OBVIOUS
      <4>1. UsedRuns >= subscription.included /\ subscription.included \in {1} \cup Allowances
        BY <2>3, EntitlementCounts, AllowanceBounded DEF BillingInv
      <4>2. UsedUp(month, events)
        BY <4>1 DEF UsedUp, UsedRuns
      <4>3. IsFiniteSet(events) /\ \A f \in events : f.at \in Nat
        BY DEF BillingInv, Dated, TypeOK, UsageEvents
      <4> QED
        BY <2>1, <2>3, <2>4, <4>2, <4>3, UsedUpGrows
    <3> QED
      BY <2>1, <2>2, <2>3, <3>1 DEF BillingInv, OverageCounted, UsedUp
  <2>9. ASSUME NEW m \in 0 .. LastMonth PROVE OverrunCounted(m)'
    <3>1. FreeEvents(m)' = FreeEvents(m) /\ FreeEvents(m) \subseteq events
      BY <2>2 DEF FreeEvents
    <3>2. OverrunCounted(m) /\ MaxAllowance \in Nat /\ m \in Nat
      BY DEF BillingInv, BillingAssumption
    <3>3. FreeTx(m)' \subseteq FreeTx(m) \cup {s} /\ FreeTx(m)' \subseteq Sessions
      BY <2>1, <2>2 DEF FreeTx
    <3>4. LateTx(m)' \subseteq LateTx(m)
      BY <2>1, <2>2, <2>3, <3>3 DEF LateTx, FreeTx, BegunTx
    <3>5. /\ IsFiniteSet(FreeTx(m)') /\ Cardinality(FreeTx(m)') \in Nat
          /\ Cardinality(FreeTx(m)') <= Cardinality(Sessions)
          /\ Cardinality(LateTx(m)') \in Nat
          /\ Cardinality(LateTx(m)') <= Cardinality(LateTx(m))
      BY <3>3, <3>4, Counted, PartSmaller DEF BillingAssumption
    <3>6. ASSUME m = month
          PROVE  Cardinality(FreeEvents(m)) + Cardinality(FreeTx(m)')
                   < MaxAllowance + Cardinality(Sessions)
      <4>1. CASE new.price = "zero"
        <5>1. UsedRuns < MaxAllowance /\ UsedRuns \in Nat
          BY <4>1, <2>3, EntitlementCounts
        <5>2. FreeEvents(m) \subseteq {e \in events : e.at >= month}
          BY <3>6, <2>1 DEF FreeEvents
        <5>3. Cardinality(FreeEvents(m)) <= UsedRuns
          BY <5>2, PartSmaller DEF UsedRuns, BillingInv, Dated
        <5> QED
          BY <3>2, <3>5, <5>1, <5>3, Counted
      <4>2. CASE new.price # "zero"
        <5>1. FreeTx(m)' \subseteq FreeTx(m)
          BY <4>2, <2>1, <2>2, <2>3 DEF FreeTx
        <5>2. Cardinality(FreeTx(m)') <= Cardinality(FreeTx(m))
          BY <5>1, Counted, PartSmaller
        <5> QED
          BY <3>2, <3>5, <3>6, <5>2, Counted DEF OverrunCounted
      <4> QED
        BY <4>1, <4>2
    <3> QED
      BY <2>1, <2>2, <3>1, <3>2, <3>5, <3>6, Counted DEF OverrunCounted
  <2> QED
    BY <2>5, <2>6, <2>7, <2>8, <2>9 DEF BillingInv
<1> QED
  BY <1>1, <1>2

\* The event is inserted: it was counted while its transaction was open.
LEMMA RecordOK ==
  ASSUME BillingInv, BillingAssumption, NEW s \in Sessions, Record(s)
  PROVE  BillingInv'
<1> DEFINE new == [run |-> tx[s].run, at |-> tx[s].began,
                   decision |-> tx[s].decision, price |-> tx[s].price]
<1>1. /\ tx \in [Sessions -> {NoTx} \cup BegunTx \cup PricedTx] /\ month \in Nat
      /\ tx[s] \in PricedTx /\ tx[s] # NoTx /\ tx[s].phase = "priced"
  BY DEF BillingInv, TypeOK, BillingAssumption, Record, NoTx, BegunTx
<1>2. ~Billed(tx[s].run) /\ new \notin events
  BY <1>1 DEF BillingInv, OneEventPerRun, Billed
<1>3. /\ events' = events \cup {new} /\ tx' = [tx EXCEPT ![s] = NoTx]
      /\ UNCHANGED <<month, subscription, override>>
  BY <1>2 DEF Record
<1>4. new \in UsageEvents /\ new.at \in Nat /\ new.at <= month /\ new.at = tx[s].began
  BY <1>1 DEF PricedTx, UsageEvents, BillingInv, Dated, BillingAssumption
<1>5. TypeOK'
  BY <1>1, <1>3, <1>4 DEF BillingInv, TypeOK
<1>6. Dated'
  <2>1. IsFiniteSet(events')
    BY <1>3, FS_AddElement DEF BillingInv, Dated
  <2> QED
    BY <1>1, <1>3, <1>4, <2>1 DEF BillingInv, Dated
<1>7. OneEventPerRun'
  <2>1. \A e, f \in events' : e.run = f.run => e = f
    BY <1>2, <1>3 DEF BillingInv, OneEventPerRun, Billed
  <2>2. ASSUME NEW t \in Sessions, tx'[t].phase = "priced"
        PROVE  /\ \A e \in events' : e.run # tx'[t].run
               /\ \A u \in Sessions : tx'[u].phase = "priced" /\ tx'[u].run = tx'[t].run => u = t
    <3>1. t # s /\ tx'[t] = tx[t]
      BY <1>1, <1>3, <2>2 DEF NoTx
    <3>2. tx[t].run # tx[s].run /\ ~Billed(tx[t].run)
      BY <1>1, <2>2, <3>1 DEF BillingInv, OneEventPerRun
    <3>3. \A e \in events' : e.run # tx[t].run
      BY <1>3, <3>2 DEF Billed
    <3>4. \A u \in Sessions : tx'[u].phase = "priced" => tx'[u] = tx[u]
      BY <1>1, <1>3 DEF NoTx
    <3> QED
      BY <2>2, <3>1, <3>3, <3>4 DEF BillingInv, OneEventPerRun, Billed
  <2> QED
    BY <2>1, <2>2 DEF OneEventPerRun, Billed
<1>8. OverageCounted'
  <2>1. IsFiniteSet(events') /\ \A f \in events' : f.at \in Nat
    BY <1>5, <1>6 DEF Dated, TypeOK, UsageEvents, BillingAssumption
  <2>2. ASSUME NEW S, S \subseteq events', NEW R, R \subseteq S, NEW m \in Nat, UsedUp(m, R)
        PROVE  UsedUp(m, S)
    <3>1. IsFiniteSet(S) /\ \A f \in S : f.at \in Nat
      BY <2>1, <2>2, PartSmaller
    <3> QED
      BY <2>2, <3>1, UsedUpGrows
  <2>3. ASSUME NEW e \in events', e.price = "plan" PROVE UsedUp(e.at, events' \ {e})
    <3>1. CASE e \in events
      <4>1. UsedUp(e.at, events \ {e})
        BY <2>3, <3>1 DEF BillingInv, OverageCounted
      <4>2. events \ {e} \subseteq events' \ {e} /\ e.at \in Nat
        BY <1>3, <2>1
      <4> QED
        BY <2>2, <4>1, <4>2
    <3>2. CASE e = new
      <4>1. UsedUp(e.at, events)
        BY <1>1, <1>4, <2>3, <3>2 DEF BillingInv, OverageCounted
      <4>2. events \subseteq events' \ {e}
        BY <1>2, <1>3, <3>2
      <4> QED
        BY <1>4, <2>2, <3>2, <4>1, <4>2
    <3> QED
      BY <1>3, <3>1, <3>2
  <2>4. ASSUME NEW t \in Sessions, tx'[t].phase = "priced", tx'[t].price = "plan"
        PROVE  UsedUp(tx'[t].began, events')
    <3>1. tx'[t] = tx[t] /\ tx[t] \in PricedTx
      BY <1>1, <1>3, <2>4 DEF NoTx, BegunTx
    <3>2. UsedUp(tx[t].began, events) /\ tx[t].began \in Nat
      BY <2>4, <3>1 DEF BillingInv, OverageCounted, PricedTx, BillingAssumption
    <3> QED
      BY <1>3, <2>2, <3>1, <3>2
  <2> QED
    BY <2>3, <2>4 DEF OverageCounted, UsedUp
<1>9. ASSUME NEW m \in 0 .. LastMonth PROVE OverrunCounted(m)'
  <2>1. OverrunCounted(m) /\ MaxAllowance \in Nat /\ m \in Nat
    BY DEF BillingInv, BillingAssumption
  <2>2. CASE new.at = m /\ new.price = "zero"
    <3>1. FreeEvents(m)' = FreeEvents(m) \cup {new} /\ new \notin FreeEvents(m)
      BY <1>2, <1>3, <2>2 DEF FreeEvents
    <3>2. Cardinality(FreeEvents(m)') = Cardinality(FreeEvents(m)) + 1
      BY <3>1, Counted, FS_AddElement
    <3>3. s \in FreeTx(m) /\ s \in LateTx(m)
      BY <1>1, <1>4, <2>2 DEF FreeTx, LateTx
    <3>4. FreeTx(m)' = FreeTx(m) \ {s} /\ LateTx(m)' = LateTx(m) \ {s}
      BY <1>1, <1>3 DEF FreeTx, LateTx, NoTx
    <3>5. /\ Cardinality(FreeTx(m)') = Cardinality(FreeTx(m)) - 1
          /\ Cardinality(LateTx(m)') = Cardinality(LateTx(m)) - 1
      BY <3>3, <3>4, Counted, FS_RemoveElement
    <3> QED
      BY <1>1, <1>3, <2>1, <3>2, <3>5, Counted DEF OverrunCounted
  <2>3. CASE ~(new.at = m /\ new.price = "zero")
    <3>1. FreeEvents(m)' = FreeEvents(m)
      BY <1>3, <2>3 DEF FreeEvents
    <3>2. FreeTx(m)' \subseteq FreeTx(m) /\ LateTx(m)' \subseteq LateTx(m)
      BY <1>1, <1>3 DEF FreeTx, LateTx, NoTx
    <3>3. /\ Cardinality(FreeTx(m)') \in Nat /\ Cardinality(LateTx(m)') \in Nat
          /\ Cardinality(FreeTx(m)') <= Cardinality(FreeTx(m))
          /\ Cardinality(LateTx(m)') <= Cardinality(LateTx(m))
      BY <3>2, Counted, PartSmaller
    <3> QED
      BY <1>1, <1>3, <2>1, <3>1, <3>3, Counted DEF OverrunCounted
  <2> QED
    BY <2>2, <2>3
<1> QED
  BY <1>5, <1>6, <1>7, <1>8, <1>9 DEF BillingInv

\* The month ends: every connection may still have a transaction of it open.
LEMMA NextMonthOK ==
  ASSUME BillingInv, BillingAssumption, NextMonth
  PROVE  BillingInv'
<1>1. /\ month \in Nat /\ LastMonth \in Nat /\ month < LastMonth /\ month' = month + 1
      /\ UNCHANGED <<subscription, override, events, tx>>
  BY DEF NextMonth, BillingInv, TypeOK, BillingAssumption
<1>2. TypeOK'
  BY <1>1 DEF BillingInv, TypeOK
<1>3. \A e \in events : e.at \in Nat
  BY DEF BillingInv, TypeOK, UsageEvents, BillingAssumption
<1>4. \A s \in Sessions : tx[s].began \in Nat
  BY DEF BillingInv, TypeOK, BegunTx, PricedTx, NoTx, BillingAssumption
<1>5. Dated'
  BY <1>1, <1>3, <1>4 DEF BillingInv, Dated
<1>6. OneEventPerRun' /\ OverageCounted'
  BY <1>1 DEF BillingInv, OneEventPerRun, OverageCounted, Billed, UsedUp
<1>7. ASSUME NEW m \in 0 .. LastMonth PROVE OverrunCounted(m)'
  <2>1. FreeEvents(m)' = FreeEvents(m) /\ FreeTx(m)' = FreeTx(m) /\ LateTx(m)' = LateTx(m)
    BY <1>1 DEF FreeEvents, FreeTx, LateTx
  <2>2. OverrunCounted(m) /\ MaxAllowance \in Nat /\ MaxAllowance > 0 /\ m \in Nat
    BY DEF BillingInv, BillingAssumption
  <2>3. CASE m <= month
    BY <1>1, <2>1, <2>2, <2>3, Counted DEF OverrunCounted
  <2>4. CASE m > month
    <3>1. FreeEvents(m) = {}
      BY <1>1, <1>3, <2>2, <2>4 DEF FreeEvents, BillingInv, Dated
    <3>2. FreeTx(m) = {}
      BY <1>1, <1>4, <2>2, <2>4 DEF FreeTx, BillingInv, Dated, NoTx
    <3> QED
      BY <1>1, <2>1, <2>2, <2>4, <3>1, <3>2, Counted, FS_EmptySet DEF OverrunCounted
  <2> QED
    BY <1>1, <2>2, <2>3, <2>4
<1> QED
  BY <1>2, <1>5, <1>6, <1>7 DEF BillingInv

\* The subscription and the override only matter to the next decision.
LEMMA TermsOK ==
  ASSUME BillingInv, EnsureSubscription \/ ChangeSubscription \/ ChangeOverride
  PROVE  BillingInv'
<1>1. UNCHANGED <<month, events, tx>>
  BY DEF EnsureSubscription, ChangeSubscription, ChangeOverride
<1>2. TypeOK'
  BY <1>1 DEF BillingInv, TypeOK, EnsureSubscription, Pilot, ChangeSubscription, ChangeOverride
<1>3. Dated' /\ OneEventPerRun' /\ OverageCounted'
  BY <1>1 DEF BillingInv, Dated, OneEventPerRun, OverageCounted, Billed, UsedUp
<1>4. \A m \in 0 .. LastMonth : OverrunCounted(m)'
  BY <1>1 DEF BillingInv, OverrunCounted, FreeEvents, FreeTx, LateTx
<1> QED
  BY <1>2, <1>3, <1>4 DEF BillingInv

\* Every step keeps the invariant.
LEMMA NextBillingInv == BillingInv /\ BillingAssumption /\ [Next]_vars => BillingInv'
<1> SUFFICES ASSUME BillingInv, BillingAssumption, [Next]_vars PROVE BillingInv'
  OBVIOUS
<1>1. ASSUME NEW s \in Sessions, NEW r \in Runs, Begin(s, r) PROVE BillingInv'
  BY <1>1, BeginOK
<1>2. ASSUME NEW s \in Sessions, Price(s) PROVE BillingInv'
  BY <1>2, PriceOK
<1>3. ASSUME NEW s \in Sessions, Record(s) PROVE BillingInv'
  BY <1>3, RecordOK
<1>4. ASSUME NEW s \in Sessions, Abort(s) PROVE BillingInv'
  BY <1>4, AbortOK
<1>5. CASE EnsureSubscription \/ ChangeSubscription \/ ChangeOverride
  BY <1>5, TermsOK
<1>6. CASE NextMonth
  BY <1>6, NextMonthOK
<1>7. CASE UNCHANGED vars
  <2>1. UNCHANGED <<month, subscription, override, events, tx>>
    BY <1>7 DEF vars
  <2>2. TypeOK' /\ Dated' /\ OneEventPerRun' /\ OverageCounted'
    BY <2>1 DEF BillingInv, TypeOK, Dated, OneEventPerRun, OverageCounted, Billed, UsedUp
  <2>3. \A m \in 0 .. LastMonth : OverrunCounted(m)'
    BY <2>1 DEF BillingInv, OverrunCounted, FreeEvents, FreeTx, LateTx
  <2> QED
    BY <2>2, <2>3 DEF BillingInv
<1> QED
  BY <1>1, <1>2, <1>3, <1>4, <1>5, <1>6, <1>7 DEF Next

-----------------------------------------------------------------------------
(* The theorems. *)

\* The invariant holds of everything the module describes.
THEOREM BillingInvariant == Spec => []BillingInv
<1>1. Init => BillingInv
  BY InitBillingInv, BillingAssumption
<1>2. BillingInv /\ [Next]_vars => BillingInv'
  BY NextBillingInv, BillingAssumption
<1> QED
  BY <1>1, <1>2, PTL DEF Spec

\* Every decision is one of the three a transaction leaves billRunOnce with.
THEOREM BillingTypeCorrect == Spec => []TypeOK
<1>1. BillingInv => TypeOK
  BY DEF BillingInv
<1> QED
  BY <1>1, BillingInvariant, PTL

\* billRunOnce bills a run at most once, whatever overlaps and however many
\* connections there are.
THEOREM BilledAtMostOnce == Spec => []OneEventPerRun
<1>1. BillingInv => OneEventPerRun
  BY DEF BillingInv
<1> QED
  BY <1>1, BillingInvariant, PTL

\* A month's free runs stay within the allowance and twice the connections.
THEOREM OverrunIsBounded == Spec => []OverrunBounded
<1>1. BillingInv => OverrunBounded
  <2> SUFFICES ASSUME BillingInv, NEW m \in 0 .. LastMonth
               PROVE  Cardinality(FreeEvents(m)) < MaxAllowance + 2 * Cardinality(Sessions)
    BY DEF OverrunBounded
  <2>1. OverrunCounted(m) /\ month \in Nat /\ m \in Nat /\ MaxAllowance \in Nat /\ MaxAllowance > 0
    BY BillingAssumption DEF BillingInv, TypeOK, BillingAssumption
  <2>2. CASE m <= month
    BY <2>1, <2>2, Counted, BillingAssumption DEF OverrunCounted
  <2>3. CASE m > month
    <3>1. FreeEvents(m) = {}
      BY <2>1, <2>3, BillingAssumption
         DEF FreeEvents, BillingInv, Dated, TypeOK, UsageEvents, BillingAssumption
    <3> QED
      BY <2>1, <3>1, Counted, BillingAssumption, FS_EmptySet
  <2> QED
    BY <2>1, <2>2, <2>3
<1> QED
  BY <1>1, BillingInvariant, PTL

\* Nobody pays the plan's price while runs of the month are still included.
THEOREM NoEarlyOverage == Spec => []OverageAfterAllowance
<1>1. BillingInv => OverageAfterAllowance
  <2> SUFFICES ASSUME BillingInv, NEW e \in events, e.price = "plan"
               PROVE  \E n \in {1} \cup Allowances :
                        Cardinality({f \in events : f.at >= e.at /\ f # e}) >= n
    BY DEF OverageAfterAllowance
  <2>1. UsedUp(e.at, events \ {e})
    BY DEF BillingInv, OverageCounted
  <2>2. {f \in events \ {e} : f.at >= e.at} = {f \in events : f.at >= e.at /\ f # e}
    BY Zenon
  <2> QED
    BY <2>1, <2>2 DEF UsedUp
<1> QED
  BY <1>1, BillingInvariant, PTL
=============================================================================
