--------------------------- MODULE CostLedgerProofs ---------------------------
(***************************************************************************)
(* Proofs about CostLedger, for every set of calls, processes, months,     *)
(* amounts and budgets.                                                    *)
(***************************************************************************)
EXTENDS CostLedger, FiniteSetTheorems, TLAPS

-------------------------------------------------------------------------------
(* Sums. *)

Money(amount) == UNION {{c} \X (1..amount[c]) : c \in DOMAIN amount}

\* A row stands for as many units as its amount, and these are finitely many.
LEMMA RowUnits ==
    ASSUME NEW c, NEW n \in Nat
    PROVE  IsFiniteSet({c} \X (1..n)) /\ Cardinality({c} \X (1..n)) = n
<1>1. IsFiniteSet({c}) /\ Cardinality({c}) = 1
  BY FS_Singleton
<1>2. IsFiniteSet(1..n) /\ Cardinality(1..n) = n
  BY FS_Interval
<1> DEFINE One == {c}
           Upto == 1..n
<1> HIDE DEF One, Upto
<1>3. IsFiniteSet(One) /\ IsFiniteSet(Upto) /\ Cardinality(One) = 1 /\ Cardinality(Upto) = n
  BY <1>1, <1>2 DEF One, Upto
<1>4. IsFiniteSet(One \X Upto) /\ Cardinality(One \X Upto) = Cardinality(One) * Cardinality(Upto)
  BY <1>3, FS_Product
<1>5. Cardinality(One \X Upto) = n
  BY <1>3, <1>4
<1> QED
  BY <1>4, <1>5 DEF One, Upto

\* A sum over finitely many rows is a natural number.
LEMMA TotalType ==
    ASSUME NEW D, IsFiniteSet(D), NEW f \in [D -> Nat]
    PROVE  IsFiniteSet(Money(f)) /\ Total(f) \in Nat
<1> DEFINE Row(c) == {c} \X (1..f[c])
           Parts == {Row(c) : c \in D}
<1>1. IsFiniteSet(Parts)
  <2> DEFINE h == [c \in D |-> Row(c)]
  <2>1. h \in Surjection(D, Parts)
    BY DEF Surjection
  <2> HIDE DEF h, Parts
  <2> QED BY <2>1, FS_Surjection
<1>2. \A T \in Parts : IsFiniteSet(T)
  <2>1. SUFFICES ASSUME NEW c \in D PROVE IsFiniteSet(Row(c))
    OBVIOUS
  <2>2. f[c] \in Nat
    OBVIOUS
  <2> QED BY <2>2, RowUnits
<1>3. IsFiniteSet(UNION Parts)
  BY <1>1, <1>2, FS_UNION
<1>4. Money(f) = UNION Parts
  BY DEF Money
<1> QED
  BY <1>3, <1>4, FS_CardinalityType DEF Total, Money

\* Fewer rows with smaller amounts sum up to no more.
LEMMA TotalMonotone ==
    ASSUME NEW D, NEW E, IsFiniteSet(E), D \subseteq E,
           NEW f \in [D -> Nat], NEW g \in [E -> Nat],
           \A c \in D : f[c] <= g[c]
    PROVE  Total(f) <= Total(g)
<1>1. Money(f) \subseteq Money(g)
  BY DEF Money
<1>2. IsFiniteSet(Money(g))
  BY TotalType
<1> QED
  BY <1>1, <1>2, FS_Subset DEF Total, Money

\* One more row adds at most its own amount.
LEMMA TotalAddRow ==
    ASSUME NEW D, IsFiniteSet(D), NEW E, NEW c \in E, E \subseteq D \cup {c},
           NEW f \in [D -> Nat], NEW g \in [E -> Nat],
           \A d \in E \ {c} : g[d] <= f[d]
    PROVE  Total(g) <= Total(f) + g[c]
<1> DEFINE New == {c} \X (1..g[c])
<1>1. Money(g) \subseteq Money(f) \cup New
  BY DEF Money
<1>2. IsFiniteSet(New) /\ Cardinality(New) = g[c]
  BY RowUnits
<1>3. IsFiniteSet(Money(f)) /\ Cardinality(Money(f)) \in Nat
  BY TotalType, FS_CardinalityType
<1>4. /\ IsFiniteSet(Money(f) \cup New)
      /\ Cardinality(Money(f) \cup New) <= Cardinality(Money(f)) + g[c]
  <2>1. Cardinality(Money(f) \cap New) \in Nat
    BY <1>3, FS_Intersection, FS_CardinalityType
  <2> HIDE DEF New
  <2>2. /\ IsFiniteSet(Money(f) \cup New)
        /\ Cardinality(Money(f) \cup New)
             = Cardinality(Money(f)) + Cardinality(New) - Cardinality(Money(f) \cap New)
    BY <1>2, <1>3, FS_Union
  <2>3. g[c] \in Nat
    OBVIOUS
  <2> QED BY <1>2, <1>3, <2>1, <2>2, <2>3
<1>5. Cardinality(Money(g)) <= Cardinality(Money(f) \cup New)
  BY <1>1, <1>4, FS_Subset
<1>6. Cardinality(Money(g)) \in Nat /\ Cardinality(Money(f) \cup New) \in Nat
  BY <1>1, <1>4, FS_Subset, FS_CardinalityType
<1> HIDE DEF New
<1> QED
  BY <1>3, <1>4, <1>5, <1>6 DEF Total, Money

\* A row that grows while none shrinks makes the sum grow.
LEMMA TotalGrows ==
    ASSUME NEW D, IsFiniteSet(D), NEW c \in D,
           NEW f \in [D -> Nat], NEW g \in [D -> Nat],
           \A d \in D : f[d] <= g[d], f[c] < g[c]
    PROVE  Total(f) < Total(g)
<1>1. Money(f) \subseteq Money(g)
  BY DEF Money
<1>2. <<c, g[c]>> \in Money(g) /\ <<c, g[c]>> \notin Money(f)
  BY DEF Money
<1>3. IsFiniteSet(Money(g)) /\ IsFiniteSet(Money(f))
  BY TotalType
<1>4. Cardinality(Money(f)) # Cardinality(Money(g))
  BY <1>1, <1>2, <1>3, FS_Subset
<1>5. Cardinality(Money(f)) <= Cardinality(Money(g))
  BY <1>1, <1>3, FS_Subset
<1> QED
  BY <1>3, <1>4, <1>5, FS_CardinalityType DEF Total, Money

-------------------------------------------------------------------------------
(* The table's rows. *)

\* What a row counts for is a natural number, and the part its reservation
\* covers is neither more than that nor more than the reservation.
LEMMA RowAmounts ==
    ASSUME NEW r \in LedgerRecord
    PROVE  /\ r.reserved \in Nat
           /\ Exposure(r) \in Nat
           /\ Covered(r) \in Nat
           /\ Covered(r) <= Exposure(r)
           /\ Covered(r) <= r.reserved
<1>1. r.reserved \in Nat /\ r.status \in LifecycleStatus
  BY LedgerAssumption DEF LedgerRecord
<1>2. r.status = "SETTLED" => UsageCost[r.usage] \in Nat
  BY LedgerAssumption DEF LedgerRecord
<1>3. Exposure(r) \in Nat
  BY <1>1, <1>2 DEF Exposure
<1> QED
  BY <1>1, <1>3 DEF Covered

\* The rows of a month are finitely many calls.
LEMMA PeriodRows ==
    ASSUME NEW m, rows \in [Calls -> LedgerRecord \cup {NoRow}]
    PROVE  /\ IsFiniteSet(InPeriod(m))
           /\ InPeriod(m) \subseteq Calls
           /\ \A c \in InPeriod(m) : rows[c] \in LedgerRecord
<1>1. InPeriod(m) \subseteq Calls
  BY DEF InPeriod
<1> QED
  BY <1>1, FS_Subset, LedgerAssumption DEF InPeriod

\* Each transaction keeps the table well formed.
LEMMA InsertRowType ==
    ASSUME rows \in [Calls -> LedgerRecord \cup {NoRow}],
           NEW c \in Calls, NEW q \in Quote, NEW b, InsertRow(c, q, b)
    PROVE  rows' \in [Calls -> LedgerRecord \cup {NoRow}]
<1>1. NewRow(q) \in LedgerRecord
  BY LedgerAssumption DEF NewRow, Quote, LedgerRecord, LifecycleStatus
<1> QED
  BY <1>1 DEF InsertRow

\* CostLedger._transition keeps the table well formed, whatever the states.
LEMMA TransitionType ==
    ASSUME rows \in [Calls -> LedgerRecord \cup {NoRow}],
           NEW c \in Calls, NEW expected, NEW target,
           "SETTLED" \notin expected, target \in LifecycleStatus \ {"SETTLED"},
           Transition(c, expected, target)
    PROVE  /\ rows' \in [Calls -> LedgerRecord \cup {NoRow}]
           /\ rows[c] \in LedgerRecord /\ rows'[c] \in LedgerRecord
           /\ rows'[c].status = target
           /\ rows'[c].period = rows[c].period
           /\ rows'[c].reserved = rows[c].reserved
           /\ \A d \in Calls \ {c} : rows'[d] = rows[d]
<1>1. rows[c] \in LedgerRecord /\ rows[c].status # "SETTLED"
  BY DEF Transition
<1>2. [rows[c] EXCEPT !.status = target] \in LedgerRecord
  BY <1>1 DEF LedgerRecord
<1>3. rows' = [rows EXCEPT ![c] = [rows[c] EXCEPT !.status = target]]
  BY DEF Transition
<1>4. rows'[c] = [rows[c] EXCEPT !.status = target]
  BY <1>3
<1>5. rows' \in [Calls -> LedgerRecord \cup {NoRow}]
  BY <1>2, <1>3
<1>6. /\ rows'[c].status = target
      /\ rows'[c].period = rows[c].period
      /\ rows'[c].reserved = rows[c].reserved
  BY <1>1, <1>4 DEF LedgerRecord
<1> QED
  BY <1>1, <1>2, <1>3, <1>4, <1>5, <1>6

\* A settlement keeps the table well formed and settles the row it names.
LEMMA SettleRowType ==
    ASSUME rows \in [Calls -> LedgerRecord \cup {NoRow}],
           NEW c \in Calls, NEW u \in Usages, SettleRow(c, u)
    PROVE  /\ rows' \in [Calls -> LedgerRecord \cup {NoRow}]
           /\ rows[c] \in LedgerRecord /\ rows'[c] \in LedgerRecord
           /\ rows'[c].status = "SETTLED"
           /\ rows'[c].usage = u
           /\ rows'[c].period = rows[c].period
           /\ rows'[c].reserved = rows[c].reserved
           /\ \A d \in Calls \ {c} : rows'[d] = rows[d]
<1>1. rows[c] \in LedgerRecord
  BY DEF SettleRow
<1> DEFINE settled == [rows[c] EXCEPT !.status = "SETTLED", !.usage = u]
<1>2. settled \in LedgerRecord
  BY <1>1, LedgerAssumption DEF LedgerRecord, LifecycleStatus
<1>3. rows' = [rows EXCEPT ![c] = settled]
  BY DEF SettleRow
<1>4. /\ settled.status = "SETTLED"
      /\ settled.usage = u
      /\ settled.period = rows[c].period
      /\ settled.reserved = rows[c].reserved
  BY <1>1 DEF LedgerRecord
<1> HIDE DEF settled
<1>5. rows'[c] = settled
  BY <1>3
<1> QED
  BY <1>1, <1>2, <1>3, <1>4, <1>5

-------------------------------------------------------------------------------
(* Type correctness. *)

\* A process that is about to finish a release has read a call.
LEMMA PendingRelease ==
    ASSUME TypeOK, NEW p \in Procs, pend[p] # Idle, pend[p].op = "release"
    PROVE  pend[p].call \in Calls /\ pend[p].confirmed \in BOOLEAN
<1>1. pend[p] \in Pending
  BY DEF TypeOK
<1> QED
  BY <1>1 DEF Pending, Review

\* The initial ledger, new or of schema 1, is well formed.
LEMMA InitType == Init => TypeOK
<1> SUFFICES ASSUME Init PROVE TypeOK
  OBVIOUS
<1>1. rows \in [Calls -> LedgerRecord \cup {NoRow}]
  BY DEF Init
<1> QED
  BY <1>1 DEF Init, TypeOK, Pending

\* Every action keeps the ledger and the processes well formed.
LEMMA NextType == TypeOK /\ [Next]_vars => TypeOK'
<1> SUFFICES ASSUME TypeOK, [Next]_vars PROVE TypeOK'
  OBVIOUS
<1> USE DEF TypeOK
<1>1. ASSUME NEW p \in Procs, Initialize(p) PROVE TypeOK'
  <2>1. hold' \in CostSafetyHold \cup {NoHold}
    <3>1. CASE UNCHANGED hold
      BY <3>1
    <3>2. CASE \E c \in Overruns : hold' = [active |-> TRUE, call |-> c]
      <4>1. PICK c \in Overruns : hold' = [active |-> TRUE, call |-> c]
        BY <3>2
      <4>2. c \in Calls
        BY DEF Overruns
      <4> QED BY <4>1, <4>2 DEF CostSafetyHold
    <3> QED BY <1>1, <3>1, <3>2 DEF Initialize
  <2> QED BY <1>1, <2>1 DEF Initialize
<1>2. ASSUME NEW p \in Procs, Crash(p) PROVE TypeOK'
  BY <1>2 DEF Crash, Pending
<1>3. ASSUME NEW p \in Procs, ReviewHold(p) PROVE TypeOK'
  <2>1. Review \in Pending
    BY DEF Pending
  <2> QED BY <1>3, <2>1 DEF ReviewHold
<1>4. ASSUME NEW p \in Procs, AcknowledgeSafetyHold(p) PROVE TypeOK'
  <2>1. hold' \in CostSafetyHold \cup {NoHold}
    BY <1>4 DEF AcknowledgeSafetyHold, HoldActive, CostSafetyHold
  <2>2. acked' \in SUBSET Calls
    BY <1>4 DEF AcknowledgeSafetyHold, Overruns
  <2>3. pend' \in [Procs -> Pending]
    BY <1>4 DEF AcknowledgeSafetyHold, Pending
  <2> QED BY <1>4, <2>1, <2>2, <2>3 DEF AcknowledgeSafetyHold
<1>5. ASSUME NEW p \in Procs, FinishRelease(p) PROVE TypeOK'
  <2>1. pend[p].call \in Calls
    BY <1>5, PendingRelease DEF FinishRelease
  <2>2. rows' \in [Calls -> LedgerRecord \cup {NoRow}]
    <3>1. CASE Transition(pend[p].call, ReleaseFrom(pend[p].confirmed), "RELEASED")
      BY <2>1, <3>1, TransitionType DEF ReleaseFrom, LifecycleStatus
    <3>2. CASE UNCHANGED <<rows, hold>>
      BY <3>2
    <3> QED BY <1>5, <3>1, <3>2 DEF FinishRelease
  <2>3. UNCHANGED hold
    BY <1>5 DEF FinishRelease, Transition
  <2>4. pend' \in [Procs -> Pending]
    BY <1>5 DEF FinishRelease, Pending
  <2> QED BY <1>5, <2>2, <2>3, <2>4 DEF FinishRelease
<1>6. ASSUME NEW p \in Procs, NEW c \in Calls, Reserve(p, c) PROVE TypeOK'
  <2>1. rows' \in [Calls -> LedgerRecord \cup {NoRow}] /\ UNCHANGED hold
    BY <1>6, InsertRowType DEF Reserve, InsertRow
  <2> QED BY <1>6, <2>1 DEF Reserve
<1>7. ASSUME NEW p \in Procs, NEW c \in Calls,
             MarkInFlight(p, c) \/ MarkAmbiguous(p, c)
      PROVE  TypeOK'
  <2>1. rows' \in [Calls -> LedgerRecord \cup {NoRow}] /\ UNCHANGED hold
    BY <1>7, TransitionType DEF MarkInFlight, MarkAmbiguous, Transition, LifecycleStatus
  <2> QED BY <1>7, <2>1 DEF MarkInFlight, MarkAmbiguous
<1>8. ASSUME NEW p \in Procs, NEW c \in Calls, NEW f \in BOOLEAN, BeginRelease(p, c, f)
      PROVE  TypeOK'
  <2>1. Release(c, f) \in Pending
    BY DEF Release, Pending
  <2> QED BY <1>8, <2>1 DEF BeginRelease
<1>9. ASSUME NEW p \in Procs, NEW c \in Calls, Settle(p, c) PROVE TypeOK'
  <2>1. PICK u \in Usages : SettleRow(c, u)
    BY <1>9 DEF Settle
  <2>2. rows' \in [Calls -> LedgerRecord \cup {NoRow}]
    BY <2>1, SettleRowType
  <2>3. hold' \in CostSafetyHold \cup {NoHold}
    BY <2>1 DEF SettleRow, CostSafetyHold
  <2> QED BY <1>9, <2>2, <2>3 DEF Settle
<1>10. CASE UNCHANGED vars
  BY <1>10 DEF vars
<1> QED
  BY <1>1, <1>2, <1>3, <1>4, <1>5, <1>6, <1>7, <1>8, <1>9, <1>10 DEF Next, Reconcile

\* Type correctness: in every reachable state of any instance, every table and
\* process variable keeps its shape.
THEOREM TypeCorrect == Spec => []TypeOK
<1> QED
  BY InitType, NextType, PTL DEF Spec

-------------------------------------------------------------------------------
(* What a step does to the sums of a month. *)

\* A step that changes one existing row, within its month, moves the sums of
\* that month with the row and leaves the other months alone.
LEMMA OneRowChanges ==
    ASSUME rows \in [Calls -> LedgerRecord \cup {NoRow}],
           rows' \in [Calls -> LedgerRecord \cup {NoRow}],
           NEW c \in Calls,
           rows[c] \in LedgerRecord, rows'[c] \in LedgerRecord,
           rows'[c].period = rows[c].period,
           \A d \in Calls \ {c} : rows'[d] = rows[d],
           NEW m
    PROVE  /\ Covered(rows'[c]) <= Covered(rows[c])
              => PeriodCovered(m)' <= PeriodCovered(m)
           /\ Exposure(rows'[c]) <= Exposure(rows[c])
              => PeriodExposure(m)' <= PeriodExposure(m)
           /\ Exposure(rows'[c]) > Exposure(rows[c]) /\ m = rows[c].period
              => PeriodExposure(m)' > PeriodExposure(m)
           /\ m # rows[c].period => PeriodExposure(m)' = PeriodExposure(m)
<1> DEFINE D == InPeriod(m)
           cov  == [d \in D |-> Covered(rows[d])]
           covN == [d \in D |-> Covered(rows'[d])]
           exp  == [d \in D |-> Exposure(rows[d])]
           expN == [d \in D |-> Exposure(rows'[d])]
<1>1. InPeriod(m)' = D
  BY LedgerAssumption DEF InPeriod
<1>2. IsFiniteSet(D) /\ D \subseteq Calls
  BY PeriodRows
<1>3. \A d \in D : rows[d] \in LedgerRecord /\ rows'[d] \in LedgerRecord
  BY <1>2 DEF InPeriod
<1>4. /\ cov \in [D -> Nat] /\ covN \in [D -> Nat]
      /\ exp \in [D -> Nat] /\ expN \in [D -> Nat]
  BY <1>3, RowAmounts
<1>5. /\ PeriodCovered(m) = Total(cov) /\ PeriodCovered(m)' = Total(covN)
      /\ PeriodExposure(m) = Total(exp) /\ PeriodExposure(m)' = Total(expN)
  BY <1>1 DEF PeriodCovered, PeriodExposure, Total, Covered, Exposure
<1>6. ASSUME Covered(rows'[c]) <= Covered(rows[c])
      PROVE  PeriodCovered(m)' <= PeriodCovered(m)
  <2>1. \A d \in D : covN[d] <= cov[d]
    BY <1>2, <1>3, <1>6, RowAmounts
  <2> HIDE DEF D, cov, covN
  <2> QED BY <1>2, <1>4, <1>5, <2>1, TotalMonotone
<1>7. ASSUME Exposure(rows'[c]) <= Exposure(rows[c])
      PROVE  PeriodExposure(m)' <= PeriodExposure(m)
  <2>1. \A d \in D : expN[d] <= exp[d]
    BY <1>2, <1>3, <1>7, RowAmounts
  <2> HIDE DEF D, exp, expN
  <2> QED BY <1>2, <1>4, <1>5, <2>1, TotalMonotone
<1>8. ASSUME Exposure(rows'[c]) > Exposure(rows[c]), m = rows[c].period
      PROVE  PeriodExposure(m)' > PeriodExposure(m)
  <2>1. c \in D
    BY <1>8, LedgerAssumption DEF InPeriod
  <2>2. \A d \in D : exp[d] <= expN[d]
    BY <1>2, <1>3, <1>8, RowAmounts
  <2>3. exp[c] < expN[c]
    BY <1>3, <1>8, <2>1, RowAmounts
  <2>4. Total(exp) < Total(expN)
    <3> HIDE DEF D, exp, expN
    <3> QED BY <1>2, <1>4, <2>1, <2>2, <2>3, TotalGrows
  <2>5. Total(exp) \in Nat /\ Total(expN) \in Nat
    <3> HIDE DEF D, exp, expN
    <3> QED BY <1>2, <1>4, TotalType
  <2> QED BY <1>5, <2>4, <2>5
<1>9. ASSUME m # rows[c].period
      PROVE  PeriodExposure(m)' = PeriodExposure(m)
  <2>1. c \notin D
    BY <1>9 DEF InPeriod
  <2>2. exp = expN
    BY <1>2, <2>1
  <2> QED BY <1>5, <2>2
<1> QED
  BY <1>6, <1>7, <1>8, <1>9

\* A granted reservation leaves what it adds to within the budget it was
\* checked against, and the other months alone.
LEMMA GrantWithinBudget ==
    ASSUME rows \in [Calls -> LedgerRecord \cup {NoRow}],
           NEW c \in Calls, NEW q \in Quote, NEW b \in Nat, InsertRow(c, q, b),
           NEW m
    PROVE  /\ m = q.period => PeriodExposure(m)' <= b /\ PeriodCovered(m)' <= b
           /\ m # q.period => /\ PeriodExposure(m)' = PeriodExposure(m)
                              /\ PeriodCovered(m)' = PeriodCovered(m)
<1> DEFINE D == InPeriod(m)
           exp  == [d \in D |-> Exposure(rows[d])]
<1>1. /\ rows' \in [Calls -> LedgerRecord \cup {NoRow}]
      /\ rows'[c] = NewRow(q) /\ NewRow(q) \in LedgerRecord
      /\ \A d \in Calls \ {c} : rows'[d] = rows[d]
      /\ c \notin D
  BY InsertRowType, LedgerAssumption
     DEF InsertRow, CanReserve, NewRow, Quote, LedgerRecord, LifecycleStatus, InPeriod
<1>2. Exposure(NewRow(q)) = q.reserved /\ NewRow(q).period = q.period
  BY DEF Exposure, NewRow, ActiveStates
<1>3. IsFiniteSet(D) /\ D \subseteq Calls /\ \A d \in D : rows[d] \in LedgerRecord
  BY PeriodRows
<1>4. exp \in [D -> Nat]
  BY <1>3, RowAmounts
<1>5. ASSUME m = q.period PROVE PeriodExposure(m)' <= b /\ PeriodCovered(m)' <= b
  <2> DEFINE E == D \cup {c}
             expN == [d \in E |-> Exposure(rows'[d])]
             covN == [d \in E |-> Covered(rows'[d])]
  <2>1. InPeriod(m)' = E
    BY <1>1, <1>2, <1>5, LedgerAssumption DEF InPeriod
  <2>2. \A d \in E : rows'[d] \in LedgerRecord
    BY <1>1, <1>3
  <2>3. expN \in [E -> Nat] /\ covN \in [E -> Nat]
    BY <2>2, RowAmounts
  <2>4. \A d \in E \ {c} : expN[d] <= exp[d]
    BY <1>1, <1>3, RowAmounts
  <2>5. expN[c] = q.reserved
    BY <1>1, <1>2
  <2>6. \A d \in E : covN[d] <= expN[d]
    BY <2>2, RowAmounts
  <2>7. IsFiniteSet(E)
    BY <1>3, FS_AddElement
  <2>8. PeriodExposure(m)' = Total(expN) /\ PeriodCovered(m)' = Total(covN)
    BY <2>1 DEF PeriodCovered, PeriodExposure, Total, Covered, Exposure
  <2>9. Total(exp) + q.reserved <= b
    BY <1>5 DEF InsertRow, CanReserve, PeriodExposure
  <2>10. c \in E /\ E \subseteq D \cup {c}
    OBVIOUS
  <2> HIDE DEF D, E, exp, expN, covN
  <2>11. Total(expN) <= Total(exp) + q.reserved
    BY <1>3, <1>4, <2>3, <2>4, <2>5, <2>10, TotalAddRow
  <2>12. Total(covN) <= Total(expN)
    BY <2>3, <2>6, <2>7, TotalMonotone
  <2>13. Total(exp) \in Nat /\ Total(expN) \in Nat /\ Total(covN) \in Nat
    BY <1>3, <1>4, <2>3, <2>7, TotalType
  <2>14. q.reserved \in Nat
    BY LedgerAssumption DEF Quote
  <2> QED BY <2>8, <2>9, <2>11, <2>12, <2>13, <2>14
<1>6. ASSUME m # q.period
      PROVE  PeriodExposure(m)' = PeriodExposure(m) /\ PeriodCovered(m)' = PeriodCovered(m)
  <2>1. InPeriod(m)' = D
    BY <1>1, <1>2, <1>6 DEF InPeriod
  <2>2. \A d \in D : rows'[d] = rows[d]
    BY <1>1, <1>3
  <2> DEFINE expN == [d \in D |-> Exposure(rows'[d])]
             cov == [d \in D |-> Covered(rows[d])]
             covN == [d \in D |-> Covered(rows'[d])]
  <2>3. expN = exp /\ covN = cov
    BY <2>2
  <2>4. PeriodExposure(m)' = Total(expN) /\ PeriodCovered(m)' = Total(covN)
    BY <2>1 DEF PeriodCovered, PeriodExposure, Total, Covered, Exposure
  <2>5. PeriodExposure(m) = Total(exp) /\ PeriodCovered(m) = Total(cov)
    BY DEF PeriodCovered, PeriodExposure
  <2> HIDE DEF D, exp, expN, cov, covN
  <2> QED BY <2>3, <2>4, <2>5
<1> QED
  BY <1>5, <1>6

-------------------------------------------------------------------------------
(* The inductive invariant.  WithinBudget and UnackedOverrunHolds are not     *)
(* inductive without the fact that nobody works on a ledger before it is      *)
(* migrated: an old ledger may hold an overrun and no hold yet.               *)

MigrationFirst ==
    schema < 2 => hold = NoHold /\ acked = {} /\ \A p \in Procs : ~IsOpen(p)

LedgerInv == TypeOK /\ WithinBudget /\ UnackedOverrunHolds /\ MigrationFirst

(* The four kinds of step.                                                    *)

Grants(p, c, q) ==
    /\ IsOpen(p) /\ InsertRow(c, q, budget[p])
    /\ UNCHANGED <<schema, budget, acked>>

Moves(c) ==
    /\ \/ Transition(c, {"RESERVED"}, "IN_FLIGHT")
       \/ Transition(c, {"IN_FLIGHT"}, "AMBIGUOUS")
       \/ \E f \in BOOLEAN : Transition(c, ReleaseFrom(f), "RELEASED")
    /\ UNCHANGED <<schema, budget, acked>>

Settles(c, u) == SettleRow(c, u) /\ UNCHANGED <<schema, budget, acked>>

Quiet ==
    /\ UNCHANGED rows
    /\ \/ \E p \in Procs : Initialize(p) \/ Crash(p) \/ AcknowledgeSafetyHold(p)
       \/ UNCHANGED <<hold, schema, budget, acked>>

\* Every step grants, moves or settles one row of a migrated ledger, or touches
\* no row.
LEMMA StepKinds ==
    ASSUME TypeOK, MigrationFirst, [Next]_vars
    PROVE  \/ Quiet
           \/ /\ schema = 2
              /\ \E c \in Calls :
                    \/ \E p \in Procs, q \in Quote : Grants(p, c, q)
                    \/ Moves(c)
                    \/ \E u \in Usages : Settles(c, u)
<1>1. \A p \in Procs : IsOpen(p) => schema = 2
  BY DEF TypeOK, MigrationFirst
<1>2. ASSUME NEW p \in Procs,
             Initialize(p) \/ Crash(p) \/ ReviewHold(p) \/ AcknowledgeSafetyHold(p)
      PROVE  Quiet
  BY <1>2 DEF Quiet, Initialize, Crash, ReviewHold, AcknowledgeSafetyHold
<1>3. ASSUME NEW p \in Procs, FinishRelease(p)
      PROVE  Quiet \/ (schema = 2 /\ \E c \in Calls : Moves(c))
  <2>1. pend[p].call \in Calls /\ pend[p].confirmed \in BOOLEAN /\ schema = 2
    BY <1>1, <1>3, PendingRelease DEF FinishRelease
  <2>2. CASE Transition(pend[p].call, ReleaseFrom(pend[p].confirmed), "RELEASED")
    BY <1>3, <2>1, <2>2 DEF FinishRelease, Moves
  <2>3. CASE UNCHANGED <<rows, hold>>
    BY <1>3, <2>3 DEF FinishRelease, Quiet
  <2> QED BY <1>3, <2>2, <2>3 DEF FinishRelease
<1>4. ASSUME NEW p \in Procs, NEW c \in Calls, Reserve(p, c)
      PROVE  schema = 2 /\ \E q \in Quote : Grants(p, c, q)
  BY <1>1, <1>4 DEF Reserve, Grants
<1>5. ASSUME NEW p \in Procs, NEW c \in Calls, MarkInFlight(p, c) \/ MarkAmbiguous(p, c)
      PROVE  schema = 2 /\ Moves(c)
  BY <1>1, <1>5 DEF MarkInFlight, MarkAmbiguous, Moves
<1>6. ASSUME NEW p \in Procs, NEW c \in Calls, Settle(p, c)
      PROVE  schema = 2 /\ \E u \in Usages : Settles(c, u)
  BY <1>1, <1>6 DEF Settle, Settles
<1>7. ASSUME NEW p \in Procs, NEW c \in Calls, NEW f \in BOOLEAN, BeginRelease(p, c, f)
      PROVE  Quiet
  BY <1>7 DEF BeginRelease, Quiet
<1>8. CASE UNCHANGED vars
  BY <1>8 DEF vars, Quiet
<1>9. ASSUME NEW p \in Procs, NEW c \in Calls, Reconcile(p, c)
      PROVE  Settle(p, c) \/ BeginRelease(p, c, TRUE)
  BY <1>9 DEF Reconcile
<1> QED
  BY <1>2, <1>3, <1>4, <1>5, <1>6, <1>7, <1>8, <1>9 DEF Next

\* What a move of a row amounts to: its exposure never grows, and it neither
\* becomes nor was an overrun.
LEMMA MoveEffect ==
    ASSUME TypeOK, NEW c \in Calls, Moves(c)
    PROVE  /\ rows' \in [Calls -> LedgerRecord \cup {NoRow}]
           /\ rows[c] \in LedgerRecord /\ rows'[c] \in LedgerRecord
           /\ rows[c].status \in ActiveStates
           /\ rows'[c].status # "SETTLED"
           /\ rows'[c].period = rows[c].period
           /\ \A d \in Calls \ {c} : rows'[d] = rows[d]
           /\ Exposure(rows'[c]) <= Exposure(rows[c])
           /\ Covered(rows'[c]) <= Covered(rows[c])
           /\ Overruns' = Overruns
           /\ UNCHANGED hold
<1>1. PICK expected, target :
        /\ Transition(c, expected, target)
        /\ expected \subseteq ActiveStates
        /\ target \in LifecycleStatus \ {"SETTLED"}
  <2>1. CASE Transition(c, {"RESERVED"}, "IN_FLIGHT")
    BY <2>1 DEF ActiveStates, LifecycleStatus
  <2>2. CASE Transition(c, {"IN_FLIGHT"}, "AMBIGUOUS")
    BY <2>2 DEF ActiveStates, LifecycleStatus
  <2>3. CASE \E f \in BOOLEAN : Transition(c, ReleaseFrom(f), "RELEASED")
    <3>1. PICK f \in BOOLEAN : Transition(c, ReleaseFrom(f), "RELEASED")
      BY <2>3
    <3>2. ReleaseFrom(f) \subseteq ActiveStates
      BY DEF ReleaseFrom, ActiveStates
    <3> QED BY <3>1, <3>2 DEF LifecycleStatus
  <2> QED BY <2>1, <2>2, <2>3 DEF Moves
<1>2. "SETTLED" \notin expected
  BY <1>1 DEF ActiveStates
<1>3. /\ rows' \in [Calls -> LedgerRecord \cup {NoRow}]
      /\ rows[c] \in LedgerRecord /\ rows'[c] \in LedgerRecord
      /\ rows'[c].status = target
      /\ rows'[c].period = rows[c].period
      /\ rows'[c].reserved = rows[c].reserved
      /\ \A d \in Calls \ {c} : rows'[d] = rows[d]
  BY <1>1, <1>2, TransitionType DEF TypeOK
<1>4. rows[c].status \in ActiveStates
  BY <1>1 DEF Transition
<1>5. Exposure(rows[c]) = rows[c].reserved
  BY <1>4 DEF Exposure, ActiveStates
<1>6. Exposure(rows'[c]) \in {rows[c].reserved, 0}
  BY <1>1, <1>3 DEF Exposure
<1>7. rows[c].reserved \in Nat
  BY <1>3, RowAmounts
<1>8. Exposure(rows'[c]) <= Exposure(rows[c]) /\ Covered(rows'[c]) <= Covered(rows[c])
  BY <1>3, <1>5, <1>6, <1>7 DEF Covered
<1>9. Overruns' = Overruns
  <2>1. ~IsOverrun(rows[c]) /\ ~IsOverrun(rows'[c])
    BY <1>1, <1>3, <1>4 DEF IsOverrun, ActiveStates
  <2>2. \A d \in Calls : IsOverrun(rows'[d]) <=> IsOverrun(rows[d])
    BY <1>3, <2>1
  <2>3. Overruns' = {d \in Calls : IsOverrun(rows'[d])}
    BY DEF Overruns, IsOverrun
  <2> QED BY <2>2, <2>3 DEF Overruns
<1> QED
  BY <1>1, <1>3, <1>4, <1>8, <1>9 DEF Transition

\* What a settlement amounts to: within the reservation it lowers the exposure
\* and leaves the hold; beyond it, it raises the exposure and the hold.
LEMMA SettleEffect ==
    ASSUME TypeOK, NEW c \in Calls, NEW u \in Usages, Settles(c, u)
    PROVE  /\ rows' \in [Calls -> LedgerRecord \cup {NoRow}]
           /\ rows[c] \in LedgerRecord /\ rows'[c] \in LedgerRecord
           /\ rows[c].status \in ActiveStates
           /\ rows'[c].status = "SETTLED"
           /\ rows'[c].period = rows[c].period
           /\ \A d \in Calls \ {c} : rows'[d] = rows[d]
           /\ Covered(rows'[c]) <= Covered(rows[c])
           /\ UsageCost[u] \in Nat /\ rows[c].reserved \in Nat
           /\ UsageCost[u] <= rows[c].reserved =>
                /\ Exposure(rows'[c]) <= Exposure(rows[c])
                /\ UNCHANGED hold
                /\ Overruns' = Overruns
           /\ UsageCost[u] > rows[c].reserved =>
                /\ Exposure(rows'[c]) > Exposure(rows[c])
                /\ HoldActive'
<1>1. /\ rows' \in [Calls -> LedgerRecord \cup {NoRow}]
      /\ rows[c] \in LedgerRecord /\ rows'[c] \in LedgerRecord
      /\ rows'[c].status = "SETTLED"
      /\ rows'[c].usage = u
      /\ rows'[c].period = rows[c].period
      /\ rows'[c].reserved = rows[c].reserved
      /\ \A d \in Calls \ {c} : rows'[d] = rows[d]
  BY SettleRowType DEF TypeOK, Settles
<1>2. rows[c].status \in ActiveStates /\ rows[c].status # "SETTLED"
  BY DEF Settles, SettleRow, ActiveStates
<1>3. /\ Exposure(rows[c]) = rows[c].reserved
      /\ Exposure(rows'[c]) = UsageCost[u]
  BY <1>1, <1>2 DEF Exposure
<1>4. UsageCost[u] \in Nat /\ rows[c].reserved \in Nat
  BY <1>1, RowAmounts, LedgerAssumption
<1>5. Covered(rows'[c]) <= Covered(rows[c])
  BY <1>1, <1>3, <1>4 DEF Covered
<1>6. UsageCost[u] > rows[c].reserved => HoldActive'
  <2>1. [active |-> TRUE, call |-> c] # NoHold
    <3>1. [active |-> TRUE, call |-> c] \in CostSafetyHold
      BY DEF CostSafetyHold
    <3> HIDE DEF CostSafetyHold
    <3> QED BY <3>1, LedgerAssumption
  <2> QED BY <2>1 DEF Settles, SettleRow, HoldActive
<1>7. UsageCost[u] <= rows[c].reserved => UNCHANGED hold /\ Overruns' = Overruns
  <2> SUFFICES ASSUME UsageCost[u] <= rows[c].reserved
               PROVE  UNCHANGED hold /\ Overruns' = Overruns
    OBVIOUS
  <2>1. UNCHANGED hold
    BY <1>4 DEF Settles, SettleRow
  <2>2. ~IsOverrun(rows[c]) /\ ~IsOverrun(rows'[c])
    BY <1>1, <1>2, <1>4 DEF IsOverrun
  <2>3. \A d \in Calls : IsOverrun(rows'[d]) <=> IsOverrun(rows[d])
    BY <1>1, <2>2
  <2>4. Overruns' = {d \in Calls : IsOverrun(rows'[d])}
    BY DEF Overruns, IsOverrun
  <2> QED BY <2>1, <2>3, <2>4 DEF Overruns
<1> QED
  BY <1>1, <1>2, <1>3, <1>4, <1>5, <1>6, <1>7

-------------------------------------------------------------------------------
(* Safety. *)

\* The inductive invariant holds of a new ledger and of any old one that
\* initialize has not migrated yet.
LEMMA InitInv == Init => LedgerInv
<1> SUFFICES ASSUME Init PROVE LedgerInv
  OBVIOUS
<1>1. Overruns \subseteq Calls
  BY DEF Overruns
<1> QED
  BY <1>1, InitType
     DEF Init, LedgerInv, WithinBudget, UnackedOverrunHolds, MigrationFirst, IsOpen

\* No step takes a month past a configured budget: only a grant adds to what
\* reservations cover, and it is checked against the sum it adds to.
LEMMA NextWithinBudget ==
    ASSUME LedgerInv, [Next]_vars
    PROVE  WithinBudget'
<1> USE DEF LedgerInv
<1> SUFFICES ASSUME NEW m \in Periods
             PROVE  \E b \in Budgets : PeriodCovered(m)' <= b
  BY DEF WithinBudget
<1>1. PICK b \in Budgets : PeriodCovered(m) <= b
  BY DEF WithinBudget
<1>2. b \in Nat
  BY LedgerAssumption
<1>3. PeriodCovered(m) \in Nat
  <2>1. IsFiniteSet(InPeriod(m)) /\ \A c \in InPeriod(m) : rows[c] \in LedgerRecord
    BY PeriodRows DEF TypeOK
  <2>2. [c \in InPeriod(m) |-> Covered(rows[c])] \in [InPeriod(m) -> Nat]
    BY <2>1, RowAmounts
  <2> QED BY <2>1, <2>2, TotalType DEF PeriodCovered
<1>4. TypeOK'
  BY NextType
<1>5. ASSUME PeriodCovered(m)' <= PeriodCovered(m)
      PROVE  PeriodCovered(m)' <= b
  <2>1. PeriodCovered(m)' \in Nat
    <3>1. IsFiniteSet(InPeriod(m)') /\ \A c \in InPeriod(m)' : rows'[c] \in LedgerRecord
      <4>1. InPeriod(m)' \subseteq Calls
        BY DEF InPeriod
      <4> QED BY <1>4, <4>1, FS_Subset, LedgerAssumption DEF TypeOK, InPeriod
    <3>2. [c \in InPeriod(m)' |-> Covered(rows'[c])] \in [InPeriod(m)' -> Nat]
      BY <3>1, RowAmounts
    <3>3. PeriodCovered(m)' = Total([c \in InPeriod(m)' |-> Covered(rows'[c])])
      BY DEF PeriodCovered, Total, Covered, Exposure
    <3> QED BY <3>1, <3>2, <3>3, TotalType
  <2> QED BY <1>1, <1>2, <1>3, <1>5, <2>1
<1>6. CASE Quiet
  <2>1. PeriodCovered(m)' = PeriodCovered(m)
    BY <1>6 DEF Quiet, PeriodCovered, InPeriod, Covered, Exposure, Total
  <2> QED BY <1>1, <2>1
<1>7. ASSUME NEW c \in Calls, NEW p \in Procs, NEW q \in Quote, Grants(p, c, q)
      PROVE  \E b2 \in Budgets : PeriodCovered(m)' <= b2
  <2>1. budget[p] \in Budgets /\ budget[p] \in Nat
    BY <1>7, LedgerAssumption DEF Grants, IsOpen, TypeOK
  <2>2. CASE m = q.period
    BY <1>7, <2>1, <2>2, GrantWithinBudget DEF Grants, TypeOK
  <2>3. CASE m # q.period
    BY <1>1, <1>7, <2>1, <2>3, GrantWithinBudget DEF Grants, TypeOK
  <2> QED BY <2>2, <2>3
<1>8. ASSUME NEW c \in Calls, Moves(c)
      PROVE  PeriodCovered(m)' <= b
  BY <1>5, <1>8, MoveEffect, OneRowChanges DEF TypeOK
<1>9. ASSUME NEW c \in Calls, NEW u \in Usages, Settles(c, u)
      PROVE  PeriodCovered(m)' <= b
  BY <1>5, <1>9, SettleEffect, OneRowChanges DEF TypeOK
<1> QED
  BY <1>6, <1>7, <1>8, <1>9, StepKinds

\* A grant leaves the overruns and the hold alone.
LEMMA GrantEffect ==
    ASSUME TypeOK, NEW c \in Calls, NEW p \in Procs, NEW q \in Quote, Grants(p, c, q)
    PROVE  /\ Overruns' = Overruns
           /\ ~HoldActive
           /\ UNCHANGED hold
<1>1. /\ rows[c] = NoRow
      /\ rows'[c] = NewRow(q)
      /\ \A d \in Calls \ {c} : rows'[d] = rows[d]
  BY DEF Grants, InsertRow, CanReserve, TypeOK
<1>2. ~IsOverrun(rows[c]) /\ ~IsOverrun(rows'[c])
  BY <1>1 DEF IsOverrun, NewRow
<1>3. \A d \in Calls : IsOverrun(rows'[d]) <=> IsOverrun(rows[d])
  BY <1>1, <1>2
<1>4. Overruns' = {d \in Calls : IsOverrun(rows'[d])}
  BY DEF Overruns, IsOverrun
<1> QED
  BY <1>3, <1>4 DEF Overruns, Grants, InsertRow, CanReserve

\* Nothing but the owner's acknowledgement lowers a hold, nothing but a
\* settlement makes an overrun, and that settlement raises the hold; the
\* migration raises it for the overruns it finds.
LEMMA NextHold ==
    ASSUME LedgerInv, [Next]_vars
    PROVE  UnackedOverrunHolds' /\ MigrationFirst'
<1> USE DEF LedgerInv
<1>1. CASE Quiet
  <2>1. Overruns' = Overruns
    BY <1>1 DEF Quiet, Overruns, IsOverrun
  <2>2. ASSUME NEW p \in Procs, Initialize(p)
        PROVE  UnackedOverrunHolds' /\ MigrationFirst'
    <3>1. schema' = 2 /\ acked' = acked
      BY <2>2 DEF Initialize
    <3>2. CASE UNCHANGED hold
      <4>1. HoldActive' = HoldActive
        BY <3>2 DEF HoldActive
      <4>2. schema < 2 => Overruns = {}
        <5> SUFFICES ASSUME schema < 2, Overruns # {} PROVE FALSE
          OBVIOUS
        <5>1. hold = NoHold
          BY DEF MigrationFirst
        <5>2. PICK c \in Overruns : hold' = [active |-> TRUE, call |-> c]
          BY <2>2, <5>1 DEF Initialize
        <5>3. hold' \in CostSafetyHold
          BY <5>2 DEF CostSafetyHold, Overruns
        <5> QED BY <3>2, <5>1, <5>3, LedgerAssumption
      <4> QED BY <2>1, <3>1, <4>1, <4>2 DEF UnackedOverrunHolds, MigrationFirst, TypeOK
    <3>3. CASE \E c \in Overruns : hold' = [active |-> TRUE, call |-> c]
      <4>1. PICK c \in Overruns : hold' = [active |-> TRUE, call |-> c]
        BY <3>3
      <4>2. hold' \in CostSafetyHold
        BY <4>1 DEF CostSafetyHold, Overruns
      <4>3. HoldActive'
        BY <4>1, <4>2, LedgerAssumption DEF HoldActive
      <4> QED BY <3>1, <4>3 DEF UnackedOverrunHolds, MigrationFirst
    <3> QED BY <2>2, <3>2, <3>3 DEF Initialize
  <2>3. ASSUME NEW p \in Procs, Crash(p)
        PROVE  UnackedOverrunHolds' /\ MigrationFirst'
    BY <2>1, <2>3 DEF Crash, UnackedOverrunHolds, MigrationFirst, HoldActive, IsOpen
  <2>4. ASSUME NEW p \in Procs, AcknowledgeSafetyHold(p)
        PROVE  UnackedOverrunHolds' /\ MigrationFirst'
    <3>1. schema = 2 /\ schema' = schema
      BY <2>4 DEF AcknowledgeSafetyHold, MigrationFirst, TypeOK
    <3>2. CASE HoldActive
      <4>1. acked' = Overruns
        BY <2>4, <3>2 DEF AcknowledgeSafetyHold
      <4> QED BY <2>1, <3>1, <4>1 DEF UnackedOverrunHolds, MigrationFirst
    <3>3. CASE ~HoldActive
      <4>1. hold' = hold /\ acked' = acked
        BY <2>4, <3>3 DEF AcknowledgeSafetyHold
      <4> QED BY <2>1, <3>1, <4>1 DEF UnackedOverrunHolds, MigrationFirst, HoldActive
    <3> QED BY <3>2, <3>3
  <2>5. CASE UNCHANGED <<hold, schema, budget, acked>>
    BY <2>1, <2>5 DEF UnackedOverrunHolds, MigrationFirst, HoldActive, IsOpen
  <2> QED BY <1>1, <2>2, <2>3, <2>4, <2>5 DEF Quiet
<1>2. ASSUME schema = 2, UNCHANGED <<schema, acked>>, Overruns' = Overruns, UNCHANGED hold
      PROVE  UnackedOverrunHolds' /\ MigrationFirst'
  BY <1>2 DEF UnackedOverrunHolds, MigrationFirst, HoldActive
<1>3. ASSUME schema = 2, NEW c \in Calls, NEW p \in Procs, NEW q \in Quote, Grants(p, c, q)
      PROVE  UnackedOverrunHolds' /\ MigrationFirst'
  BY <1>2, <1>3, GrantEffect DEF Grants
<1>4. ASSUME schema = 2, NEW c \in Calls, Moves(c)
      PROVE  UnackedOverrunHolds' /\ MigrationFirst'
  BY <1>2, <1>4, MoveEffect DEF Moves
<1>5. ASSUME schema = 2, NEW c \in Calls, NEW u \in Usages, Settles(c, u)
      PROVE  UnackedOverrunHolds' /\ MigrationFirst'
  <2>1. schema' = 2 /\ UNCHANGED <<schema, acked>>
    BY <1>5 DEF Settles
  <2>2. UsageCost[u] \in Nat /\ rows[c].reserved \in Nat
    BY <1>5, SettleEffect
  <2>3. CASE UsageCost[u] <= rows[c].reserved
    BY <1>2, <1>5, <2>1, <2>3, SettleEffect
  <2>4. CASE UsageCost[u] > rows[c].reserved
    BY <1>5, <2>1, <2>4, SettleEffect DEF UnackedOverrunHolds, MigrationFirst
  <2> QED BY <2>2, <2>3, <2>4
<1> QED
  BY <1>1, <1>3, <1>4, <1>5, StepKinds

\* Every transaction of the ledger keeps the inductive invariant.
LEMMA InvInductive == LedgerInv /\ [Next]_vars => LedgerInv'
  BY NextType, NextWithinBudget, NextHold DEF LedgerInv

\* The inductive invariant holds throughout: the safety theorems below read
\* their claims off it.
LEMMA InvHolds == Spec => []LedgerInv
  BY InitInv, InvInductive, PTL DEF Spec

\* The hard budget: but for what calls cost beyond their own reservation, no
\* month ever exceeds a configured budget.
THEOREM BudgetHolds == Spec => []WithinBudget
<1>1. LedgerInv => WithinBudget
  BY DEF LedgerInv
<1> QED
  BY <1>1, InvHolds, PTL

\* An overrun the owner has not acknowledged keeps the safety hold active.
THEOREM SafetyHoldHolds == Spec => []UnackedOverrunHolds
<1>1. LedgerInv => UnackedOverrunHolds
  BY DEF LedgerInv
<1> QED
  BY <1>1, InvHolds, PTL

\* No reservation is granted while an overrun is unacknowledged.
THEOREM NoGrantUnderOverrun == Spec => NoGrantUnderUnackedOverrun
<1>1. ASSUME LedgerInv, [Next]_vars,
             NEW c \in Calls, rows[c] = NoRow, rows'[c] # NoRow
      PROVE  Overruns \subseteq acked
  <2>1. TypeOK /\ MigrationFirst /\ UnackedOverrunHolds
    BY <1>1 DEF LedgerInv
  <2>2. CASE Quiet
    BY <1>1, <2>2 DEF Quiet
  <2>3. ASSUME schema = 2, NEW d \in Calls, NEW p \in Procs, NEW q \in Quote,
               Grants(p, d, q)
        PROVE  Overruns \subseteq acked
    BY <2>1, <2>3, GrantEffect DEF UnackedOverrunHolds
  <2>4. ASSUME NEW d \in Calls, Moves(d) PROVE FALSE
    <3>1. rows[d] # NoRow
      BY <2>1, <2>4, MoveEffect, LedgerAssumption
    <3> QED BY <1>1, <2>1, <2>4, <3>1, MoveEffect
  <2>5. ASSUME NEW d \in Calls, NEW u \in Usages, Settles(d, u) PROVE FALSE
    <3>1. rows[d] # NoRow
      BY <2>5 DEF Settles, SettleRow
    <3> QED BY <1>1, <2>1, <2>5, <3>1, SettleEffect
  <2> QED
    BY <1>1, <2>1, <2>2, <2>3, <2>4, <2>5, StepKinds
<1>2. LedgerInv /\ [Next]_vars
      => [\A c \in Calls :
            rows[c] = NoRow /\ rows'[c] # NoRow => Overruns \subseteq acked]_vars
  BY <1>1
<1> QED
  BY <1>2, InvHolds, PTL DEF Spec, NoGrantUnderUnackedOverrun

\* Settled and released rows are final.
THEOREM FinalRows == Spec => FinalRowsStay
<1>1. ASSUME LedgerInv, [Next]_vars,
             NEW c \in Calls, rows[c] # NoRow, rows[c].status \in {"SETTLED", "RELEASED"}
      PROVE  rows'[c] = rows[c]
  <2>1. TypeOK /\ MigrationFirst
    BY <1>1 DEF LedgerInv
  <2>2. CASE Quiet
    BY <2>2 DEF Quiet
  <2>3. ASSUME NEW d \in Calls, NEW p \in Procs, NEW q \in Quote, Grants(p, d, q)
        PROVE  rows'[c] = rows[c]
    BY <1>1, <2>1, <2>3 DEF Grants, InsertRow, CanReserve, TypeOK
  <2>4. ASSUME NEW d \in Calls, Moves(d)
        PROVE  rows'[c] = rows[c]
    BY <1>1, <2>1, <2>4, MoveEffect DEF ActiveStates
  <2>5. ASSUME NEW d \in Calls, NEW u \in Usages, Settles(d, u)
        PROVE  rows'[c] = rows[c]
    BY <1>1, <2>1, <2>5, SettleEffect DEF ActiveStates
  <2> QED
    BY <1>1, <2>1, <2>2, <2>3, <2>4, <2>5, StepKinds
<1>2. LedgerInv /\ [Next]_vars
      => [\A c \in Calls :
            rows[c] # NoRow /\ rows[c].status \in {"SETTLED", "RELEASED"}
            => rows'[c] = rows[c]]_vars
  BY <1>1
<1> QED
  BY <1>2, InvHolds, PTL DEF Spec, FinalRowsStay

\* Money set aside for a call that may have been sent stays set aside until the
\* call is settled, or an ambiguous one released by a process with evidence.
THEOREM DispatchedMoney == Spec => DispatchedMoneyStays
<1> DEFINE Evidence(c) ==
      \/ rows'[c].status = "SETTLED"
      \/ /\ rows[c].status = "AMBIGUOUS"
         /\ \E p \in Procs : pend[p] = Release(c, TRUE) /\ pend'[p] = Idle
<1>1. ASSUME TypeOK, [Next]_vars, NEW c \in Calls, rows[c] # NoRow,
             rows[c].status \in {"IN_FLIGHT", "AMBIGUOUS"},
             Exposure(rows'[c]) # rows[c].reserved
      PROVE  Evidence(c)
  <2>1. rows'[c] # rows[c]
    BY <1>1 DEF Exposure, ActiveStates
  <2>2. rows # rows'
    BY <2>1
  <2>3. ASSUME NEW p \in Procs, FinishRelease(p) PROVE Evidence(c)
    <3>1. Transition(pend[p].call, ReleaseFrom(pend[p].confirmed), "RELEASED")
      BY <2>2, <2>3 DEF FinishRelease
    <3>2. pend[p].call \in Calls /\ pend[p].confirmed \in BOOLEAN
      BY <1>1, <2>3, PendingRelease DEF FinishRelease
    <3>3. pend[p].call = c
      BY <1>1, <2>1, <3>1 DEF Transition, TypeOK
    <3>4. rows[c].status = "AMBIGUOUS" /\ pend[p].confirmed = TRUE
      BY <1>1, <3>1, <3>2, <3>3 DEF Transition, ReleaseFrom
    <3>5. pend[p] \in [op : {"release"}, call : Calls, confirmed : BOOLEAN]
      <4>1. pend[p] \in Pending /\ pend[p] # Idle /\ pend[p].op = "release"
        BY <1>1, <2>3 DEF TypeOK, FinishRelease
      <4> QED BY <4>1 DEF Pending, Review
    <3>6. pend[p] = Release(c, TRUE)
      BY <3>3, <3>4, <3>5 DEF Release
    <3>7. pend'[p] = Idle
      BY <1>1, <2>3 DEF FinishRelease, TypeOK
    <3> QED BY <3>4, <3>6, <3>7
  <2>4. ASSUME NEW d \in Calls, NEW q \in Quote, NEW b, InsertRow(d, q, b) PROVE FALSE
    BY <1>1, <2>1, <2>4 DEF InsertRow, CanReserve, TypeOK
  <2>5. ASSUME NEW d \in Calls,
               \/ Transition(d, {"RESERVED"}, "IN_FLIGHT")
               \/ Transition(d, {"IN_FLIGHT"}, "AMBIGUOUS")
        PROVE  FALSE
    <3>1. PICK s \in {"RESERVED", "IN_FLIGHT"}, t \in {"IN_FLIGHT", "AMBIGUOUS"} :
            Transition(d, {s}, t)
      BY <2>5
    <3>2. d = c
      BY <1>1, <2>1, <3>1 DEF Transition, TypeOK
    <3>3. rows'[c].status = t /\ rows'[c].reserved = rows[c].reserved
      BY <1>1, <3>1, <3>2, TransitionType DEF TypeOK, LifecycleStatus
    <3> QED BY <1>1, <3>3 DEF Exposure, ActiveStates
  <2>6. ASSUME NEW d \in Calls, NEW u \in Usages, SettleRow(d, u) PROVE Evidence(c)
    <3>1. d = c
      BY <1>1, <2>1, <2>6 DEF SettleRow, TypeOK
    <3> QED BY <1>1, <2>6, <3>1, SettleRowType DEF TypeOK
  <2>7. CASE UNCHANGED rows
    BY <2>2, <2>7
  <2> QED
    BY <1>1, <2>3, <2>4, <2>5, <2>6, <2>7
       DEF Next, vars, Initialize, Crash, ReviewHold, AcknowledgeSafetyHold, Reserve,
           MarkInFlight, MarkAmbiguous, BeginRelease, Reconcile, Settle
<1>2. TypeOK /\ [Next]_vars
      => [\A c \in Calls :
            /\ rows[c] # NoRow
            /\ rows[c].status \in {"IN_FLIGHT", "AMBIGUOUS"}
            /\ Exposure(rows'[c]) # rows[c].reserved
            => \/ rows'[c].status = "SETTLED"
               \/ /\ rows[c].status = "AMBIGUOUS"
                  /\ \E p \in Procs : pend[p] = Release(c, TRUE) /\ pend'[p] = Idle]_vars
  BY <1>1
<1> QED
  BY <1>2, TypeCorrect, PTL DEF Spec, DispatchedMoneyStays

-------------------------------------------------------------------------------
(* Refinement: the ledger implements BudgetGate. *)

\* What a month counts for is a natural number.
LEMMA PeriodExposureType ==
    ASSUME rows \in [Calls -> LedgerRecord \cup {NoRow}]
    PROVE  [m \in Periods |-> PeriodExposure(m)] \in [Periods -> Nat]
<1> SUFFICES ASSUME NEW m \in Periods PROVE PeriodExposure(m) \in Nat
  OBVIOUS
<1>1. IsFiniteSet(InPeriod(m)) /\ \A c \in InPeriod(m) : rows[c] \in LedgerRecord
  BY PeriodRows
<1>2. [c \in InPeriod(m) |-> Exposure(rows[c])] \in [InPeriod(m) -> Nat]
  BY <1>1, RowAmounts
<1> QED
  BY <1>1, <1>2, TotalType DEF PeriodExposure

\* Every initial ledger maps to an initial gate.
LEMMA RefinementInit == Init => Gate!Init
<1> SUFFICES ASSUME Init PROVE Gate!Init
  OBVIOUS
<1>1. rows \in [Calls -> LedgerRecord \cup {NoRow}] /\ hold = NoHold
  BY InitType DEF TypeOK, Init
<1>2. [m \in Periods |-> PeriodExposure(m)] \in [Periods -> Nat]
  BY <1>1, PeriodExposureType
<1>3. (HoldActive \/ (schema < 2 /\ Overruns # {})) \in BOOLEAN
  BY <1>1 DEF HoldActive
<1> QED
  BY <1>2, <1>3 DEF Gate!Init

\* Every step maps to a step of the gate or to a stutter: a grant commits, a
\* move or a settlement within the reservation gives back, a settlement beyond
\* it overruns, an acknowledgement reopens, and the migration of a ledger with
\* overruns turns one way of being shut into the other.
LEMMA RefinementNext == LedgerInv /\ [Next]_vars => [Gate!Next]_(Gate!vars)
<1> SUFFICES ASSUME LedgerInv, [Next]_vars PROVE [Gate!Next]_(Gate!vars)
  OBVIOUS
<1> DEFINE exp == [m \in Periods |-> PeriodExposure(m)]
           frz == HoldActive \/ (schema < 2 /\ Overruns # {})
<1>1. TypeOK /\ MigrationFirst /\ TypeOK'
  BY NextType DEF LedgerInv
<1>2. exp \in [Periods -> Nat]
  BY <1>1, PeriodExposureType DEF TypeOK
<1>3. exp' \in [Periods -> Nat]
  <2> SUFFICES ASSUME NEW m \in Periods PROVE PeriodExposure(m)' \in Nat
    OBVIOUS
  <2>1. rows' \in [Calls -> LedgerRecord \cup {NoRow}]
    BY <1>1 DEF TypeOK
  <2>2. IsFiniteSet(InPeriod(m)') /\ \A c \in InPeriod(m)' : rows'[c] \in LedgerRecord
    <3>1. InPeriod(m)' \subseteq Calls
      BY DEF InPeriod
    <3> QED BY <2>1, <3>1, FS_Subset, LedgerAssumption DEF InPeriod
  <2>3. [c \in InPeriod(m)' |-> Exposure(rows'[c])] \in [InPeriod(m)' -> Nat]
    BY <2>2, RowAmounts
  <2>4. PeriodExposure(m)' = Total([c \in InPeriod(m)' |-> Exposure(rows'[c])])
    BY DEF PeriodExposure, Total, Exposure
  <2> QED BY <2>2, <2>3, <2>4, TotalType
<1>4. \A m \in Periods : exp[m] = PeriodExposure(m) /\ exp'[m] = PeriodExposure(m)'
  OBVIOUS
<1>5. CASE Quiet
  <2>1. exp' = exp
    BY <1>5 DEF Quiet, PeriodExposure, InPeriod, Exposure, Total
  <2>2. Overruns' = Overruns
    BY <1>5 DEF Quiet, Overruns, IsOverrun
  <2>3. ASSUME NEW p \in Procs, Initialize(p) PROVE frz' = frz
    <3>1. schema' = 2
      BY <2>3 DEF Initialize
    <3>2. CASE schema < 2 /\ Overruns # {}
      <4>1. hold = NoHold
        BY <1>1, <3>2 DEF MigrationFirst
      <4>2. PICK c \in Overruns : hold' = [active |-> TRUE, call |-> c]
        BY <2>3, <3>2, <4>1 DEF Initialize
      <4>3. hold' \in CostSafetyHold
        BY <4>2 DEF CostSafetyHold, Overruns
      <4>4. HoldActive' = TRUE
        BY <4>2, <4>3, LedgerAssumption DEF HoldActive
      <4> QED BY <3>2, <4>4
    <3>3. CASE ~(schema < 2 /\ Overruns # {})
      <4>1. hold' = hold
        BY <2>3, <3>3 DEF Initialize
      <4> QED BY <3>1, <3>3, <4>1 DEF HoldActive
    <3> QED BY <3>2, <3>3
  <2>4. ASSUME NEW p \in Procs, Crash(p) PROVE frz' = frz
    BY <2>2, <2>4 DEF Crash, HoldActive
  <2>5. ASSUME NEW p \in Procs, AcknowledgeSafetyHold(p)
        PROVE  frz' = frz \/ (frz /\ frz' = FALSE)
    <3>1. schema = 2 /\ schema' = 2
      BY <1>1, <2>5 DEF AcknowledgeSafetyHold, MigrationFirst, TypeOK
    <3>2. CASE HoldActive
      <4>1. hold' = [hold EXCEPT !.active = FALSE] /\ hold \in CostSafetyHold
        BY <1>1, <2>5, <3>2 DEF AcknowledgeSafetyHold, HoldActive, TypeOK
      <4>2. HoldActive' = FALSE
        BY <4>1 DEF HoldActive, CostSafetyHold
      <4> QED BY <3>1, <3>2, <4>2
    <3>3. CASE ~HoldActive
      <4>1. hold' = hold
        BY <2>5, <3>3 DEF AcknowledgeSafetyHold
      <4> QED BY <3>1, <4>1 DEF HoldActive
    <3> QED BY <3>2, <3>3
  <2>6. ASSUME UNCHANGED <<hold, schema, budget, acked>> PROVE frz' = frz
    BY <2>2, <2>6 DEF HoldActive
  <2>7. frz' = frz \/ (frz /\ frz' = FALSE)
    <3> HIDE DEF frz
    <3> QED BY <1>5, <2>3, <2>4, <2>5, <2>6 DEF Quiet
  <2> QED BY <2>1, <2>7 DEF Gate!Next, Gate!vars, Gate!Reopen
<1>6. ASSUME schema = 2, NEW c \in Calls, NEW p \in Procs, NEW q \in Quote, Grants(p, c, q)
      PROVE  Gate!Commit(q.period) /\ q.period \in Periods
  <2>1. q.period \in Periods
    BY DEF Quote
  <2>2. budget[p] \in Budgets /\ budget[p] \in Nat
    BY <1>1, <1>6, LedgerAssumption DEF Grants, IsOpen, TypeOK
  <2>3. frz = FALSE /\ frz' = frz
    BY <1>1, <1>6, GrantEffect DEF Grants, HoldActive
  <2>4. exp'[q.period] <= budget[p]
    BY <1>1, <1>4, <1>6, <2>1, <2>2, GrantWithinBudget DEF Grants, TypeOK
  <2>5. \A m \in Periods \ {q.period} : exp'[m] = exp[m]
    BY <1>1, <1>4, <1>6, <2>2, GrantWithinBudget DEF Grants, TypeOK
  <2> QED BY <1>3, <2>1, <2>2, <2>3, <2>4, <2>5 DEF Gate!Commit, Gate!OnlyMonth
<1>7. ASSUME schema = 2, NEW c \in Calls, rows[c] \in LedgerRecord,
             rows'[c] \in LedgerRecord, rows'[c].period = rows[c].period,
             \A d \in Calls \ {c} : rows'[d] = rows[d],
             UNCHANGED <<schema, hold>>,
             Exposure(rows'[c]) <= Exposure(rows[c])
      PROVE  Gate!GiveBack(rows[c].period) /\ rows[c].period \in Periods
  <2>1. rows[c].period \in Periods
    BY <1>7 DEF LedgerRecord
  <2>2. frz' = frz
    BY <1>7 DEF HoldActive
  <2>3. exp'[rows[c].period] <= exp[rows[c].period]
    BY <1>1, <1>4, <1>7, <2>1, OneRowChanges DEF TypeOK
  <2>4. \A m \in Periods \ {rows[c].period} : exp'[m] = exp[m]
    BY <1>1, <1>4, <1>7, OneRowChanges DEF TypeOK
  <2> QED BY <1>3, <2>1, <2>2, <2>3, <2>4 DEF Gate!GiveBack, Gate!OnlyMonth
<1>8. ASSUME schema = 2, NEW c \in Calls, Moves(c)
      PROVE  Gate!GiveBack(rows[c].period) /\ rows[c].period \in Periods
  BY <1>1, <1>7, <1>8, MoveEffect DEF Moves
<1>9. ASSUME schema = 2, NEW c \in Calls, NEW u \in Usages, Settles(c, u)
      PROVE  /\ Gate!GiveBack(rows[c].period) \/ Gate!Overrun(rows[c].period)
             /\ rows[c].period \in Periods
  <2>1. UsageCost[u] \in Nat /\ rows[c].reserved \in Nat
    BY <1>1, <1>9, SettleEffect
  <2>2. CASE UsageCost[u] <= rows[c].reserved
    BY <1>1, <1>7, <1>9, <2>2, SettleEffect DEF Settles
  <2>3. CASE UsageCost[u] > rows[c].reserved
    <3>1. rows[c].period \in Periods
      BY <1>1, <1>9, SettleEffect DEF LedgerRecord
    <3>2. frz' = TRUE
      BY <1>1, <1>9, <2>3, SettleEffect
    <3>3. exp'[rows[c].period] > exp[rows[c].period]
      BY <1>1, <1>4, <1>9, <2>3, <3>1, SettleEffect, OneRowChanges DEF TypeOK
    <3>4. \A m \in Periods \ {rows[c].period} : exp'[m] = exp[m]
      BY <1>1, <1>4, <1>9, SettleEffect, OneRowChanges DEF TypeOK
    <3> QED BY <1>3, <3>1, <3>2, <3>3, <3>4 DEF Gate!Overrun, Gate!OnlyMonth
  <2> QED BY <2>1, <2>2, <2>3
<1> QED
  BY <1>1, <1>5, <1>6, <1>8, <1>9, StepKinds DEF Gate!Next

\* The ledger implements the owner's view of the gate.
THEOREM Refinement == Spec => ImplementsBudgetGate
<1> QED
  BY RefinementInit, RefinementNext, InvHolds, PTL
     DEF Spec, ImplementsBudgetGate, Gate!Spec
===============================================================================
