------------------------------ MODULE CostLedger ------------------------------
(***************************************************************************)
(* The cost ledger of cost/ledger.py: one SQLite database shared by every  *)
(* process of the program, one row per paid call, and one control row that *)
(* holds the cost safety hold.  Each write of the code runs in a BEGIN     *)
(* IMMEDIATE transaction, so it is one action here; `release` reads the    *)
(* row before its transaction opens, so it is two.  Outcomes that change   *)
(* no row (a blocked, refused or repeated call) are stuttering steps.      *)
(*                                                                         *)
(* Abstractions: an amount of micro-THB is a small natural number; a       *)
(* provider usage payload is a value of Usages whose price under the       *)
(* call's stored snapshot is UsageCost[u]; `updated_at` is not kept; the   *)
(* append-only ledger_events table, which no code reads back, is left out. *)
(***************************************************************************)
EXTENDS Integers, FiniteSets

CONSTANTS
    Calls,          \* call ids
    Procs,          \* processes that open the ledger
    Periods,        \* budget months
    Fingerprints,   \* request fingerprints
    Amounts,        \* costs a quote may reserve
    Usages,         \* usage payloads a provider or the owner may report
    UsageCost,      \* the price of each of them
    Budgets,        \* values of cost.monthly_budget_thb the config may hold
    NoRow, NoUsage, NoHold, Closed, Idle

VARIABLES
    rows,       \* the calls table: a row, or NoRow, for each call id
    hold,       \* the 'safety_hold' row of ledger_control
    schema,     \* MAX(version) of schema_migrations
    budget,     \* per process: the budget it opened the ledger with, or Closed
    pend,       \* per process: what it has read and is about to act upon
    acked       \* history: the overruns recorded when the owner last acknowledged

vars == <<rows, hold, schema, budget, pend, acked>>

-------------------------------------------------------------------------------
LifecycleStatus == {"RESERVED", "IN_FLIGHT", "SETTLED", "RELEASED", "AMBIGUOUS"}
ActiveStates == {"RESERVED", "IN_FLIGHT", "AMBIGUOUS"}

Quote == [fp : Fingerprints, period : Periods, reserved : Amounts]

\* The settled cost of a row is the price of the usage it was settled with.
LedgerRecord ==
    {r \in [status : LifecycleStatus, fp : Fingerprints, period : Periods,
            reserved : Amounts, usage : Usages \cup {NoUsage}] :
        r.status = "SETTLED" <=> r.usage # NoUsage}

CostSafetyHold == [active : BOOLEAN, call : Calls]

ASSUME LedgerAssumption ==
    /\ IsFiniteSet(Calls)
    /\ Amounts \subseteq Nat
    /\ Budgets \subseteq Nat /\ Budgets # {}
    /\ UsageCost \in [Usages -> Nat]
    /\ NoUsage \notin Usages
    /\ Closed \notin Nat
    /\ NoRow \notin LedgerRecord
    /\ NoHold \notin CostSafetyHold

NewRow(q) ==
    [status |-> "RESERVED", fp |-> q.fp, period |-> q.period,
     reserved |-> q.reserved, usage |-> NoUsage]

\* Mutant of Exposure: an ambiguous call is taken for one that cost nothing.
ExposureForgetsAmbiguous(r) ==
    IF r.status = "SETTLED" THEN UsageCost[r.usage]
    ELSE IF r.status \in ActiveStates \ {"AMBIGUOUS"} THEN r.reserved ELSE 0

\* What a row counts for in its month's budget.
Exposure(r) ==
    IF r.status = "SETTLED" THEN UsageCost[r.usage]
    ELSE IF r.status \in ActiveStates THEN r.reserved ELSE 0

\* The part of it that the reservation covers.
Covered(r) == IF Exposure(r) <= r.reserved THEN Exposure(r) ELSE r.reserved

\* `integrity_error`: the settlement exceeded the reservation.
IsOverrun(r) == r # NoRow /\ r.status = "SETTLED" /\ UsageCost[r.usage] > r.reserved
Overruns == {c \in Calls : IsOverrun(rows[c])}

\* SUM(...) over the rows `amount` is defined on: each row stands for a set of
\* that many <<call, unit>> pairs.
Total(amount) == Cardinality(UNION {{c} \X (1..amount[c]) : c \in DOMAIN amount})

\* _summary_in_transaction, per month.
InPeriod(m) == {c \in Calls : rows[c] # NoRow /\ rows[c].period = m}
PeriodExposure(m) == Total([c \in InPeriod(m) |-> Exposure(rows[c])])
PeriodCovered(m) == Total([c \in InPeriod(m) |-> Covered(rows[c])])

HoldActive == hold # NoHold /\ hold.active

\* _ensure_idempotent_reservation: a second `reserve` of a known call id is
\* answered with its row, whoever inserted it, unless one of these fails.
IsIdempotentReservation(r, q) ==
    /\ r.fp = q.fp
    /\ r.period = q.period
    /\ r.reserved = q.reserved
    /\ r.status \notin {"AMBIGUOUS", "RELEASED"}

-------------------------------------------------------------------------------
\* The transactions, as changes of the two tables by a process whose budget
\* is b.  Other modules compose them with their own state.

\* Mutant of CanReserve: the budget is compared without the new amount.
CanReserveOneMore(c, q, b) ==
    rows[c] = NoRow /\ ~HoldActive /\ PeriodExposure(q.period) <= b

\* Mutant of CanReserve: the safety hold is not looked at.
CanReserveDespiteHold(c, q, b) ==
    rows[c] = NoRow /\ PeriodExposure(q.period) + q.reserved <= b

CanReserve(c, q, b) ==
    /\ rows[c] = NoRow
    /\ ~HoldActive
    /\ PeriodExposure(q.period) + q.reserved <= b

InsertRow(c, q, b) ==
    /\ CanReserve(c, q, b)
    /\ rows' = [rows EXCEPT ![c] = NewRow(q)]
    /\ UNCHANGED hold

\* _transition: a row in one of the expected states moves to the target.
Transition(c, expected, target) ==
    /\ rows[c] # NoRow
    /\ rows[c].status \in expected
    /\ rows' = [rows EXCEPT ![c].status = target]
    /\ UNCHANGED hold

\* Mutant of ReleaseFrom: a call that was sent can be released.
ReleaseFromFlight(confirmed) ==
    {"RESERVED", "IN_FLIGHT"} \cup (IF confirmed THEN {"AMBIGUOUS"} ELSE {})

ReleaseFrom(confirmed) == {"RESERVED"} \cup (IF confirmed THEN {"AMBIGUOUS"} ELSE {})

\* Mutant of SettleRow: an overrun sets no hold.
SettleRowWithoutHold(c, u) ==
    /\ rows[c] # NoRow
    /\ rows[c].status \in {"IN_FLIGHT", "AMBIGUOUS"}
    /\ rows' = [rows EXCEPT ![c].status = "SETTLED", ![c].usage = u]
    /\ UNCHANGED hold

\* Mutant of SettleRow: a settled call can be settled again.
SettleRowAgain(c, u) ==
    /\ rows[c] # NoRow
    /\ rows[c].status \in {"IN_FLIGHT", "AMBIGUOUS", "SETTLED"}
    /\ rows' = [rows EXCEPT ![c].status = "SETTLED", ![c].usage = u]
    /\ hold' = IF UsageCost[u] > rows[c].reserved
               THEN [active |-> TRUE, call |-> c] ELSE hold

\* Mutant of SettleRow: the usage is not stored with the status.
SettleRowWithoutUsage(c, u) ==
    /\ rows[c] # NoRow
    /\ rows[c].status \in {"IN_FLIGHT", "AMBIGUOUS"}
    /\ rows' = [rows EXCEPT ![c].status = "SETTLED"]
    /\ UNCHANGED hold

\* An overrun settles the row, replaces whatever hold there was, commits, and
\* only then raises CostIntegrityError.
SettleRow(c, u) ==
    /\ rows[c] # NoRow
    /\ rows[c].status \in {"IN_FLIGHT", "AMBIGUOUS"}
    /\ rows' = [rows EXCEPT ![c].status = "SETTLED", ![c].usage = u]
    /\ hold' = IF UsageCost[u] > rows[c].reserved
               THEN [active |-> TRUE, call |-> c] ELSE hold

-------------------------------------------------------------------------------
IsOpen(p) == budget[p] # Closed

Release(c, confirmed) == [op |-> "release", call |-> c, confirmed |-> confirmed]
Review == [op |-> "review"]

\* A ledger file of schema 1 has rows but no control table yet; a new file
\* has neither.  Nobody has it open.  Its rows kept their month's budget but
\* for the overruns of those days.
Init ==
    /\ \/ schema = 0 /\ rows = [c \in Calls |-> NoRow]
       \/ schema = 1 /\ rows \in [Calls -> LedgerRecord \cup {NoRow}]
    /\ \A m \in Periods : \E b \in Budgets : PeriodCovered(m) <= b
    /\ hold = NoHold
    /\ budget = [p \in Procs |-> Closed]
    /\ pend = [p \in Procs |-> Idle]
    /\ acked = {}

\* Mutant of Initialize: the migration does not look at old overruns.
InitializeWithoutHold(p) ==
    /\ ~IsOpen(p)
    /\ \E b \in Budgets : budget' = [budget EXCEPT ![p] = b]
    /\ schema' = 2
    /\ UNCHANGED <<rows, hold, pend, acked>>

\* The constructor: migrates the schema, and turns the newest overrun of a
\* schema-1 ledger (any of them here: times are not kept) into a hold.
Initialize(p) ==
    /\ ~IsOpen(p)
    /\ \E b \in Budgets : budget' = [budget EXCEPT ![p] = b]
    /\ schema' = 2
    /\ IF schema < 2 /\ Overruns # {} /\ hold = NoHold
       THEN \E c \in Overruns : hold' = [active |-> TRUE, call |-> c]
       ELSE UNCHANGED hold
    /\ UNCHANGED <<rows, pend, acked>>

Reserve(p, c) ==
    /\ IsOpen(p)
    /\ \E q \in Quote : InsertRow(c, q, budget[p])
    /\ UNCHANGED <<schema, budget, pend, acked>>

MarkInFlight(p, c) ==
    /\ IsOpen(p)
    /\ Transition(c, {"RESERVED"}, "IN_FLIGHT")
    /\ UNCHANGED <<schema, budget, pend, acked>>

MarkAmbiguous(p, c) ==
    /\ IsOpen(p)
    /\ Transition(c, {"IN_FLIGHT"}, "AMBIGUOUS")
    /\ UNCHANGED <<schema, budget, pend, acked>>

Settle(p, c) ==
    /\ IsOpen(p)
    /\ \E u \in Usages : SettleRow(c, u)
    /\ UNCHANGED <<schema, budget, pend, acked>>

\* `release`, first half: the row is read, and an ambiguous one refused
\* unless the caller brings evidence that nothing was charged.
BeginRelease(p, c, confirmed) ==
    /\ IsOpen(p) /\ pend[p] = Idle
    /\ rows[c] # NoRow
    /\ rows[c].status = "AMBIGUOUS" => confirmed
    /\ pend' = [pend EXCEPT ![p] = Release(c, confirmed)]
    /\ UNCHANGED <<rows, hold, schema, budget, acked>>

\* `release`, second half: the transaction, which looks at the row again.
FinishRelease(p) ==
    /\ IsOpen(p) /\ pend[p] # Idle /\ pend[p].op = "release"
    /\ LET c == pend[p].call
           expected == ReleaseFrom(pend[p].confirmed)
       IN \/ Transition(c, expected, "RELEASED")
          \/ rows[c].status \notin expected /\ UNCHANGED <<rows, hold>>
    /\ pend' = [pend EXCEPT ![p] = Idle]
    /\ UNCHANGED <<schema, budget, acked>>

\* The owner's explicit decision: actual usage, or evidence of no charge.
Reconcile(p, c) == Settle(p, c) \/ BeginRelease(p, c, TRUE)

\* The owner looks at the hold and at the calls behind it ...
ReviewHold(p) ==
    /\ IsOpen(p) /\ pend[p] = Idle
    /\ HoldActive
    /\ pend' = [pend EXCEPT ![p] = Review]
    /\ UNCHANGED <<rows, hold, schema, budget, acked>>

\* ... and acknowledges whatever hold is active by then.
AcknowledgeSafetyHold(p) ==
    /\ IsOpen(p) /\ pend[p] # Idle /\ pend[p].op = "review"
    /\ hold' = IF HoldActive THEN [hold EXCEPT !.active = FALSE] ELSE hold
    /\ acked' = IF HoldActive THEN Overruns ELSE acked
    /\ pend' = [pend EXCEPT ![p] = Idle]
    /\ UNCHANGED <<rows, schema, budget>>

\* The process exits or is killed; an open transaction rolls back.
Crash(p) ==
    /\ IsOpen(p)
    /\ budget' = [budget EXCEPT ![p] = Closed]
    /\ pend' = [pend EXCEPT ![p] = Idle]
    /\ UNCHANGED <<rows, hold, schema, acked>>

Next ==
    \E p \in Procs :
        \/ Initialize(p) \/ Crash(p)
        \/ ReviewHold(p) \/ AcknowledgeSafetyHold(p)
        \/ FinishRelease(p)
        \/ \E c \in Calls :
            \/ Reserve(p, c) \/ MarkInFlight(p, c) \/ MarkAmbiguous(p, c)
            \/ BeginRelease(p, c, FALSE)
            \/ Reconcile(p, c)

Spec == Init /\ [][Next]_vars

-------------------------------------------------------------------------------
Pending ==
    {Idle, Review} \cup [op : {"release"}, call : Calls, confirmed : BOOLEAN]

\* Every table and every process variable keeps the shape the code gives it,
\* and only a settled row carries a usage and a settled cost.
TypeOK ==
    /\ rows \in [Calls -> LedgerRecord \cup {NoRow}]
    /\ hold \in CostSafetyHold \cup {NoHold}
    /\ schema \in 0..2
    /\ budget \in [Procs -> Budgets \cup {Closed}]
    /\ pend \in [Procs -> Pending]
    /\ acked \in SUBSET Calls

\* The hard budget (README, M4): but for what calls cost beyond their own
\* reservation, the money a month has spent or set aside stays within a
\* configured budget, whatever the processes reserve, settle or lose.
WithinBudget ==
    \A m \in Periods : \E b \in Budgets : PeriodCovered(m) <= b

\* An overrun that the owner has not acknowledged keeps the safety hold
\* active, also when a later overrun has replaced the hold's row and when the
\* overrun is older than the hold's table.
UnackedOverrunHolds ==
    schema = 2 /\ Overruns \ acked # {} => HoldActive

\* While such an overrun is recorded, no reservation is granted to anyone.
NoGrantUnderUnackedOverrun ==
    [][\A c \in Calls :
          rows[c] = NoRow /\ rows'[c] # NoRow => Overruns \subseteq acked]_vars

\* Money set aside for a call that may have been sent stays set aside until
\* the call is settled, or an ambiguous one is released on the evidence of the
\* very process that releases it: no crash, no race with a release that read
\* an older status, gives it back.
DispatchedMoneyStays ==
    [][\A c \in Calls :
          /\ rows[c] # NoRow
          /\ rows[c].status \in {"IN_FLIGHT", "AMBIGUOUS"}
          /\ Exposure(rows'[c]) # rows[c].reserved
          => \/ rows'[c].status = "SETTLED"
             \/ /\ rows[c].status = "AMBIGUOUS"
                /\ \E p \in Procs : pend[p] = Release(c, TRUE) /\ pend'[p] = Idle]_vars

\* A settled or released row is final: no repeated settlement, late release or
\* late marking changes what was paid.
FinalRowsStay ==
    [][\A c \in Calls :
          rows[c] # NoRow /\ rows[c].status \in {"SETTLED", "RELEASED"}
          => rows'[c] = rows[c]]_vars

\* The ledger implements the owner's view of the gate.  Until it is migrated
\* an old ledger with overruns counts as shut: nobody can reserve in it.
Gate == INSTANCE BudgetGate WITH
            exposure <- [m \in Periods |-> PeriodExposure(m)],
            frozen <- HoldActive \/ (schema < 2 /\ Overruns # {})

ImplementsBudgetGate == Gate!Spec
===============================================================================
