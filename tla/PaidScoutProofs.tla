---------------------------- MODULE PaidScoutProofs ----------------------------
(***************************************************************************)
(* Theorems about the single-request scout for any configurations, any     *)
(* number of uploads and any budgets: its types; that a charge counts and  *)
(* a first call is charged once; that reservations are given back;         *)
(* when a remote copy is forgotten; and that all it does to the ledger is  *)
(* what the ledger allows, so that the ledger's promises hold for it.      *)
(*                                                                         *)
(* Four invariants, each inductive given those before it: PlaceInv (what   *)
(* the run holds at each place), MoneyInv (the row of its call, and the    *)
(* owner's pending release), CopyInv (the remote copy, its metadata and    *)
(* the stage record) and FaultInv (what had to fail for a copy to be left  *)
(* without a name).  OpenInv adds, for the use of the ledger, that a run   *)
(* has it open.                                                            *)
(***************************************************************************)
EXTENDS PaidScout, FiniteSetTheorems, TLAPS

\* Places of a run: with a call; with a copy of its own; with an answer;
\* before anything is sent; with the stage started.
Called == {"reserve", "upload", "record", "wait", "mark", "generate", "tidy", "receipt",
           "store", "settle", "handle", "money", "releasing"}
Uploaded == {"record", "wait", "mark", "generate", "tidy", "receipt", "handle", "store"}
Answered == {"store", "settle", "canonicalize", "publish", "complete"}
Early == {"idle", "look", "cleanup", "cleaned", "decide", "call", "reserve"}
Unsent == {"reserve", "upload", "record", "wait", "mark", "generate"}
Started == Labels \ {"idle", "look", "cleanup", "cleaned", "decide"}

PlaceInv ==
    /\ TypeOK
    /\ pc # "idle" => job.config \in Configs
    /\ pc \in Called => job.call \in CallIds
    /\ pc \in Uploaded => job.copy \in 1..uploads
    /\ pc \in Answered => job.answer \in RawFile
    /\ pc \in {"tidy", "receipt"} /\ ~job.failed => job.answer \in RawFile
    /\ pc \in {"cleanup", "cleaned"} => remote # NoFile
    /\ remote # NoFile => remote.copy \in 1..uploads

Sent == {"IN_FLIGHT", "AMBIGUOUS", "SETTLED"}

MoneyInv ==
    /\ ChargedCallsCount
    /\ BaseChargedOnce
    /\ ReservationsGivenBack
    /\ job.inFlight => job.call \in CallIds /\ Status(job.call) \in Sent
    /\ job.reserved => job.call \in CallIds
    /\ pc = "generate" => job.inFlight
    /\ pc \in Early => ~job.reserved /\ ~job.inFlight
    /\ pc \in Unsent /\ job.call[2] = 0 => charged[job.call] = 0
    /\ pend[Runner] = IF pc = "releasing" THEN L!Release(job.call, FALSE) ELSE Idle
    /\ pc # "idle" => pend[Owner] = Idle
    /\ \/ pend[Owner] = Idle \/ pend[Owner] = L!Review
       \/ \E c \in CallIds : charged[c] = 0 /\ pend[Owner] = L!Release(c, TRUE)

CopyInv ==
    /\ CleanupClaimIsTrue
    /\ remote # NoFile /\ remote.deletion = "deleted" => remote.copy \notin copies
    /\ pc = "cleaned" => remote.copy \notin copies
    /\ pc = "receipt" /\ job.cleanup = "COMPLETED" => job.copy \notin copies
    /\ pc \in Answered /\ job.cleanup = "COMPLETED" =>
         remote # NoFile /\ remote.copy \notin copies
    /\ pc \in Started => stage.status = "RUNNING"

FaultInv ==
    /\ OnlyFaultsStrandACopy
    /\ pc \in Early \cup {"upload"} => job.copy = NoFile
    /\ pc \in {"wait", "mark", "generate"} => CopyIsNamed
    /\ pc \in {"tidy", "receipt"} => CopyIsNamed \/ "record" \in job.faults
    /\ pc = "receipt" /\ job.copy \in copies => "delete" \in job.faults

IInv == PlaceInv /\ MoneyInv /\ CopyInv /\ FaultInv

-------------------------------------------------------------------------------
(* What the transactions do to the rows. *)

Rows == [CallIds -> L!LedgerRecord \cup {NoRow}]

\* One call's row moves to status s, or none does.
Moves(c, s) ==
    /\ Status(c)' = s
    /\ \A d \in CallIds \ {c} : Status(d)' = Status(d)
NoneMoves == \A d \in CallIds : Status(d)' = Status(d)

\* A status is one of the ledger's or stands for no row.
LEMMA Statuses ==
    ASSUME rows \in Rows, NEW c \in CallIds
    PROVE  /\ rows[c] = NoRow => Status(c) = "none"
           /\ rows[c] # NoRow => Status(c) = rows[c].status /\ rows[c] \in L!LedgerRecord
                                 /\ Status(c) \in L!LifecycleStatus
           /\ Status(c) # "none" => rows[c] # NoRow
  BY DEF Rows, Status, L!LedgerRecord, L!LifecycleStatus

\* A row that is replaced by another record.
LEMMA Replaced ==
    ASSUME rows \in Rows, NEW c \in CallIds, NEW r \in L!LedgerRecord,
           rows' = [rows EXCEPT ![c] = r]
    PROVE  rows' \in Rows /\ Moves(c, r.status)
  <1>1. rows' \in Rows /\ rows'[c] = r /\ r # NoRow
    BY PaidLedgerAssumption DEF Rows
  <1>2. Status(c)' = r.status
    BY <1>1 DEF Status
  <1>3. \A d \in CallIds \ {c} : rows'[d] = rows[d]
    BY DEF Rows
  <1>4. \A d \in CallIds \ {c} : Status(d)' = Status(d)
    BY <1>3 DEF Status
  <1> QED BY <1>1, <1>2, <1>4 DEF Moves

\* Rows that stay.
LEMMA Same == ASSUME rows' = rows PROVE NoneMoves
  BY DEF NoneMoves, Status

\* A reservation.
LEMMA InsertEffect ==
    ASSUME L!TypeOK, NEW c \in CallIds, NEW q \in L!Quote, NEW b, L!InsertRow(c, q, b), LedgerRest
    PROVE  /\ L!TypeOK' /\ pend' = pend
           /\ Status(c) = "none" /\ Moves(c, "RESERVED")
  <1>1. rows \in Rows
    BY DEF L!TypeOK, Rows
  <1>2. L!NewRow(q) \in L!LedgerRecord /\ L!NewRow(q).status = "RESERVED"
    BY PaidLedgerAssumption DEF L!NewRow, L!Quote, L!LedgerRecord, L!LifecycleStatus
  <1>3. rows[c] = NoRow /\ rows' = [rows EXCEPT ![c] = L!NewRow(q)] /\ UNCHANGED hold
    BY DEF L!InsertRow, L!CanReserve
  <1>4. rows' \in Rows /\ Moves(c, "RESERVED")
    BY <1>1, <1>2, <1>3, Replaced
  <1>5. Status(c) = "none"
    BY <1>3 DEF Status
  <1> QED BY <1>3, <1>4, <1>5 DEF LedgerRest, L!TypeOK, Rows

\* A transition, by whomever, next to which budgets and pendings may change.
LEMMA MoveEffect ==
    ASSUME rows \in Rows, NEW c \in CallIds, NEW from, NEW to,
           "SETTLED" \notin from, to \in L!LifecycleStatus \ {"SETTLED"},
           L!Transition(c, from, to)
    PROVE  /\ rows' \in Rows /\ UNCHANGED hold
           /\ Status(c) \in from /\ Moves(c, to)
  <1>1. rows[c] \in L!LedgerRecord /\ rows[c].status # "SETTLED" /\ rows[c].status \in from
        /\ rows[c] # NoRow
    BY DEF L!Transition, Rows
  <1>2. /\ [rows[c] EXCEPT !.status = to] \in L!LedgerRecord
        /\ [rows[c] EXCEPT !.status = to].status = to
    BY <1>1 DEF L!LedgerRecord
  <1>3. rows' = [rows EXCEPT ![c] = [rows[c] EXCEPT !.status = to]] /\ UNCHANGED hold
    BY DEF L!Transition
  <1>4. rows' \in Rows /\ Moves(c, to)
    BY <1>2, <1>3, Replaced
  <1>5. Status(c) \in from
    BY <1>1 DEF Status
  <1> QED BY <1>3, <1>4, <1>5

\* The same with the rest of the ledger as it was.
LEMMA TransitionEffect ==
    ASSUME L!TypeOK, NEW c \in CallIds, NEW from, NEW to,
           "SETTLED" \notin from, to \in L!LifecycleStatus \ {"SETTLED"},
           L!Transition(c, from, to), LedgerRest
    PROVE  /\ L!TypeOK' /\ pend' = pend
           /\ Status(c) \in from /\ Moves(c, to)
  <1>1. rows \in Rows
    BY DEF L!TypeOK, Rows
  <1>2. rows' \in Rows /\ UNCHANGED hold /\ Status(c) \in from /\ Moves(c, to)
    BY <1>1, MoveEffect
  <1> QED BY <1>2 DEF LedgerRest, L!TypeOK, Rows

\* A settlement.
LEMMA SettleEffect ==
    ASSUME L!TypeOK, NEW c \in CallIds, NEW u \in Usages, L!SettleRow(c, u), LedgerRest
    PROVE  /\ L!TypeOK' /\ pend' = pend
           /\ Status(c) \in {"IN_FLIGHT", "AMBIGUOUS"} /\ Moves(c, "SETTLED")
  <1>1. rows \in Rows /\ hold \in L!CostSafetyHold \cup {NoHold}
    BY DEF L!TypeOK, Rows
  <1> DEFINE settled == [rows[c] EXCEPT !.status = "SETTLED", !.usage = u]
  <1>2. rows[c] \in L!LedgerRecord /\ rows[c] # NoRow
        /\ rows[c].status \in {"IN_FLIGHT", "AMBIGUOUS"}
    BY <1>1 DEF L!SettleRow, Rows
  <1>3. settled \in L!LedgerRecord /\ settled.status = "SETTLED"
    BY <1>2, PaidLedgerAssumption DEF L!LedgerRecord, L!LifecycleStatus
  <1>4. rows' = [rows EXCEPT ![c] = settled]
    BY DEF L!SettleRow
  <1>5. hold' \in L!CostSafetyHold \cup {NoHold}
    BY <1>1 DEF L!SettleRow, L!CostSafetyHold
  <1> HIDE DEF settled
  <1>6. rows' \in Rows /\ Moves(c, "SETTLED")
    BY <1>1, <1>3, <1>4, Replaced
  <1>7. Status(c) \in {"IN_FLIGHT", "AMBIGUOUS"}
    BY <1>2 DEF Status
  <1> QED BY <1>5, <1>6, <1>7 DEF LedgerRest, L!TypeOK, Rows

\* A ledger that is left alone.
LEMMA StillEffect ==
    ASSUME L!TypeOK, UNCHANGED ledger
    PROVE  L!TypeOK' /\ pend' = pend /\ NoneMoves
  <1>1. /\ rows' = rows /\ hold' = hold /\ schema' = schema
        /\ budget' = budget /\ pend' = pend /\ acked' = acked
    BY DEF ledger
  <1> QED BY <1>1, Same DEF L!TypeOK

LEMMA PendingTypes ==
    /\ Idle \in L!Pending /\ L!Review \in L!Pending
    /\ \A d \in CallIds, b \in BOOLEAN : L!Release(d, b) \in L!Pending
  BY DEF L!Pending, L!Release

\* What is about to be released or reviewed is noted down.
LEMMA PendEffect ==
    ASSUME L!TypeOK, NEW p \in {Runner, Owner}, NEW e \in L!Pending,
           pend' = [pend EXCEPT ![p] = e], UNCHANGED <<rows, hold, schema, budget, acked>>
    PROVE  /\ L!TypeOK' /\ NoneMoves /\ pend'[p] = e
           /\ \A q \in {Runner, Owner} \ {p} : pend'[q] = pend[q]
  BY Same DEF L!TypeOK

\* A release ends, if the row allows it still.
LEMMA ReleaseEffect ==
    ASSUME L!TypeOK, NEW p \in {Runner, Owner}, NEW c \in CallIds, NEW b \in BOOLEAN,
           pend[p] = L!Release(c, b), L!FinishRelease(p)
    PROVE  /\ L!TypeOK' /\ pend'[p] = Idle
           /\ \A q \in {Runner, Owner} \ {p} : pend'[q] = pend[q]
           /\ \/ Status(c) \in L!ReleaseFrom(b) /\ Moves(c, "RELEASED")
              \/ Status(c) \notin L!ReleaseFrom(b) /\ NoneMoves
  <1>1. pend[p].call = c /\ pend[p].confirmed = b
    BY DEF L!Release
  <1>2. /\ schema' = schema /\ budget' = budget /\ acked' = acked
        /\ pend' = [pend EXCEPT ![p] = Idle]
        /\ \/ L!Transition(c, L!ReleaseFrom(b), "RELEASED")
           \/ rows[c].status \notin L!ReleaseFrom(b) /\ UNCHANGED <<rows, hold>>
    BY <1>1 DEF L!FinishRelease
  <1>3. /\ pend' \in [{Runner, Owner} -> L!Pending] /\ pend'[p] = Idle
        /\ \A q \in {Runner, Owner} \ {p} : pend'[q] = pend[q]
    BY <1>2, PendingTypes DEF L!TypeOK
  <1>4. rows \in Rows /\ hold \in L!CostSafetyHold \cup {NoHold}
    BY DEF L!TypeOK, Rows
  <1>5. L!ReleaseFrom(b) \subseteq {"RESERVED", "AMBIGUOUS"}
    BY DEF L!ReleaseFrom
  <1>6. CASE L!Transition(c, L!ReleaseFrom(b), "RELEASED")
    <2>1. "RELEASED" \in L!LifecycleStatus \ {"SETTLED"} /\ "SETTLED" \notin L!ReleaseFrom(b)
      BY <1>5 DEF L!LifecycleStatus
    <2>2. rows' \in Rows /\ UNCHANGED hold
          /\ Status(c) \in L!ReleaseFrom(b) /\ Moves(c, "RELEASED")
      BY <1>4, <1>6, <2>1, MoveEffect
    <2> QED BY <1>2, <1>3, <2>2 DEF L!TypeOK, Rows
  <1>7. CASE rows[c].status \notin L!ReleaseFrom(b) /\ UNCHANGED <<rows, hold>>
    <2>1. Status(c) \notin L!ReleaseFrom(b)
      BY <1>5, <1>7 DEF Status
    <2> QED BY <1>2, <1>3, <1>7, <2>1, Same DEF L!TypeOK
  <1> QED BY <1>2, <1>6, <1>7

\* The ledger is opened.
LEMMA InitializeEffect ==
    ASSUME L!TypeOK, NEW p \in {Runner, Owner}, L!Initialize(p)
    PROVE  L!TypeOK' /\ pend' = pend /\ NoneMoves
  <1>1. /\ rows' = rows /\ pend' = pend /\ acked' = acked /\ schema' = 2
        /\ hold' = hold \/ \E c \in L!Overruns : hold' = [active |-> TRUE, call |-> c]
    BY DEF L!Initialize
  <1>2. PICK b \in Budgets : budget' = [budget EXCEPT ![p] = b]
    BY DEF L!Initialize
  <1>3. hold' \in L!CostSafetyHold \cup {NoHold}
    <2>1. L!Overruns \subseteq CallIds
      BY DEF L!Overruns
    <2>2. CASE hold' = hold
      BY <2>2 DEF L!TypeOK
    <2>3. CASE \E c \in L!Overruns : hold' = [active |-> TRUE, call |-> c]
      <3>1. PICK c \in CallIds : hold' = [active |-> TRUE, call |-> c]
        BY <2>1, <2>3
      <3> QED BY <3>1 DEF L!CostSafetyHold
    <2> QED BY <1>1, <2>2, <2>3
  <1> QED BY <1>1, <1>2, <1>3, Same DEF L!TypeOK

\* A run ends: its process closes the ledger.
LEMMA CrashEffect ==
    ASSUME L!TypeOK, NEW p \in {Runner, Owner}, L!Crash(p)
    PROVE  /\ L!TypeOK' /\ NoneMoves /\ pend'[p] = Idle
           /\ \A q \in {Runner, Owner} \ {p} : pend'[q] = pend[q]
  <1>1. /\ rows' = rows /\ hold' = hold /\ schema' = schema /\ acked' = acked
        /\ budget' = [budget EXCEPT ![p] = Closed] /\ pend' = [pend EXCEPT ![p] = Idle]
    BY DEF L!Crash
  <1> QED BY <1>1, PendingTypes, Same DEF L!TypeOK

\* The owner looks at the hold or acknowledges it.
LEMMA HoldEffect ==
    ASSUME L!TypeOK, L!ReviewHold(Owner) \/ L!AcknowledgeSafetyHold(Owner)
    PROVE  /\ L!TypeOK' /\ NoneMoves /\ pend'[Owner] \in {Idle, L!Review}
           /\ \A q \in {Runner, Owner} \ {Owner} : pend'[q] = pend[q]
  <1>1. /\ rows' = rows /\ schema' = schema /\ budget' = budget
        /\ \E e \in {Idle, L!Review} : pend' = [pend EXCEPT ![Owner] = e]
    BY DEF L!ReviewHold, L!AcknowledgeSafetyHold
  <1>2. PICK e \in {Idle, L!Review} : pend' = [pend EXCEPT ![Owner] = e]
    BY <1>1
  <1>3. /\ pend' \in [{Runner, Owner} -> L!Pending] /\ pend'[Owner] = e
        /\ \A q \in {Runner, Owner} \ {Owner} : pend'[q] = pend[q]
    BY <1>2, PendingTypes DEF L!TypeOK
  <1>4. hold' \in L!CostSafetyHold \cup {NoHold}
    <2>1. hold \in L!CostSafetyHold \cup {NoHold}
      BY DEF L!TypeOK
    <2>2. CASE hold' = hold
      BY <2>1, <2>2
    <2>3. CASE L!HoldActive /\ hold' = [hold EXCEPT !.active = FALSE]
      BY <2>1, <2>3 DEF L!HoldActive, L!CostSafetyHold
    <2> QED BY <2>2, <2>3 DEF L!ReviewHold, L!AcknowledgeSafetyHold
  <1>5. acked' \in SUBSET CallIds
    <2>1. L!Overruns \subseteq CallIds /\ acked \in SUBSET CallIds
      BY DEF L!Overruns, L!TypeOK
    <2> QED BY <2>1 DEF L!ReviewHold, L!AcknowledgeSafetyHold
  <1> QED BY <1>1, <1>2, <1>3, <1>4, <1>5, Same DEF L!TypeOK

-------------------------------------------------------------------------------
(* What the run holds at each place. *)

\* The quote of the run's call, in any month.
LEMMA QuoteType ==
    ASSUME job.call \in CallIds, NEW m \in Periods
    PROVE  Quote(m) \in L!Quote
  <1>1. Request(job.call) \in Configs
    BY DEF CallIds, Request
  <1> QED BY <1>1 DEF Quote, L!Quote

\* What the owner does to the ledger: it stays well formed, the run notices
\* nothing, and what may have been charged stays sent.
LEMMA OwnerLedger ==
    ASSUME IInv, OwnerSteps
    PROVE  /\ L!TypeOK' /\ pend'[Runner] = pend[Runner]
           /\ \A c \in CallIds : charged[c] > 0 => Status(c)' \in Sent
           /\ \/ pend'[Owner] = Idle \/ pend'[Owner] = L!Review
              \/ \E c \in CallIds : charged[c] = 0 /\ pend'[Owner] = L!Release(c, TRUE)
  <1>1. L!TypeOK /\ Owner # Runner
    BY PaidAssumption DEF IInv, PlaceInv, TypeOK
  <1>2. /\ \A c \in CallIds : charged[c] > 0 => Status(c) \in Sent
        /\ charged \in [CallIds -> Nat]
    BY PaidAssumption DEF IInv, MoneyInv, ChargedCallsCount, Sent, PlaceInv, TypeOK
  <1>3. \/ pend[Owner] = Idle \/ pend[Owner] = L!Review
        \/ \E c \in CallIds : charged[c] = 0 /\ pend[Owner] = L!Release(c, TRUE)
    BY DEF IInv, MoneyInv
  <1>4. NoneMoves => \A c \in CallIds : charged[c] > 0 => Status(c)' \in Sent
    BY <1>2 DEF NoneMoves
  <1>5. CASE L!Initialize(Owner)
    BY <1>1, <1>3, <1>4, <1>5, InitializeEffect
  <1>6. CASE L!FinishRelease(Owner)
    <2>1. PICK c \in CallIds : charged[c] = 0 /\ pend[Owner] = L!Release(c, TRUE)
      <3>1. pend[Owner] # Idle /\ pend[Owner].op = "release"
        BY <1>6 DEF L!FinishRelease
      <3>2. L!Review.op = "review"
        BY DEF L!Review
      <3>3. pend[Owner] # L!Review
        BY <3>1, <3>2
      <3> QED BY <1>3, <3>1, <3>3
    <2>2. /\ L!TypeOK' /\ pend'[Owner] = Idle /\ pend'[Runner] = pend[Runner]
          /\ Moves(c, "RELEASED") \/ NoneMoves
      BY <1>1, <1>6, <2>1, ReleaseEffect
    <2>3. Moves(c, "RELEASED") => \A d \in CallIds : charged[d] > 0 => Status(d)' \in Sent
      BY <1>2, <2>1 DEF Moves
    <2> QED BY <1>4, <2>2, <2>3
  <1>7. CASE L!ReviewHold(Owner) \/ L!AcknowledgeSafetyHold(Owner)
    BY <1>1, <1>4, <1>7, HoldEffect
  <1>8. ASSUME NEW c \in CallIds, charged[c] > 0, L!Settle(Owner, c)
        PROVE  /\ L!TypeOK' /\ pend' = pend
               /\ \A d \in CallIds : charged[d] > 0 => Status(d)' \in Sent
    <2>1. PICK u \in Usages : L!SettleRow(c, u)
      BY <1>8 DEF L!Settle
    <2>2. L!TypeOK' /\ pend' = pend /\ Moves(c, "SETTLED")
      BY <1>1, <1>8, <2>1, SettleEffect DEF L!Settle, LedgerRest
    <2> QED BY <1>2, <2>2 DEF Moves, Sent
  <1>9. ASSUME NEW c \in CallIds, charged[c] = 0, L!BeginRelease(Owner, c, TRUE)
        PROVE  /\ L!TypeOK' /\ pend'[Runner] = pend[Runner] /\ NoneMoves
               /\ pend'[Owner] = L!Release(c, TRUE)
    <2>1. L!Release(c, TRUE) \in L!Pending
      BY PendingTypes
    <2>2. /\ UNCHANGED <<rows, hold, schema, budget, acked>>
          /\ pend' = [pend EXCEPT ![Owner] = L!Release(c, TRUE)]
      BY <1>9 DEF L!BeginRelease
    <2> QED BY <1>1, <2>1, <2>2, PendEffect
  <1>10. ASSUME NEW c \in CallIds, L!MarkAmbiguous(Owner, c)
         PROVE  /\ L!TypeOK' /\ pend' = pend
                /\ \A d \in CallIds : charged[d] > 0 => Status(d)' \in Sent
    <2>1. "AMBIGUOUS" \in L!LifecycleStatus \ {"SETTLED"} /\ "SETTLED" \notin {"IN_FLIGHT"}
      BY DEF L!LifecycleStatus
    <2>2. L!TypeOK' /\ pend' = pend /\ Moves(c, "AMBIGUOUS")
      BY <1>1, <1>10, <2>1, TransitionEffect DEF L!MarkAmbiguous, LedgerRest
    <2> QED BY <1>2, <2>2 DEF Moves, Sent
  <1> QED
    BY <1>3, <1>4, <1>5, <1>6, <1>7, <1>8, <1>9, <1>10 DEF OwnerSteps, Reconcile

\* What a run's call has at the places of the ledger's steps.
LEMMA Ready ==
    ASSUME IInv
    PROVE  /\ L!TypeOK /\ PlaceInv /\ MoneyInv /\ CopyInv /\ FaultInv
           /\ pc \in Called => job.call \in CallIds
  BY DEF IInv, PlaceInv, TypeOK

\* A reservation, or a row that is there already.
LEMMA ReserveLedger ==
    ASSUME IInv, Reserve, NEW c \in CallIds, c = job.call
    PROVE  /\ L!TypeOK' /\ pend' = pend
           /\ \E b \in BOOLEAN : job' = [job EXCEPT !.reserved = b]
           /\ \/ NoneMoves
              \/ Status(c) = "none" /\ Moves(c, "RESERVED")
  <1>1. PICK m \in Periods :
          \/ /\ L!InsertRow(job.call, Quote(m), budget[Runner]) /\ LedgerRest
             /\ job' = [job EXCEPT !.reserved = TRUE]
          \/ /\ UNCHANGED ledger
             /\ job' = [job EXCEPT !.reserved = Status(job.call) \in {"RESERVED", "IN_FLIGHT"}]
    BY DEF Reserve
  <1>2. \E b \in BOOLEAN : job' = [job EXCEPT !.reserved = b]
    <2>1. (Status(job.call) \in {"RESERVED", "IN_FLIGHT"}) \in BOOLEAN
      OBVIOUS
    <2> QED BY <1>1, <2>1, Zenon
  <1>3. CASE L!InsertRow(c, Quote(m), budget[Runner]) /\ LedgerRest
    BY <1>2, <1>3, Ready, QuoteType, InsertEffect
  <1>4. CASE UNCHANGED ledger
    BY <1>2, <1>4, Ready, StillEffect
  <1> QED BY <1>1, <1>3, <1>4

\* The call is marked before it is sent.
LEMMA MarkLedger ==
    ASSUME IInv, MarkInFlight, NEW c \in CallIds, c = job.call
    PROVE  /\ L!TypeOK' /\ pend' = pend
           /\ \/ Status(c) = "IN_FLIGHT" /\ NoneMoves
              \/ Status(c) = "RESERVED" /\ Moves(c, "IN_FLIGHT")
  <1>1. CASE L!Transition(c, {"RESERVED"}, "IN_FLIGHT") /\ LedgerRest
    <2>1. "IN_FLIGHT" \in L!LifecycleStatus \ {"SETTLED"} /\ "SETTLED" \notin {"RESERVED"}
      BY DEF L!LifecycleStatus
    <2> QED BY <1>1, <2>1, Ready, TransitionEffect
  <1>2. CASE Status(c) = "IN_FLIGHT" /\ UNCHANGED ledger
    BY <1>2, Ready, StillEffect
  <1> QED BY <1>1, <1>2 DEF MarkInFlight

\* The call is settled.
LEMMA SettleLedger ==
    ASSUME IInv, Settle, NEW c \in CallIds, c = job.call
    PROVE  /\ L!TypeOK' /\ pend' = pend
           /\ Status(c) \in {"IN_FLIGHT", "AMBIGUOUS"} /\ Moves(c, "SETTLED")
  BY Ready, SettleEffect DEF Settle

\* What was sent becomes ambiguous, what was not is about to be released.
LEMMA UndoLedger ==
    ASSUME IInv, Undo, NEW c \in CallIds, c = job.call
    PROVE  /\ L!TypeOK'
           /\ \/ /\ job.inFlight /\ pc' = "fail" /\ pend' = pend
                 /\ \/ Status(c) = "IN_FLIGHT" /\ Moves(c, "AMBIGUOUS")
                    \/ Status(c) # "IN_FLIGHT" /\ NoneMoves
              \/ /\ ~job.inFlight /\ pc' = "releasing" /\ NoneMoves
                 /\ pend'[Runner] = L!Release(c, FALSE) /\ pend'[Owner] = pend[Owner]
              \/ ~job.inFlight /\ ~job.reserved /\ pc' = "fail" /\ pend' = pend /\ NoneMoves
  <1>1. CASE /\ job.inFlight /\ Goto("fail")
             /\ L!Transition(c, {"IN_FLIGHT"}, "AMBIGUOUS") /\ LedgerRest
    <2>1. "AMBIGUOUS" \in L!LifecycleStatus \ {"SETTLED"} /\ "SETTLED" \notin {"IN_FLIGHT"}
      BY DEF L!LifecycleStatus
    <2> QED BY <1>1, <2>1, Ready, TransitionEffect DEF Goto
  <1>2. CASE job.inFlight /\ Goto("fail") /\ Status(c) # "IN_FLIGHT" /\ UNCHANGED ledger
    BY <1>2, Ready, StillEffect DEF Goto
  <1>3. CASE ~job.inFlight /\ L!BeginRelease(Runner, c, FALSE) /\ Goto("releasing")
    <2>1. L!Release(c, FALSE) \in L!Pending
      BY PendingTypes
    <2>2. /\ UNCHANGED <<rows, hold, schema, budget, acked>>
          /\ pend' = [pend EXCEPT ![Runner] = L!Release(c, FALSE)]
      BY <1>3 DEF L!BeginRelease
    <2> QED BY <1>3, <2>1, <2>2, Ready, PendEffect, PaidAssumption DEF Goto
  <1>4. CASE ~job.inFlight /\ ~job.reserved /\ UNCHANGED ledger /\ Goto("fail")
    BY <1>4, Ready, StillEffect DEF Goto
  <1> QED BY <1>1, <1>2, <1>3, <1>4 DEF Undo

\* A reservation that was never sent is given back.
LEMMA FinishLedger ==
    ASSUME IInv, FinishRelease, NEW c \in CallIds, c = job.call
    PROVE  /\ L!TypeOK' /\ pend'[Runner] = Idle /\ pend'[Owner] = pend[Owner]
           /\ \/ Status(c) = "RESERVED" /\ Moves(c, "RELEASED")
              \/ Status(c) # "RESERVED" /\ NoneMoves
  <1>1. pend[Runner] = L!Release(c, FALSE) /\ Runner # Owner
    BY PaidAssumption DEF FinishRelease, At, IInv, MoneyInv
  <1>2. L!ReleaseFrom(FALSE) = {"RESERVED"}
    BY DEF L!ReleaseFrom
  <1> QED BY <1>1, <1>2, Ready, ReleaseEffect DEF FinishRelease

\* The run's process is gone, or done.
LEMMA EndLedger ==
    ASSUME IInv, End
    PROVE  L!TypeOK' /\ NoneMoves /\ pend'[Runner] = Idle /\ pend'[Owner] = pend[Owner]
  BY Ready, CrashEffect, PaidAssumption DEF End

\* The steps before a call is prepared.
LEMMA EarlyPlace ==
    ASSUME IInv, Start \/ Look \/ RetryCleanup \/ WriteCleaned \/ Hit \/ Reuse \/ New \/ RefuseCall \/ PrepareCall
    PROVE  PlaceInv'
  <1>1. CASE Start
    <2>1. L!TypeOK'
      BY <1>1, Ready, InitializeEffect DEF Start
    <2> QED
      BY <1>1, <2>1, Ready, PaidAssumption DEF Start, PlaceInv, TypeOK, FilesTypeOK, At, Goto,
         Labels, Called, Uploaded, Answered, JobType, StageType, NoJob, provider
  <1>2. CASE Look
    <2>1. L!TypeOK'
      BY <1>2, Ready, StillEffect DEF Look
    <2> QED
      BY <1>2, <2>1, Ready, PaidAssumption DEF Look, PlaceInv, TypeOK, FilesTypeOK, At, Goto,
         Labels, Called, Uploaded, Answered, JobType, NothingToClean, files, provider
  <1>3. CASE RetryCleanup
    <2>1. L!TypeOK'
      BY <1>3, Ready, StillEffect DEF RetryCleanup
    <2> QED
      BY <1>3, <2>1, Ready, PaidAssumption DEF RetryCleanup, PlaceInv, TypeOK, FilesTypeOK, At,
         Goto, Labels, Called, Uploaded, Answered, JobType, Delete, files
  <1>4. CASE WriteCleaned
    <2>1. L!TypeOK'
      BY <1>4, Ready, StillEffect DEF WriteCleaned
    <2> QED
      BY <1>4, <2>1, Ready, PaidAssumption DEF WriteCleaned, PlaceInv, TypeOK, FilesTypeOK, At,
         Goto, Labels, Called, Uploaded, Answered, JobType, Remote, provider
  <1>5. CASE Hit
    <2>1. L!TypeOK'
      BY <1>5, EndLedger DEF Hit
    <2> QED
      BY <1>5, <2>1, Ready, PaidAssumption DEF Hit, PlaceInv, TypeOK, FilesTypeOK, At, Goto,
         Labels, Called, Uploaded, Answered, JobType, End, CleanStage, StageType, NoJob, provider
  <1>6. CASE Reuse
    <2>1. L!TypeOK'
      BY <1>6, Ready, StillEffect DEF Reuse
    <2> QED
      BY <1>6, <2>1, Ready, ZenonT(60), PaidAssumption DEF Reuse, PlaceInv, TypeOK, FilesTypeOK,
         At, Goto, Labels, Called, Uploaded, Answered, JobType, StartStage, Stage, StageType,
         Outputs, NoOutputs, CleanupState, HasReusableEnvelope, provider
  <1>7. CASE New
    <2>1. L!TypeOK'
      BY <1>7, Ready, StillEffect DEF New
    <2> QED
      BY <1>7, <2>1, Ready, PaidAssumption DEF New, PlaceInv, TypeOK, FilesTypeOK, At, Goto,
         Labels, Called, Uploaded, Answered, JobType, StartStage, Stage, StageType, Outputs,
         NoOutputs, provider
  <1>8. CASE RefuseCall
    <2>1. L!TypeOK'
      BY <1>8, EndLedger DEF RefuseCall
    <2> QED
      BY <1>8, <2>1, Ready, PaidAssumption DEF RefuseCall, PlaceInv, TypeOK, FilesTypeOK, At,
         Goto, Labels, Called, Uploaded, Answered, JobType, End, NoJob, files, provider
  <1>9. CASE PrepareCall
    <2>1. L!TypeOK'
      BY <1>9, Ready, StillEffect DEF PrepareCall
    <2> QED
      BY <1>9, <2>1, Ready, PaidAssumption DEF PrepareCall, PlaceInv, TypeOK, FilesTypeOK, At,
         Goto, Labels, Called, Uploaded, Answered, JobType, CallIdOf, Base, Retry, CallIds,
         provider
  <1> QED BY <1>1, <1>2, <1>3, <1>4, <1>5, <1>6, <1>7, <1>8, <1>9

\* The steps of reserving, sending and tidying up.
LEMMA SendPlace ==
    ASSUME IInv, Reserve \/ ReserveRaises \/ Upload \/ UploadFails \/ RecordCopy \/ Wait \/ MarkInFlight \/ MarkRaises \/ Generate \/ TidyUp \/ WriteReceipt
    PROVE  PlaceInv'
  <1>1. CASE Reserve
    <2>1. PICK c \in CallIds : c = job.call
      BY <1>1, Ready DEF Reserve, At, Called
    <2>2. L!TypeOK'
      BY <1>1, <2>1, ReserveLedger
    <2>3. \E b \in BOOLEAN : job' = [job EXCEPT !.reserved = b]
      BY <1>1, <2>1, ReserveLedger
    <2> QED
      BY <1>1, <2>1, <2>2, <2>3, Ready, PaidAssumption DEF Reserve, PlaceInv, TypeOK,
         FilesTypeOK, At, Goto, Labels, Called, Uploaded, Answered, JobType, files, provider
  <1>2. CASE ReserveRaises
    <2>1. L!TypeOK'
      BY <1>2, Ready, StillEffect DEF ReserveRaises
    <2> QED
      BY <1>2, <2>1, Ready, PaidAssumption DEF ReserveRaises, PlaceInv, TypeOK, FilesTypeOK, At,
         Goto, Labels, Called, Uploaded, Answered, JobType, files, provider
  <1>3. CASE Upload
    <2>1. L!TypeOK'
      BY <1>3, Ready, StillEffect DEF Upload
    <2> QED
      BY <1>3, <2>1, Ready, PaidAssumption DEF Upload, PlaceInv, TypeOK, FilesTypeOK, At, Goto,
         Labels, Called, Uploaded, Answered, JobType, Copies, files
  <1>4. CASE UploadFails
    <2>1. L!TypeOK'
      BY <1>4, Ready, StillEffect DEF UploadFails
    <2> QED
      BY <1>4, <2>1, Ready, PaidAssumption DEF UploadFails, PlaceInv, TypeOK, FilesTypeOK, At,
         Goto, Labels, Called, Uploaded, Answered, JobType, files, provider
  <1>5. CASE RecordCopy
    <2>1. L!TypeOK'
      BY <1>5, Ready, StillEffect DEF RecordCopy
    <2>2. job \in JobType /\ pc = "record" /\ job.copy \in Copies
      BY <1>5, Ready, PaidAssumption DEF RecordCopy, At, PlaceInv, TypeOK, FilesTypeOK, Uploaded,
         Copies
    <2>3. CASE /\ remote' = [copy |-> job.copy, deletion |-> "pending"]
               /\ Goto("wait") /\ UNCHANGED job
      BY <1>5, <2>1, <2>2, <2>3, Ready DEF RecordCopy, PlaceInv, TypeOK, FilesTypeOK, Goto,
         Labels, Called, Uploaded, Answered, Remote, provider
    <2>4. CASE /\ job' = [job EXCEPT !.failed = TRUE, !.faults = @ \cup {"record"}]
               /\ Goto("tidy") /\ UNCHANGED remote
      <3>1. /\ job' \in JobType /\ job'.failed /\ job'.config = job.config
            /\ job'.call = job.call /\ job'.copy = job.copy
        BY <2>2, <2>4 DEF JobType, Faults
      <3> QED
        BY <1>5, <2>1, <2>2, <2>4, <3>1, Ready DEF RecordCopy, PlaceInv, TypeOK, FilesTypeOK,
           Goto, Labels, Called, Uploaded, Answered, provider
    <2> QED BY <1>5, <2>3, <2>4 DEF RecordCopy
  <1>6. CASE Wait
    <2>1. L!TypeOK'
      BY <1>6, Ready, StillEffect DEF Wait
    <2> QED
      BY <1>6, <2>1, Ready, PaidAssumption DEF Wait, PlaceInv, TypeOK, FilesTypeOK, At, Goto,
         Labels, Called, Uploaded, Answered, JobType, Raise, files, provider
  <1>7. CASE MarkInFlight
    <2>1. PICK c \in CallIds : c = job.call
      BY <1>7, Ready DEF MarkInFlight, At, Called
    <2>2. L!TypeOK'
      BY <1>7, <2>1, MarkLedger
    <2> QED
      BY <1>7, <2>1, <2>2, Ready, PaidAssumption DEF MarkInFlight, PlaceInv, TypeOK, FilesTypeOK,
         At, Goto, Labels, Called, Uploaded, Answered, JobType, files, provider
  <1>8. CASE MarkRaises
    <2>1. L!TypeOK'
      BY <1>8, Ready, StillEffect DEF MarkRaises
    <2> QED
      BY <1>8, <2>1, Ready, PaidAssumption DEF MarkRaises, PlaceInv, TypeOK, FilesTypeOK, At,
         Goto, Labels, Called, Uploaded, Answered, JobType, Raise, files, provider
  <1>9. CASE Generate
    <2>1. L!TypeOK'
      BY <1>9, Ready, StillEffect DEF Generate
    <2>2. /\ At("generate") /\ UNCHANGED <<ledger, files, copies, uploads>>
          /\ charged' = charged \/ Charge(job.call)
      BY <1>9 DEF Generate
    <2>3. charged' \in [CallIds -> 0..MaxCharges]
      BY <2>2, Ready, PaidAssumption DEF Charge, PlaceInv, TypeOK
    <2>4. job.call \in CallIds /\ At("generate")
      BY <2>2, Ready DEF At, Called
    <2>5. PICK a \in RawFile \cup {NoFile}, f \in BOOLEAN :
            /\ job' = [job EXCEPT !.failed = f, !.answer = a] /\ pc' = "tidy"
            /\ f \/ a \in RawFile
      <3>1. CASE Raise(NoFile)
        BY <3>1 DEF Raise, Goto
      <3>2. CASE \E result \in {"unpriced", "incomplete"} : Raise([call |-> job.call, result |-> result])
        <4>1. PICK result \in {"unpriced", "incomplete"} : Raise([call |-> job.call, result |-> result])
          BY <3>2
        <4>2. [call |-> job.call, result |-> result] \in RawFile
          BY <2>4 DEF RawFile, Results
        <4> QED BY <4>1, <4>2 DEF Raise, Goto
      <3>3. CASE /\ \E result \in {"good", "garbled"} :
                       job' = [job EXCEPT !.answer = [call |-> job.call, result |-> result]]
                 /\ Goto("tidy")
        <4>1. PICK result \in {"good", "garbled"} :
                job' = [job EXCEPT !.answer = [call |-> job.call, result |-> result]]
          BY <3>3
        <4>2. [call |-> job.call, result |-> result] \in RawFile
          BY <2>4 DEF RawFile, Results
        <4>3. job \in JobType /\ job.failed \in BOOLEAN
          BY Ready DEF PlaceInv, TypeOK, JobType
        <4>4. job' = [job EXCEPT !.failed = job.failed, !.answer = [call |-> job.call, result |-> result]]
          BY <4>1, <4>3 DEF JobType
        <4> QED BY <3>3, <4>2, <4>3, <4>4 DEF Goto
      <3> QED BY <1>9, <3>1, <3>2, <3>3 DEF Generate
    <2> QED
      BY <2>1, <2>2, <2>3, <2>4, <2>5, Ready DEF PlaceInv, TypeOK, FilesTypeOK, At, Goto, Labels,
         Called, Uploaded, Answered, JobType, files
  <1>10. CASE TidyUp
    <2>1. L!TypeOK'
      BY <1>10, Ready, StillEffect DEF TidyUp
    <2>2. PICK deletion \in {"pending", "deleted"} :
            /\ Delete(job.copy, deletion)
            /\ job' = [job EXCEPT
                         !.cleanup = IF deletion = "deleted" THEN "COMPLETED" ELSE "PENDING",
                         !.faults = IF deletion = "deleted" THEN @ ELSE @ \cup {"delete"}]
      BY <1>10 DEF TidyUp
    <2>3. /\ job' \in JobType /\ job'.failed = job.failed /\ job'.config = job.config
          /\ job'.call = job.call /\ job'.copy = job.copy /\ job'.answer = job.answer
      BY <2>2, Ready DEF PlaceInv, TypeOK, JobType, Faults
    <2>4. copies' \subseteq copies
      BY <2>2 DEF Delete
    <2> QED
      BY <1>10, <2>1, <2>3, <2>4, Ready DEF TidyUp, PlaceInv, TypeOK, FilesTypeOK, At, Goto,
         Labels, Called, Uploaded, Answered, files
  <1>11. CASE WriteReceipt
    <2>1. L!TypeOK'
      BY <1>11, Ready, StillEffect DEF WriteReceipt
    <2>2. job \in JobType /\ pc = "receipt" /\ job.copy \in Copies
      BY <1>11, Ready, PaidAssumption DEF WriteReceipt, At, PlaceInv, TypeOK, FilesTypeOK,
         Uploaded, Copies
    <2>3. CASE /\ remote' = [copy |-> job.copy,
                             deletion |-> IF job.cleanup = "COMPLETED" THEN "deleted" ELSE "pending"]
               /\ Goto(IF job.failed THEN "handle" ELSE "store") /\ UNCHANGED job
      BY <1>11, <2>1, <2>2, <2>3, Ready DEF WriteReceipt, PlaceInv, TypeOK, FilesTypeOK, Goto,
         Labels, Called, Uploaded, Answered, Remote, provider
    <2>4. CASE /\ job' = [job EXCEPT !.failed = TRUE, !.answer = NoFile,
                                     !.faults = @ \cup {"receipt"}]
               /\ Goto(IF job.failed THEN "money" ELSE "tidy") /\ UNCHANGED remote
      <3>1. /\ job' \in JobType /\ job'.failed /\ job'.config = job.config
            /\ job'.call = job.call /\ job'.copy = job.copy
        BY <2>2, <2>4 DEF JobType, Faults
      <3> QED
        BY <1>11, <2>1, <2>2, <2>4, <3>1, Ready DEF WriteReceipt, PlaceInv, TypeOK, FilesTypeOK,
           Goto, Labels, Called, Uploaded, Answered, provider
    <2> QED BY <1>11, <2>3, <2>4 DEF WriteReceipt
  <1> QED BY <1>1, <1>2, <1>3, <1>4, <1>5, <1>6, <1>7, <1>8, <1>9, <1>10, <1>11

\* The steps from the answer to the completed stage.
LEMMA StorePlace ==
    ASSUME IInv, StoreRaw \/ Settle \/ Canonicalize \/ CanonicalizeRaises \/ Publish \/ Complete
    PROVE  PlaceInv'
  <1>1. CASE StoreRaw
    <2>1. L!TypeOK'
      BY <1>1, Ready, StillEffect DEF StoreRaw
    <2> QED
      BY <1>1, <2>1, Ready, PaidAssumption DEF StoreRaw, PlaceInv, TypeOK, FilesTypeOK, At, Goto,
         Labels, Called, Uploaded, Answered, JobType, provider
  <1>2. CASE Settle
    <2>1. PICK c \in CallIds : c = job.call
      BY <1>2, Ready DEF Settle, At, Called
    <2>2. L!TypeOK'
      BY <1>2, <2>1, SettleLedger
    <2> QED
      BY <1>2, <2>1, <2>2, Ready, PaidAssumption DEF Settle, PlaceInv, TypeOK, FilesTypeOK, At,
         Goto, Labels, Called, Uploaded, Answered, JobType, files, provider
  <1>3. CASE Canonicalize
    <2>1. L!TypeOK'
      BY <1>3, Ready, StillEffect DEF Canonicalize
    <2> QED
      BY <1>3, <2>1, Ready, PaidAssumption DEF Canonicalize, PlaceInv, TypeOK, FilesTypeOK, At,
         Goto, Labels, Called, Uploaded, Answered, JobType, RawFile, provider
  <1>4. CASE CanonicalizeRaises
    <2>1. L!TypeOK'
      BY <1>4, Ready, StillEffect DEF CanonicalizeRaises
    <2> QED
      BY <1>4, <2>1, Ready, PaidAssumption DEF CanonicalizeRaises, PlaceInv, TypeOK, FilesTypeOK,
         At, Goto, Labels, Called, Uploaded, Answered, JobType, files, provider
  <1>5. CASE Publish
    <2>1. L!TypeOK'
      BY <1>5, Ready, StillEffect DEF Publish
    <2> QED
      BY <1>5, <2>1, Ready, PaidAssumption DEF Publish, PlaceInv, TypeOK, FilesTypeOK, At, Goto,
         Labels, Called, Uploaded, Answered, JobType, RawFile, provider
  <1>6. CASE Complete
    <2>1. L!TypeOK'
      BY <1>6, EndLedger DEF Complete
    <2> QED
      BY <1>6, <2>1, Ready, PaidAssumption DEF Complete, PlaceInv, TypeOK, FilesTypeOK, At, Goto,
         Labels, Called, Uploaded, Answered, JobType, End, Stage, StageType, OnDisk, Outputs,
         NoJob, provider
  <1> QED BY <1>1, <1>2, <1>3, <1>4, <1>5, <1>6

\* What an interrupt does to the variables of the run.
LEMMA InterruptJob ==
    ASSUME job \in JobType, Interrupt
    PROVE  /\ job' \in JobType /\ job.faults \subseteq job'.faults
           /\ job'.config = job.config /\ job'.call = job.call /\ job'.copy = job.copy
           /\ job'.answer = job.answer /\ job'.reserved = job.reserved
           /\ job'.inFlight = job.inFlight /\ job'.failed = job.failed
           /\ job'.cleanup = job.cleanup
           /\ InAdapter => "interrupt" \in job'.faults
           /\ pc = "record" => "record" \in job'.faults
  <1> DEFINE outcome == job.faults \cup (IF InAdapter THEN {"interrupt"} ELSE {})
                         \cup (IF At("record") THEN {"record"} ELSE {})
  <1>1. job' = [job EXCEPT !.faults = outcome]
    BY DEF Interrupt
  <1>2. /\ outcome \subseteq Faults /\ job.faults \subseteq outcome
        /\ InAdapter => "interrupt" \in outcome
        /\ pc = "record" => "record" \in outcome
    BY DEF Faults, JobType, At
  <1> HIDE DEF outcome
  <1> QED BY <1>1, <1>2 DEF JobType

\* The handlers, the interrupt and the kill.
LEMMA HandlerPlace ==
    ASSUME IInv, Handle \/ Undo \/ FinishRelease \/ Fail \/ Interrupt \/ Crash
    PROVE  PlaceInv'
  <1>1. CASE Handle
    <2>1. L!TypeOK'
      BY <1>1, Ready, StillEffect DEF Handle
    <2> QED
      BY <1>1, <2>1, Ready, PaidAssumption DEF Handle, PlaceInv, TypeOK, FilesTypeOK, At, Goto,
         Labels, Called, Uploaded, Answered, JobType, provider
  <1>2. CASE Undo
    <2>1. PICK c \in CallIds : c = job.call
      BY <1>2, Ready DEF Undo, At, Called
    <2>2. L!TypeOK'
      BY <1>2, <2>1, UndoLedger
    <2>3. pc' \in {"fail", "releasing"} /\ UNCHANGED <<files, provider, job>> /\ At("money")
      BY <1>2 DEF Undo, Goto
    <2> QED
      BY <2>1, <2>2, <2>3, Ready, PaidAssumption DEF PlaceInv, TypeOK, FilesTypeOK, At, Goto,
         Labels, Called, Uploaded, Answered, JobType, files, provider
  <1>3. CASE FinishRelease
    <2>1. PICK c \in CallIds : c = job.call
      BY <1>3, Ready DEF FinishRelease, At, Called
    <2>2. L!TypeOK'
      BY <1>3, <2>1, FinishLedger
    <2> QED
      BY <1>3, <2>1, <2>2, Ready, PaidAssumption DEF FinishRelease, PlaceInv, TypeOK,
         FilesTypeOK, At, Goto, Labels, Called, Uploaded, Answered, JobType, files, provider
  <1>4. CASE Fail
    <2>1. L!TypeOK'
      BY <1>4, EndLedger DEF Fail
    <2> QED
      BY <1>4, <2>1, Ready, PaidAssumption DEF Fail, PlaceInv, TypeOK, FilesTypeOK, At, Goto,
         Labels, Called, Uploaded, Answered, JobType, End, StageType, NoJob, provider
  <1>5. CASE Interrupt
    <2>1. L!TypeOK'
      BY <1>5, Ready, StillEffect DEF Interrupt
    <2>2. /\ job' \in JobType /\ job'.config = job.config /\ job'.call = job.call
          /\ pc' \in {"fail", "money"} /\ pc # "idle"
      BY <1>5, Ready, InterruptJob DEF Interrupt, InAdapter, Goto, PlaceInv, TypeOK
    <2>3. charged' \in [CallIds -> 0..MaxCharges]
      BY <1>5, Ready, PaidAssumption DEF Interrupt, Charge, PlaceInv, TypeOK
    <2>4. pc' = "money" => job.call \in CallIds
      BY <1>5, Ready DEF Interrupt, Goto, PlaceInv, TypeOK, JobType
    <2> QED
      BY <1>5, <2>1, <2>2, <2>3, <2>4, Ready DEF Interrupt, PlaceInv, TypeOK, FilesTypeOK,
         Labels, Called, Uploaded, Answered, files
  <1>6. CASE Crash
    <2>1. L!TypeOK'
      BY <1>6, EndLedger DEF Crash
    <2> QED
      BY <1>6, <2>1, Ready, PaidAssumption DEF Crash, PlaceInv, TypeOK, FilesTypeOK, At, Goto,
         Labels, Called, Uploaded, Answered, JobType, End, NoJob, files, provider
  <1> QED BY <1>1, <1>2, <1>3, <1>4, <1>5, <1>6

\* The owner, the provider and other commands.
LEMMA OutsidePlace ==
    ASSUME IInv, OwnerSteps \/ Expire \/ ReplaceMap
    PROVE  PlaceInv'
  <1>1. CASE OwnerSteps
    <2>1. L!TypeOK'
      BY <1>1, OwnerLedger DEF OwnerSteps
    <2> QED
      BY <1>1, <2>1, Ready, PaidAssumption DEF OwnerSteps, PlaceInv, TypeOK, FilesTypeOK, At,
         Goto, Labels, Called, Uploaded, Answered, JobType, files, provider
  <1>2. CASE Expire
    <2>1. L!TypeOK'
      BY <1>2, Ready, StillEffect DEF Expire
    <2> QED
      BY <1>2, <2>1, Ready, PaidAssumption DEF Expire, PlaceInv, TypeOK, FilesTypeOK, At, Goto,
         Labels, Called, Uploaded, Answered, JobType, files
  <1>3. CASE ReplaceMap
    <2>1. L!TypeOK'
      BY <1>3, Ready, StillEffect DEF ReplaceMap
    <2> QED
      BY <1>3, <2>1, Ready, PaidAssumption DEF ReplaceMap, PlaceInv, TypeOK, FilesTypeOK, At,
         Goto, Labels, Called, Uploaded, Answered, JobType, provider
  <1> QED BY <1>1, <1>2, <1>3

-------------------------------------------------------------------------------
(* The money. *)

\* Charges are counted by naturals, and a call is a request and a number.
LEMMA Charges ==
    ASSUME IInv
    PROVE  /\ charged \in [CallIds -> Nat]
           /\ \A c \in CallIds : charged[c] > 0 => Status(c) \in Sent
           /\ \A k \in Configs : Base(k) \in CallIds /\ Base(k)[2] = 0
           /\ \A k \in Configs : Retry(k) \in CallIds /\ Retry(k)[2] = 1
           /\ job \in JobType
  BY PaidAssumption DEF IInv, PlaceInv, TypeOK, MoneyInv, ChargedCallsCount, Sent,
     Base, Retry, CallIds

\* A step of a run that touches neither the ledger nor the charges.
LEMMA QuietMoney ==
    ASSUME IInv, UNCHANGED ledger, UNCHANGED charged,
           pc \notin {"idle", "releasing"}, pc' \notin {"idle", "releasing", "generate"},
           job'.call = job.call, job'.reserved = job.reserved, job'.inFlight = job.inFlight,
           pc' = "fail" => ~job.reserved,
           pc' \in Early => pc \in Early, pc' \in Unsent => pc \in Unsent
    PROVE  MoneyInv'
  <1>1. rows' = rows /\ pend' = pend
    BY DEF ledger
  <1>2. MoneyInv
    BY DEF IInv
  <1>3. ChargedCallsCount' /\ BaseChargedOnce'
    BY <1>1, <1>2 DEF MoneyInv, ChargedCallsCount, BaseChargedOnce, Status
  <1>4. ReservationsGivenBack'
    BY DEF ReservationsGivenBack, At
  <1> QED
    BY <1>1, <1>2, <1>3, <1>4 DEF MoneyInv, Status

\* The owner, the provider's expiry or another command.
LEMMA OutsideMoney ==
    ASSUME IInv, OwnerSteps \/ Expire \/ ReplaceMap
    PROVE  MoneyInv'
  <1>1. CASE OwnerSteps
    <2>1. pc = "idle" /\ UNCHANGED charged /\ UNCHANGED pc /\ UNCHANGED job
      BY <1>1 DEF OwnerSteps, At, provider
    <2>2. ~job.reserved /\ ~job.inFlight
      BY <2>1 DEF IInv, MoneyInv, Early
    <2>3. ChargedCallsCount'
      BY <1>1, <2>1, OwnerLedger DEF ChargedCallsCount, Sent
    <2>4. ReservationsGivenBack' /\ BaseChargedOnce'
      BY <2>1 DEF IInv, MoneyInv, ReservationsGivenBack, BaseChargedOnce, At
    <2> QED
      BY <1>1, <2>1, <2>2, <2>3, <2>4, OwnerLedger DEF IInv, MoneyInv, Unsent
  <1>2. CASE Expire \/ ReplaceMap
    <2>1. /\ rows' = rows /\ pend' = pend
          /\ UNCHANGED charged /\ UNCHANGED pc /\ UNCHANGED job
      BY <1>2 DEF Expire, ReplaceMap, ledger, provider
    <2> QED
      BY <2>1 DEF IInv, MoneyInv, ChargedCallsCount, BaseChargedOnce, ReservationsGivenBack,
         Status, At
  <1> QED BY <1>1, <1>2

\* A run starts.
LEMMA StartMoney == ASSUME IInv, Start PROVE MoneyInv'
  <1>1. /\ pc = "idle" /\ pc' = "look" /\ pend[Owner] = Idle /\ UNCHANGED charged
        /\ ~job'.reserved /\ ~job'.inFlight
    BY DEF Start, At, Goto, NoJob, provider
  <1>2. pend' = pend /\ NoneMoves
    BY Ready, InitializeEffect DEF Start
  <1>3. ChargedCallsCount' /\ BaseChargedOnce' /\ ReservationsGivenBack'
    BY <1>1, <1>2 DEF IInv, MoneyInv, ChargedCallsCount, BaseChargedOnce, ReservationsGivenBack,
       NoneMoves, At
  <1> QED
    BY <1>1, <1>2, <1>3 DEF IInv, MoneyInv, Unsent

\* A run ends, anywhere.
LEMMA EndMoney == ASSUME IInv, pc # "idle", End PROVE MoneyInv'
  <1>1. /\ pc' = "idle" /\ UNCHANGED charged /\ ~job'.reserved /\ ~job'.inFlight
        /\ pend[Owner] = Idle
    BY DEF End, Goto, NoJob, provider, IInv, MoneyInv
  <1>2. NoneMoves /\ pend'[Runner] = Idle /\ pend'[Owner] = pend[Owner]
    BY EndLedger
  <1>3. ChargedCallsCount' /\ BaseChargedOnce' /\ ReservationsGivenBack'
    BY <1>1, <1>2 DEF IInv, MoneyInv, ChargedCallsCount, BaseChargedOnce, ReservationsGivenBack,
       NoneMoves, At
  <1> QED
    BY <1>1, <1>2, <1>3 DEF IInv, MoneyInv, Unsent

\* The first call of a request is prepared only when it has no row.
LEMMA PrepareMoney == ASSUME IInv, PrepareCall PROVE MoneyInv'
  <1>1. /\ pc = "call" /\ pc' = "reserve" /\ MayCall(job.config) /\ UNCHANGED charged
        /\ rows' = rows /\ pend' = pend
        /\ job' = [job EXCEPT !.call = CallIdOf(job.config)]
    BY DEF PrepareCall, At, Goto, ledger, provider
  <1>2. job.config \in Configs /\ ~job.reserved /\ ~job.inFlight
    BY <1>1 DEF IInv, PlaceInv, MoneyInv, Early
  <1>3. PICK c \in CallIds : c = CallIdOf(job.config)
    BY <1>2, Charges DEF CallIdOf
  <1>4. c[2] = 0 => charged[c] = 0
    <2>1. c[2] = 0 => c = Base(job.config) /\ Status(c) # "RELEASED"
      BY <1>2, <1>3, Charges DEF CallIdOf
    <2>2. c[2] = 0 => Status(c) = "none"
      BY <1>1, <2>1 DEF MayCall
    <2> QED BY <2>2, Charges DEF Sent
  <1>5. job'.call = c /\ ~job'.reserved /\ ~job'.inFlight
    BY <1>1, <1>2, <1>3, Charges DEF JobType
  <1>6. ChargedCallsCount' /\ BaseChargedOnce' /\ ReservationsGivenBack'
    BY <1>1, <1>5 DEF IInv, MoneyInv, ChargedCallsCount, BaseChargedOnce, ReservationsGivenBack,
       Status, At
  <1> QED
    BY <1>1, <1>4, <1>5, <1>6 DEF IInv, MoneyInv

\* A step that moves the row of the run's call c, charges nothing, and leaves
\* what may have been charged sent.
LEMMA RowMoney ==
    ASSUME IInv, NEW c \in CallIds, c = job.call, job'.call = c, UNCHANGED charged,
           \/ NoneMoves
           \/ \E s : Moves(c, s) /\ (charged[c] > 0 => s \in Sent),
           pend'[Owner] = pend[Owner], pc # "idle", pc' # "idle",
           pend'[Runner] = IF pc' = "releasing" THEN L!Release(c, FALSE) ELSE Idle,
           pc' = "fail" /\ job'.reserved => Status(c)' # "RESERVED",
           job'.inFlight => Status(c)' \in Sent,
           pc' = "generate" => job'.inFlight,
           pc' \notin Early, pc' \in Unsent => pc \in Unsent
    PROVE  MoneyInv'
  <1>1. ChargedCallsCount'
    <2>1. \A d \in CallIds : charged[d] > 0 => Status(d)' \in Sent
      BY Charges DEF NoneMoves, Moves
    <2> QED BY <2>1 DEF ChargedCallsCount, Sent
  <1>2. BaseChargedOnce'
    BY DEF IInv, MoneyInv, BaseChargedOnce
  <1>3. rows'[job'.call] = rows'[c]
    OBVIOUS
  <1>4. ReservationsGivenBack' /\ (job'.inFlight => Status(job.call)' \in Sent)
    BY <1>3 DEF ReservationsGivenBack, Status, At
  <1> QED
    BY <1>1, <1>2, <1>4 DEF IInv, MoneyInv

\* The transactions of a run.
LEMMA TransactionMoney ==
    ASSUME IInv, Reserve \/ MarkInFlight \/ Settle \/ Undo \/ FinishRelease
    PROVE  MoneyInv'
  <1>1. PICK c \in CallIds : c = job.call
    BY Ready DEF Reserve, MarkInFlight, Settle, Undo, FinishRelease, At, Called
  <1>2. /\ job \in JobType
        /\ charged[c] > 0 => Status(c) \in Sent
        /\ job.inFlight => Status(c) \in Sent
        /\ pend[Runner] = IF pc = "releasing" THEN L!Release(c, FALSE) ELSE Idle
    BY <1>1, Charges DEF IInv, MoneyInv
  <1>3. NoneMoves => Status(c)' = Status(c)
    BY DEF NoneMoves
  <1>4. \A s : Moves(c, s) => Status(c)' = s
    BY DEF Moves
  <1>5. CASE Reserve
    <2>1. /\ pend' = pend /\ \E b \in BOOLEAN : job' = [job EXCEPT !.reserved = b]
          /\ \/ NoneMoves
             \/ Status(c) = "none" /\ Moves(c, "RESERVED")
      BY <1>1, <1>5, ReserveLedger
    <2>2. /\ pc = "reserve" /\ pc' = "upload" /\ UNCHANGED charged
          /\ pc' \notin Early /\ pc \in Early /\ pc \in Unsent
      BY <1>5 DEF Reserve, At, Goto, Early, Unsent, provider
    <2>3. ~job.inFlight /\ job'.call = c /\ job'.inFlight = job.inFlight
      BY <1>1, <1>2, <2>1, <2>2 DEF IInv, MoneyInv, JobType
    <2> QED
      BY <1>1, <1>2, <2>1, <2>2, <2>3, RowMoney DEF Sent
  <1>6. CASE MarkInFlight
    <2>1. /\ pend' = pend
          /\ \/ Status(c) = "IN_FLIGHT" /\ NoneMoves
             \/ Status(c) = "RESERVED" /\ Moves(c, "IN_FLIGHT")
      BY <1>1, <1>6, MarkLedger
    <2>2. /\ pc = "mark" /\ pc' = "generate" /\ UNCHANGED charged
          /\ pc' \notin Early /\ pc \in Unsent /\ job' = [job EXCEPT !.inFlight = TRUE]
      BY <1>6 DEF MarkInFlight, At, Goto, Early, Unsent, provider
    <2>3. job'.call = c /\ job'.inFlight
      BY <1>1, <1>2, <2>2 DEF JobType
    <2>4. Status(c)' \in Sent
      BY <1>3, <1>4, <2>1 DEF Sent
    <2> QED
      BY <1>1, <1>2, <2>1, <2>2, <2>3, <2>4, RowMoney DEF Sent
  <1>7. CASE Settle
    <2>1. pend' = pend /\ Status(c) \in {"IN_FLIGHT", "AMBIGUOUS"} /\ Moves(c, "SETTLED")
      BY <1>1, <1>7, SettleLedger
    <2>2. /\ pc = "settle" /\ pc' \in {"money", "canonicalize"} /\ UNCHANGED charged
          /\ pc' \notin Early \cup Unsent /\ job' = job
      BY <1>7 DEF Settle, At, Goto, Early, Unsent, provider
    <2>3. Status(c)' \in Sent
      BY <1>4, <2>1 DEF Sent
    <2> QED
      BY <1>1, <1>2, <2>1, <2>2, <2>3, RowMoney DEF Sent
  <1>8. CASE Undo
    <2>1. \/ /\ job.inFlight /\ pc' = "fail" /\ pend' = pend
             /\ \/ Status(c) = "IN_FLIGHT" /\ Moves(c, "AMBIGUOUS")
                \/ Status(c) # "IN_FLIGHT" /\ NoneMoves
          \/ /\ ~job.inFlight /\ pc' = "releasing" /\ NoneMoves
             /\ pend'[Runner] = L!Release(c, FALSE) /\ pend'[Owner] = pend[Owner]
          \/ ~job.inFlight /\ ~job.reserved /\ pc' = "fail" /\ pend' = pend /\ NoneMoves
      BY <1>1, <1>8, UndoLedger
    <2>2. pc = "money" /\ UNCHANGED charged /\ job' = job
      BY <1>8 DEF Undo, At, provider
    <2>3. pc' \notin Early \cup Unsent
      BY <2>1 DEF Early, Unsent
    <2>4. job.inFlight => Status(c)' \in Sent
      BY <1>2, <1>3, <1>4, <2>1 DEF Sent
    <2>5. job.inFlight => Status(c)' # "RESERVED"
      BY <2>4 DEF Sent
    <2> QED
      BY <1>1, <1>2, <2>1, <2>2, <2>3, <2>4, <2>5, RowMoney DEF Sent
  <1>9. CASE FinishRelease
    <2>1. /\ pend'[Runner] = Idle /\ pend'[Owner] = pend[Owner]
          /\ \/ Status(c) = "RESERVED" /\ Moves(c, "RELEASED")
             \/ Status(c) # "RESERVED" /\ NoneMoves
      BY <1>1, <1>9, FinishLedger
    <2>2. pc = "releasing" /\ pc' = "fail" /\ UNCHANGED charged /\ job' = job
      BY <1>9 DEF FinishRelease, At, Goto, provider
    <2>3. pc' \notin Early \cup Unsent
      BY <2>2 DEF Early, Unsent
    <2>4. Status(c)' # "RESERVED" /\ (job.inFlight => Status(c)' \in Sent)
      BY <1>2, <1>3, <1>4, <2>1 DEF Sent
    <2>5. Status(c) = "RESERVED" => charged[c] = 0
      BY <1>2, Charges DEF Sent
    <2> QED
      BY <1>1, <1>2, <2>1, <2>2, <2>3, <2>4, <2>5, Charges, RowMoney DEF Sent
  <1> QED BY <1>5, <1>6, <1>7, <1>8, <1>9

\* The provider's charge finds a call in flight, and a first call only once.
LEMMA ChargeMoney ==
    ASSUME IInv, pc = "generate", UNCHANGED ledger, charged' = charged \/ Charge(job.call),
           pc' \in {"tidy", "money"},
           job'.call = job.call, job'.reserved = job.reserved, job'.inFlight = job.inFlight
    PROVE  MoneyInv'
  <1>1. PICK c \in CallIds : c = job.call
    BY Ready DEF Called
  <1>2. /\ rows' = rows /\ pend' = pend /\ job.inFlight /\ Status(c) \in Sent
        /\ c[2] = 0 => charged[c] = 0
        /\ charged \in [CallIds -> Nat]
    BY <1>1, Charges DEF ledger, IInv, MoneyInv, Unsent
  <1>3. charged' = charged \/ charged' = [charged EXCEPT ![c] = charged[c] + 1]
    BY <1>1 DEF Charge
  <1>4. ChargedCallsCount'
    <2>1. \A d \in CallIds : charged'[d] > 0 => Status(d) \in Sent
      BY <1>2, <1>3, Charges
    <2> QED BY <1>2, <2>1 DEF ChargedCallsCount, Sent, Status
  <1>5. BaseChargedOnce'
    <2> SUFFICES ASSUME NEW k \in Configs PROVE charged'[Base(k)] <= 1
      BY DEF BaseChargedOnce
    <2>1. charged[Base(k)] <= 1 /\ Base(k) \in CallIds /\ Base(k)[2] = 0
      BY Charges DEF IInv, MoneyInv, BaseChargedOnce
    <2> QED BY <1>2, <1>3, <2>1
  <1>6. ReservationsGivenBack'
    BY DEF ReservationsGivenBack, At
  <1>7. pc' \notin Early \cup Unsent
    BY DEF Early, Unsent
  <1> QED
    BY <1>1, <1>2, <1>4, <1>5, <1>6, <1>7 DEF IInv, MoneyInv, Status

\* Every other step of a run.
LEMMA OtherMoney ==
    ASSUME IInv,
           \/ Look \/ RetryCleanup \/ WriteCleaned \/ Reuse \/ New \/ ReserveRaises
           \/ Upload \/ UploadFails \/ RecordCopy \/ Wait \/ MarkRaises \/ TidyUp
           \/ WriteReceipt \/ StoreRaw \/ Canonicalize \/ CanonicalizeRaises \/ Publish \/ Handle
    PROVE  MoneyInv'
  <1>1. UNCHANGED ledger /\ UNCHANGED charged
    BY DEF Look, RetryCleanup, WriteCleaned, Reuse, New, ReserveRaises, Upload, UploadFails,
       RecordCopy, Wait, MarkRaises, TidyUp, WriteReceipt, StoreRaw, Canonicalize,
       CanonicalizeRaises, Publish, Handle, provider
  <1>2. /\ pc \notin {"idle", "releasing"} /\ pc' \notin {"idle", "releasing", "generate"}
        /\ pc' \in Early => pc \in Early
        /\ pc' \in Unsent => pc \in Unsent
        /\ pc' = "fail" => pc = "reserve" \/ (pc = "canonicalize" /\ job.call = NoFile)
    BY DEF Look, RetryCleanup, WriteCleaned, Reuse, New, ReserveRaises, Upload, UploadFails,
       RecordCopy, Wait, MarkRaises, TidyUp, WriteReceipt, StoreRaw, Canonicalize,
       CanonicalizeRaises, Publish, Handle, Raise, At, Goto, Early, Unsent
  <1>3. /\ job'.call = job.call /\ job'.reserved = job.reserved
        /\ job'.inFlight = job.inFlight
    BY Charges DEF Look, RetryCleanup, WriteCleaned, Reuse, New, ReserveRaises, Upload,
       UploadFails, RecordCopy, Wait, MarkRaises, TidyUp, WriteReceipt, StoreRaw, Canonicalize,
       CanonicalizeRaises, Publish, Handle, Raise, JobType
  <1>4. pc' = "fail" => ~job.reserved
    BY <1>2, PaidAssumption DEF IInv, MoneyInv, Early
  <1> QED
    BY <1>1, <1>2, <1>3, <1>4, QuietMoney

\* The keyboard interrupt, with or without a charge.
LEMMA InterruptMoney == ASSUME IInv, Interrupt PROVE MoneyInv'
  <1>1. /\ pc \in {"upload", "record", "wait", "mark", "generate", "tidy", "receipt",
                   "store", "settle", "canonicalize", "publish", "complete"}
        /\ UNCHANGED ledger
        /\ pc' = IF job.call = NoFile THEN "fail" ELSE "money"
        /\ charged' = charged \/ (pc = "generate" /\ Charge(job.call))
    BY DEF Interrupt, InAdapter, At, Goto
  <1>0. /\ job'.call = job.call /\ job'.reserved = job.reserved
        /\ job'.inFlight = job.inFlight
    BY Charges, InterruptJob
  <1>2. CASE pc = "generate"
    <2>1. job.call # NoFile
      BY <1>2, Ready, PaidAssumption DEF Called
    <2> QED BY <1>0, <1>1, <1>2, <2>1, ChargeMoney
  <1>3. CASE pc # "generate"
    <2>1. pc' = "fail" => ~job.reserved
      BY <1>1, PaidAssumption DEF IInv, MoneyInv
    <2>2. pc' \notin Early \cup Unsent
      BY <1>1 DEF Early, Unsent
    <2> QED BY <1>0, <1>1, <1>3, <2>1, <2>2, QuietMoney
  <1> QED BY <1>2, <1>3

\* Generating, whatever comes of it.
LEMMA GenerateMoney == ASSUME IInv, Generate PROVE MoneyInv'
  <1>1. /\ pc = "generate" /\ UNCHANGED ledger /\ pc' = "tidy"
        /\ charged' = charged \/ Charge(job.call)
    BY DEF Generate, Raise, At, Goto
  <1>2. /\ job'.call = job.call /\ job'.reserved = job.reserved
        /\ job'.inFlight = job.inFlight
    BY Charges DEF Generate, Raise, JobType
  <1> QED BY <1>1, <1>2, ChargeMoney

-------------------------------------------------------------------------------
(* The remote copy and the stage record. *)

\* Types this part rests on.
LEMMA CopyFacts ==
    ASSUME IInv
    PROVE  /\ CopyInv
           /\ job \in JobType /\ stage \in StageType
           /\ remote \in Remote \cup {NoFile}
           /\ uploads \in Nat /\ copies \subseteq 1..uploads
           /\ remote # NoFile => remote.copy \in 1..uploads
           /\ pc \in Uploaded => job.copy \in 1..uploads
           /\ pc \in {"cleanup", "cleaned"} => remote # NoFile
  BY PaidAssumption DEF IInv, PlaceInv, TypeOK, FilesTypeOK

\* A deletion takes away no copy but the one it names, and that one when it is
\* reported as done.
LEMMA Deletions ==
    ASSUME NEW copy, NEW deletion, Delete(copy, deletion)
    PROVE  /\ copies' \subseteq copies
           /\ deletion = "deleted" => copy \notin copies'
  BY DEF Delete

\* Before the stage is started: the retried cleanup and the decision.
LEMMA EarlyCopy ==
    ASSUME IInv, Start \/ Look \/ RetryCleanup \/ WriteCleaned \/ Reuse \/ New \/ PrepareCall
    PROVE  CopyInv'
  <1>1. CASE Start
    BY <1>1, CopyFacts DEF Start, CopyInv, CleanupClaimIsTrue, At, Goto,
       Answered, Started, provider, StageType
  <1>2. CASE Look
    BY <1>2, CopyFacts DEF Look, CopyInv, CleanupClaimIsTrue, At, Goto,
       Answered, Started, provider, files
  <1>3. CASE RetryCleanup
    <2>1. PICK deletion \in {"pending", "deleted"} :
            /\ Delete(remote.copy, deletion)
            /\ Goto(IF deletion = "deleted" THEN "cleaned" ELSE "decide")
      BY <1>3 DEF RetryCleanup
    <2> QED
      BY <1>3, <2>1, CopyFacts, Deletions DEF RetryCleanup, CopyInv, CleanupClaimIsTrue, At,
         Goto, Answered, Started, files
  <1>4. CASE WriteCleaned
    BY <1>4, CopyFacts, PaidLedgerAssumption DEF WriteCleaned, CopyInv, CleanupClaimIsTrue, At,
       Goto, Answered, Started, Remote, provider
  <1>5. CASE Reuse
    BY <1>5, CopyFacts DEF Reuse, CopyInv, CleanupClaimIsTrue, At, Goto,
       Answered, Started, StartStage, Stage, CleanupState, JobType, provider
  <1>6. CASE New
    BY <1>6, CopyFacts DEF New, CopyInv, CleanupClaimIsTrue, At, Goto,
       Answered, Started, StartStage, Stage, provider
  <1>7. CASE PrepareCall
    BY <1>7, CopyFacts DEF PrepareCall, CopyInv, CleanupClaimIsTrue, At,
       Goto, Answered, Started, Labels, provider
  <1> QED BY <1>1, <1>2, <1>3, <1>4, <1>5, <1>6, <1>7

\* A run ends: with a hit, a refusal, a completed or failed stage, or a kill.
LEMMA EndCopy ==
    ASSUME IInv, Hit \/ RefuseCall \/ Complete \/ Fail \/ Crash
    PROVE  CopyInv'
  <1>1. End /\ UNCHANGED <<meta, raw, canonical, sessionMap, remote>>
    BY DEF Hit, RefuseCall, Complete, Fail, Crash, files
  <1>2. pc' = "idle" /\ UNCHANGED <<copies, remote>>
    BY <1>1 DEF End, Goto, provider
  <1>3. CleanupClaimIsTrue'
    <2>1. CASE Hit
      BY <1>2, <2>1, CopyFacts DEF Hit, CleanStage, CleanupState, CopyInv, CleanupClaimIsTrue,
         StageType
    <2>2. CASE RefuseCall \/ Crash
      BY <1>2, <2>2, CopyFacts DEF RefuseCall, Crash, files, CopyInv, CleanupClaimIsTrue
    <2>3. CASE Complete
      BY <1>2, <2>3, CopyFacts DEF Complete, Stage, At, Answered, CopyInv, CleanupClaimIsTrue
    <2>4. CASE Fail
      BY <1>2, <2>4, CopyFacts DEF Fail, StageType, CopyInv, CleanupClaimIsTrue
    <2> QED BY <2>1, <2>2, <2>3, <2>4
  <1> QED
    BY <1>2, <1>3, CopyFacts DEF CopyInv, Answered, Started

\* The adapter: its upload, the metadata, the deletion and the receipt.
LEMMA AdapterCopy ==
    ASSUME IInv, Upload \/ RecordCopy \/ TidyUp \/ WriteReceipt
    PROVE  CopyInv'
  <1>1. "upload" \in Started /\ "record" \in Started /\ "tidy" \in Started /\ "receipt" \in Started
    BY DEF Started, Labels
  <1>2. pc \in Started => stage.status = "RUNNING"
    BY CopyFacts DEF CopyInv
  <1>3. CASE Upload
    <2>1. remote # NoFile => remote.copy # uploads + 1
      BY CopyFacts
    <2> QED
      BY <1>1, <1>2, <1>3, <2>1, CopyFacts DEF Upload, CopyInv, CleanupClaimIsTrue, At, Goto,
         Answered, Started, files
  <1>4. CASE RecordCopy
    BY <1>1, <1>2, <1>4, CopyFacts DEF RecordCopy, CopyInv, CleanupClaimIsTrue, At, Goto,
       Answered, Started, provider
  <1>5. CASE TidyUp
    <2>1. PICK deletion \in {"pending", "deleted"} :
            /\ Delete(job.copy, deletion)
            /\ job' = [job EXCEPT
                         !.cleanup = IF deletion = "deleted" THEN "COMPLETED" ELSE "PENDING",
                         !.faults = IF deletion = "deleted" THEN @ ELSE @ \cup {"delete"}]
      BY <1>5 DEF TidyUp
    <2>2. job'.copy = job.copy /\ (job'.cleanup = "COMPLETED" => deletion = "deleted")
      BY <2>1, CopyFacts DEF JobType
    <2> QED
      BY <1>1, <1>2, <1>5, <2>1, <2>2, CopyFacts, Deletions DEF TidyUp, CopyInv,
         CleanupClaimIsTrue, At, Goto, Answered, Started, files
  <1>6. CASE WriteReceipt
    <2>1. UNCHANGED <<stage, copies>> /\ pc = "receipt"
      BY <1>6 DEF WriteReceipt, At, provider
    <2>2. job.cleanup = "COMPLETED" => job.copy \notin copies
      BY <2>1, CopyFacts DEF CopyInv
    <2>3. CASE /\ remote' = [copy |-> job.copy,
                             deletion |-> IF job.cleanup = "COMPLETED" THEN "deleted" ELSE "pending"]
               /\ Goto(IF job.failed THEN "handle" ELSE "store") /\ UNCHANGED job
      <3>1. job.copy \in 1..uploads
        BY <2>1, CopyFacts DEF Uploaded
      <3>2. uploads \in 0..MaxUploads /\ MaxUploads \in Nat
        BY PaidAssumption DEF IInv, PlaceInv, TypeOK, FilesTypeOK
      <3>3. job.copy \in Copies
        BY <3>1, <3>2 DEF Copies
      <3>4. remote' # NoFile
        BY <2>3, <3>3, PaidLedgerAssumption DEF Remote
      <3> QED
        BY <1>1, <1>2, <2>1, <2>2, <2>3, <3>4 DEF CopyInv, CleanupClaimIsTrue, Goto, Answered,
           Started, Labels
    <2>4. CASE Goto(IF job.failed THEN "money" ELSE "tidy") /\ UNCHANGED remote
      BY <1>1, <1>2, <2>1, <2>4, CopyFacts DEF CopyInv, CleanupClaimIsTrue, Goto, Answered,
         Started, Labels
    <2> QED BY <1>6, <2>3, <2>4 DEF WriteReceipt
  <1> QED BY <1>3, <1>4, <1>5, <1>6

\* The steps of a run that leave copies, metadata and stage alone.
LEMMA OtherCopy ==
    ASSUME IInv,
           \/ Reserve \/ ReserveRaises \/ UploadFails \/ Wait \/ MarkInFlight \/ MarkRaises
           \/ Generate \/ StoreRaw \/ Settle \/ Canonicalize \/ CanonicalizeRaises \/ Publish
           \/ Handle \/ Undo \/ FinishRelease \/ Interrupt
    PROVE  CopyInv'
  <1>1. UNCHANGED <<copies, remote, stage>>
    BY DEF Reserve, ReserveRaises, UploadFails, Wait, MarkInFlight, MarkRaises, Generate,
       StoreRaw, Settle, Canonicalize, CanonicalizeRaises, Publish, Handle, Undo, FinishRelease,
       Interrupt, files, provider
  <1>2. /\ pc' \notin {"idle", "cleaned", "receipt"} /\ pc \in Started
        /\ pc' \in Started
        /\ pc' \in Answered => pc \in Answered /\ job' = job
    <2>1. CASE Reserve \/ ReserveRaises \/ UploadFails \/ Wait \/ MarkInFlight \/ MarkRaises
               \/ Generate
      BY <2>1 DEF Reserve, ReserveRaises, UploadFails, Wait, MarkInFlight, MarkRaises, Generate,
         Raise, At, Goto, Started, Answered, Labels
    <2>2. CASE StoreRaw \/ Settle \/ Canonicalize \/ CanonicalizeRaises \/ Publish
               \/ Handle \/ FinishRelease
      BY <2>2 DEF StoreRaw, Settle, Canonicalize, CanonicalizeRaises, Publish, Handle,
         FinishRelease, At, Goto, Started, Answered, Labels
    <2>3. CASE Undo
      <3>1. pc = "money" /\ pc' \in {"fail", "releasing"}
        BY <2>3 DEF Undo, At, Goto
      <3> QED BY <3>1 DEF Started, Answered, Labels
    <2>4. CASE Interrupt
      BY <2>4 DEF Interrupt, InAdapter, At, Goto, Started, Answered, Labels
    <2> QED BY <2>1, <2>2, <2>3, <2>4
  <1>3. stage.status = "RUNNING"
    BY <1>2, CopyFacts DEF CopyInv
  <1> QED
    BY <1>1, <1>2, <1>3, CopyFacts DEF CopyInv, CleanupClaimIsTrue

\* The owner, the provider's expiry, another command: copies only disappear.
LEMMA OutsideCopy ==
    ASSUME IInv, OwnerSteps \/ Expire \/ ReplaceMap
    PROVE  CopyInv'
  <1>1. UNCHANGED <<remote, stage, pc, job>> /\ copies' \subseteq copies
    BY DEF OwnerSteps, Expire, ReplaceMap, files, provider
  <1> QED
    BY <1>1, CopyFacts DEF CopyInv, CleanupClaimIsTrue

-------------------------------------------------------------------------------
(* What had to fail for a copy to be left without a name. *)

\* Types this part rests on.
LEMMA FaultFacts ==
    ASSUME IInv
    PROVE  /\ FaultInv /\ job \in JobType
           /\ uploads \in Nat /\ copies \subseteq 1..uploads /\ NoFile \notin copies
  <1>1. NoFile \notin Nat
    BY PaidAssumption
  <1> QED BY <1>1, CopyFacts DEF IInv

\* A run that has uploaded nothing.
LEMMA NothingUploaded ==
    ASSUME NoFile \notin copies', job'.copy = NoFile,
           pc' \notin {"wait", "mark", "generate", "tidy", "receipt"}
    PROVE  FaultInv'
  BY DEF FaultInv, OnlyFaultsStrandACopy

\* A step that leaves the copy, its metadata and the history alone, and enters
\* neither the adapter's handlers past their beginning nor what is behind it.
LEMMA FaultsStay ==
    ASSUME IInv, UNCHANGED remote, copies' \subseteq copies,
           job'.copy = job.copy, job'.faults = job.faults,
           pc' \in Early \cup {"upload"} => pc \in Early \cup {"upload"},
           pc' \in {"wait", "mark", "generate"} => pc \in {"wait", "mark", "generate"},
           pc' = "tidy" => pc \in {"wait", "mark", "generate", "tidy"},
           pc' = "receipt" => pc = "receipt",
           pc' \in AfterAdapter => pc \in AfterAdapter
    PROVE  FaultInv'
  BY FaultFacts DEF FaultInv, OnlyFaultsStrandACopy, CopyIsNamed

\* The steps before there is a copy.
LEMMA EarlyFaults ==
    ASSUME IInv,
           \/ Start \/ Look \/ RetryCleanup \/ WriteCleaned \/ Reuse \/ New \/ PrepareCall
           \/ Reserve \/ ReserveRaises \/ UploadFails
    PROVE  FaultInv'
  <1>1. pc \in Early \cup {"upload"}
    BY DEF Start, Look, RetryCleanup, WriteCleaned, Reuse, New, PrepareCall, Reserve,
       ReserveRaises, UploadFails, At, Early
  <1>2. job.copy = NoFile /\ NoFile \notin copies
    BY <1>1, FaultFacts DEF FaultInv
  <1>3. copies' \subseteq copies
    BY DEF Start, Look, RetryCleanup, WriteCleaned, Reuse, New, PrepareCall, Reserve,
       ReserveRaises, UploadFails, Delete, provider
  <1>4. pc' \notin {"wait", "mark", "generate", "tidy", "receipt"}
    BY DEF Start, Look, RetryCleanup, WriteCleaned, Reuse, New, PrepareCall, Reserve,
       ReserveRaises, UploadFails, Goto
  <1>5. job'.copy = NoFile
    BY <1>2, FaultFacts DEF Start, Look, RetryCleanup, WriteCleaned, Reuse, New, PrepareCall,
       Reserve, ReserveRaises, UploadFails, NoJob, JobType
  <1> QED BY <1>2, <1>3, <1>4, <1>5, NothingUploaded

\* A run ends.
LEMMA EndFaults == ASSUME IInv, End PROVE FaultInv'
  <1>1. job'.copy = NoFile /\ pc' = "idle" /\ NoFile \notin copies'
    BY FaultFacts DEF End, NoJob, Goto, provider
  <1> QED BY <1>1, NothingUploaded

\* The owner, the provider's expiry, another command.
LEMMA OutsideFaults == ASSUME IInv, OwnerSteps \/ Expire \/ ReplaceMap PROVE FaultInv'
  <1>1. UNCHANGED <<remote, pc, job>> /\ copies' \subseteq copies
    BY DEF OwnerSteps, Expire, ReplaceMap, files, provider
  <1> QED BY <1>1, FaultsStay

\* The steps of a run on its way through the adapter and behind it.
LEMMA OtherFaults ==
    ASSUME IInv,
           \/ Wait \/ MarkInFlight \/ MarkRaises \/ Generate \/ StoreRaw \/ Settle
           \/ Canonicalize \/ CanonicalizeRaises \/ Publish \/ Handle \/ Undo \/ FinishRelease
    PROVE  FaultInv'
  <1>1. UNCHANGED <<remote, copies>>
    BY DEF Wait, MarkInFlight, MarkRaises, Generate, StoreRaw, Settle, Canonicalize,
       CanonicalizeRaises, Publish, Handle, Undo, FinishRelease, files, provider
  <1>2. job'.copy = job.copy /\ job'.faults = job.faults
    BY FaultFacts DEF Wait, MarkInFlight, MarkRaises, Generate, Raise, StoreRaw, Settle,
       Canonicalize, CanonicalizeRaises, Publish, Handle, Undo, FinishRelease, JobType
  <1>3. \/ pc \in {"wait", "mark", "generate"} /\ pc' \in {"mark", "generate", "tidy"}
        \/ pc \in AfterAdapter /\ pc' \in AfterAdapter
    BY DEF Wait, MarkInFlight, MarkRaises, Generate, Raise, StoreRaw, Settle, Canonicalize,
       CanonicalizeRaises, Publish, Handle, Undo, FinishRelease, At, Goto, AfterAdapter
  <1>4. AfterAdapter \cap (Early \cup {"upload", "wait", "mark", "generate", "tidy", "receipt"}) = {}
    BY DEF AfterAdapter, Early
  <1>5. {"mark", "generate", "tidy"} \cap (Early \cup {"upload"}) = {}
    BY DEF Early
  <1> QED BY <1>1, <1>2, <1>3, <1>4, <1>5, FaultsStay

\* Where the copy is uploaded, recorded, deleted and its receipt written.
LEMMA AdapterFaults ==
    ASSUME IInv, Upload \/ RecordCopy \/ TidyUp \/ WriteReceipt
    PROVE  FaultInv'
  <1>1. job \in JobType /\ FaultInv
    BY FaultFacts
  <1>2. CASE Upload
    BY <1>2 DEF Upload, Goto, FaultInv, OnlyFaultsStrandACopy, AfterAdapter, Early
  <1>3. CASE RecordCopy
    <2>1. CASE /\ remote' = [copy |-> job.copy, deletion |-> "pending"]
               /\ Goto("wait") /\ UNCHANGED job
      BY <2>1 DEF Goto, FaultInv, OnlyFaultsStrandACopy, CopyIsNamed, AfterAdapter, Early
    <2>2. CASE /\ job' = [job EXCEPT !.failed = TRUE, !.faults = @ \cup {"record"}]
               /\ Goto("tidy")
      <3>1. "record" \in job'.faults
        BY <1>1, <2>2 DEF JobType
      <3> QED
        BY <2>2, <3>1 DEF Goto, FaultInv, OnlyFaultsStrandACopy, AfterAdapter, Early
    <2> QED BY <1>3, <2>1, <2>2 DEF RecordCopy
  <1>4. CASE TidyUp
    <2>1. PICK deletion \in {"pending", "deleted"} :
            /\ Delete(job.copy, deletion)
            /\ job' = [job EXCEPT
                         !.cleanup = IF deletion = "deleted" THEN "COMPLETED" ELSE "PENDING",
                         !.faults = IF deletion = "deleted" THEN @ ELSE @ \cup {"delete"}]
      BY <1>4 DEF TidyUp
    <2>2. /\ job'.copy = job.copy /\ job.faults \subseteq job'.faults
          /\ deletion = "deleted" \/ "delete" \in job'.faults
      BY <1>1, <2>1 DEF JobType
    <2>3. deletion = "deleted" => job.copy \notin copies'
      BY <2>1, Deletions
    <2>4. pc = "tidy" /\ pc' = "receipt" /\ UNCHANGED remote
      BY <1>4 DEF TidyUp, At, Goto, files
    <2> QED
      BY <1>1, <2>2, <2>3, <2>4 DEF FaultInv, OnlyFaultsStrandACopy, CopyIsNamed, AfterAdapter,
         Early
  <1>5. CASE WriteReceipt
    <2>1. pc = "receipt" /\ UNCHANGED copies
      BY <1>5 DEF WriteReceipt, At, provider
    <2>2. CASE /\ remote' = [copy |-> job.copy,
                             deletion |-> IF job.cleanup = "COMPLETED" THEN "deleted" ELSE "pending"]
               /\ Goto(IF job.failed THEN "handle" ELSE "store") /\ UNCHANGED job
      <3>1. job.cleanup = "COMPLETED" => job.copy \notin copies
        BY <2>1, CopyFacts DEF CopyInv
      <3> QED
        BY <2>1, <2>2, <3>1 DEF Goto, FaultInv, OnlyFaultsStrandACopy, CopyIsNamed,
           AfterAdapter, Early
    <2>3. CASE /\ job' = [job EXCEPT !.failed = TRUE, !.answer = NoFile,
                                     !.faults = @ \cup {"receipt"}]
               /\ Goto(IF job.failed THEN "money" ELSE "tidy") /\ UNCHANGED remote
      <3>1. /\ job'.copy = job.copy /\ job.faults \subseteq job'.faults
            /\ "receipt" \in job'.faults
        BY <1>1, <2>3 DEF JobType
      <3> QED
        BY <1>1, <2>1, <2>3, <3>1 DEF Goto, FaultInv, OnlyFaultsStrandACopy, CopyIsNamed,
           AfterAdapter, Early
    <2> QED BY <1>5, <2>2, <2>3 DEF WriteReceipt
  <1> QED BY <1>2, <1>3, <1>4, <1>5

\* An interrupt leaves the adapter at once, or what is behind it.
LEMMA InterruptFaults == ASSUME IInv, Interrupt PROVE FaultInv'
  <1>1. /\ job'.copy = job.copy /\ job.faults \subseteq job'.faults
        /\ InAdapter => "interrupt" \in job'.faults
        /\ pc = "record" => "record" \in job'.faults
    BY FaultFacts, InterruptJob
  <1>2. /\ UNCHANGED <<remote, copies>> /\ pc' \in {"fail", "money"}
        /\ InAdapter \/ pc \in AfterAdapter
    BY DEF Interrupt, Goto, files, AfterAdapter
  <1> QED
    BY <1>1, <1>2, FaultFacts DEF FaultInv, OnlyFaultsStrandACopy, CopyIsNamed, InAdapter,
       AfterAdapter, Early

-------------------------------------------------------------------------------
(* The theorems. *)

\* Initially.
LEMMA InitIInv == Init => IInv
  <1> SUFFICES ASSUME Init PROVE IInv
    OBVIOUS
  <1>1. L!TypeOK
    BY DEF Init, L!TypeOK, L!Pending
  <1>2. PlaceInv
    BY <1>1, PaidAssumption DEF Init, PlaceInv, TypeOK, FilesTypeOK, Labels, Called, Uploaded,
       Answered, Stage, StageType, NoOutputs, Outputs, NoJob, JobType
  <1>3. MoneyInv
    BY <1>2 DEF Init, MoneyInv, ChargedCallsCount, BaseChargedOnce, ReservationsGivenBack, At,
       NoJob, Unsent, Base, CallIds
  <1>4. CopyInv
    BY DEF Init, CopyInv, CleanupClaimIsTrue, Stage, Answered, Started
  <1>5. FaultInv
    BY DEF Init, FaultInv, OnlyFaultsStrandACopy, AfterAdapter, NoJob
  <1> QED BY <1>2, <1>3, <1>4, <1>5 DEF IInv

\* Each step keeps the four.
LEMMA NextIInv == IInv /\ [Next]_vars => IInv'
  <1>1. ASSUME IInv, UNCHANGED vars PROVE IInv'
    <2>1. /\ rows' = rows /\ hold' = hold /\ schema' = schema /\ budget' = budget
          /\ pend' = pend /\ acked' = acked
      BY <1>1 DEF vars, ledger
    <2>2. /\ meta' = meta /\ raw' = raw /\ canonical' = canonical
          /\ sessionMap' = sessionMap /\ remote' = remote /\ stage' = stage
      BY <1>1 DEF vars, files
    <2>3. /\ copies' = copies /\ uploads' = uploads /\ charged' = charged
          /\ pc' = pc /\ job' = job
      BY <1>1 DEF vars, provider
    <2>4. TypeOK'
      <3>1. L!TypeOK'
        BY <1>1, <2>1 DEF IInv, PlaceInv, TypeOK, L!TypeOK
      <3>2. FilesTypeOK'
        BY <1>1, <2>2, <2>3 DEF IInv, PlaceInv, TypeOK, FilesTypeOK
      <3> QED BY <1>1, <2>3, <3>1, <3>2 DEF IInv, PlaceInv, TypeOK
    <2>5. PlaceInv'
      BY <1>1, <2>2, <2>3, <2>4 DEF IInv, PlaceInv
    <2>6. MoneyInv'
      BY <1>1, <2>1, <2>3 DEF IInv, MoneyInv, ChargedCallsCount, BaseChargedOnce,
         ReservationsGivenBack, Status, At
    <2>7. CopyInv'
      BY <1>1, <2>2, <2>3 DEF IInv, CopyInv, CleanupClaimIsTrue
    <2>8. FaultInv'
      BY <1>1, <2>2, <2>3 DEF IInv, FaultInv, OnlyFaultsStrandACopy, CopyIsNamed
    <2> QED BY <2>5, <2>6, <2>7, <2>8 DEF IInv
  <1>2. ASSUME IInv, Next PROVE PlaceInv'
    BY <1>2, EarlyPlace, SendPlace, StorePlace, HandlerPlace, OutsidePlace DEF Next, Run
  <1>3. ASSUME IInv, Next PROVE MoneyInv'
    <2>1. CASE Hit \/ RefuseCall \/ Complete \/ Fail \/ Crash
      <3>1. pc # "idle" /\ End
        BY <2>1 DEF Hit, RefuseCall, Complete, Fail, Crash, At
      <3> QED BY <1>3, <3>1, EndMoney
    <2> QED
      BY <1>3, <2>1, StartMoney, PrepareMoney, TransactionMoney, GenerateMoney, OtherMoney,
         InterruptMoney, OutsideMoney DEF Next, Run
  <1>4. ASSUME IInv, Next PROVE CopyInv'
    BY <1>4, EarlyCopy, EndCopy, AdapterCopy, OtherCopy, OutsideCopy DEF Next, Run
  <1>5. ASSUME IInv, Next PROVE FaultInv'
    <2>1. CASE Hit \/ RefuseCall \/ Complete \/ Fail \/ Crash
      BY <1>5, <2>1, EndFaults DEF Hit, RefuseCall, Complete, Fail, Crash
    <2> QED
      BY <1>5, <2>1, EarlyFaults, OutsideFaults, OtherFaults, AdapterFaults, InterruptFaults
         DEF Next, Run
  <1> QED BY <1>1, <1>2, <1>3, <1>4, <1>5 DEF IInv

\* The invariant holds throughout.
LEMMA IInvHolds == Spec => []IInv
  BY InitIInv, NextIInv, PTL DEF Spec

\* Files, rows, the stage record and the run's variables keep their shapes.
THEOREM ScoutTypes == Spec => []TypeOK
  <1>1. IInv => TypeOK
    BY DEF IInv, PlaceInv
  <1> QED BY <1>1, IInvHolds, PTL

\* What may have been charged counts in the budget, whatever ends a run.
THEOREM ChargesCount == Spec => []ChargedCallsCount
  <1>1. IInv => ChargedCallsCount
    BY DEF IInv, MoneyInv
  <1> QED BY <1>1, IInvHolds, PTL

\* The first call of a configuration is charged at most once.
THEOREM FirstCallOnce == Spec => []BaseChargedOnce
  <1>1. IInv => BaseChargedOnce
    BY DEF IInv, MoneyInv
  <1> QED BY <1>1, IInvHolds, PTL

\* A run that ends by itself leaves no reservation behind.
THEOREM NoReservationKept == Spec => []ReservationsGivenBack
  <1>1. IInv => ReservationsGivenBack
    BY DEF IInv, MoneyInv
  <1> QED BY <1>1, IInvHolds, PTL

\* A remote copy is left without a name only by the faults of its record, its
\* deletion and its receipt together, or by an interrupt while it has no record.
THEOREM StrandedByFaultsOnly == Spec => []OnlyFaultsStrandACopy
  <1>1. IInv => OnlyFaultsStrandACopy
    BY DEF IInv, FaultInv
  <1> QED BY <1>1, IInvHolds, PTL

\* A stage that reports its cleanup as done is right.
THEOREM CleanupIsDone == Spec => []CleanupClaimIsTrue
  <1>1. IInv => CleanupClaimIsTrue
    BY DEF IInv, CopyInv
  <1> QED BY <1>1, IInvHolds, PTL

-------------------------------------------------------------------------------
(* The scout uses the ledger as it allows. *)

\* While a run is going it has the ledger open.
OpenInv == pc # "idle" => L!IsOpen(Runner)

\* The steps that leave the ledger alone.
Aside ==
    \/ Look \/ RetryCleanup \/ WriteCleaned \/ Reuse \/ New \/ PrepareCall \/ ReserveRaises
    \/ Upload \/ UploadFails \/ RecordCopy \/ Wait \/ MarkRaises \/ Generate \/ TidyUp
    \/ WriteReceipt \/ StoreRaw \/ Canonicalize \/ CanonicalizeRaises \/ Publish \/ Handle
    \/ Interrupt \/ Expire \/ ReplaceMap

\* The steps that end a run, and those that change a row of its call.
Ending == Hit \/ RefuseCall \/ Complete \/ Fail \/ Crash
Acting == Reserve \/ MarkInFlight \/ Settle \/ Undo \/ FinishRelease

\* Every step is one of these.
LEMMA Kinds == Next => Start \/ Aside \/ Ending \/ Acting \/ OwnerSteps
  BY DEF Next, Run, Aside, Ending, Acting

\* What the steps leave alone.
LEMMA AsideKeeps == Aside => UNCHANGED ledger /\ (pc = "idle" => UNCHANGED pc)
  BY DEF Aside, Look, RetryCleanup, WriteCleaned, Reuse, New, PrepareCall, ReserveRaises, Upload,
     UploadFails, RecordCopy, Wait, Raise, MarkRaises, Generate, TidyUp, WriteReceipt, StoreRaw,
     Canonicalize, CanonicalizeRaises, Publish, Handle, Interrupt, InAdapter, Expire,
     ReplaceMap, At

\* A run that ends closes the ledger.
LEMMA EndingEnds == Ending => End
  BY DEF Ending, Hit, RefuseCall, Complete, Fail, Crash

\* The ledger is open from the start of a run to its end.
LEMMA OpenStep == IInv /\ OpenInv /\ [Next]_vars => OpenInv'
  <1> SUFFICES ASSUME IInv, OpenInv, [Next]_vars PROVE OpenInv'
    OBVIOUS
  <1>1. CASE Start
    <2>1. PICK b \in Budgets : budget' = [budget EXCEPT ![Runner] = b]
      BY <1>1 DEF Start, L!Initialize
    <2> QED BY <2>1, Ready, PaidLedgerAssumption DEF OpenInv, L!IsOpen, L!TypeOK
  <1>2. CASE Aside
    BY <1>2, AsideKeeps DEF OpenInv, L!IsOpen, ledger
  <1>3. CASE Ending
    BY <1>3, EndingEnds DEF End, Goto, OpenInv
  <1>4. CASE Acting
    <2>1. UNCHANGED budget /\ pc # "idle"
      BY <1>4 DEF Acting, Reserve, MarkInFlight, Settle, Undo, FinishRelease, LedgerRest, ledger,
         L!BeginRelease, L!FinishRelease, At
    <2> QED BY <2>1 DEF OpenInv, L!IsOpen
  <1>5. CASE OwnerSteps
    BY <1>5 DEF OwnerSteps, At, OpenInv
  <1>6. CASE UNCHANGED vars
    BY <1>6 DEF vars, ledger, OpenInv, L!IsOpen
  <1> QED BY <1>1, <1>2, <1>3, <1>4, <1>5, <1>6, Kinds

\* The ledger's variables, as its module and this one write them.
LEMMA SameVars == UNCHANGED ledger => UNCHANGED L!vars
  BY DEF ledger, L!vars

\* A step that changes a row of the run's call.
LEMMA ActingStep ==
    ASSUME IInv, OpenInv, Acting
    PROVE  L!Next \/ UNCHANGED L!vars
  <1>1. pc \in Called /\ L!IsOpen(Runner)
    BY DEF Acting, Reserve, MarkInFlight, Settle, Undo, FinishRelease, At, Called, OpenInv
  <1>2. PICK c \in CallIds : c = job.call
    BY <1>1, Ready
  <1>3. CASE UNCHANGED ledger
    BY <1>3, SameVars
  <1>4. CASE \E m \in Periods : L!InsertRow(c, Quote(m), budget[Runner]) /\ LedgerRest
    <2>1. PICK m \in Periods : L!InsertRow(c, Quote(m), budget[Runner]) /\ LedgerRest
      BY <1>4
    <2>2. Quote(m) \in L!Quote
      BY <1>2, QuoteType
    <2>3. L!Reserve(Runner, c)
      BY <1>1, <2>1, <2>2 DEF L!Reserve, LedgerRest
    <2> QED BY <2>3 DEF L!Next
  <1>5. CASE L!Transition(c, {"RESERVED"}, "IN_FLIGHT") /\ LedgerRest
    <2>1. L!MarkInFlight(Runner, c)
      BY <1>1, <1>5 DEF L!MarkInFlight, LedgerRest
    <2> QED BY <2>1 DEF L!Next
  <1>6. CASE L!Transition(c, {"IN_FLIGHT"}, "AMBIGUOUS") /\ LedgerRest
    <2>1. L!MarkAmbiguous(Runner, c)
      BY <1>1, <1>6 DEF L!MarkAmbiguous, LedgerRest
    <2> QED BY <2>1 DEF L!Next
  <1>7. CASE \E u \in Usages : L!SettleRow(c, u) /\ LedgerRest
    <2>1. L!Settle(Runner, c)
      BY <1>1, <1>7 DEF L!Settle, LedgerRest
    <2> QED BY <2>1 DEF L!Next, L!Reconcile
  <1>8. CASE L!BeginRelease(Runner, c, FALSE) \/ L!FinishRelease(Runner)
    BY <1>8 DEF L!Next
  <1> QED
    BY <1>2, <1>3, <1>4, <1>5, <1>6, <1>7, <1>8
       DEF Acting, Reserve, MarkInFlight, Settle, Undo, FinishRelease

\* A step of the owner.
LEMMA OwnerActs == OwnerSteps => L!Next
  <1>1. ASSUME NEW c \in CallIds, Reconcile(c) PROVE L!Next
    <2>1. L!Settle(Owner, c) \/ L!BeginRelease(Owner, c, TRUE) \/ L!MarkAmbiguous(Owner, c)
      BY <1>1 DEF Reconcile
    <2> QED BY <2>1 DEF L!Next, L!Reconcile
  <1> QED BY <1>1 DEF OwnerSteps, L!Next

\* Each step of the scout is a step of the ledger or none.
LEMMA LedgerStep == IInv /\ OpenInv /\ [Next]_vars => [L!Next]_(L!vars)
  <1>1. Start \/ Ending => L!Next
    BY EndingEnds DEF Start, End, L!Next
  <1>2. UNCHANGED vars => UNCHANGED L!vars
    BY SameVars DEF vars
  <1> QED
    BY <1>1, <1>2, Kinds, AsideKeeps, SameVars, ActingStep, OwnerActs

\* Nothing adds up to nothing.
LEMMA NothingTotal ==
  ASSUME NEW amount, DOMAIN amount = {}
  PROVE  L!Total(amount) = Cardinality({})
  <1>1. UNION {{c} \X (1..amount[c]) : c \in DOMAIN amount} = {}
    OBVIOUS
  <1> QED BY <1>1 DEF L!Total, L!Cardinality, Cardinality

\* A new ledger has spent nothing.
LEMMA NewLedger == Init => L!Init
  <1> SUFFICES ASSUME Init PROVE L!Init
    OBVIOUS
  <1>1. ASSUME NEW m \in Periods PROVE \E b \in Budgets : L!PeriodCovered(m) <= b
    <2>1. L!InPeriod(m) = {}
      BY DEF Init, L!InPeriod
    <2>2. L!PeriodCovered(m) = Cardinality({})
      BY <2>1, NothingTotal DEF L!PeriodCovered
    <2>3. PICK b \in Budgets : b \in Nat
      BY PaidLedgerAssumption, PaidMoneyAssumption
    <2> QED BY <2>2, <2>3, FS_EmptySet
  <1> QED
    BY <1>1 DEF Init, L!Init

\* All that the runs, their interrupts and kills and the owner do to the ledger
\* is what a ledger allows.
THEOREM LedgerIsRespected == Spec => L!Spec
  <1>1. Init => L!Init /\ OpenInv
    BY NewLedger DEF Init, OpenInv
  <1> QED
    BY <1>1, OpenStep, LedgerStep, IInvHolds, PTL DEF Spec, L!Spec

-------------------------------------------------------------------------------
(* What the ledger promises holds for the scout's money. *)

LP == INSTANCE CostLedgerProofs WITH
        Calls <- CallIds, Procs <- {Runner, Owner}, Fingerprints <- Configs,
        Amounts <- {Price[k] : k \in Configs}

\* The scout's calls, amounts and null values are a ledger's.
LEMMA LedgerAssumed == LP!LedgerAssumption
  <1>1. {Price[k] : k \in Configs} \subseteq Nat
    BY PaidMoneyAssumption
  <1>2. IsFiniteSet({0, 1})
    <2>1. IsFiniteSet({1})
      BY FS_Singleton
    <2>2. IsFiniteSet({1} \cup {0})
      BY <2>1, FS_AddElement
    <2> QED BY Zenon, <2>2
  <1>3. IsFiniteSet(CallIds)
    BY <1>2, PaidMoneyAssumption, FS_Product DEF CallIds
  <1>4. LP!IsFiniteSet(CallIds)
    BY <1>3 DEF LP!IsFiniteSet, IsFiniteSet
  <1>5. NoRow \notin LP!LedgerRecord
    BY PaidLedgerAssumption DEF LP!LedgerRecord, LP!LifecycleStatus, L!LedgerRecord,
       L!LifecycleStatus
  <1>6. NoHold \notin LP!CostSafetyHold
    BY PaidMoneyAssumption DEF LP!CostSafetyHold, L!CostSafetyHold
  <1> QED
    BY <1>1, <1>4, <1>5, <1>6, PaidLedgerAssumption, PaidMoneyAssumption

\* The ledger that the scout implements is the one the theorems are about.
LEMMA SameLedger == L!Spec => LP!Spec
  <1>1. L!Init => LP!Init
    BY Zenon DEF L!Init, LP!Init, L!LedgerRecord, LP!LedgerRecord, L!LifecycleStatus,
       LP!LifecycleStatus, L!PeriodCovered, LP!PeriodCovered, L!Covered, LP!Covered,
       L!InPeriod, LP!InPeriod, L!Exposure, LP!Exposure, L!ActiveStates, LP!ActiveStates,
       L!Total, LP!Total, L!Cardinality, LP!Cardinality
  <1>2. [L!Next]_(L!vars) => [LP!Next]_(LP!vars)
    BY Zenon DEF L!Initialize, LP!Initialize, L!Crash, LP!Crash, L!ReviewHold,
       LP!ReviewHold, L!AcknowledgeSafetyHold, LP!AcknowledgeSafetyHold, L!FinishRelease,
       LP!FinishRelease, L!Reserve, LP!Reserve, L!MarkInFlight, LP!MarkInFlight,
       L!MarkAmbiguous, LP!MarkAmbiguous, L!BeginRelease, LP!BeginRelease, L!Reconcile,
       LP!Reconcile, L!Settle, LP!Settle, L!IsOpen, LP!IsOpen, L!InsertRow, LP!InsertRow,
       L!CanReserve, LP!CanReserve, L!Transition, LP!Transition, L!SettleRow, LP!SettleRow,
       L!ReleaseFrom, LP!ReleaseFrom, L!NewRow, LP!NewRow, L!Quote, LP!Quote, L!HoldActive,
       LP!HoldActive, L!Overruns, LP!Overruns, L!IsOverrun, LP!IsOverrun, L!PeriodExposure,
       LP!PeriodExposure, L!InPeriod, LP!InPeriod, L!Exposure, LP!Exposure, L!ActiveStates,
       LP!ActiveStates, L!Total, LP!Total, L!Cardinality, LP!Cardinality, L!Release,
       LP!Release, L!Review, LP!Review, L!Next, LP!Next, L!vars, LP!vars
  <1> QED
    BY <1>1, <1>2, PTL DEF L!Spec, LP!Spec

\* The budget of every month and the safety hold stand, whatever runs
\* of the scout, their interrupts and their owner do.
THEOREM BudgetHolds == Spec => [](L!WithinBudget /\ L!UnackedOverrunHolds)
  <1>1. LP!Spec => []LP!WithinBudget /\ []LP!UnackedOverrunHolds
    BY LedgerAssumed, LP!BudgetHolds, LP!SafetyHoldHolds
  <1>2. LP!WithinBudget => L!WithinBudget
    BY Zenon DEF L!WithinBudget, LP!WithinBudget, L!PeriodCovered, LP!PeriodCovered, L!Total,
       LP!Total,
       L!Cardinality, LP!Cardinality, L!Covered, LP!Covered, L!InPeriod, LP!InPeriod,
       L!Exposure, LP!Exposure, L!ActiveStates, LP!ActiveStates
  <1>3. LP!UnackedOverrunHolds => L!UnackedOverrunHolds
    BY Zenon DEF L!UnackedOverrunHolds, LP!UnackedOverrunHolds, L!Overruns, LP!Overruns,
       L!IsOverrun, LP!IsOverrun, L!HoldActive, LP!HoldActive
  <1> QED
    BY <1>1, <1>2, <1>3, LedgerIsRespected, SameLedger, PTL

\* Nothing is granted under an overrun that nobody acknowledged, what may have
\* been sent stays set aside, and what was settled or released is final.
THEOREM RowsStand ==
    Spec => L!NoGrantUnderUnackedOverrun /\ L!DispatchedMoneyStays /\ L!FinalRowsStay
  <1>1. LP!Spec => LP!NoGrantUnderUnackedOverrun /\ LP!DispatchedMoneyStays /\ LP!FinalRowsStay
    BY LedgerAssumed, LP!NoGrantUnderOverrun, LP!DispatchedMoney, LP!FinalRows
  <1>2. LP!NoGrantUnderUnackedOverrun => L!NoGrantUnderUnackedOverrun
    BY Zenon DEF L!NoGrantUnderUnackedOverrun, LP!NoGrantUnderUnackedOverrun, L!Overruns,
       LP!Overruns,
       L!IsOverrun, LP!IsOverrun, L!vars, LP!vars
  <1>3. LP!DispatchedMoneyStays => L!DispatchedMoneyStays
    BY Zenon DEF L!DispatchedMoneyStays, LP!DispatchedMoneyStays, L!Exposure, LP!Exposure,
       L!ActiveStates, LP!ActiveStates, L!Release, LP!Release, L!vars, LP!vars
  <1>4. LP!FinalRowsStay => L!FinalRowsStay
    BY Zenon DEF L!FinalRowsStay, LP!FinalRowsStay, L!vars, LP!vars
  <1> QED
    BY <1>1, <1>2, <1>3, <1>4, LedgerIsRespected, SameLedger, PTL

\* To its owner the scout is a gate that keeps a budget.
THEOREM GateIsKept == Spec => L!ImplementsBudgetGate
  <1>1. LP!Spec => LP!ImplementsBudgetGate
    BY LedgerAssumed, LP!Refinement
  <1>2. LP!Gate!Init => L!Gate!Init
    BY Zenon DEF L!Gate!Init, LP!Gate!Init, L!PeriodExposure, LP!PeriodExposure, L!InPeriod,
       LP!InPeriod, L!Exposure, LP!Exposure, L!ActiveStates, LP!ActiveStates, L!Total,
       LP!Total, L!Cardinality, LP!Cardinality, L!HoldActive, LP!HoldActive, L!Overruns,
       LP!Overruns, L!IsOverrun, LP!IsOverrun
  <1>3. [LP!Gate!Next]_(LP!Gate!vars) => [L!Gate!Next]_(L!Gate!vars)
    BY Zenon DEF L!Gate!Next, LP!Gate!Next, L!Gate!vars, LP!Gate!vars, L!Gate!Commit,
       LP!Gate!Commit, L!Gate!GiveBack, LP!Gate!GiveBack, L!Gate!Overrun, LP!Gate!Overrun,
       L!Gate!Reopen, LP!Gate!Reopen, L!Gate!OnlyMonth, LP!Gate!OnlyMonth, L!PeriodExposure,
       LP!PeriodExposure, L!InPeriod, LP!InPeriod, L!Exposure, LP!Exposure, L!ActiveStates,
       LP!ActiveStates, L!Total, LP!Total, L!Cardinality, LP!Cardinality, L!HoldActive,
       LP!HoldActive, L!Overruns, LP!Overruns, L!IsOverrun, LP!IsOverrun
  <1> QED
    BY <1>1, <1>2, <1>3, LedgerIsRespected, SameLedger, PTL
       DEF L!ImplementsBudgetGate, LP!ImplementsBudgetGate, L!Gate!Spec, LP!Gate!Spec
===============================================================================
