-------------------------- MODULE WindowedScoutProofs --------------------------
(***************************************************************************)
(* Theorems about the paid windowed scout for any number of overlapping    *)
(* runs, windows, configurations and retries: its types, that a charge     *)
(* always counts, that what is served was paid for, and that all it does   *)
(* to the ledger is what the ledger allows, so that the ledger's promises  *)
(* hold for it; and, for runs of one configuration that do not overlap,    *)
(* that a request is paid for once.                                        *)
(*                                                                         *)
(* The inductive invariant IInv ties the place of each run to the row of   *)
(* its call (RunInv), a pending release of the owner to a call that was    *)
(* not charged (OwnerInv), and a settled row to a charge.  OnceInv, for    *)
(* PaidOnce, says which call of a window is the one to go on with.         *)
(***************************************************************************)
EXTENDS WindowedScout, FiniteSetTheorems, TLAPS

Rows == [CallIds -> L!LedgerRecord \cup {NoRow}]

Sent == {"IN_FLIGHT", "AMBIGUOUS", "SETTLED"}
IsSent(c) == rows[c] # NoRow /\ rows[c].status \in Sent
IsSettled(c) == rows[c] # NoRow /\ rows[c].status = "SETTLED"

\* Places of a run: it works on a call, the call has a row, it has its answer.
Answered == {"store", "settle", "receipt", "canonicalize"}
HasRow == Answered \cup {"upload", "mark", "generate", "ambiguous", "release", "releasing"}
Working == HasRow \cup {"reserve", "report"}

\* What a run has planned for window w: a call of that window, and for one to be
\* served a settled one with its answer.
PlanInv(p, w) ==
    LET plan == job[p].plan[w] IN
    /\ plan.kind # "none" => plan.call \in OwnCalls(w)
    /\ plan.kind \in {"full", "raw"} =>
         plan.file \in RawFile /\ plan.file.call[1] = w /\ IsSettled(plan.call)

RunInv(p) ==
    /\ pc[p] # "idle" => budget[p] # Closed /\ job[p].config \in Configs
    /\ pend[p] = Idle \/ \E c \in CallIds : pend[p] = L!Release(c, FALSE)
    /\ pc[p] \in Working => job[p].plan[job[p].at].kind = "new"
    /\ pc[p] \in HasRow => rows[Call(p)] # NoRow
    /\ pc[p] = "generate" => IsSent(Call(p))
    /\ pc[p] \in Answered =>
         job[p].answer \in RawFile /\ job[p].answer.call = Call(p) /\ charged[Call(p)] > 0
    /\ \A w \in Windows : PlanInv(p, w)

\* What the owner is about to do.
OwnerInv ==
    pend[Owner] = Idle \/
        /\ Quiet
        /\ pend[Owner] = L!Review \/
             \E c \in CallIds : charged[c] = 0 /\ pend[Owner] = L!Release(c, TRUE)

SettledIsCharged == \A c \in CallIds : IsSettled(c) => charged[c] > 0

IInv ==
    /\ TypeOK
    /\ \A p \in Workers : RunInv(p)
    /\ OwnerInv
    /\ ChargedCallsCount
    /\ SettledIsCharged

-------------------------------------------------------------------------------
(* Calls. *)

\* Whatever names a window and a configuration is a call of that window.
LEMMA BaseCall ==
    ASSUME NEW w \in Windows, NEW k \in Configs
    PROVE  Base(w, k) \in OwnCalls(w)
  BY ScoutAssumption DEF Base, OwnCalls, CallIds

\* One more suffix leaves a call id a call id of its window.
LEMMA RetryCall ==
    ASSUME NEW c \in CallIds, c[3] < MaxRetries
    PROVE  Retry(c) \in OwnCalls(c[1])
  <1>1. PICK w \in Windows, k \in Configs, n \in 0..MaxRetries : c = <<w, k, n>>
    BY DEF CallIds
  <1>2. Retry(c) = <<w, k, n + 1>> /\ n + 1 \in 0..MaxRetries
    BY <1>1, ScoutAssumption DEF Retry
  <1> QED BY <1>1, <1>2 DEF OwnCalls, CallIds

\* The request of a call is a request.
LEMMA RequestType == ASSUME NEW c \in CallIds PROVE Request(c) \in Requests
  BY DEF CallIds, Request, Requests

-------------------------------------------------------------------------------
(* Rows. *)

\* What no step ever takes back from a call.
Grows(c) ==
    /\ rows[c] # NoRow => rows'[c] # NoRow
    /\ IsSettled(c) => IsSettled(c)'
    /\ charged[c] > 0 => charged'[c] > 0

\* A reservation.
LEMMA Inserted ==
    ASSUME rows \in Rows, NEW c \in CallIds, NEW q \in L!Quote, NEW b, L!InsertRow(c, q, b)
    PROVE  /\ rows' \in Rows /\ UNCHANGED hold
           /\ rows[c] = NoRow /\ rows'[c] # NoRow /\ rows'[c].status = "RESERVED"
           /\ \A d \in CallIds \ {c} : rows'[d] = rows[d]
  <1>1. L!NewRow(q) \in L!LedgerRecord /\ L!NewRow(q).status = "RESERVED"
    BY ScoutLedgerAssumption DEF L!NewRow, L!Quote, L!LedgerRecord, L!LifecycleStatus
  <1> QED
    BY <1>1, ScoutLedgerAssumption DEF L!InsertRow, L!CanReserve, Rows

\* A transition.
LEMMA Moved ==
    ASSUME rows \in Rows, NEW c \in CallIds, NEW from, NEW to,
           "SETTLED" \notin from, to \in L!LifecycleStatus \ {"SETTLED"},
           L!Transition(c, from, to)
    PROVE  /\ rows' \in Rows /\ UNCHANGED hold
           /\ rows[c] # NoRow /\ rows[c].status \in from
           /\ rows'[c] # NoRow /\ rows'[c].status = to
           /\ \A d \in CallIds \ {c} : rows'[d] = rows[d]
  <1>1. rows[c] \in L!LedgerRecord /\ rows[c].status # "SETTLED"
    BY DEF L!Transition, Rows
  <1>2. /\ [rows[c] EXCEPT !.status = to] \in L!LedgerRecord
        /\ [rows[c] EXCEPT !.status = to].status = to
    BY <1>1 DEF L!LedgerRecord
  <1>3. rows' = [rows EXCEPT ![c] = [rows[c] EXCEPT !.status = to]]
    BY DEF L!Transition
  <1> QED
    BY <1>1, <1>2, <1>3, ScoutLedgerAssumption DEF L!Transition, Rows

\* A settlement.
LEMMA Settled ==
    ASSUME rows \in Rows, NEW c \in CallIds, NEW u \in Usages, L!SettleRow(c, u)
    PROVE  /\ rows' \in Rows
           /\ hold' = hold \/ hold' \in L!CostSafetyHold
           /\ rows[c] # NoRow /\ rows[c].status \in {"IN_FLIGHT", "AMBIGUOUS"}
           /\ rows'[c] # NoRow /\ rows'[c].status = "SETTLED"
           /\ \A d \in CallIds \ {c} : rows'[d] = rows[d]
  <1>1. rows[c] \in L!LedgerRecord
    BY DEF L!SettleRow, Rows
  <1> DEFINE settled == [rows[c] EXCEPT !.status = "SETTLED", !.usage = u]
  <1>2. settled \in L!LedgerRecord /\ settled.status = "SETTLED"
    BY <1>1, ScoutLedgerAssumption DEF L!LedgerRecord, L!LifecycleStatus
  <1>3. rows' = [rows EXCEPT ![c] = settled]
    BY DEF L!SettleRow
  <1>4. hold' = hold \/ hold' \in L!CostSafetyHold
    BY DEF L!SettleRow, L!CostSafetyHold
  <1>5. rows[c] # NoRow /\ rows[c].status \in {"IN_FLIGHT", "AMBIGUOUS"}
    BY DEF L!SettleRow
  <1> HIDE DEF settled
  <1> QED
    BY <1>2, <1>3, <1>4, <1>5, ScoutLedgerAssumption DEF Rows

-------------------------------------------------------------------------------
(* What a step of one run has to show. *)

\* The other runs do not notice but by the ledger, and it takes nothing back.
Alone(p) ==
    /\ \A q \in Workers \ {p} :
         /\ pc'[q] = pc[q] /\ job'[q] = job[q]
         /\ pend'[q] = pend[q] /\ budget'[q] = budget[q]
    /\ \A c \in CallIds : Grows(c) /\ (IsSent(c) => IsSent(c)')

\* A run that goes on where it was left by the others.
LEMMA OthersKeep ==
    ASSUME TypeOK, NEW p \in Workers, Alone(p), NEW q \in Workers \ {p}, RunInv(q)
    PROVE  RunInv(q)'
  <1>1. /\ pc'[q] = pc[q] /\ job'[q] = job[q] /\ pend'[q] = pend[q] /\ budget'[q] = budget[q]
        /\ Call(q)' = Call(q)
    BY DEF Alone, Call
  <1>2. \A c \in CallIds : Grows(c) /\ (IsSent(c) => IsSent(c)')
    BY DEF Alone
  <1>3. \A w \in Windows : PlanInv(q, w)'
    <2> TAKE w \in Windows
    <2>1. PlanInv(q, w)
      BY DEF RunInv
    <2>2. job'[q].plan[w] = job[q].plan[w]
      BY <1>1
    <2>3. job[q].plan[w].kind \in {"full", "raw"} => job[q].plan[w].call \in CallIds
      BY <2>1 DEF PlanInv, OwnCalls
    <2> QED
      BY <1>2, <2>1, <2>2, <2>3 DEF PlanInv, Grows
  <1>4. pc[q] \in Working => Call(q) \in CallIds
    <2>1. job[q].at \in Windows
      BY DEF TypeOK, JobType
    <2>2. pc[q] \in Working => job[q].plan[job[q].at].kind = "new"
      BY DEF RunInv
    <2> QED
      BY <2>1, <2>2 DEF RunInv, PlanInv, OwnCalls, Call
  <1>5. /\ pc[q] \in HasRow => rows'[Call(q)] # NoRow
        /\ pc[q] = "generate" => IsSent(Call(q))'
        /\ pc[q] \in Answered => charged'[Call(q)] > 0
    <2>1. pc[q] \in HasRow \cup Answered \cup {"generate"} => pc[q] \in Working
      BY DEF HasRow, Answered, Working
    <2>2. pc[q] = "generate" => (IsSent(Call(q)) => IsSent(Call(q))')
      BY <1>2, <1>4, <2>1, <1>1 DEF IsSent
    <2> QED
      BY <1>2, <1>4, <2>1, <2>2 DEF RunInv, Grows
  <1> QED
    BY <1>1, <1>3, <1>5 DEF RunInv, IsSent

\* While a run is going the owner has nothing pending.
LEMMA OwnerWaits ==
    ASSUME OwnerInv, NEW p \in Workers, pc[p] # "idle"
    PROVE  pend[Owner] = Idle
  BY DEF OwnerInv, Quiet

\* The parts of a run's step that make up the invariant.
LEMMA WorkerStep ==
    ASSUME IInv, NEW p \in Workers, Alone(p), TypeOK', pend'[Owner] = Idle,
           RunInv(p)', ChargedCallsCount', SettledIsCharged'
    PROVE  IInv'
  <1>1. \A q \in Workers : RunInv(q)'
    BY OthersKeep DEF IInv
  <1>2. OwnerInv'
    BY DEF OwnerInv
  <1> QED
    BY <1>1, <1>2 DEF IInv

\* A step that leaves the ledger and the provider alone.
LEMMA StillStep ==
    ASSUME IInv, NEW p \in Workers, pc[p] # "idle",
           UNCHANGED ledger, UNCHANGED charged, FilesTypeOK',
           pc' \in [Workers -> Labels], job' \in [Workers -> JobType],
           \A q \in Workers \ {p} : pc'[q] = pc[q] /\ job'[q] = job[q],
           RunInv(p)'
    PROVE  IInv'
  <1>1. /\ rows' = rows /\ hold' = hold /\ schema' = schema
        /\ budget' = budget /\ pend' = pend /\ acked' = acked
    BY DEF ledger
  <1>2. Alone(p)
    BY <1>1 DEF Alone, Grows, IsSettled, IsSent
  <1>3. L!TypeOK'
    BY <1>1 DEF IInv, TypeOK, L!TypeOK
  <1>4. TypeOK'
    BY <1>3 DEF IInv, TypeOK
  <1>5. pend'[Owner] = Idle
    BY <1>1, OwnerWaits DEF IInv
  <1>6. ChargedCallsCount' /\ SettledIsCharged'
    BY <1>1 DEF IInv, ChargedCallsCount, SettledIsCharged, IsSettled
  <1> QED
    BY <1>2, <1>4, <1>5, <1>6, WorkerStep

\* A job with nothing planned.
LEMMA NoJobType == NoJob \in JobType /\ \A w \in Windows : NoJob.plan[w].kind = "none"
  BY ScoutAssumption DEF NoJob, JobType, NoPlan, Windows

\* The end of a run, by an exception, a kill or its return.
LEMMA EndStep ==
    ASSUME IInv, NEW p \in Workers, pc[p] # "idle",
           L!Crash(p), Goto(p, "idle"), job' = [job EXCEPT ![p] = NoJob],
           UNCHANGED charged, FilesTypeOK'
    PROVE  IInv'
  <1>1. /\ rows' = rows /\ hold' = hold /\ schema' = schema /\ acked' = acked
        /\ budget' = [budget EXCEPT ![p] = Closed] /\ pend' = [pend EXCEPT ![p] = Idle]
    BY DEF L!Crash
  <1>2. L!TypeOK
    BY DEF IInv, TypeOK
  <1>3. Owner \notin Workers
    BY ScoutAssumption
  <1>4. /\ pc' \in [Workers -> Labels] /\ pc'[p] = "idle"
        /\ \A q \in Workers \ {p} : pc'[q] = pc[q]
    BY DEF IInv, TypeOK, Goto, Labels
  <1>5. /\ job' \in [Workers -> JobType] /\ job'[p] = NoJob
        /\ \A q \in Workers \ {p} : job'[q] = job[q]
    BY NoJobType DEF IInv, TypeOK
  <1>6. pend'[p] = Idle /\ pend'[Owner] = pend[Owner]
    BY <1>1, <1>2, <1>3 DEF L!TypeOK
  <1>7. Alone(p)
    BY <1>1, <1>2, <1>4, <1>5 DEF Alone, Grows, IsSettled, IsSent, L!TypeOK
  <1>8. L!TypeOK'
    BY <1>1, <1>2 DEF L!TypeOK, L!Pending
  <1>9. TypeOK'
    BY <1>4, <1>5, <1>8 DEF IInv, TypeOK
  <1>10. RunInv(p)'
    BY <1>4, <1>5, <1>6, NoJobType DEF RunInv, PlanInv, Working, HasRow, Answered
  <1>11. ChargedCallsCount' /\ SettledIsCharged'
    BY <1>1 DEF IInv, ChargedCallsCount, SettledIsCharged, IsSettled
  <1> QED
    BY <1>6, <1>7, <1>9, <1>10, <1>11, OwnerWaits, WorkerStep DEF IInv

-------------------------------------------------------------------------------
(* The steps of a run, one by one. *)

\* A step that touches no file keeps their shapes.
LEMMA FilesStay == FilesTypeOK /\ UNCHANGED files => FilesTypeOK'
  BY DEF files, FilesTypeOK

\* An exception or a kill.
LEMMA StopStep ==
    ASSUME IInv, NEW p \in Workers, pc[p] # "idle", Stop(p)
    PROVE  IInv'
  BY EndStep, FilesStay DEF Stop, IInv, TypeOK

\* What a run's local variables are.
LEMMA JobFacts ==
    ASSUME IInv, NEW p \in Workers
    PROVE  /\ job[p] \in JobType /\ job[p].at \in Windows
           /\ \A w \in Windows : PlanInv(p, w)
           /\ pc[p] # "idle" => job[p].config \in Configs
           /\ pc[p] \in Working => Call(p) \in OwnCalls(job[p].at) /\ Call(p) \in CallIds
  <1>1. job[p] \in JobType /\ job[p].at \in Windows
    BY DEF IInv, TypeOK, JobType
  <1>2. RunInv(p)
    BY DEF IInv
  <1>3. pc[p] \in Working => Call(p) \in OwnCalls(job[p].at)
    BY <1>1, <1>2 DEF RunInv, PlanInv, Call
  <1> QED
    BY <1>1, <1>2, <1>3 DEF RunInv, OwnCalls

\* A run begins: the ledger is opened and perhaps migrated.
LEMMA StartStep ==
    ASSUME IInv, NEW p \in Workers, Start(p)
    PROVE  IInv'
  <1>1. /\ pc[p] = "idle" /\ pend[Owner] = Idle
        /\ rows' = rows /\ pend' = pend /\ acked' = acked /\ schema' = 2
        /\ \E b \in Budgets : budget' = [budget EXCEPT ![p] = b]
        /\ hold' = hold \/ \E c \in L!Overruns : hold' = [active |-> TRUE, call |-> c]
        /\ charged' = charged /\ UNCHANGED files
    BY DEF Start, L!Initialize
  <1>2. PICK k \in Configs : job' = [job EXCEPT ![p].config = k]
    BY DEF Start
  <1>3. L!TypeOK
    BY DEF IInv, TypeOK
  <1>4. hold' \in L!CostSafetyHold \cup {NoHold}
    <2>1. L!Overruns \subseteq CallIds
      BY DEF L!Overruns
    <2>2. hold \in L!CostSafetyHold \cup {NoHold}
      BY <1>3 DEF L!TypeOK
    <2>3. CASE hold' = hold
      BY <2>2, <2>3
    <2>4. CASE \E c \in L!Overruns : hold' = [active |-> TRUE, call |-> c]
      <3>1. PICK c \in CallIds : hold' = [active |-> TRUE, call |-> c]
        BY <2>1, <2>4
      <3> QED BY <3>1 DEF L!CostSafetyHold
    <2> QED BY <1>1, <2>3, <2>4
  <1>5. L!TypeOK'
    BY <1>1, <1>3, <1>4 DEF L!TypeOK, L!Pending
  <1>6. pc' \in [Workers -> Labels] /\ pc'[p] = "inspect" /\ \A q \in Workers \ {p} : pc'[q] = pc[q]
    BY DEF Start, Goto, IInv, TypeOK, Labels
  <1>7. job[p] \in JobType
    BY JobFacts
  <1>8. [job[p] EXCEPT !.config = k] \in JobType
    BY <1>7 DEF JobType
  <1>9. job' = [job EXCEPT ![p] = [job[p] EXCEPT !.config = k]]
    BY <1>2
  <1>10. /\ job' \in [Workers -> JobType]
         /\ job'[p].config = k /\ job'[p].plan = job[p].plan
         /\ \A q \in Workers \ {p} : job'[q] = job[q]
    BY <1>7, <1>8, <1>9 DEF IInv, TypeOK, JobType
  <1>11. TypeOK'
    BY <1>1, <1>5, <1>6, <1>10, FilesStay DEF IInv, TypeOK
  <1>12. Alone(p)
    BY <1>1, <1>3, <1>6, <1>10 DEF Alone, Grows, IsSettled, IsSent, L!TypeOK
  <1>13. RunInv(p)'
    <2>1. budget'[p] # Closed
      BY <1>1, <1>3, ScoutLedgerAssumption DEF L!TypeOK
    <2>2. \A w \in Windows : PlanInv(p, w)'
      BY <1>1, <1>10, JobFacts DEF PlanInv, IsSettled
    <2>3. pend[p] = Idle \/ \E c \in CallIds : pend[p] = L!Release(c, FALSE)
      BY DEF IInv, RunInv
    <2> QED
      BY <1>1, <1>6, <1>10, <2>1, <2>2, <2>3 DEF RunInv, Working, HasRow, Answered
  <1>14. ChargedCallsCount' /\ SettledIsCharged'
    BY <1>1 DEF IInv, ChargedCallsCount, SettledIsCharged, IsSettled
  <1> QED
    BY <1>1, <1>11, <1>12, <1>13, <1>14, WorkerStep

\* What recovery reads is a plan for the window it looked at.
LEMMA RecoverPlan ==
    ASSUME IInv, NEW w \in Windows, NEW k \in Configs
    PROVE  /\ Recover(w, k) \in Recovery
           /\ Recover(w, k).call \in OwnCalls(w)
           /\ Recover(w, k).kind \in {"full", "raw"} =>
                /\ Recover(w, k).file \in RawFile /\ Recover(w, k).file.call[1] = w
                /\ IsSettled(Recover(w, k).call)
  <1>1. CallId(w, k) \in OwnCalls(w)
    BY BaseCall DEF CallId, Matches, IInv, TypeOK, FilesTypeOK
  <1>2. IsReleased(w, k) => Retry(CallId(w, k)) \in OwnCalls(w)
    BY <1>1, RetryCall DEF IsReleased, OwnCalls
  <1>3. IsPaid(w, k) => /\ raw[w] \in RawFile /\ raw[w].call[1] = w
                        /\ ~IsReleased(w, k) /\ IsSettled(CallId(w, k))
    BY DEF IsPaid, IsReleased, Known, Envelope, Completed, IsSettled, IInv, TypeOK, FilesTypeOK
  <1>4. OwnCalls(w) \subseteq CallIds
    BY DEF OwnCalls
  <1> QED
    BY <1>1, <1>2, <1>3, <1>4 DEF Recover, Recovery

\* One round of the loop that looks at the windows.
LEMMA InspectStep ==
    ASSUME IInv, NEW p \in Workers, Inspect(p)
    PROVE  IInv'
  <1>1. pc[p] = "inspect" /\ UNCHANGED ledger /\ UNCHANGED charged /\ UNCHANGED files
    BY DEF Inspect
  <1>2. job[p] \in JobType /\ job[p].at \in Windows /\ job[p].config \in Configs
    BY <1>1, JobFacts
  <1>a. PICK w \in Windows, k \in Configs : w = job[p].at /\ k = job[p].config
    BY <1>2
  <1>b. PICK plan : plan = Recover(w, k)
    OBVIOUS
  <1>3. PICK at \in Windows : job' = [job EXCEPT ![p].plan[w] = plan, ![p].at = at]
    <2>1. w # WindowCount => w + 1 \in Windows
      BY <1>2, ScoutAssumption DEF Windows
    <2>2. 1 \in Windows
      BY ScoutAssumption DEF Windows
    <2> QED BY <1>a, <1>b, <2>1, <2>2 DEF Inspect
  <1>4. PICK l \in {"inspect", "preflight"} : pc' = [pc EXCEPT ![p] = l]
    BY DEF Inspect, Goto
  <1> DEFINE j == [job[p] EXCEPT !.plan = [job[p].plan EXCEPT ![w] = plan], !.at = at]
  <1>5. plan \in Recovery
    BY <1>b, RecoverPlan
  <1>6. /\ j \in JobType /\ j.config = k
        /\ j.plan[w] = plan /\ \A v \in Windows \ {w} : j.plan[v] = job[p].plan[v]
    BY <1>2, <1>5, <1>a DEF JobType
  <1>7. job' = [job EXCEPT ![p] = j]
    BY <1>3
  <1> HIDE DEF j
  <1>8. /\ job' \in [Workers -> JobType] /\ job'[p] = j
        /\ \A q \in Workers \ {p} : job'[q] = job[q]
    BY <1>6, <1>7 DEF IInv, TypeOK
  <1>9. /\ pc' \in [Workers -> Labels] /\ pc'[p] = l
        /\ \A q \in Workers \ {p} : pc'[q] = pc[q]
    BY <1>4 DEF IInv, TypeOK, Labels
  <1>10. \A v \in Windows : PlanInv(p, v)'
    <2>1. rows' = rows
      BY <1>1 DEF ledger
    <2>2. PlanInv(p, w)'
      BY <1>b, <1>6, <1>8, <2>1, RecoverPlan DEF PlanInv, IsSettled
    <2>3. ASSUME NEW v \in Windows \ {w} PROVE PlanInv(p, v)'
      BY <1>6, <1>8, <2>1, JobFacts DEF PlanInv, IsSettled
    <2> QED BY <2>2, <2>3
  <1>11. RunInv(p)'
    <2>1. pend' = pend /\ budget' = budget
      BY <1>1 DEF ledger
    <2>2. l \notin Working \cup HasRow \cup Answered \cup {"generate", "idle"}
      BY DEF Working, HasRow, Answered
    <2> QED
      BY <1>1, <1>a, <1>6, <1>8, <1>9, <1>10, <2>1, <2>2 DEF IInv, RunInv
  <1> QED
    BY <1>1, <1>8, <1>9, <1>11, FilesStay, StillStep DEF IInv, TypeOK

\* A step that goes to another place and may write a file.
LEMMA GotoStep ==
    ASSUME IInv, NEW p \in Workers, pc[p] # "idle", NEW l \in Labels \ {"idle"}, Goto(p, l),
           UNCHANGED ledger, FilesTypeOK', UNCHANGED charged, UNCHANGED job,
           l \in Working => pc[p] \in Working,
           l \in HasRow => rows[Call(p)] # NoRow,
           l = "generate" => IsSent(Call(p)),
           l \in Answered => pc[p] \in Answered
    PROVE  IInv'
  <1>1. rows' = rows /\ pend' = pend /\ budget' = budget
    BY DEF ledger
  <1>2. /\ pc' \in [Workers -> Labels] /\ pc'[p] = l
        /\ \A q \in Workers \ {p} : pc'[q] = pc[q]
    BY DEF IInv, TypeOK, Goto
  <1>3. Call(p)' = Call(p)
    BY DEF Call
  <1>4. \A w \in Windows : PlanInv(p, w)'
    BY <1>1, JobFacts DEF PlanInv, IsSettled
  <1>5. RunInv(p)'
    BY <1>1, <1>2, <1>3, <1>4 DEF IInv, RunInv, IsSent
  <1> QED
    BY <1>2, <1>5, StillStep DEF IInv, TypeOK

\* The end of a window's work: the next window, or the end of the run.
LEMMA AdvanceStep ==
    ASSUME IInv, NEW p \in Workers, pc[p] # "idle", Advance(p), FilesTypeOK', UNCHANGED charged
    PROVE  IInv'
  <1>1. CASE Return(p)
    BY <1>1, EndStep DEF Return
  <1>2. CASE NextWindow(p)
    <2> DEFINE j == [job[p] EXCEPT !.at = job[p].at + 1, !.reserved = FALSE,
                                   !.answer = NoFile, !.priced = FALSE]
    <2>1. job[p] \in JobType /\ job[p].at \in Windows /\ job[p].config \in Configs
      BY JobFacts
    <2>2. job[p].at + 1 \in Windows
      BY <1>2, <2>1, ScoutAssumption DEF NextWindow, EndOfLoop, Windows
    <2>3. j \in JobType /\ j.plan = job[p].plan /\ j.config = job[p].config
      BY <2>1, <2>2 DEF JobType
    <2>4. job' = [job EXCEPT ![p] = j]
      BY <1>2 DEF NextWindow
    <2> HIDE DEF j
    <2>5. /\ job' \in [Workers -> JobType] /\ job'[p] = j
          /\ \A q \in Workers \ {p} : job'[q] = job[q]
      BY <2>3, <2>4 DEF IInv, TypeOK
    <2>6. /\ pc' \in [Workers -> Labels] /\ pc'[p] = "window"
          /\ \A q \in Workers \ {p} : pc'[q] = pc[q]
      BY <1>2 DEF NextWindow, Goto, IInv, TypeOK, Labels
    <2>7. UNCHANGED ledger
      BY <1>2 DEF NextWindow
    <2>8. rows' = rows /\ pend' = pend /\ budget' = budget
      BY <2>7 DEF ledger
    <2>9. \A w \in Windows : PlanInv(p, w)'
      BY <2>3, <2>5, <2>8, JobFacts DEF PlanInv, IsSettled
    <2>10. RunInv(p)'
      BY <2>1, <2>3, <2>5, <2>6, <2>8, <2>9 DEF IInv, RunInv, Working, HasRow, Answered
    <2> QED
      BY <2>5, <2>6, <2>7, <2>10, StillStep
  <1> QED
    BY <1>1, <1>2 DEF Advance

\* What a process can have pending.
LEMMA PendingTypes ==
    /\ Idle \in L!Pending /\ L!Review \in L!Pending
    /\ \A d \in CallIds, b \in BOOLEAN : L!Release(d, b) \in L!Pending
  <1>1. ASSUME NEW d \in CallIds, NEW b \in BOOLEAN PROVE L!Release(d, b) \in L!Pending
    BY DEF L!Pending, L!Release
  <1> QED BY <1>1 DEF L!Pending

\* A step of a run that changes the row of one call.
LEMMA RowStep ==
    ASSUME IInv, NEW p \in Workers, pc[p] # "idle",
           NEW c \in CallIds, rows' \in Rows, \A d \in CallIds \ {c} : rows'[d] = rows[d],
           Grows(c), IsSent(c) => IsSent(c)', IsSettled(c)' => charged[c] > 0,
           hold' \in L!CostSafetyHold \cup {NoHold}, schema' = schema, budget' = budget,
           acked' = acked,
           \/ pend' = pend
           \/ \E e \in {Idle} \cup {L!Release(d, FALSE) : d \in CallIds} : pend' = [pend EXCEPT ![p] = e],
           NEW l \in Labels \ {"idle"}, Goto(p, l),
           job' = job \/ \E b \in BOOLEAN : job' = [job EXCEPT ![p].reserved = b],
           UNCHANGED files, UNCHANGED charged,
           l \in Working => pc[p] \in Working,
           l \in HasRow => rows'[Call(p)] # NoRow,
           l = "generate" => IsSent(Call(p))',
           l \in Answered => pc[p] \in Answered
    PROVE  IInv'
  <1>1. L!TypeOK
    BY DEF IInv, TypeOK
  <1>2. /\ pc' \in [Workers -> Labels] /\ pc'[p] = l
        /\ \A q \in Workers \ {p} : pc'[q] = pc[q]
    BY DEF IInv, TypeOK, Goto
  <1>3. job \in [Workers -> JobType] /\ job[p] \in JobType
    BY DEF IInv, TypeOK
  <1>4. /\ job' \in [Workers -> JobType]
        /\ \A q \in Workers \ {p} : job'[q] = job[q]
        /\ job'[p].plan = job[p].plan /\ job'[p].at = job[p].at
        /\ job'[p].config = job[p].config /\ job'[p].answer = job[p].answer
    <2>1. \E j \in JobType :
            /\ job' = [job EXCEPT ![p] = j] /\ j.plan = job[p].plan /\ j.at = job[p].at
            /\ j.config = job[p].config /\ j.answer = job[p].answer
      <3>1. CASE job' = job
        <4>1. job = [job EXCEPT ![p] = job[p]]
          BY <1>3
        <4> QED BY <1>3, <3>1, <4>1
      <3>2. ASSUME NEW b \in BOOLEAN, job' = [job EXCEPT ![p].reserved = b]
            PROVE  <2>1
        <4> DEFINE j == [job[p] EXCEPT !.reserved = b]
        <4>1. /\ j \in JobType /\ j.plan = job[p].plan /\ j.at = job[p].at
              /\ j.config = job[p].config /\ j.answer = job[p].answer
          BY <1>3 DEF JobType
        <4>2. job' = [job EXCEPT ![p] = j]
          BY <3>2
        <4> QED BY <4>1, <4>2
      <3> QED BY <3>1, <3>2
    <2>2. PICK j \in JobType :
            /\ job' = [job EXCEPT ![p] = j] /\ j.plan = job[p].plan /\ j.at = job[p].at
            /\ j.config = job[p].config /\ j.answer = job[p].answer
      BY <2>1
    <2> QED BY <1>3, <2>2
  <1>5. Owner # p
    BY ScoutAssumption
  <1>6. /\ pend' \in [Workers \cup {Owner} -> L!Pending]
        /\ pend'[p] = Idle \/ \E d \in CallIds : pend'[p] = L!Release(d, FALSE)
        /\ pend'[Owner] = pend[Owner]
        /\ \A q \in Workers \ {p} : pend'[q] = pend[q]
    <2>1. CASE pend' = pend
      BY <1>1, <2>1 DEF L!TypeOK, IInv, RunInv
    <2>2. CASE \E e \in {Idle} \cup {L!Release(d, FALSE) : d \in CallIds} : pend' = [pend EXCEPT ![p] = e]
      <3>1. PICK e : /\ e = Idle \/ \E d \in CallIds : e = L!Release(d, FALSE)
                     /\ pend' = [pend EXCEPT ![p] = e]
        BY <2>2
      <3>2. e \in L!Pending
        BY <3>1, PendingTypes
      <3> QED BY <1>1, <1>5, <3>1, <3>2 DEF L!TypeOK
    <2> QED BY <2>1, <2>2
  <1>7. Alone(p)
    BY <1>2, <1>4, <1>6 DEF Alone, Grows, IsSent, IsSettled
  <1>8. TypeOK'
    <2>1. L!TypeOK'
      BY <1>1, <1>6 DEF L!TypeOK, Rows
    <2> QED BY <1>2, <1>4, <2>1, FilesStay DEF IInv, TypeOK
  <1>9. \A w \in Windows : PlanInv(p, w)'
    <2> TAKE w \in Windows
    <2>1. PlanInv(p, w) /\ OwnCalls(w) \subseteq CallIds
      BY JobFacts DEF OwnCalls
    <2>2. \A d \in CallIds : IsSettled(d) => IsSettled(d)'
      BY <1>7 DEF Alone, Grows
    <2> QED BY <1>4, <2>1, <2>2 DEF PlanInv
  <1>10. Call(p)' = Call(p)
    BY <1>4 DEF Call
  <1>11. RunInv(p)'
    BY <1>2, <1>4, <1>6, <1>9, <1>10 DEF IInv, RunInv, IsSent
  <1>12. ChargedCallsCount' /\ SettledIsCharged'
    <2>1. \A d \in CallIds : IsSent(d) => IsSent(d)'
      BY <1>7 DEF Alone
    <2>2. \A d \in CallIds : IsSettled(d)' => charged'[d] > 0
      BY DEF IInv, SettledIsCharged, IsSettled
    <2> QED BY <2>1, <2>2 DEF IInv, ChargedCallsCount, SettledIsCharged, IsSent, Sent
  <1> QED
    BY <1>6, <1>7, <1>8, <1>11, <1>12, OwnerWaits, WorkerStep DEF IInv

\* The preflight changes nothing or refuses.
LEMMA PreflightStep ==
    ASSUME IInv, NEW p \in Workers, Preflight(p)
    PROVE  IInv'
  <1>1. "window" \notin Working /\ "window" \notin HasRow /\ "window" \notin Answered
    BY DEF Working, HasRow, Answered
  <1> QED
    BY <1>1, GotoStep, FilesStay DEF Preflight, Labels, IInv, TypeOK

\* A full cache hit changes nothing.
LEMMA UseCacheStep ==
    ASSUME IInv, NEW p \in Workers, UseCache(p)
    PROVE  IInv'
  BY AdvanceStep, FilesStay DEF UseCache, IInv, TypeOK

\* A canonical file is written for the window its answer belongs to.
LEMMA CanonicalizeFileStep ==
    ASSUME IInv, NEW p \in Workers, pc[p] # "idle",
           NEW f \in RawFile, f.call[1] = job[p].at, CanonicalizeFile(p, f)
    PROVE  IInv'
  <1>1. CASE Stop(p)
    BY <1>1, StopStep
  <1>2. CASE /\ canonical' = [canonical EXCEPT ![job[p].at] = f.call]
             /\ Advance(p) /\ UNCHANGED <<meta, raw, cost, charged>>
    <2>1. f.call \in OwnCalls(job[p].at) /\ f.call \in CallIds /\ job[p].at \in Windows
      BY JobFacts DEF RawFile, OwnCalls
    <2>2. FilesTypeOK'
      BY <1>2, <2>1 DEF IInv, TypeOK, FilesTypeOK
    <2> QED
      BY <1>2, <2>2, AdvanceStep
  <1> QED
    BY <1>1, <1>2 DEF CanonicalizeFile

\* A stored answer is used.
LEMMA UseRawStep ==
    ASSUME IInv, NEW p \in Workers, UseRaw(p)
    PROVE  IInv'
  <1>1. job[p].plan[job[p].at].file \in RawFile /\ job[p].plan[job[p].at].file.call[1] = job[p].at
    BY JobFacts DEF UseRaw, PlanInv
  <1> QED
    BY <1>1, CanonicalizeFileStep DEF UseRaw

\* A new answer is used.
LEMMA CanonicalizeStep ==
    ASSUME IInv, NEW p \in Workers, Canonicalize(p)
    PROVE  IInv'
  <1>1. pc[p] = "canonicalize" /\ pc[p] \in Working /\ pc[p] \in Answered
    BY DEF Canonicalize, Working, HasRow, Answered
  <1>2. job[p].answer \in RawFile /\ job[p].answer.call = Call(p)
    BY <1>1 DEF IInv, RunInv
  <1>3. Call(p)[1] = job[p].at
    BY <1>1, JobFacts DEF OwnCalls
  <1> QED
    BY <1>1, <1>2, <1>3, CanonicalizeFileStep DEF Canonicalize

\* Where the places of a run belong.
LEMMA Places ==
    /\ Answered \subseteq HasRow /\ HasRow \subseteq Working
    /\ {"reserve", "report"} \subseteq Working \ HasRow
    /\ {"upload", "mark", "generate", "ambiguous", "release", "releasing"} \subseteq HasRow \ Answered
    /\ Working \subseteq Labels \ {"idle"}
  BY DEF Answered, HasRow, Working, Labels

\* The request metadata of a new call.
LEMMA WriteMetaStep ==
    ASSUME IInv, NEW p \in Workers, WriteMeta(p)
    PROVE  IInv'
  <1>1. pc[p] = "window" /\ job[p].plan[job[p].at].kind = "new"
    BY DEF WriteMeta
  <1>2. job[p].at \in Windows /\ Call(p) \in OwnCalls(job[p].at) /\ Call(p) \in CallIds
    BY <1>1, JobFacts DEF PlanInv, OwnCalls, Call
  <1>3. FilesTypeOK'
    BY <1>2 DEF WriteMeta, IInv, TypeOK, FilesTypeOK
  <1>4. /\ pc' \in [Workers -> Labels] /\ pc'[p] = "reserve"
        /\ \A q \in Workers \ {p} : pc'[q] = pc[q]
    BY DEF WriteMeta, Goto, IInv, TypeOK, Labels
  <1>5. UNCHANGED ledger /\ UNCHANGED charged /\ UNCHANGED job
    BY DEF WriteMeta
  <1>6. rows' = rows /\ pend' = pend /\ budget' = budget
    BY <1>5 DEF ledger
  <1>7. \A w \in Windows : PlanInv(p, w)'
    BY <1>5, <1>6, JobFacts DEF PlanInv, IsSettled
  <1>8. RunInv(p)'
    BY <1>1, <1>4, <1>5, <1>6, <1>7, Places DEF IInv, RunInv
  <1> QED
    BY <1>1, <1>3, <1>4, <1>5, <1>8, StillStep DEF IInv, TypeOK

\* The reservation is refused.
LEMMA ReserveRaisesStep ==
    ASSUME IInv, NEW p \in Workers, ReserveRaises(p)
    PROVE  IInv'
  <1>1. /\ pc[p] = "reserve" /\ Goto(p, "report") /\ UNCHANGED ledger /\ UNCHANGED files
        /\ UNCHANGED charged /\ UNCHANGED job
    BY DEF ReserveRaises
  <1> QED
    BY <1>1, Places, GotoStep, FilesStay DEF IInv, TypeOK

\* A failure before anything was sent.
LEMMA FailBeforeSendStep ==
    ASSUME IInv, NEW p \in Workers, pc[p] \in {"upload", "mark"}, FailBeforeSend(p)
    PROVE  IInv'
  <1>1. PICK l \in {"release", "report"} :
            Goto(p, l) /\ UNCHANGED ledger /\ UNCHANGED files /\ UNCHANGED charged /\ UNCHANGED job
    BY DEF FailBeforeSend
  <1>2. rows[Call(p)] # NoRow
    BY Places DEF IInv, RunInv
  <1> QED
    BY <1>1, <1>2, Places, GotoStep, FilesStay DEF IInv, TypeOK

\* The upload, or its failure.
LEMMA UploadStep ==
    ASSUME IInv, NEW p \in Workers, Upload(p)
    PROVE  IInv'
  <1>1. pc[p] = "upload" /\ rows[Call(p)] # NoRow
    BY Places DEF Upload, IInv, RunInv
  <1>2. CASE FailBeforeSend(p)
    BY <1>1, <1>2, FailBeforeSendStep
  <1>3. CASE Goto(p, "mark") /\ UNCHANGED <<ledger, files, charged, job>>
    <2>1. UNCHANGED ledger /\ UNCHANGED files /\ UNCHANGED charged /\ UNCHANGED job
      BY <1>3
    <2> QED BY <1>1, <1>3, <2>1, Places, GotoStep, FilesStay DEF IInv, TypeOK
  <1> QED
    BY <1>2, <1>3 DEF Upload

\* The callback is refused before anything was sent.
LEMMA MarkRaisesStep ==
    ASSUME IInv, NEW p \in Workers, MarkRaises(p)
    PROVE  IInv'
  BY FailBeforeSendStep DEF MarkRaises

\* The raw answer is stored.
LEMMA WriteRawStep ==
    ASSUME IInv, NEW p \in Workers, WriteRaw(p)
    PROVE  IInv'
  <1>1. pc[p] = "store" /\ "store" \in Answered
    BY DEF WriteRaw, Answered
  <1>2. /\ job[p].answer \in RawFile /\ job[p].answer.call = Call(p)
        /\ rows[Call(p)] # NoRow
    BY <1>1, Places DEF IInv, RunInv
  <1>3. job[p].at \in Windows /\ Call(p)[1] = job[p].at
    BY <1>1, JobFacts, Places DEF OwnCalls
  <1>4. FilesTypeOK'
    BY <1>2, <1>3 DEF WriteRaw, IInv, TypeOK, FilesTypeOK
  <1>5. PICK l \in {"settle", "ambiguous"} : Goto(p, l)
    BY DEF WriteRaw
  <1>6. UNCHANGED ledger /\ UNCHANGED charged /\ UNCHANGED job
    BY DEF WriteRaw
  <1>7. l \in HasRow /\ l # "generate" /\ l \in Labels \ {"idle"}
    BY DEF HasRow, Answered, Labels
  <1> QED
    BY <1>1, <1>2, <1>4, <1>5, <1>6, <1>7, Places, GotoStep

\* The cost artifact of a settled call.
LEMMA WriteCostStep ==
    ASSUME IInv, NEW p \in Workers, WriteCost(p)
    PROVE  IInv'
  <1>1. pc[p] = "receipt" /\ {"receipt", "canonicalize"} \subseteq Answered
    BY DEF WriteCost, Answered
  <1>2. /\ Call(p) \in CallIds /\ Call(p) \in OwnCalls(job[p].at) /\ job[p].at \in Windows
        /\ rows[Call(p)] # NoRow
    BY <1>1, JobFacts, Places DEF IInv, RunInv
  <1>3. FilesTypeOK'
    BY <1>2 DEF WriteCost, IInv, TypeOK, FilesTypeOK
  <1>4. UNCHANGED ledger /\ UNCHANGED charged /\ UNCHANGED job /\ Goto(p, "canonicalize")
    BY DEF WriteCost
  <1> QED
    BY <1>1, <1>2, <1>3, <1>4, Places, GotoStep

\* The cost artifact of a failed call, and the end of the run.
LEMMA ReportStep ==
    ASSUME IInv, NEW p \in Workers, Report(p)
    PROVE  IInv'
  <1>1. /\ pc[p] = "report" /\ L!Crash(p) /\ Goto(p, "idle") /\ job' = [job EXCEPT ![p] = NoJob]
        /\ UNCHANGED charged
    BY DEF Report
  <1>2. Call(p) \in CallIds /\ Call(p) \in OwnCalls(job[p].at) /\ job[p].at \in Windows
    BY <1>1, JobFacts, Places
  <1>3. FilesTypeOK'
    BY <1>2 DEF Report, IInv, TypeOK, FilesTypeOK
  <1> QED
    BY <1>1, <1>3, EndStep

\* The rows and the hold, as the transactions find them.
LEMMA LedgerFacts ==
    ASSUME IInv
    PROVE  /\ rows \in Rows /\ hold \in L!CostSafetyHold \cup {NoHold}
           /\ charged \in [CallIds -> Nat]
           /\ \A c \in CallIds : charged[c] > 0 => IsSent(c)
           /\ \A c \in CallIds : IsSettled(c) => charged[c] > 0
  BY DEF IInv, TypeOK, L!TypeOK, Rows, ChargedCallsCount, SettledIsCharged, IsSent, Sent

\* The quote of a call, in any month.
LEMMA QuoteType ==
    ASSUME NEW p, Call(p) \in CallIds, NEW m \in Periods
    PROVE  Quote(p, m) \in L!Quote
  <1>1. Request(Call(p)) \in Requests
    BY RequestType
  <1> QED
    BY <1>1 DEF Quote, L!Quote

\* A reservation, or a row that is there already.
LEMMA ReserveStep ==
    ASSUME IInv, NEW p \in Workers, Reserve(p)
    PROVE  IInv'
  <1>1. /\ pc[p] = "reserve" /\ Goto(p, "upload") /\ UNCHANGED files /\ UNCHANGED charged
        /\ "upload" \in Labels \ {"idle"} /\ "upload" \notin Answered /\ pc[p] \in Working
    BY Places DEF Reserve, Labels
  <1>2. Call(p) \in CallIds
    BY <1>1, JobFacts
  <1>3. PICK m \in Periods :
          \/ /\ L!InsertRow(Call(p), Quote(p, m), budget[p])
             /\ job' = [job EXCEPT ![p].reserved = TRUE] /\ LedgerRest
          \/ /\ rows[Call(p)] # NoRow /\ UNCHANGED ledger
             /\ job' = [job EXCEPT ![p].reserved = rows[Call(p)].status \in {"RESERVED", "IN_FLIGHT"}]
    BY DEF Reserve
  <1>4. CASE L!InsertRow(Call(p), Quote(p, m), budget[p]) /\ job' = [job EXCEPT ![p].reserved = TRUE]
             /\ LedgerRest
    <2>1. /\ rows' \in Rows /\ UNCHANGED hold
          /\ rows[Call(p)] = NoRow /\ rows'[Call(p)] # NoRow /\ rows'[Call(p)].status = "RESERVED"
          /\ \A d \in CallIds \ {Call(p)} : rows'[d] = rows[d]
      BY <1>2, <1>4, QuoteType, LedgerFacts, Inserted
    <2>3. schema' = schema /\ budget' = budget /\ pend' = pend /\ acked' = acked
      BY <1>4 DEF LedgerRest
    <2>4. PICK c \in CallIds : c = Call(p)
      BY <1>2
    <2>5. Grows(c) /\ (IsSent(c) => IsSent(c)') /\ (IsSettled(c)' => charged[c] > 0)
      BY <1>1, <2>1, <2>4 DEF Grows, IsSent, IsSettled
    <2> QED
      BY <1>1, <1>4, <2>1, <2>3, <2>4, <2>5, LedgerFacts, RowStep
  <1>5. CASE /\ rows[Call(p)] # NoRow /\ UNCHANGED ledger
             /\ job' = [job EXCEPT ![p].reserved = rows[Call(p)].status \in {"RESERVED", "IN_FLIGHT"}]
    <2>1. /\ rows' = rows /\ hold' = hold /\ schema' = schema
          /\ budget' = budget /\ pend' = pend /\ acked' = acked
      BY <1>5 DEF ledger
    <2>2. PICK c \in CallIds : c = Call(p)
      BY <1>2
    <2>3. Grows(c) /\ (IsSent(c) => IsSent(c)') /\ (IsSettled(c)' => charged[c] > 0)
      BY <1>1, <2>1, LedgerFacts DEF Grows, IsSent, IsSettled
    <2>4. PICK b \in BOOLEAN : job' = [job EXCEPT ![p].reserved = b]
      <3>1. (rows[Call(p)].status \in {"RESERVED", "IN_FLIGHT"}) \in BOOLEAN
        OBVIOUS
      <3> QED BY <1>5, <3>1, Zenon
    <2> QED
      BY <1>1, <1>5, <2>1, <2>3, <2>4, LedgerFacts, RowStep
  <1> QED
    BY <1>3, <1>4, <1>5

\* A transition of the run's call out of a state before SETTLED, to another one,
\* that does not take a sent call back.
LEMMA TransitionStep ==
    ASSUME IInv, NEW p \in Workers, pc[p] \in HasRow, NEW from, NEW to,
           "SETTLED" \notin from, to \in L!LifecycleStatus \ {"SETTLED"},
           L!Transition(Call(p), from, to), LedgerRest,
           from \cap Sent = {} \/ to \in Sent,
           NEW l \in Labels \ {"idle"} , Goto(p, l), l = "generate" => to \in Sent,
           l \notin Answered,
           UNCHANGED files, UNCHANGED charged, UNCHANGED job
    PROVE  IInv'
  <1>1. PICK c \in CallIds : c = Call(p)
    BY JobFacts, Places
  <1>2. /\ rows' \in Rows /\ UNCHANGED hold
        /\ rows[c] # NoRow /\ rows[c].status \in from
        /\ rows'[c] # NoRow /\ rows'[c].status = to
        /\ \A d \in CallIds \ {c} : rows'[d] = rows[d]
    BY <1>1, LedgerFacts, Moved
  <1>3. Grows(c) /\ (IsSent(c) => IsSent(c)') /\ (IsSettled(c)' => charged[c] > 0)
    BY <1>2 DEF Grows, IsSent, IsSettled
  <1>4. schema' = schema /\ budget' = budget /\ pend' = pend /\ acked' = acked
    BY DEF LedgerRest
  <1>5. l = "generate" => IsSent(c)'
    BY <1>2 DEF IsSent
  <1>6. pc[p] # "idle" /\ pc[p] \in Working
    BY Places
  <1>7. Call(p)' = Call(p) /\ (l = "generate" => IsSent(Call(p))')
    BY <1>1, <1>5 DEF Call, IsSent
  <1> QED
    BY <1>1, <1>2, <1>3, <1>4, <1>6, <1>7, LedgerFacts, RowStep

\* The call is marked before it is sent.
LEMMA MarkInFlightStep ==
    ASSUME IInv, NEW p \in Workers, MarkInFlight(p)
    PROVE  IInv'
  <1>1. /\ pc[p] = "mark" /\ pc[p] \in HasRow /\ Goto(p, "generate")
        /\ UNCHANGED files /\ UNCHANGED charged /\ UNCHANGED job
        /\ "generate" \in Labels \ {"idle"} /\ "generate" \notin Answered
    BY Places DEF MarkInFlight, Labels
  <1>2. CASE L!Transition(Call(p), {"RESERVED"}, "IN_FLIGHT") /\ LedgerRest
    <2>1. /\ "IN_FLIGHT" \in L!LifecycleStatus \ {"SETTLED"} /\ "IN_FLIGHT" \in Sent
          /\ "SETTLED" \notin {"RESERVED"}
      BY DEF L!LifecycleStatus, Sent
    <2> QED
      BY <1>1, <1>2, <2>1, TransitionStep
  <1>3. CASE rows[Call(p)].status = "IN_FLIGHT" /\ UNCHANGED ledger
    <2>1. IsSent(Call(p))
      BY <1>1, <1>3 DEF IInv, RunInv, IsSent, Sent
    <2> QED
      BY <1>1, <1>3, <2>1, Places, GotoStep, FilesStay DEF IInv, TypeOK, IsSent
  <1> QED
    BY <1>2, <1>3 DEF MarkInFlight

\* An uncertain outcome: a call in flight becomes ambiguous.
LEMMA MarkAmbiguousStep ==
    ASSUME IInv, NEW p \in Workers, MarkAmbiguous(p)
    PROVE  IInv'
  <1>1. /\ pc[p] = "ambiguous" /\ pc[p] \in HasRow /\ Goto(p, "report")
        /\ UNCHANGED files /\ UNCHANGED charged /\ UNCHANGED job
        /\ "report" \in Labels \ {"idle"} /\ "report" \notin Answered
    BY Places DEF MarkAmbiguous, Labels
  <1>2. CASE L!Transition(Call(p), {"IN_FLIGHT"}, "AMBIGUOUS") /\ LedgerRest
    <2>1. /\ "AMBIGUOUS" \in L!LifecycleStatus \ {"SETTLED"} /\ "AMBIGUOUS" \in Sent
          /\ "SETTLED" \notin {"IN_FLIGHT"}
      BY DEF L!LifecycleStatus, Sent
    <2> QED
      BY <1>1, <1>2, <2>1, TransitionStep
  <1>3. CASE UNCHANGED ledger
    BY <1>1, <1>3, Places, GotoStep, FilesStay DEF IInv, TypeOK
  <1> QED
    BY <1>2, <1>3 DEF MarkAmbiguous

\* An answer that did not come, or one that did: both may have been charged.
LEMMA GenerateStep ==
    ASSUME IInv, NEW p \in Workers, Generate(p)
    PROVE  IInv'
  <1>1. /\ pc[p] = "generate" /\ pc[p] \in HasRow /\ pc[p] \in Working
        /\ UNCHANGED ledger /\ UNCHANGED files
    BY Places DEF Generate
  <1>2. PICK c \in CallIds : c = Call(p)
    BY <1>1, JobFacts
  <1>3. IsSent(c)
    BY <1>1, <1>2 DEF IInv, RunInv, IsSent
  <1>4. /\ rows' = rows /\ hold' = hold /\ schema' = schema
        /\ budget' = budget /\ pend' = pend /\ acked' = acked
    BY <1>1 DEF ledger
  <1>5. charged \in [CallIds -> 0..MaxCharges]
    BY DEF IInv, TypeOK
  <1>6. /\ charged' \in [CallIds -> 0..MaxCharges]
        /\ \A d \in CallIds : charged[d] > 0 => charged'[d] > 0
        /\ \A d \in CallIds \ {c} : charged'[d] = charged[d]
    <2>1. CASE UNCHANGED charged
      BY <1>5, <2>1
    <2>2. CASE Charge(c)
      BY <1>5, <2>2, ScoutAssumption DEF Charge
    <2> QED BY <1>2, <2>1, <2>2 DEF Generate
  <1>7. PICK l \in {"ambiguous", "store"} : Goto(p, l) /\ (l = "ambiguous" => UNCHANGED job)
    BY DEF Generate
  <1>8. /\ pc' \in [Workers -> Labels] /\ pc'[p] = l
        /\ \A q \in Workers \ {p} : pc'[q] = pc[q]
    BY <1>7 DEF Goto, IInv, TypeOK, Labels
  <1>9. /\ job' \in [Workers -> JobType]
        /\ \A q \in Workers \ {p} : job'[q] = job[q]
        /\ job'[p].plan = job[p].plan /\ job'[p].at = job[p].at /\ job'[p].config = job[p].config
        /\ l = "store" => /\ job'[p].answer \in RawFile /\ job'[p].answer.call = c
                          /\ charged'[c] > 0
    <2>1. job[p] \in JobType /\ job \in [Workers -> JobType]
      BY DEF IInv, TypeOK
    <2>2. CASE l = "ambiguous"
      BY <1>7, <2>1, <2>2
    <2>3. CASE l = "store"
      <3>1. Charge(Call(p)) /\ \E result \in Results, priced \in BOOLEAN :
              job' = [job EXCEPT ![p].priced = priced,
                                 ![p].answer = [call |-> Call(p), result |-> result]]
        BY <1>1, <1>7, <2>1, <2>3 DEF Generate, Goto, IInv, TypeOK
      <3>2. PICK result \in Results, priced \in BOOLEAN :
              job' = [job EXCEPT ![p].priced = priced,
                                 ![p].answer = [call |-> Call(p), result |-> result]]
        BY <3>1
      <3>3. PICK answer : answer = [call |-> c, result |-> result]
        OBVIOUS
      <3>4. answer \in RawFile /\ answer.call = c
        BY <3>3 DEF RawFile
      <3> DEFINE j == [job[p] EXCEPT !.priced = priced, !.answer = answer]
      <3>5. /\ j \in JobType /\ j.plan = job[p].plan /\ j.at = job[p].at
            /\ j.config = job[p].config /\ j.answer = answer
        BY <2>1, <3>4 DEF JobType
      <3>6. job' = [job EXCEPT ![p] = j]
        BY <1>2, <3>2, <3>3
      <3> HIDE DEF j
      <3>7. charged'[c] > 0
        BY <1>2, <1>5, <3>1 DEF Charge
      <3> QED BY <2>1, <3>4, <3>5, <3>6, <3>7
    <2> QED BY <2>2, <2>3
  <1>10. Alone(p)
    BY <1>3, <1>4, <1>6, <1>8, <1>9 DEF Alone, Grows, IsSent, IsSettled
  <1>11. TypeOK'
    <2>1. L!TypeOK'
      BY <1>4 DEF IInv, TypeOK, L!TypeOK
    <2> QED BY <1>1, <1>6, <1>8, <1>9, <2>1, FilesStay DEF IInv, TypeOK
  <1>12. RunInv(p)'
    <2>1. Call(p)' = c
      BY <1>2, <1>9 DEF Call
    <2>2. \A w \in Windows : PlanInv(p, w)'
      BY <1>4, <1>9, JobFacts DEF PlanInv, IsSettled
    <2>3. l = "ambiguous" => l \notin Answered
      BY Places
    <2>4. rows'[c] # NoRow
      BY <1>3, <1>4 DEF IsSent
    <2>5. job[p].plan[job[p].at].kind = "new"
      BY <1>1 DEF IInv, RunInv
    <2> QED
      BY <1>1, <1>4, <1>7, <1>8, <1>9, <2>1, <2>2, <2>3, <2>4, <2>5 DEF IInv, RunInv
  <1>13. ChargedCallsCount' /\ SettledIsCharged'
    <2>1. \A d \in CallIds : charged'[d] > 0 => IsSent(d)
      BY <1>3, <1>6, LedgerFacts
    <2>2. \A d \in CallIds : IsSettled(d) => charged'[d] > 0
      BY <1>6, LedgerFacts
    <2> QED BY <1>4, <2>1, <2>2 DEF ChargedCallsCount, SettledIsCharged, IsSent, IsSettled, Sent
  <1> QED
    BY <1>1, <1>4, <1>10, <1>11, <1>12, <1>13, OwnerWaits, WorkerStep DEF IInv

\* The settlement, which may overrun and raise.
LEMMA SettleStep ==
    ASSUME IInv, NEW p \in Workers, Settle(p)
    PROVE  IInv'
  <1>1. /\ pc[p] = "settle" /\ pc[p] \in Answered /\ pc[p] \in HasRow /\ pc[p] \in Working
        /\ pc[p] # "idle" /\ UNCHANGED files /\ UNCHANGED charged /\ UNCHANGED job
    BY Places DEF Settle, Answered
  <1>2. PICK c \in CallIds : c = Call(p)
    BY <1>1, JobFacts
  <1>3. charged[c] > 0 /\ rows[c] # NoRow
    BY <1>1, <1>2 DEF IInv, RunInv
  <1>4. PICK l \in {"report", "receipt"} : Goto(p, l)
    BY DEF Settle
  <1>5. l \in Labels \ {"idle"} /\ l # "generate" /\ l \in Working
    BY Places DEF Labels, Answered
  <1>6. CASE UNCHANGED ledger
    BY <1>1, <1>2, <1>3, <1>4, <1>5, <1>6, GotoStep, FilesStay DEF IInv, TypeOK
  <1>7. CASE \E u \in Usages : L!SettleRow(c, u) /\ LedgerRest
    <2>1. PICK u \in Usages : L!SettleRow(c, u) /\ LedgerRest
      BY <1>7
    <2>2. /\ rows' \in Rows
          /\ hold' = hold \/ hold' \in L!CostSafetyHold
          /\ rows'[c] # NoRow /\ rows'[c].status = "SETTLED"
          /\ \A d \in CallIds \ {c} : rows'[d] = rows[d]
      BY <2>1, LedgerFacts, Settled
    <2>3. /\ schema' = schema /\ budget' = budget /\ pend' = pend /\ acked' = acked
          /\ hold' \in L!CostSafetyHold \cup {NoHold}
      BY <2>1, <2>2, LedgerFacts DEF LedgerRest
    <2>4. Grows(c) /\ (IsSent(c) => IsSent(c)') /\ (IsSettled(c)' => charged[c] > 0)
      BY <1>1, <1>3, <2>2 DEF Grows, IsSent, IsSettled, Sent
    <2> QED
      BY <1>1, <1>2, <1>4, <1>5, <2>2, <2>3, <2>4, RowStep
  <1> QED
    BY <1>2, <1>6, <1>7 DEF Settle

\* A release begins, or the ledger refuses an ambiguous call.
LEMMA ReleaseStep ==
    ASSUME IInv, NEW p \in Workers, Release(p)
    PROVE  IInv'
  <1>1. /\ pc[p] = "release" /\ pc[p] \in HasRow /\ pc[p] \in Working /\ pc[p] # "idle"
        /\ UNCHANGED files /\ UNCHANGED charged /\ UNCHANGED job
    BY Places DEF Release
  <1>2. PICK c \in CallIds : c = Call(p)
    BY <1>1, JobFacts
  <1>3. CASE Goto(p, "report") /\ UNCHANGED ledger
    BY <1>1, <1>3, Places, GotoStep, FilesStay DEF IInv, TypeOK
  <1>4. CASE L!BeginRelease(p, c, FALSE) /\ Goto(p, "releasing")
    <2>1. /\ rows' = rows /\ hold' = hold /\ schema' = schema /\ budget' = budget /\ acked' = acked
          /\ rows[c] # NoRow /\ pend' = [pend EXCEPT ![p] = L!Release(c, FALSE)]
      BY <1>4 DEF L!BeginRelease
    <2>2. Grows(c) /\ (IsSent(c) => IsSent(c)') /\ (IsSettled(c)' => charged[c] > 0)
      BY <1>1, <2>1, LedgerFacts DEF Grows, IsSent, IsSettled
    <2>3. "releasing" \in HasRow /\ "releasing" \notin Answered /\ "releasing" \in Labels \ {"idle"}
      BY Places DEF Labels
    <2>4. \E e \in {Idle} \cup {L!Release(d, FALSE) : d \in CallIds} : pend' = [pend EXCEPT ![p] = e]
      BY <2>1
    <2> QED
      BY <1>1, <1>2, <1>4, <2>1, <2>2, <2>3, <2>4, LedgerFacts, RowStep
  <1> QED
    BY <1>2, <1>3, <1>4 DEF Release

\* The release ends: it takes back a reservation and never a call that was sent.
LEMMA FinishReleaseStep ==
    ASSUME IInv, NEW p \in Workers, FinishRelease(p)
    PROVE  IInv'
  <1>1. /\ pc[p] = "releasing" /\ pc[p] \in Working /\ pc[p] # "idle" /\ Goto(p, "report")
        /\ UNCHANGED files /\ UNCHANGED charged /\ UNCHANGED job
        /\ "report" \in Labels \ {"idle"} /\ "report" \notin HasRow /\ "report" \notin Answered
    BY Places DEF FinishRelease, Labels
  <1>2. PICK c \in CallIds : pend[p] = L!Release(c, FALSE)
    BY DEF FinishRelease, L!FinishRelease, IInv, RunInv
  <1>3. pend[p].call = c /\ pend[p].confirmed = FALSE
    BY <1>2 DEF L!Release
  <1>4. /\ schema' = schema /\ budget' = budget /\ acked' = acked
        /\ pend' = [pend EXCEPT ![p] = Idle]
        /\ \/ L!Transition(c, L!ReleaseFrom(FALSE), "RELEASED")
           \/ UNCHANGED <<rows, hold>>
    BY <1>3 DEF FinishRelease, L!FinishRelease
  <1>5. \E e \in {Idle} \cup {L!Release(d, FALSE) : d \in CallIds} : pend' = [pend EXCEPT ![p] = e]
    BY <1>4
  <1>6. /\ rows' \in Rows /\ UNCHANGED hold /\ \A d \in CallIds \ {c} : rows'[d] = rows[d]
        /\ Grows(c) /\ (IsSent(c) => IsSent(c)') /\ (IsSettled(c)' => charged[c] > 0)
    <2>1. CASE UNCHANGED <<rows, hold>>
      BY <1>1, <2>1, LedgerFacts DEF Grows, IsSent, IsSettled
    <2>2. CASE L!Transition(c, L!ReleaseFrom(FALSE), "RELEASED")
      <3>1. L!ReleaseFrom(FALSE) = {"RESERVED"}
        BY DEF L!ReleaseFrom
      <3>2. "RELEASED" \in L!LifecycleStatus \ {"SETTLED"} /\ "SETTLED" \notin {"RESERVED"}
        BY DEF L!LifecycleStatus
      <3>3. /\ rows' \in Rows /\ UNCHANGED hold
            /\ rows[c] # NoRow /\ rows[c].status = "RESERVED"
            /\ rows'[c] # NoRow /\ rows'[c].status = "RELEASED"
            /\ \A d \in CallIds \ {c} : rows'[d] = rows[d]
        BY <2>2, <3>1, <3>2, LedgerFacts, Moved
      <3> QED
        BY <1>1, <3>3 DEF Grows, IsSent, IsSettled, Sent
    <2> QED BY <1>4, <2>1, <2>2
  <1> QED
    BY <1>1, <1>4, <1>5, <1>6, LedgerFacts, RowStep

-------------------------------------------------------------------------------
(* The steps of the owner. *)

\* The parts of an owner's step that make up the invariant.
LEMMA OwnerStep ==
    ASSUME IInv, Quiet, UNCHANGED files, UNCHANGED charged, UNCHANGED pc, UNCHANGED job,
           L!TypeOK', \A p \in Workers : pend'[p] = pend[p] /\ budget'[p] = budget[p],
           \A c \in CallIds : Grows(c) /\ (charged[c] > 0 => IsSent(c)') /\ (IsSettled(c)' => charged[c] > 0),
           \/ pend'[Owner] = Idle \/ pend'[Owner] = L!Review
           \/ \E c \in CallIds : charged[c] = 0 /\ pend'[Owner] = L!Release(c, TRUE)
    PROVE  IInv'
  <1>1. TypeOK'
    BY FilesStay DEF IInv, TypeOK
  <1>2. ASSUME NEW p \in Workers PROVE RunInv(p)'
    <2>1. pc[p] = "idle" /\ "idle" \notin Working \cup HasRow \cup Answered
      BY Places DEF Quiet
    <2>2. \A w \in Windows : PlanInv(p, w)'
      <3> TAKE w \in Windows
      <3>1. PlanInv(p, w) /\ OwnCalls(w) \subseteq CallIds
        BY JobFacts DEF OwnCalls
      <3> QED BY <3>1 DEF PlanInv, Grows
    <2>3. pend[p] = Idle \/ \E c \in CallIds : pend[p] = L!Release(c, FALSE)
      BY DEF IInv, RunInv
    <2>4. pc'[p] = "idle" /\ pend'[p] = pend[p]
      BY <2>1
    <2> QED BY <2>1, <2>2, <2>3, <2>4 DEF RunInv
  <1>3. OwnerInv'
    BY DEF OwnerInv, Quiet
  <1>4. ChargedCallsCount' /\ SettledIsCharged'
    BY DEF ChargedCallsCount, SettledIsCharged, IsSent, Sent
  <1> QED
    BY <1>1, <1>2, <1>3, <1>4 DEF IInv

\* Everything the owner does to the ledger keeps it well formed and takes
\* nothing back that was charged.
LEMMA OwnerKeeps ==
    ASSUME IInv, OwnerSteps
    PROVE  IInv'
  <1>1. /\ Quiet /\ UNCHANGED files /\ UNCHANGED charged /\ UNCHANGED pc /\ UNCHANGED job
        /\ L!TypeOK /\ Owner \notin Workers
    BY ScoutAssumption DEF OwnerSteps, IInv, TypeOK
  <1>2. \A c \in CallIds : /\ charged[c] > 0 => IsSent(c)
                           /\ IsSettled(c) => charged[c] > 0
    BY LedgerFacts
  <1>3. \/ pend[Owner] = Idle \/ pend[Owner] = L!Review
        \/ \E c \in CallIds : charged[c] = 0 /\ pend[Owner] = L!Release(c, TRUE)
    BY DEF IInv, OwnerInv
  <1>4. rows' = rows => \A c \in CallIds : Grows(c) /\ (charged[c] > 0 => IsSent(c)')
                                             /\ (IsSettled(c)' => charged[c] > 0)
    BY <1>1, <1>2 DEF Grows, IsSent, IsSettled
  <1>5. CASE L!Initialize(Owner)
    <2>1. /\ rows' = rows /\ pend' = pend /\ acked' = acked /\ schema' = 2
          /\ hold' = hold \/ \E c \in L!Overruns : hold' = [active |-> TRUE, call |-> c]
      BY <1>5 DEF L!Initialize
    <2>2. PICK b \in Budgets : budget' = [budget EXCEPT ![Owner] = b]
      BY <1>5 DEF L!Initialize
    <2>3. L!Overruns \subseteq CallIds
      BY DEF L!Overruns
    <2>4. hold' \in L!CostSafetyHold \cup {NoHold}
      <3>1. CASE hold' = hold
        BY <1>1, <3>1 DEF L!TypeOK
      <3>2. CASE \E c \in L!Overruns : hold' = [active |-> TRUE, call |-> c]
        <4>1. PICK c \in CallIds : hold' = [active |-> TRUE, call |-> c]
          BY <2>3, <3>2
        <4> QED BY <4>1 DEF L!CostSafetyHold
      <3> QED BY <2>1, <3>1, <3>2
    <2>5. L!TypeOK' /\ \A p \in Workers : budget'[p] = budget[p]
      BY <1>1, <2>1, <2>2, <2>4 DEF L!TypeOK
    <2> QED
      BY <1>1, <1>3, <1>4, <2>1, <2>5, OwnerStep
  <1>6. CASE L!FinishRelease(Owner)
    <2>1. /\ pend[Owner] # Idle /\ pend[Owner].op = "release"
          /\ pend' = [pend EXCEPT ![Owner] = Idle]
          /\ schema' = schema /\ budget' = budget /\ acked' = acked
      BY <1>6 DEF L!FinishRelease
    <2>2. PICK c \in CallIds : charged[c] = 0 /\ pend[Owner] = L!Release(c, TRUE)
      <3>1. L!Review.op = "review"
        BY DEF L!Review
      <3>2. pend[Owner] # L!Review
        BY <2>1, <3>1
      <3> QED BY <1>3, <2>1, <3>2
    <2>3. \/ L!Transition(c, L!ReleaseFrom(TRUE), "RELEASED")
          \/ UNCHANGED <<rows, hold>>
      <3>1. pend[Owner].call = c /\ pend[Owner].confirmed = TRUE
        BY <2>2 DEF L!Release
      <3> QED BY <1>6, <3>1 DEF L!FinishRelease
    <2>4. /\ pend' \in [Workers \cup {Owner} -> L!Pending] /\ pend'[Owner] = Idle
          /\ \A p \in Workers : pend'[p] = pend[p]
      BY <1>1, <2>1, PendingTypes DEF L!TypeOK
    <2>5. CASE UNCHANGED <<rows, hold>>
      <3>1. L!TypeOK'
        BY <1>1, <2>1, <2>4, <2>5 DEF L!TypeOK
      <3> QED
        BY <1>1, <1>4, <2>1, <2>4, <2>5, <3>1, OwnerStep
    <2>6. CASE L!Transition(c, L!ReleaseFrom(TRUE), "RELEASED")
      <3>1. L!ReleaseFrom(TRUE) = {"RESERVED", "AMBIGUOUS"}
        BY DEF L!ReleaseFrom
      <3>2. "RELEASED" \in L!LifecycleStatus \ {"SETTLED"} /\ "SETTLED" \notin {"RESERVED", "AMBIGUOUS"}
        BY DEF L!LifecycleStatus
      <3>3. /\ rows' \in Rows /\ UNCHANGED hold
            /\ rows[c] # NoRow /\ rows[c].status \in {"RESERVED", "AMBIGUOUS"}
            /\ rows'[c] # NoRow /\ rows'[c].status = "RELEASED"
            /\ \A d \in CallIds \ {c} : rows'[d] = rows[d]
        BY <2>6, <3>1, <3>2, LedgerFacts, Moved
      <3>4. L!TypeOK'
        BY <1>1, <2>1, <2>4, <3>3 DEF L!TypeOK, Rows
      <3>5. \A d \in CallIds : Grows(d) /\ (charged[d] > 0 => IsSent(d)')
                                 /\ (IsSettled(d)' => charged[d] > 0)
        BY <1>1, <1>2, <2>2, <3>3 DEF Grows, IsSent, IsSettled
      <3> QED
        BY <1>1, <2>1, <2>4, <3>4, <3>5, OwnerStep
    <2> QED BY <2>3, <2>5, <2>6
  <1>7. CASE L!ReviewHold(Owner) \/ L!AcknowledgeSafetyHold(Owner)
    <2>1. /\ rows' = rows /\ schema' = schema /\ budget' = budget
          /\ \E e \in {Idle, L!Review} : pend' = [pend EXCEPT ![Owner] = e]
      BY <1>7 DEF L!ReviewHold, L!AcknowledgeSafetyHold
    <2>2. PICK e \in {Idle, L!Review} : pend' = [pend EXCEPT ![Owner] = e]
      BY <2>1
    <2>3. /\ pend' \in [Workers \cup {Owner} -> L!Pending] /\ pend'[Owner] = e
          /\ \A p \in Workers : pend'[p] = pend[p]
      BY <1>1, <2>2, PendingTypes DEF L!TypeOK
    <2>4. hold' \in L!CostSafetyHold \cup {NoHold}
      <3>1. hold \in L!CostSafetyHold \cup {NoHold}
        BY <1>1 DEF L!TypeOK
      <3>2. CASE hold' = hold
        BY <3>1, <3>2
      <3>3. CASE L!HoldActive /\ hold' = [hold EXCEPT !.active = FALSE]
        BY <3>1, <3>3 DEF L!HoldActive, L!CostSafetyHold
      <3> QED BY <1>7, <3>2, <3>3 DEF L!ReviewHold, L!AcknowledgeSafetyHold
    <2>5. acked' \in SUBSET CallIds
      <3>1. L!Overruns \subseteq CallIds /\ acked \in SUBSET CallIds
        BY <1>1 DEF L!Overruns, L!TypeOK
      <3> QED BY <1>7, <3>1 DEF L!ReviewHold, L!AcknowledgeSafetyHold
    <2>6. L!TypeOK'
      BY <1>1, <2>1, <2>3, <2>4, <2>5 DEF L!TypeOK
    <2> QED
      BY <1>1, <1>4, <2>1, <2>3, <2>6, OwnerStep
  <1>8. ASSUME NEW c \in CallIds, charged[c] > 0, L!Settle(Owner, c) PROVE IInv'
    <2>1. PICK u \in Usages : L!SettleRow(c, u)
      BY <1>8 DEF L!Settle
    <2>2. /\ rows' \in Rows
          /\ hold' = hold \/ hold' \in L!CostSafetyHold
          /\ rows'[c] # NoRow /\ rows'[c].status = "SETTLED"
          /\ \A d \in CallIds \ {c} : rows'[d] = rows[d]
      BY <2>1, LedgerFacts, Settled
    <2>3. schema' = schema /\ budget' = budget /\ pend' = pend /\ acked' = acked
      BY <1>8 DEF L!Settle
    <2>4. L!TypeOK'
      BY <1>1, <2>2, <2>3 DEF L!TypeOK, Rows
    <2>5. \A d \in CallIds : Grows(d) /\ (charged[d] > 0 => IsSent(d)')
                               /\ (IsSettled(d)' => charged[d] > 0)
      BY <1>1, <1>2, <1>8, <2>2 DEF Grows, IsSent, IsSettled, Sent
    <2> QED
      BY <1>1, <1>3, <2>3, <2>4, <2>5, OwnerStep
  <1>9. ASSUME NEW c \in CallIds, charged[c] = 0, L!BeginRelease(Owner, c, TRUE) PROVE IInv'
    <2>1. /\ rows' = rows /\ hold' = hold /\ schema' = schema /\ budget' = budget /\ acked' = acked
          /\ pend' = [pend EXCEPT ![Owner] = L!Release(c, TRUE)]
      BY <1>9 DEF L!BeginRelease
    <2>2. /\ pend' \in [Workers \cup {Owner} -> L!Pending] /\ pend'[Owner] = L!Release(c, TRUE)
          /\ \A p \in Workers : pend'[p] = pend[p]
      BY <1>1, <2>1, PendingTypes DEF L!TypeOK
    <2>3. L!TypeOK'
      BY <1>1, <2>1, <2>2 DEF L!TypeOK
    <2> QED
      BY <1>1, <1>4, <1>9, <2>1, <2>2, <2>3, OwnerStep
  <1>10. ASSUME NEW c \in CallIds, L!MarkAmbiguous(Owner, c) PROVE IInv'
    <2>1. "AMBIGUOUS" \in L!LifecycleStatus \ {"SETTLED"} /\ "SETTLED" \notin {"IN_FLIGHT"}
      BY DEF L!LifecycleStatus
    <2>2. /\ rows' \in Rows /\ UNCHANGED hold
          /\ rows[c] # NoRow /\ rows[c].status = "IN_FLIGHT"
          /\ rows'[c] # NoRow /\ rows'[c].status = "AMBIGUOUS"
          /\ \A d \in CallIds \ {c} : rows'[d] = rows[d]
      BY <1>10, <2>1, LedgerFacts, Moved DEF L!MarkAmbiguous
    <2>3. schema' = schema /\ budget' = budget /\ pend' = pend /\ acked' = acked
      BY <1>10 DEF L!MarkAmbiguous
    <2>4. L!TypeOK'
      BY <1>1, <2>2, <2>3 DEF L!TypeOK, Rows
    <2>5. \A d \in CallIds : Grows(d) /\ (charged[d] > 0 => IsSent(d)')
                               /\ (IsSettled(d)' => charged[d] > 0)
      BY <1>1, <1>2, <2>2 DEF Grows, IsSent, IsSettled, Sent
    <2> QED
      BY <1>1, <1>3, <2>3, <2>4, <2>5, OwnerStep
  <1> QED
    BY <1>5, <1>6, <1>7, <1>8, <1>9, <1>10 DEF OwnerSteps, Reconcile

-------------------------------------------------------------------------------
(* The theorems. *)

\* A new ledger and an unscouted session.
LEMMA InitIInv == Init => IInv
  <1> SUFFICES ASSUME Init PROVE IInv
    OBVIOUS
  <1>1. L!TypeOK
    BY PendingTypes DEF Init, L!TypeOK
  <1>2. FilesTypeOK
    BY DEF Init, FilesTypeOK
  <1>3. TypeOK
    BY <1>1, <1>2, NoJobType, ScoutAssumption DEF Init, TypeOK, Labels
  <1>4. \A c \in CallIds : ~IsSettled(c) /\ charged[c] = 0
    BY DEF Init, IsSettled
  <1>5. ASSUME NEW p \in Workers PROVE RunInv(p)
    BY NoJobType, Places DEF Init, RunInv, PlanInv
  <1> QED
    BY <1>3, <1>4, <1>5 DEF Init, IInv, OwnerInv, ChargedCallsCount, SettledIsCharged

\* Every step keeps the invariant.
LEMMA NextIInv == IInv /\ [Next]_vars => IInv'
  <1> SUFFICES ASSUME IInv, [Next]_vars PROVE IInv'
    OBVIOUS
  <1>1. CASE OwnerSteps
    BY <1>1, OwnerKeeps
  <1>2. ASSUME NEW p \in Workers, Start(p) PROVE IInv'
    BY <1>2, StartStep
  <1>3. ASSUME NEW p \in Workers, Crash(p) PROVE IInv'
    BY <1>3, StopStep DEF Crash
  <1>4. ASSUME NEW p \in Workers, InspectRefuses(p) \/ PreflightRefuses(p) PROVE IInv'
    BY <1>4, StopStep DEF InspectRefuses, PreflightRefuses
  <1>5. ASSUME NEW p \in Workers, Run(p) PROVE IInv'
    BY <1>4, <1>5, InspectStep, PreflightStep, UseCacheStep, UseRawStep, WriteMetaStep,
       ReserveStep, ReserveRaisesStep, UploadStep, MarkInFlightStep, MarkRaisesStep,
       GenerateStep, WriteRawStep, SettleStep, WriteCostStep, CanonicalizeStep,
       MarkAmbiguousStep, ReleaseStep, FinishReleaseStep, ReportStep DEF Run
  <1>6. CASE UNCHANGED vars
    <2>1. /\ UNCHANGED <<rows, hold, schema, budget, pend, acked>> /\ UNCHANGED files
          /\ charged' = charged /\ pc' = pc /\ job' = job
      BY <1>6 DEF vars, ledger
    <2>2. L!TypeOK'
      BY <2>1 DEF IInv, TypeOK, L!TypeOK
    <2>3. TypeOK'
      BY <2>1, <2>2, FilesStay DEF IInv, TypeOK
    <2>4. \A p \in Workers : RunInv(p)'
      BY <2>1 DEF IInv, RunInv, PlanInv, IsSent, IsSettled, Call
    <2>5. OwnerInv' /\ ChargedCallsCount' /\ SettledIsCharged'
      BY <2>1 DEF IInv, OwnerInv, Quiet, ChargedCallsCount, SettledIsCharged, IsSettled
    <2> QED BY <2>3, <2>4, <2>5 DEF IInv
  <1> QED
    BY <1>1, <1>2, <1>3, <1>5, <1>6 DEF Next

\* The invariant holds throughout.
LEMMA IInvHolds == Spec => []IInv
  BY InitIInv, NextIInv, PTL DEF Spec

\* Files, rows and local variables keep their shapes, and a window's directory
\* holds that window's calls only.
THEOREM ScoutTypes == Spec => []TypeOK
  <1>1. IInv => TypeOK
    BY DEF IInv
  <1> QED BY <1>1, IInvHolds, PTL

\* What may have been charged counts in the budget: uploads that fail, crashes,
\* overlapping runs and their two-step releases never set such a call free.
THEOREM ChargesCount == Spec => []ChargedCallsCount
  <1>1. IInv => ChargedCallsCount
    BY DEF IInv
  <1> QED BY <1>1, IInvHolds, PTL

\* What a run is going to serve from disk was paid for.
THEOREM ServedArePaid == Spec => []ServedWindowsArePaid
  <1>1. ASSUME IInv PROVE ServedWindowsArePaid
    <2> SUFFICES ASSUME NEW p \in Workers, NEW w \in Windows,
                        job[p].plan[w].kind \in {"full", "raw"}
                 PROVE  LET c == job[p].plan[w].call
                        IN rows[c] # NoRow /\ rows[c].status = "SETTLED" /\ charged[c] > 0
      BY DEF ServedWindowsArePaid
    <2>1. IsSettled(job[p].plan[w].call) /\ job[p].plan[w].call \in CallIds
      BY <1>1, JobFacts DEF PlanInv, OwnCalls
    <2> QED BY <1>1, <2>1, LedgerFacts DEF IsSettled
  <1> QED BY <1>1, IInvHolds, PTL

-------------------------------------------------------------------------------
(* The scout uses the ledger as it allows. *)

\* Nothing adds up to nothing.
LEMMA NothingTotal ==
  ASSUME NEW amount, DOMAIN amount = {}
  PROVE  L!Total(amount) = Cardinality({})
  <1>1. UNION {{c} \X (1..amount[c]) : c \in DOMAIN amount} = {}
    OBVIOUS
  <1> QED BY <1>1 DEF L!Total, L!Cardinality, Cardinality

\* A new ledger has spent nothing.
LEMMA NewLedger == Init => L!Init
  <1> SUFFICES ASSUME Init PROVE L!Init
    OBVIOUS
  <1>1. ASSUME NEW m \in Periods PROVE \E b \in Budgets : L!PeriodCovered(m) <= b
    <2>1. L!InPeriod(m) = {}
      BY DEF Init, L!InPeriod
    <2>2. L!PeriodCovered(m) = Cardinality({})
      BY <2>1, NothingTotal DEF L!PeriodCovered
    <2>3. PICK b \in Budgets : b \in Nat
      BY ScoutLedgerAssumption
    <2>4. L!PeriodCovered(m) = 0
      BY <2>2, FS_EmptySet
    <2> QED BY <2>3, <2>4
  <1> QED
    BY <1>1 DEF Init, L!Init

\* The ledger's variables, as its module and this one write them.
LEMMA SameVars == UNCHANGED ledger => UNCHANGED L!vars
  BY DEF ledger, L!vars

\* Each step of the scout is a step of the ledger or none.
LEMMA LedgerStep == IInv /\ [Next]_vars => [L!Next]_(L!vars)
  <1> SUFFICES ASSUME IInv, [Next]_vars PROVE L!Next \/ UNCHANGED L!vars
    OBVIOUS
  <1>1. ASSUME NEW p \in Workers, Stop(p) PROVE L!Next
    BY <1>1 DEF Stop, L!Next
  <1>2. CASE OwnerSteps
    <2>1. CASE \E c \in CallIds : Reconcile(c)
      <3>1. PICK c \in CallIds : L!Settle(Owner, c) \/ L!BeginRelease(Owner, c, TRUE) \/ L!MarkAmbiguous(Owner, c)
        BY <2>1 DEF Reconcile
      <3> QED BY <3>1 DEF L!Next, L!Reconcile
    <2> QED
      BY <1>2, <2>1 DEF OwnerSteps, L!Next
  <1>3. ASSUME NEW p \in Workers, Start(p) PROVE L!Next
    BY <1>3 DEF Start, L!Next
  <1>4. ASSUME NEW p \in Workers, Crash(p) \/ InspectRefuses(p) \/ PreflightRefuses(p)
        PROVE  L!Next
    BY <1>1, <1>4 DEF Crash, InspectRefuses, PreflightRefuses
  <1>5. ASSUME NEW p \in Workers,
               \/ Inspect(p) \/ Preflight(p) \/ WriteMeta(p) \/ ReserveRaises(p) \/ Upload(p)
               \/ MarkRaises(p) \/ Generate(p) \/ WriteRaw(p) \/ WriteCost(p)
        PROVE  UNCHANGED L!vars
    BY <1>5, SameVars DEF Inspect, Preflight, WriteMeta, ReserveRaises, Upload, FailBeforeSend,
       MarkRaises, Generate, WriteRaw, WriteCost
  <1>6. ASSUME NEW p \in Workers, Advance(p) PROVE L!Next \/ UNCHANGED L!vars
    BY <1>6, SameVars DEF Advance, NextWindow, Return, L!Next
  <1>7. ASSUME NEW p \in Workers, UseCache(p) \/ UseRaw(p) \/ Canonicalize(p)
        PROVE  L!Next \/ UNCHANGED L!vars
    BY <1>1, <1>6, <1>7 DEF UseCache, UseRaw, Canonicalize, CanonicalizeFile
  <1>8. ASSUME NEW p \in Workers, Report(p) PROVE L!Next
    BY <1>8 DEF Report, L!Next
  <1>9. ASSUME NEW p \in Workers,
               Reserve(p) \/ MarkInFlight(p) \/ Settle(p) \/ MarkAmbiguous(p) \/ Release(p) \/ FinishRelease(p)
        PROVE  L!Next \/ UNCHANGED L!vars
    <2>1. pc[p] \in Working /\ pc[p] # "idle"
      BY <1>9, Places DEF Reserve, MarkInFlight, Settle, MarkAmbiguous, Release, FinishRelease,
         Answered
    <2>2. PICK c \in CallIds : c = Call(p)
      BY <2>1, JobFacts
    <2>3. L!IsOpen(p)
      BY <2>1 DEF IInv, RunInv, L!IsOpen
    <2>4. CASE Reserve(p)
      <3>1. CASE UNCHANGED ledger
        BY <3>1, SameVars
      <3>2. CASE \E m \in Periods : L!InsertRow(c, Quote(p, m), budget[p]) /\ LedgerRest
        <4>1. PICK m \in Periods : L!InsertRow(c, Quote(p, m), budget[p]) /\ LedgerRest
          BY <3>2
        <4>2. Quote(p, m) \in L!Quote
          BY <2>2, QuoteType
        <4>3. L!Reserve(p, c)
          BY <2>3, <4>1, <4>2 DEF L!Reserve, LedgerRest
        <4> QED BY <4>3 DEF L!Next
      <3> QED BY <2>2, <2>4, <3>1, <3>2 DEF Reserve
    <2>5. CASE MarkInFlight(p)
      <3>1. CASE UNCHANGED ledger
        BY <3>1, SameVars
      <3>2. CASE L!Transition(c, {"RESERVED"}, "IN_FLIGHT") /\ LedgerRest
        <4>1. L!MarkInFlight(p, c)
          BY <2>3, <3>2 DEF L!MarkInFlight, LedgerRest
        <4> QED BY <4>1 DEF L!Next
      <3> QED BY <2>2, <2>5, <3>1, <3>2 DEF MarkInFlight
    <2>6. CASE Settle(p)
      <3>1. CASE UNCHANGED ledger
        BY <3>1, SameVars
      <3>2. CASE \E u \in Usages : L!SettleRow(c, u) /\ LedgerRest
        <4>1. L!Settle(p, c)
          BY <2>3, <3>2 DEF L!Settle, LedgerRest
        <4> QED BY <4>1 DEF L!Next, L!Reconcile
      <3> QED BY <2>2, <2>6, <3>1, <3>2 DEF Settle
    <2>7. CASE MarkAmbiguous(p)
      <3>1. CASE UNCHANGED ledger
        BY <3>1, SameVars
      <3>2. CASE L!Transition(c, {"IN_FLIGHT"}, "AMBIGUOUS") /\ LedgerRest
        <4>1. L!MarkAmbiguous(p, c)
          BY <2>3, <3>2 DEF L!MarkAmbiguous, LedgerRest
        <4> QED BY <4>1 DEF L!Next
      <3> QED BY <2>2, <2>7, <3>1, <3>2 DEF MarkAmbiguous
    <2>8. CASE Release(p)
      BY <2>2, <2>8, SameVars DEF Release, L!Next
    <2>9. CASE FinishRelease(p)
      BY <2>9 DEF FinishRelease, L!Next
    <2> QED BY <1>9, <2>4, <2>5, <2>6, <2>7, <2>8, <2>9
  <1>10. ASSUME NEW p \in Workers, Run(p) PROVE L!Next \/ UNCHANGED L!vars
    BY <1>4, <1>5, <1>7, <1>8, <1>9, <1>10 DEF Run
  <1>11. CASE UNCHANGED vars
    BY <1>11, SameVars DEF vars
  <1> QED
    BY <1>2, <1>3, <1>4, <1>10, <1>11 DEF Next

\* All that overlapping runs, kills and the owner do to the ledger is what a
\* ledger allows.
THEOREM LedgerIsRespected == Spec => ImplementsLedger
  <1>1. IInv /\ [Next]_vars => [L!Next]_(L!vars)
    BY LedgerStep
  <1>2. Init => L!Init
    BY NewLedger
  <1> QED
    BY <1>1, <1>2, IInvHolds, PTL DEF Spec, ImplementsLedger, L!Spec

-------------------------------------------------------------------------------
(* One run at a time, under one configuration, pays for a request once. *)

\* What PaidOnce needs: overlapping runs share a reservation, and another
\* configuration overwrites the metadata that names a retry.
OneRunAtATime == \E p, k : Workers = {p} /\ Configs = {k}

IsGone(c) == rows[c] # NoRow /\ rows[c].status = "RELEASED"

\* Of its window's calls, c is the one to go on with: those with fewer
\* "-retry" suffixes were released, those with more never reserved.
IsTip(c) ==
    \A d \in OwnCalls(c[1]) :
        /\ d[3] < c[3] => IsGone(d)
        /\ d[3] > c[3] => rows[d] = NoRow

\* The metadata names the window's last call, since they are written before
\* its reservation.
TipsAreNamed ==
    \A w \in Windows :
        /\ meta[w] = NoFile => \A d \in OwnCalls(w) : rows[d] = NoRow
        /\ meta[w] # NoFile => IsTip(meta[w])

\* The windows that a run has planned and not yet paid for.
IsAhead(p, w) ==
    \/ pc[p] = "inspect" /\ w < job[p].at
    \/ pc[p] = "preflight"
    \/ pc[p] \in {"window", "reserve"} /\ w >= job[p].at
    \/ pc[p] \notin {"idle", "inspect"} /\ w > job[p].at

\* A planned call has not been reserved by the time the run gets to it.
PlansAreFresh ==
    \A p \in Workers, w \in Windows :
        IsAhead(p, w) /\ job[p].plan[w].kind = "new" =>
            rows[job[p].plan[w].call] = NoRow /\ IsTip(job[p].plan[w].call)

\* A run that is going to generate is the first to do so for its call.
RunsAreFirst ==
    \A p \in Workers :
        /\ pc[p] = "idle" => job[p] = NoJob
        /\ pc[p] = "reserve" => meta[job[p].at] = Call(p)
        /\ pc[p] \in {"upload", "mark", "generate"} => charged[Call(p)] = 0

ChargedOnce == \A c \in CallIds : charged[c] <= 1

OnceInv == TipsAreNamed /\ PlansAreFresh /\ RunsAreFirst /\ ChargedOnce

\* No row appears, and a released one stays.
Steady ==
    \A c \in CallIds : (rows[c] = NoRow => rows'[c] = NoRow) /\ (IsGone(c) => IsGone(c)')

\* A step that reserves nothing and plans nothing.
LEMMA SteadyStep ==
    ASSUME OneRunAtATime, IInv, OnceInv, NEW p \in Workers, Steady, UNCHANGED meta,
           \A w \in Windows : IsAhead(p, w)' => IsAhead(p, w) /\ job'[p].plan[w] = job[p].plan[w],
           pc'[p] = "idle" => job'[p] = NoJob,
           pc'[p] = "reserve" => meta[job'[p].at] = Call(p)',
           pc'[p] \in {"upload", "mark", "generate"} => charged'[Call(p)'] = 0,
           ChargedOnce'
    PROVE  OnceInv'
  <1>1. Workers = {p}
    BY DEF OneRunAtATime
  <1>2. ASSUME NEW c \in CallIds, IsTip(c) PROVE IsTip(c)'
    BY <1>2 DEF IsTip, Steady, OwnCalls
  <1>3. TipsAreNamed'
    <2>1. \A w \in Windows : meta[w] # NoFile => meta[w] \in CallIds
      BY DEF IInv, TypeOK, FilesTypeOK
    <2> QED BY <1>2, <2>1 DEF OnceInv, TipsAreNamed, Steady, OwnCalls
  <1>4. PlansAreFresh'
    <2> SUFFICES ASSUME NEW w \in Windows, IsAhead(p, w)', job'[p].plan[w].kind = "new"
                 PROVE  rows'[job'[p].plan[w].call] = NoRow /\ IsTip(job[p].plan[w].call)'
      BY <1>1 DEF PlansAreFresh
    <2>1. PICK c : c = job[p].plan[w].call
      OBVIOUS
    <2>2. job[p].plan[w].kind = "new" /\ job'[p].plan[w] = job[p].plan[w]
      OBVIOUS
    <2>3. c \in CallIds
      BY <2>1, <2>2, JobFacts DEF PlanInv, OwnCalls
    <2>4. rows[c] = NoRow /\ IsTip(c)
      BY <2>1, <2>2 DEF OnceInv, PlansAreFresh
    <2>5. rows'[c] = NoRow /\ IsTip(c)'
      BY <1>2, <2>3, <2>4 DEF Steady
    <2>6. job'[p].plan[w].call = c
      BY <2>1, <2>2
    <2> QED BY <2>5, <2>6
  <1>5. RunsAreFirst'
    BY <1>1 DEF RunsAreFirst
  <1> QED
    BY <1>3, <1>4, <1>5 DEF OnceInv

\* A step that leaves the rows alone.
LEMMA SameRows == UNCHANGED ledger => Steady
  BY DEF ledger, Steady, IsGone

\* A transition of a row that is not released, and a settlement.
LEMMA SteadyRow ==
    ASSUME IInv, NEW c \in CallIds,
           \/ \E from, to : "RELEASED" \notin from /\ L!Transition(c, from, to)
           \/ \E u : L!SettleRow(c, u)
    PROVE  Steady
  <1>1. /\ rows[c] # NoRow /\ ~IsGone(c)
        /\ \A d \in CallIds \ {c} : rows'[d] = rows[d]
    <2>1. DOMAIN rows = CallIds
      BY LedgerFacts DEF Rows
    <2>2. CASE \E u : L!SettleRow(c, u)
      BY <2>1, <2>2 DEF L!SettleRow, IsGone
    <2>3. CASE \E from, to : "RELEASED" \notin from /\ L!Transition(c, from, to)
      BY <2>1, <2>3 DEF L!Transition, IsGone
    <2> QED BY <2>2, <2>3
  <1> QED
    BY <1>1 DEF Steady, IsGone

\* The second half of a release.
LEMMA FinishReleaseSteady ==
    ASSUME IInv, NEW p \in Workers \cup {Owner}, L!FinishRelease(p)
    PROVE  Steady
  <1>1. PICK c, from :
            /\ c = pend[p].call /\ "RELEASED" \notin from
            /\ L!Transition(c, from, "RELEASED") \/ UNCHANGED rows
    BY DEF L!FinishRelease, L!ReleaseFrom
  <1>2. c \in CallIds
    BY <1>1 DEF L!FinishRelease, IInv, TypeOK, L!TypeOK, L!Pending, L!Review
  <1> QED
    BY <1>1, <1>2, SteadyRow DEF Steady, IsGone

\* The end of a run.
LEMMA EndOnce ==
    ASSUME OneRunAtATime, IInv, OnceInv, NEW p \in Workers,
           L!Crash(p), Goto(p, "idle"), job' = [job EXCEPT ![p] = NoJob],
           UNCHANGED meta, UNCHANGED charged
    PROVE  OnceInv'
  <1>1. pc'[p] = "idle" /\ job'[p] = NoJob
    BY DEF IInv, TypeOK, Goto
  <1>2. Steady
    BY DEF L!Crash, Steady, IsGone
  <1>3. ChargedOnce'
    BY DEF OnceInv, ChargedOnce
  <1> QED
    BY <1>1, <1>2, <1>3, SteadyStep DEF IsAhead

\* An exception or a kill.
LEMMA StopOnce ==
    ASSUME OneRunAtATime, IInv, OnceInv, NEW p \in Workers, Stop(p)
    PROVE  OnceInv'
  BY EndOnce DEF Stop, files

\* The next window, or the end of the run.
LEMMA AdvanceOnce ==
    ASSUME OneRunAtATime, IInv, OnceInv, NEW p \in Workers,
           pc[p] \notin {"idle", "inspect"}, Advance(p), UNCHANGED meta, UNCHANGED charged
    PROVE  OnceInv'
  <1>1. CASE Return(p)
    BY <1>1, EndOnce DEF Return
  <1>2. CASE NextWindow(p)
    <2>1. job[p].at \in Windows /\ job[p] \in JobType
      BY JobFacts
    <2>2. pc'[p] = "window" /\ job'[p].at = job[p].at + 1 /\ job'[p].plan = job[p].plan
      BY <1>2, <2>1 DEF NextWindow, Goto, IInv, TypeOK, JobType
    <2>3. \A w \in Windows : IsAhead(p, w)' => IsAhead(p, w) /\ job'[p].plan[w] = job[p].plan[w]
      BY <2>1, <2>2 DEF IsAhead, Windows
    <2>4. Steady
      BY <1>2, SameRows DEF NextWindow
    <2>5. ChargedOnce'
      BY DEF OnceInv, ChargedOnce
    <2> QED
      BY <2>2, <2>3, <2>4, <2>5, SteadyStep
  <1> QED
    BY <1>1, <1>2 DEF Advance

\* A step to another place, behind the choice of the call.
LEMMA GotoOnce ==
    ASSUME OneRunAtATime, IInv, OnceInv, NEW p \in Workers,
           pc[p] \notin {"idle", "inspect"}, NEW l, l \notin {"idle", "inspect", "preflight", "reserve"},
           Goto(p, l), Steady, UNCHANGED meta,
           job'[p].at = job[p].at, job'[p].plan = job[p].plan,
           l = "window" => pc[p] = "preflight",
           l \in {"upload", "mark", "generate"} => charged'[Call(p)] = 0,
           ChargedOnce'
    PROVE  OnceInv'
  <1>1. pc'[p] = l
    BY DEF Goto, IInv, TypeOK
  <1>2. job[p].at \in Windows
    BY JobFacts
  <1>3. Call(p)' = Call(p)
    BY DEF Call
  <1>4. \A w \in Windows : IsAhead(p, w)' => IsAhead(p, w)
    BY <1>1, <1>2 DEF IsAhead
  <1> QED
    BY <1>1, <1>3, <1>4, SteadyStep

\* The plan of a window is fresh when it is made.
LEMMA RecoverFresh ==
    ASSUME OneRunAtATime, IInv, OnceInv, NEW w \in Windows, NEW k \in Configs,
           IsReleased(w, k) \/ IsNew(w, k), ~IsPaid(w, k)
    PROVE  rows[Recover(w, k).call] = NoRow /\ IsTip(Recover(w, k).call)
  <1> DEFINE c == CallId(w, k)
             d == Recover(w, k).call
  <1>1. \A e \in OwnCalls(w) : e \in CallIds /\ e = <<w, k, e[3]>> /\ e[3] \in 0..MaxRetries
    BY DEF OneRunAtATime, OwnCalls, CallIds
  <1>2. meta[w] = NoFile \/ meta[w] \in OwnCalls(w)
    BY DEF IInv, TypeOK, FilesTypeOK
  <1>3. c = IF meta[w] = NoFile THEN Base(w, k) ELSE meta[w]
    BY <1>1, <1>2 DEF CallId, Matches, Request
  <1>4. c \in OwnCalls(w)
    BY <1>2, <1>3, BaseCall
  <1>5. IsTip(c)
    <2>1. CASE meta[w] = NoFile
      <3>1. c[3] = 0 /\ c[1] = w
        BY <1>3, <2>1 DEF Base
      <3> QED BY <1>1, <2>1, <3>1 DEF OnceInv, TipsAreNamed, IsTip
    <2>2. CASE meta[w] # NoFile
      BY <1>3, <2>2 DEF OnceInv, TipsAreNamed
    <2> QED BY <2>1, <2>2
  <1>6. d = IF IsReleased(w, k) THEN Retry(c) ELSE c
    BY DEF Recover
  <1> HIDE DEF c, d
  <1>7. CASE ~IsReleased(w, k)
    <2>1. rows[c] = NoRow /\ d = c
      BY <1>6, <1>7 DEF IsNew, c
    <2> QED BY <1>5, <2>1 DEF d
  <1>8. CASE IsReleased(w, k)
    <2>1. IsGone(c) /\ c[3] < MaxRetries
      BY <1>8 DEF IsReleased, Known, IsGone, c
    <2>2. c = <<w, k, c[3]>> /\ c[3] \in 0..MaxRetries
      BY <1>1, <1>4
    <2>3. d = <<w, k, c[3] + 1>> /\ d \in OwnCalls(w) /\ d[3] = c[3] + 1 /\ d[1] = w
      BY <1>4, <1>6, <1>8, <2>1, <2>2, RetryCall DEF Retry, OwnCalls
    <2>4. rows[d] = NoRow
      BY <1>5, <2>2, <2>3 DEF IsTip
    <2>5. ASSUME NEW e \in OwnCalls(w)
          PROVE  (e[3] < d[3] => IsGone(e)) /\ (e[3] > d[3] => rows[e] = NoRow)
      <3>1. e = <<w, k, e[3]>> /\ e[3] \in 0..MaxRetries
        BY <1>1
      <3>2. e[3] = c[3] => e = c
        BY <2>2, <3>1
      <3>3. /\ e[3] < c[3] => IsGone(e)
            /\ e[3] > c[3] => rows[e] = NoRow
        BY <1>5, <2>2 DEF IsTip
      <3> QED BY <2>1, <2>2, <2>3, <3>1, <3>2, <3>3
    <2>6. IsTip(d)
      BY <2>3, <2>5 DEF IsTip
    <2> QED BY <2>4, <2>6 DEF d
  <1> QED BY <1>7, <1>8

\* One round of the loop that looks at the windows.
LEMMA InspectOnce ==
    ASSUME OneRunAtATime, IInv, OnceInv, NEW p \in Workers, Inspect(p)
    PROVE  OnceInv'
  <1>1. /\ Workers = {p} /\ pc[p] = "inspect" /\ job[p].at \in Windows /\ job[p].config \in Configs
        /\ job[p] \in JobType
    BY JobFacts DEF OneRunAtATime, Inspect
  <1>2. PICK w \in Windows, k \in Configs : w = job[p].at /\ k = job[p].config
    BY <1>1
  <1>3. PICK plan : plan = Recover(w, k)
    OBVIOUS
  <1>4. rows' = rows /\ meta' = meta /\ charged' = charged
    BY DEF Inspect, ledger, files
  <1>5. pc'[p] = IF w = WindowCount THEN "preflight" ELSE "inspect"
    BY <1>2 DEF Inspect, Goto, IInv, TypeOK
  <1>6. /\ job'[p].plan[w] = plan /\ \A v \in Windows \ {w} : job'[p].plan[v] = job[p].plan[v]
        /\ job'[p].at = IF w = WindowCount THEN 1 ELSE w + 1
    BY <1>1, <1>2, <1>3 DEF Inspect, IInv, TypeOK, JobType
  <1>7. PlansAreFresh'
    <2> SUFFICES ASSUME NEW v \in Windows, IsAhead(p, v)', job'[p].plan[v].kind = "new"
                 PROVE  rows[job'[p].plan[v].call] = NoRow /\ IsTip(job[p].plan[v].call)'
      BY <1>1, <1>4 DEF PlansAreFresh
    <2>1. \A c : IsTip(c)' <=> IsTip(c)
      BY <1>4 DEF IsTip, IsGone
    <2>2. CASE v = w
      <3>1. ~IsPaid(w, k)
        BY <1>3, <1>6, <2>2 DEF Recover
      <3>2. IsReleased(w, k) \/ IsNew(w, k)
        BY <1>2, <3>1 DEF Inspect
      <3>3. rows[plan.call] = NoRow /\ IsTip(plan.call)
        BY <1>3, <3>1, <3>2, RecoverFresh
      <3>4. job'[p].plan[v].call = plan.call
        BY <1>6, <2>2
      <3> QED BY <1>4, <3>3, <3>4 DEF IsTip, IsGone
    <2>3. CASE v # w
      <3>1. IsAhead(p, v)
        BY <1>1, <1>2, <1>5, <1>6, <2>3, ScoutAssumption DEF IsAhead, Windows
      <3>2. job'[p].plan[v] = job[p].plan[v]
        BY <1>6, <2>3
      <3>3. rows[job[p].plan[v].call] = NoRow /\ IsTip(job[p].plan[v].call)
        BY <3>1, <3>2 DEF OnceInv, PlansAreFresh
      <3> QED BY <1>4, <3>2, <3>3 DEF IsTip, IsGone
    <2> QED BY <2>2, <2>3
  <1>8. TipsAreNamed'
    BY <1>4 DEF OnceInv, TipsAreNamed, IsTip, IsGone
  <1>9. RunsAreFirst' /\ ChargedOnce'
    BY <1>1, <1>4, <1>5 DEF OnceInv, RunsAreFirst, ChargedOnce
  <1> QED BY <1>7, <1>8, <1>9 DEF OnceInv

\* The metadata of the next call are written: it has no row yet.
LEMMA WriteMetaOnce ==
    ASSUME OneRunAtATime, IInv, OnceInv, NEW p \in Workers, WriteMeta(p)
    PROVE  OnceInv'
  <1>1. /\ Workers = {p} /\ pc[p] = "window" /\ job[p].at \in Windows
        /\ job[p].plan[job[p].at].kind = "new"
    BY JobFacts DEF OneRunAtATime, WriteMeta
  <1>2. PICK w \in Windows : w = job[p].at
    BY <1>1
  <1>3. PICK c : c = Call(p)
    OBVIOUS
  <1>4. c \in OwnCalls(w) /\ c \in CallIds /\ rows[c] = NoRow /\ IsTip(c)
    <2>1. IsAhead(p, w)
      BY <1>1, <1>2 DEF IsAhead, Windows
    <2> QED
      BY <1>1, <1>2, <1>3, <2>1, JobFacts DEF OnceInv, PlansAreFresh, PlanInv, OwnCalls, Call
  <1>5. /\ rows' = rows /\ charged' = charged /\ job' = job /\ Call(p)' = Call(p)
        /\ pc'[p] = "reserve"
    BY DEF WriteMeta, ledger, Goto, IInv, TypeOK, Call
  <1>6. meta'[w] = c /\ \A v \in Windows \ {w} : meta'[v] = meta[v]
    BY <1>2, <1>3 DEF WriteMeta, IInv, TypeOK, FilesTypeOK
  <1>7. \A d : IsTip(d)' <=> IsTip(d)
    BY <1>5 DEF IsTip, IsGone
  <1>8. TipsAreNamed'
    <2> SUFFICES ASSUME NEW v \in Windows
                 PROVE  /\ meta'[v] = NoFile => \A d \in OwnCalls(v) : rows[d] = NoRow
                        /\ meta'[v] # NoFile => IsTip(meta[v])'
      BY <1>5 DEF TipsAreNamed
    <2>1. CASE v = w
      <3>1. IsTip(meta[v])'
        BY <1>4, <1>5, <1>6, <2>1 DEF IsTip, IsGone
      <3> QED BY <1>4, <1>6, <2>1, <3>1, ScoutAssumption
    <2>2. CASE v # w
      <3>1. meta'[v] = meta[v]
        BY <1>6, <2>2
      <3> QED BY <1>5, <3>1 DEF OnceInv, TipsAreNamed, IsTip, IsGone
    <2> QED BY <2>1, <2>2
  <1>9. PlansAreFresh'
    <2>1. \A v \in Windows : IsAhead(p, v)' => IsAhead(p, v)
      BY <1>1, <1>5 DEF IsAhead
    <2> QED BY <1>1, <1>5, <2>1 DEF OnceInv, PlansAreFresh, IsTip, IsGone
  <1>10. RunsAreFirst' /\ ChargedOnce'
    BY <1>1, <1>2, <1>3, <1>5, <1>6 DEF OnceInv, RunsAreFirst, ChargedOnce
  <1> QED BY <1>8, <1>9, <1>10 DEF OnceInv

\* The reservation of the call that the metadata name, which was not charged.
LEMMA ReserveOnce ==
    ASSUME OneRunAtATime, IInv, OnceInv, NEW p \in Workers, Reserve(p)
    PROVE  OnceInv'
  <1>1. /\ Workers = {p} /\ pc[p] = "reserve" /\ pc[p] \in Working /\ job[p].at \in Windows
        /\ job[p].plan[job[p].at].kind = "new"
    BY JobFacts, Places DEF OneRunAtATime, Reserve, IInv, RunInv
  <1>2. PICK c \in CallIds : c = Call(p)
    BY <1>1, JobFacts
  <1>3. c \in OwnCalls(job[p].at) /\ c[1] = job[p].at /\ meta[job[p].at] = c /\ rows[c] = NoRow
    <2>1. IsAhead(p, job[p].at)
      BY <1>1 DEF IsAhead, Windows
    <2> QED
      BY <1>1, <1>2, <2>1, JobFacts DEF OnceInv, PlansAreFresh, RunsAreFirst, OwnCalls, Call
  <1>4. \A d \in CallIds \ {c} : rows'[d] = rows[d]
    <2>1. CASE UNCHANGED ledger
      BY <2>1 DEF ledger
    <2>2. CASE \E m \in Periods : L!InsertRow(c, Quote(p, m), budget[p])
      BY <2>2, LedgerFacts DEF L!InsertRow, Rows
    <2> QED BY <1>2, <2>1, <2>2 DEF Reserve
  <1>5. /\ pc'[p] = "upload" /\ meta' = meta /\ charged' = charged
        /\ job'[p].plan = job[p].plan /\ job'[p].at = job[p].at
    <2>1. job' = job \/ \E b : job' = [job EXCEPT ![p].reserved = b]
      BY DEF Reserve
    <2>2. job[p] \in JobType /\ DOMAIN job = Workers
      BY JobFacts DEF IInv, TypeOK
    <2>3. job'[p].plan = job[p].plan /\ job'[p].at = job[p].at
      BY <2>1, <2>2 DEF JobType
    <2> QED BY <2>3 DEF Reserve, Goto, files, IInv, TypeOK
  <1>6. Call(p)' = Call(p)
    BY <1>5 DEF Call
  <1>7. ASSUME NEW d \in CallIds, IsTip(d), d[1] # c[1] \/ d = c
        PROVE  IsTip(d)'
    <2> SUFFICES ASSUME NEW e \in OwnCalls(d[1])
                 PROVE  (e[3] < d[3] => IsGone(e)') /\ (e[3] > d[3] => rows'[e] = NoRow)
      BY DEF IsTip
    <2>1. (e[3] < d[3] => IsGone(e)) /\ (e[3] > d[3] => rows[e] = NoRow)
      BY <1>7 DEF IsTip
    <2>2. e \in CallIds /\ e[1] = d[1]
      BY DEF OwnCalls
    <2>3. CASE e = c
      <3>1. d = c /\ e[3] \in Int
        BY <1>7, <2>2, <2>3, ScoutAssumption DEF CallIds
      <3> QED BY <2>3, <3>1
    <2>4. CASE e # c
      BY <1>4, <2>1, <2>2, <2>4 DEF IsGone
    <2> QED BY <2>3, <2>4
  <1>8. TipsAreNamed'
    <2> SUFFICES ASSUME NEW w \in Windows
                 PROVE  /\ meta[w] = NoFile => \A d \in OwnCalls(w) : rows'[d] = NoRow
                        /\ meta[w] # NoFile => IsTip(meta[w])'
      BY <1>5 DEF TipsAreNamed
    <2>1. CASE meta[w] = NoFile
      <3>1. w # job[p].at
        BY <1>3, <2>1, ScoutAssumption
      <3>2. \A d \in OwnCalls(w) : d \in CallIds \ {c}
        BY <1>3, <3>1 DEF OwnCalls
      <3> QED BY <1>4, <2>1, <3>2 DEF OnceInv, TipsAreNamed
    <2>2. CASE meta[w] # NoFile
      <3>1. PICK d \in OwnCalls(w) : d = meta[w]
        BY <2>2 DEF IInv, TypeOK, FilesTypeOK
      <3>2. IsTip(d) /\ d \in CallIds /\ d[1] = w
        BY <2>2, <3>1 DEF OnceInv, TipsAreNamed, OwnCalls
      <3>3. d[1] # c[1] \/ d = c
        BY <1>3, <3>1, <3>2
      <3>4. IsTip(d)'
        BY <1>7, <3>2, <3>3
      <3> QED BY <1>5, <2>2, <3>1, <3>4 DEF IsTip, IsGone
    <2> QED BY <2>1, <2>2
  <1>9. PlansAreFresh'
    <2> SUFFICES ASSUME NEW w \in Windows, IsAhead(p, w)', job'[p].plan[w].kind = "new"
                 PROVE  rows'[job'[p].plan[w].call] = NoRow /\ IsTip(job[p].plan[w].call)'
      BY <1>1 DEF PlansAreFresh
    <2>1. IsAhead(p, w) /\ w # job[p].at
      BY <1>1, <1>5 DEF IsAhead, Windows
    <2>2. PICK d : d = job[p].plan[w].call
      OBVIOUS
    <2>3. d \in OwnCalls(w) /\ d \in CallIds /\ d[1] = w /\ rows[d] = NoRow /\ IsTip(d)
      BY <1>5, <2>1, <2>2, JobFacts DEF OnceInv, PlansAreFresh, PlanInv, OwnCalls
    <2>4. rows'[d] = NoRow /\ IsTip(d)'
      BY <1>3, <1>4, <1>7, <2>1, <2>3
    <2> QED BY <1>5, <2>2, <2>4 DEF IsTip, IsGone
  <1>10. RunsAreFirst' /\ ChargedOnce'
    <2>1. ~IsSent(c) /\ charged[c] \in Nat
      BY <1>2, <1>3, LedgerFacts DEF IsSent
    <2>2. charged[Call(p)] = 0
      BY <1>2, <2>1, LedgerFacts
    <2> QED
      BY <1>1, <1>5, <1>6, <2>2 DEF OnceInv, RunsAreFirst, ChargedOnce
  <1> QED BY <1>8, <1>9, <1>10 DEF OnceInv

\* The one step that charges finds the call uncharged.
LEMMA GenerateOnce ==
    ASSUME OneRunAtATime, IInv, OnceInv, NEW p \in Workers, Generate(p)
    PROVE  OnceInv'
  <1>1. pc[p] = "generate" /\ pc[p] \in Working /\ charged[Call(p)] = 0
    BY Places DEF Generate, OnceInv, RunsAreFirst
  <1>2. Call(p) \in CallIds /\ job[p] \in JobType /\ DOMAIN job = Workers
    BY <1>1, JobFacts DEF IInv, TypeOK
  <1>3. charged' = charged \/ charged' = [charged EXCEPT ![Call(p)] = @ + 1]
    BY DEF Generate, Charge
  <1>4. ChargedOnce'
    BY <1>1, <1>2, <1>3, LedgerFacts DEF OnceInv, ChargedOnce
  <1>5. job'[p].at = job[p].at /\ job'[p].plan = job[p].plan
    <2>1. job' = job \/ \E b, a : job' = [job EXCEPT ![p].priced = b, ![p].answer = a]
      BY DEF Generate
    <2> QED BY <1>2, <2>1 DEF JobType
  <1>6. Steady /\ UNCHANGED meta
    BY SameRows DEF Generate, files
  <1>7. PICK l \in {"ambiguous", "store"} : Goto(p, l)
    BY DEF Generate
  <1> QED
    BY <1>1, <1>4, <1>5, <1>6, <1>7, GotoOnce

\* The steps to another place that change neither job nor charges.
LEMMA PlaceOnce ==
    ASSUME OneRunAtATime, IInv, OnceInv, NEW p \in Workers,
           \/ Preflight(p) \/ ReserveRaises(p) \/ Upload(p) \/ MarkInFlight(p) \/ MarkRaises(p)
           \/ WriteRaw(p) \/ Settle(p) \/ WriteCost(p) \/ MarkAmbiguous(p)
           \/ Release(p) \/ FinishRelease(p)
    PROVE  OnceInv'
  <1>1. UNCHANGED job /\ UNCHANGED charged /\ UNCHANGED meta
    BY DEF Preflight, ReserveRaises, Upload, FailBeforeSend, MarkInFlight, MarkRaises, WriteRaw,
           Settle, WriteCost, MarkAmbiguous, Release, FinishRelease, files
  <1>2. /\ pc[p] \in {"preflight", "reserve", "upload", "mark", "store", "settle", "receipt",
                      "ambiguous", "release", "releasing"}
        /\ pc[p] # "preflight" => pc[p] \in Working
    BY DEF Preflight, ReserveRaises, Upload, MarkInFlight, MarkRaises, WriteRaw,
           Settle, WriteCost, MarkAmbiguous, Release, FinishRelease, Working, HasRow, Answered
  <1>3. \E l \in {"window", "report", "mark", "release", "generate", "settle", "ambiguous",
                  "receipt", "canonicalize", "releasing"} :
            /\ Goto(p, l)
            /\ l = "window" => pc[p] = "preflight"
            /\ l \in {"mark", "generate"} => pc[p] \in {"upload", "mark"}
    BY DEF Preflight, ReserveRaises, Upload, FailBeforeSend, MarkInFlight, MarkRaises, WriteRaw,
           Settle, WriteCost, MarkAmbiguous, Release, FinishRelease
  <1>4. Steady
    <2>1. CASE Preflight(p) \/ ReserveRaises(p) \/ Upload(p) \/ MarkRaises(p) \/ WriteRaw(p) \/ WriteCost(p)
      BY <2>1, SameRows DEF Preflight, ReserveRaises, Upload, FailBeforeSend, MarkRaises,
         WriteRaw, WriteCost
    <2>2. pc[p] # "preflight" => Call(p) \in CallIds
      BY <1>2, JobFacts
    <2>3. CASE MarkInFlight(p)
      BY <2>2, <2>3, SameRows, SteadyRow DEF MarkInFlight
    <2>4. CASE MarkAmbiguous(p)
      BY <2>2, <2>4, SameRows, SteadyRow DEF MarkAmbiguous
    <2>5. CASE Settle(p)
      BY <2>2, <2>5, SameRows, SteadyRow DEF Settle
    <2>6. CASE Release(p)
      BY <2>6 DEF Release, L!BeginRelease, ledger, Steady, IsGone
    <2>7. CASE FinishRelease(p)
      BY <2>7, FinishReleaseSteady DEF FinishRelease
    <2> QED BY <2>1, <2>3, <2>4, <2>5, <2>6, <2>7
  <1>5. ChargedOnce'
    BY <1>1 DEF OnceInv, ChargedOnce
  <1>6. pc[p] \in {"upload", "mark"} => charged'[Call(p)] = 0
    BY <1>1 DEF OnceInv, RunsAreFirst
  <1> QED
    BY <1>1, <1>2, <1>3, <1>4, <1>5, <1>6, GotoOnce

\* The windows that are served, and the canonical form of an answer.
LEMMA ServeOnce ==
    ASSUME OneRunAtATime, IInv, OnceInv, NEW p \in Workers,
           UseCache(p) \/ UseRaw(p) \/ Canonicalize(p)
    PROVE  OnceInv'
  <1>1. pc[p] \in {"window", "canonicalize"}
    BY DEF UseCache, UseRaw, Canonicalize
  <1>2. Stop(p) \/ (Advance(p) /\ UNCHANGED meta /\ UNCHANGED charged)
    BY DEF UseCache, UseRaw, Canonicalize, CanonicalizeFile, files
  <1> QED
    BY <1>1, <1>2, StopOnce, AdvanceOnce

\* A run begins with nothing planned.
LEMMA StartOnce ==
    ASSUME OneRunAtATime, IInv, OnceInv, NEW p \in Workers, Start(p)
    PROVE  OnceInv'
  <1>1. pc[p] = "idle" /\ job[p] = NoJob /\ UNCHANGED charged /\ UNCHANGED meta
    BY DEF Start, OnceInv, RunsAreFirst, files
  <1>2. pc'[p] = "inspect" /\ job'[p].at = 1
    BY <1>1 DEF Start, Goto, IInv, TypeOK, NoJob
  <1>3. Steady
    BY DEF Start, L!Initialize, Steady, IsGone
  <1>4. \A w \in Windows : ~IsAhead(p, w)'
    BY <1>2 DEF IsAhead, Windows
  <1>5. ChargedOnce'
    BY <1>1 DEF OnceInv, ChargedOnce
  <1> QED
    BY <1>1, <1>2, <1>3, <1>4, <1>5, SteadyStep

\* The owner reserves nothing, and a released call stays released.
LEMMA OwnerOnce ==
    ASSUME OneRunAtATime, IInv, OnceInv, OwnerSteps
    PROVE  OnceInv'
  <1>1. PICK p \in Workers : TRUE
    BY DEF OneRunAtATime
  <1>2. /\ UNCHANGED pc /\ UNCHANGED job /\ UNCHANGED charged /\ UNCHANGED meta
        /\ Call(p)' = Call(p)
    BY DEF OwnerSteps, files, Call
  <1>3. Steady
    <2>1. CASE L!Initialize(Owner) \/ L!ReviewHold(Owner) \/ L!AcknowledgeSafetyHold(Owner)
      BY <2>1 DEF L!Initialize, L!ReviewHold, L!AcknowledgeSafetyHold, Steady, IsGone
    <2>2. CASE L!FinishRelease(Owner)
      BY <2>2, FinishReleaseSteady
    <2>3. ASSUME NEW c \in CallIds, Reconcile(c) PROVE Steady
      BY <2>3, SteadyRow DEF Reconcile, L!Settle, L!BeginRelease, L!MarkAmbiguous, Steady, IsGone
    <2> QED BY <2>1, <2>2, <2>3 DEF OwnerSteps
  <1>4. \A w \in Windows : IsAhead(p, w)' <=> IsAhead(p, w)
    BY <1>2 DEF IsAhead
  <1>5. ChargedOnce'
    BY <1>2 DEF OnceInv, ChargedOnce
  <1> QED
    BY <1>2, <1>3, <1>4, <1>5, SteadyStep DEF OnceInv, RunsAreFirst

\* An unscouted session.
LEMMA InitOnce == OneRunAtATime /\ Init => OnceInv
  <1> SUFFICES ASSUME OneRunAtATime, Init PROVE OnceInv
    OBVIOUS
  <1>1. TipsAreNamed
    BY DEF Init, TipsAreNamed, OwnCalls
  <1>2. PlansAreFresh
    BY DEF Init, PlansAreFresh, IsAhead
  <1>3. RunsAreFirst /\ ChargedOnce
    BY DEF Init, RunsAreFirst, ChargedOnce
  <1> QED BY <1>1, <1>2, <1>3 DEF OnceInv

\* Every step keeps it.
LEMMA NextOnce == OneRunAtATime /\ IInv /\ OnceInv /\ [Next]_vars => OnceInv'
  <1> SUFFICES ASSUME OneRunAtATime, IInv, OnceInv, [Next]_vars PROVE OnceInv'
    OBVIOUS
  <1>1. CASE OwnerSteps
    BY <1>1, OwnerOnce
  <1>2. ASSUME NEW p \in Workers, Start(p) PROVE OnceInv'
    BY <1>2, StartOnce
  <1>3. ASSUME NEW p \in Workers, Crash(p) \/ InspectRefuses(p) \/ PreflightRefuses(p)
        PROVE  OnceInv'
    BY <1>3, StopOnce DEF Crash, InspectRefuses, PreflightRefuses
  <1>4. ASSUME NEW p \in Workers, Report(p) PROVE OnceInv'
    BY <1>4, EndOnce DEF Report
  <1>5. ASSUME NEW p \in Workers, Run(p) PROVE OnceInv'
    BY <1>3, <1>4, <1>5, InspectOnce, WriteMetaOnce, ReserveOnce, GenerateOnce, PlaceOnce,
       ServeOnce DEF Run
  <1>6. CASE UNCHANGED vars
    BY <1>6 DEF vars, ledger, files, OnceInv, TipsAreNamed, PlansAreFresh, RunsAreFirst,
       ChargedOnce, IsTip, IsGone, IsAhead, Call
  <1> QED
    BY <1>1, <1>2, <1>3, <1>5, <1>6 DEF Next

\* At most one call of a request is charged, and that once.
LEMMA OnceIsPaidOnce == OneRunAtATime /\ IInv /\ OnceInv => PaidOnce
  <1> SUFFICES ASSUME OneRunAtATime, IInv, OnceInv, NEW r \in Requests
               PROVE  Cardinality(Charges(r)) <= 1
    BY DEF PaidOnce
  <1>1. PICK w \in Windows, k \in Configs : r = <<w, k>>
    BY DEF Requests
  <1>2. ASSUME NEW x \in Charges(r) PROVE x = <<meta[w], 1>>
    <2>1. PICK c \in CallIds, n \in 1..MaxCharges : x = <<c, n>> /\ Request(c) = r /\ n <= charged[c]
      BY <1>2 DEF Charges
    <2>2. charged[c] \in Nat /\ charged[c] <= 1
      BY LedgerFacts DEF OnceInv, ChargedOnce
    <2>3. n = 1 /\ charged[c] > 0
      BY <2>1, <2>2, ScoutAssumption
    <2>4. c \in OwnCalls(w) /\ c = <<w, k, c[3]>> /\ c[3] \in 0..MaxRetries
      BY <1>1, <2>1 DEF Request, CallIds, OwnCalls
    <2>5. rows[c] # NoRow /\ ~IsGone(c)
      BY <2>3, LedgerFacts DEF IsSent, IsGone, Sent
    <2>6. meta[w] # NoFile /\ IsTip(meta[w])
      BY <2>4, <2>5 DEF OnceInv, TipsAreNamed
    <2>7. meta[w] \in OwnCalls(w) /\ meta[w] = <<w, k, meta[w][3]>> /\ meta[w][3] \in 0..MaxRetries
      BY <2>6 DEF IInv, TypeOK, FilesTypeOK, OwnCalls, CallIds, OneRunAtATime
    <2>8. c[3] = meta[w][3]
      BY <2>4, <2>5, <2>6, <2>7 DEF IsTip, OwnCalls
    <2> QED BY <2>1, <2>3, <2>4, <2>7, <2>8
  <1>3. Charges(r) \in SUBSET {<<meta[w], 1>>}
    BY <1>2
  <1> DEFINE one == {<<meta[w], 1>>}
  <1>4. IsFiniteSet(one) /\ Cardinality(one) = 1 /\ Charges(r) \in SUBSET one
    BY <1>3, FS_Singleton
  <1> HIDE DEF one
  <1>5. Cardinality(Charges(r)) <= Cardinality(one)
    BY <1>4, FS_Subset
  <1> QED
    BY <1>4, <1>5

\* A request is paid for at most once over all its retries, however often runs
\* that do not overlap crash, fail, are repeated and reconciled: for any
\* windows, retries, budgets and prices.
THEOREM RequestsArePaidOnce == OneRunAtATime => (Spec => []PaidOnce)
  <1> SUFFICES ASSUME OneRunAtATime PROVE Spec => []PaidOnce
    OBVIOUS
  <1>1. Init => OnceInv
    BY InitOnce
  <1>2. IInv /\ OnceInv /\ [Next]_vars => OnceInv'
    BY NextOnce
  <1>3. IInv /\ OnceInv => PaidOnce
    BY OnceIsPaidOnce
  <1> QED
    BY <1>1, <1>2, <1>3, IInvHolds, PTL DEF Spec

-------------------------------------------------------------------------------
(* What the ledger promises holds for the scout's money. *)

LP == INSTANCE CostLedgerProofs WITH
        Calls <- CallIds, Procs <- Workers \cup {Owner}, Fingerprints <- Requests,
        Amounts <- {Price[r] : r \in Requests}

\* A video has finitely many calls.
LEMMA FiniteCalls == IsFiniteSet(CallIds)
  <1> DEFINE S == Windows \X (Configs \X (0..MaxRetries))
             f == [x \in S |-> <<x[1], x[2][1], x[2][2]>>]
  <1>1. IsFiniteSet(Windows) /\ IsFiniteSet(0..MaxRetries)
    BY ScoutAssumption, FS_Interval DEF Windows
  <1>2. IsFiniteSet(Configs \X (0..MaxRetries))
    BY <1>1, ScoutMoneyAssumption, FS_Product
  <1>3. IsFiniteSet(S)
    BY <1>1, <1>2, FS_Product
  <1>4. f \in [S -> CallIds]
    BY DEF CallIds
  <1>5. ASSUME NEW c \in CallIds PROVE \E x \in S : f[x] = c
    <2>1. PICK w \in Windows, k \in Configs, n \in 0..MaxRetries : c = <<w, k, n>>
      BY DEF CallIds
    <2>2. <<w, <<k, n>> >> \in S /\ f[<<w, <<k, n>> >>] = c
      BY <2>1
    <2> QED BY <2>2
  <1> HIDE DEF S, f
  <1>6. f \in Surjection(S, CallIds)
    BY <1>4, <1>5 DEF Surjection
  <1> QED
    BY <1>3, <1>6, FS_Surjection

\* The scout's calls, amounts and null values are a ledger's.
LEMMA LedgerAssumed == LP!LedgerAssumption
  <1>1. {Price[r] : r \in Requests} \subseteq Nat
    BY ScoutMoneyAssumption
  <1>2. LP!IsFiniteSet(CallIds)
    BY FiniteCalls DEF LP!IsFiniteSet, IsFiniteSet
  <1>3. NoRow \notin LP!LedgerRecord
    BY ScoutLedgerAssumption DEF LP!LedgerRecord, LP!LifecycleStatus, L!LedgerRecord,
       L!LifecycleStatus
  <1>4. NoHold \notin LP!CostSafetyHold
    BY ScoutMoneyAssumption DEF LP!CostSafetyHold, L!CostSafetyHold
  <1> QED
    BY <1>1, <1>2, <1>3, <1>4, ScoutLedgerAssumption, ScoutMoneyAssumption

\* The ledger that the scout implements is the one the theorems are about.
LEMMA SameLedger == L!Spec => LP!Spec
  <1>1. L!Init => LP!Init
    BY Zenon DEF L!Init, LP!Init, L!LedgerRecord, LP!LedgerRecord, L!LifecycleStatus,
       LP!LifecycleStatus, L!PeriodCovered, LP!PeriodCovered, L!Covered, LP!Covered,
       L!InPeriod, LP!InPeriod, L!Exposure, LP!Exposure, L!ActiveStates, LP!ActiveStates,
       L!Total, LP!Total, L!Cardinality, LP!Cardinality
  <1>2. [L!Next]_(L!vars) => [LP!Next]_(LP!vars)
    BY Zenon DEF L!Initialize, LP!Initialize, L!Crash, LP!Crash, L!ReviewHold,
       LP!ReviewHold, L!AcknowledgeSafetyHold, LP!AcknowledgeSafetyHold, L!FinishRelease,
       LP!FinishRelease, L!Reserve, LP!Reserve, L!MarkInFlight, LP!MarkInFlight,
       L!MarkAmbiguous, LP!MarkAmbiguous, L!BeginRelease, LP!BeginRelease, L!Reconcile,
       LP!Reconcile, L!Settle, LP!Settle, L!IsOpen, LP!IsOpen, L!InsertRow, LP!InsertRow,
       L!CanReserve, LP!CanReserve, L!Transition, LP!Transition, L!SettleRow, LP!SettleRow,
       L!ReleaseFrom, LP!ReleaseFrom, L!NewRow, LP!NewRow, L!Quote, LP!Quote, L!HoldActive,
       LP!HoldActive, L!Overruns, LP!Overruns, L!IsOverrun, LP!IsOverrun, L!PeriodExposure,
       LP!PeriodExposure, L!InPeriod, LP!InPeriod, L!Exposure, LP!Exposure, L!ActiveStates,
       LP!ActiveStates, L!Total, LP!Total, L!Cardinality, LP!Cardinality, L!Release,
       LP!Release, L!Review, LP!Review, L!Next, LP!Next, L!vars, LP!vars
  <1> QED
    BY <1>1, <1>2, PTL DEF L!Spec, LP!Spec

\* The budget of every month and the safety hold stand, whatever overlapping
\* runs of the scout and their owner do.
THEOREM BudgetHolds == Spec => [](L!WithinBudget /\ L!UnackedOverrunHolds)
  <1>1. LP!Spec => []LP!WithinBudget /\ []LP!UnackedOverrunHolds
    BY LedgerAssumed, LP!BudgetHolds, LP!SafetyHoldHolds
  <1>2. LP!WithinBudget => L!WithinBudget
    BY Zenon DEF L!WithinBudget, LP!WithinBudget, L!PeriodCovered, LP!PeriodCovered, L!Total,
       LP!Total,
       L!Cardinality, LP!Cardinality, L!Covered, LP!Covered, L!InPeriod, LP!InPeriod,
       L!Exposure, LP!Exposure, L!ActiveStates, LP!ActiveStates
  <1>3. LP!UnackedOverrunHolds => L!UnackedOverrunHolds
    BY Zenon DEF L!UnackedOverrunHolds, LP!UnackedOverrunHolds, L!Overruns, LP!Overruns,
       L!IsOverrun, LP!IsOverrun, L!HoldActive, LP!HoldActive
  <1> QED
    BY <1>1, <1>2, <1>3, LedgerIsRespected, SameLedger, PTL DEF ImplementsLedger

\* Nothing is granted under an overrun that nobody acknowledged, what may have
\* been sent stays set aside, and what was settled or released is final.
THEOREM RowsStand ==
    Spec => L!NoGrantUnderUnackedOverrun /\ L!DispatchedMoneyStays /\ L!FinalRowsStay
  <1>1. LP!Spec => LP!NoGrantUnderUnackedOverrun /\ LP!DispatchedMoneyStays /\ LP!FinalRowsStay
    BY LedgerAssumed, LP!NoGrantUnderOverrun, LP!DispatchedMoney, LP!FinalRows
  <1>2. LP!NoGrantUnderUnackedOverrun => L!NoGrantUnderUnackedOverrun
    BY Zenon DEF L!NoGrantUnderUnackedOverrun, LP!NoGrantUnderUnackedOverrun, L!Overruns,
       LP!Overruns,
       L!IsOverrun, LP!IsOverrun, L!vars, LP!vars
  <1>3. LP!DispatchedMoneyStays => L!DispatchedMoneyStays
    BY Zenon DEF L!DispatchedMoneyStays, LP!DispatchedMoneyStays, L!Exposure, LP!Exposure,
       L!ActiveStates, LP!ActiveStates, L!Release, LP!Release, L!vars, LP!vars
  <1>4. LP!FinalRowsStay => L!FinalRowsStay
    BY Zenon DEF L!FinalRowsStay, LP!FinalRowsStay, L!vars, LP!vars
  <1> QED
    BY <1>1, <1>2, <1>3, <1>4, LedgerIsRespected, SameLedger, PTL DEF ImplementsLedger

\* To its owner the scout is a gate that keeps a budget.
THEOREM GateIsKept == Spec => L!ImplementsBudgetGate
  <1>1. LP!Spec => LP!ImplementsBudgetGate
    BY LedgerAssumed, LP!Refinement
  <1>2. LP!Gate!Init => L!Gate!Init
    BY Zenon DEF L!Gate!Init, LP!Gate!Init, L!PeriodExposure, LP!PeriodExposure, L!InPeriod,
       LP!InPeriod, L!Exposure, LP!Exposure, L!ActiveStates, LP!ActiveStates, L!Total,
       LP!Total, L!Cardinality, LP!Cardinality, L!HoldActive, LP!HoldActive, L!Overruns,
       LP!Overruns, L!IsOverrun, LP!IsOverrun
  <1>3. [LP!Gate!Next]_(LP!Gate!vars) => [L!Gate!Next]_(L!Gate!vars)
    BY Zenon DEF L!Gate!Next, LP!Gate!Next, L!Gate!vars, LP!Gate!vars, L!Gate!Commit,
       LP!Gate!Commit, L!Gate!GiveBack, LP!Gate!GiveBack, L!Gate!Overrun, LP!Gate!Overrun,
       L!Gate!Reopen, LP!Gate!Reopen, L!Gate!OnlyMonth, LP!Gate!OnlyMonth, L!PeriodExposure,
       LP!PeriodExposure, L!InPeriod, LP!InPeriod, L!Exposure, LP!Exposure, L!ActiveStates,
       LP!ActiveStates, L!Total, LP!Total, L!Cardinality, LP!Cardinality, L!HoldActive,
       LP!HoldActive, L!Overruns, LP!Overruns, L!IsOverrun, LP!IsOverrun
  <1> QED
    BY <1>1, <1>2, <1>3, LedgerIsRespected, SameLedger, PTL
       DEF ImplementsLedger, L!ImplementsBudgetGate, LP!ImplementsBudgetGate, L!Gate!Spec,
          LP!Gate!Spec
===============================================================================
