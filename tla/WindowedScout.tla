----------------------------- MODULE WindowedScout -----------------------------
(***************************************************************************)
(* The paid windowed scout of pipeline/windowed_scout.py                   *)
(* (_run_gemini_windowed_scout): for each window of a video a run looks at *)
(* what earlier runs left behind, and then reuses a paid result, refuses,  *)
(* or pays for a new generation through the cost ledger of CostLedger.tla. *)
(* A run is a process; it may be killed between any two steps.  This code  *)
(* takes no session lock, so two runs of one session may overlap.          *)
(*                                                                         *)
(* Abstractions: a file is NoFile or what recovery reads from it; a cache  *)
(* key is a pair <<window, config>> and stands for the request fingerprint *)
(* too; a call id is such a pair and the number of "-retry" suffixes added *)
(* to it; the remote copy of the window's video is left out.  Looking at   *)
(* one window is one step.                                                 *)
(***************************************************************************)
EXTENDS Integers, FiniteSets

CONSTANTS
    Workers,        \* processes that may run the scout
    Owner,          \* the process with which the owner reconciles
    WindowCount,    \* windows of the video
    Configs,        \* scout configurations, as far as they enter the request
    MaxRetries,     \* bound: "-retry" suffixes of a call id
    MaxCharges,     \* bound: charges of one call by the provider
    Price,          \* the reservation for a request
    Periods, Usages, UsageCost, Budgets,
    NoRow, NoUsage, NoHold, Closed, Idle, NoFile

Windows == 1..WindowCount
Requests == Windows \X Configs
CallIds == Windows \X Configs \X (0..MaxRetries)
Request(c) == <<c[1], c[2]>>
\* Mutant of Base: the window is not part of the cache key.
BaseOfSession(w, k) == <<1, k, 0>>
Base(w, k) == <<w, k, 0>>
Retry(c) == <<c[1], c[2], c[3] + 1>>

ASSUME ScoutAssumption ==
    /\ Workers # {} /\ Owner \notin Workers
    /\ WindowCount \in Nat \ {0} /\ MaxRetries \in Nat /\ MaxCharges \in Nat \ {0}
    /\ NoFile \notin CallIds

VARIABLES
    rows, hold, schema, budget, pend, acked,    \* the ledger
    meta,       \* request_meta.json: the call it names
    raw,        \* response.raw.json: the call it answers, and how
    canonical,  \* response.canonical.json: the call it was made from
    cost,       \* cost.json: the call it reports
    charged,    \* external: how often the provider generated for a call
    pc,         \* where a run is
    job         \* its local variables

ledger == <<rows, hold, schema, budget, pend, acked>>
files == <<meta, raw, canonical, cost>>
vars == <<ledger, files, charged, pc, job>>

L == INSTANCE CostLedger WITH
        Calls <- CallIds, Procs <- Workers \cup {Owner}, Fingerprints <- Requests,
        Amounts <- {Price[r] : r \in Requests}

\* Of the ledger's assumption, what a proof about the scout needs.
ASSUME ScoutLedgerAssumption ==
    /\ Budgets # {} /\ Budgets \subseteq Nat /\ Closed \notin Nat
    /\ NoUsage \notin Usages /\ NoRow \notin L!LedgerRecord

\* The rest of it, for what the ledger promises of the scout's money.
ASSUME ScoutMoneyAssumption ==
    /\ IsFiniteSet(Configs) /\ Price \in [Requests -> Nat]
    /\ UsageCost \in [Usages -> Nat] /\ NoHold \notin L!CostSafetyHold

-------------------------------------------------------------------------------
\* The provider's answers: a completed interaction with a usable map, one
\* whose text is no map, and one that ended in another status.
Results == {"good", "garbled", "incomplete"}
RawFile == [call : CallIds, result : Results]

\* _PaidWindowRecovery.  "full": envelope and full_cache; "raw": envelope;
\* "new": neither, and `call` is retry_call_id or call_id.
Recovery == [kind : {"full", "raw", "new"}, call : CallIds, file : RawFile \cup {NoFile}]
NoPlan == [kind |-> "none", call |-> NoFile, file |-> NoFile]

NoJob == [config |-> NoFile, at |-> 1, plan |-> [w \in Windows |-> NoPlan],
          reserved |-> FALSE, answer |-> NoFile, priced |-> FALSE]

Call(p) == job[p].plan[job[p].at].call

\* What _inspect_paid_window_recovery reads.  Metadata of another request is
\* ignored, and with it the raw file.
Matches(w, k) == meta[w] # NoFile /\ Request(meta[w]) = <<w, k>>
CallId(w, k) == IF Matches(w, k) THEN meta[w] ELSE Base(w, k)
Completed(w) == raw[w] # NoFile /\ raw[w].result # "incomplete"
Envelope(w, k) == Matches(w, k) /\ Completed(w)

\* The ledger knows the call, and the cost artifact does not name another.
Known(w, k) == rows[CallId(w, k)] # NoRow /\ cost[w] \in {NoFile, CallId(w, k)}

\* Mutant of IsPaid: a completed file is reused whatever the ledger says.
IsPaidByFile(w, k) == Known(w, k) /\ Envelope(w, k)

IsPaid(w, k) ==
    Known(w, k) /\ rows[CallId(w, k)].status = "SETTLED" /\ Envelope(w, k)

\* Mutant of IsReleased: an ambiguous call is retried like a released one.
IsReleasedOrAmbiguous(w, k) ==
    /\ Known(w, k) /\ rows[CallId(w, k)].status \in {"RELEASED", "AMBIGUOUS"}
    /\ ~Envelope(w, k)
    /\ CallId(w, k)[3] < MaxRetries

\* RELEASED, and MaxRetries not reached.
IsReleased(w, k) ==
    /\ Known(w, k) /\ rows[CallId(w, k)].status = "RELEASED" /\ ~Envelope(w, k)
    /\ CallId(w, k)[3] < MaxRetries

IsNew(w, k) ==
    /\ rows[CallId(w, k)] = NoRow
    /\ ~Envelope(w, k)
    /\ meta[w] = NoFile => ~Completed(w)

Recover(w, k) ==
    LET paid == IsPaid(w, k)
    IN [kind |-> IF ~paid THEN "new" ELSE IF canonical[w] # NoFile THEN "full" ELSE "raw",
        call |-> IF IsReleased(w, k) THEN Retry(CallId(w, k)) ELSE CallId(w, k),
        file |-> IF paid THEN raw[w] ELSE NoFile]

-------------------------------------------------------------------------------
\* A new ledger and a session that has not been scouted.
Init ==
    /\ rows = [c \in CallIds |-> NoRow] /\ hold = NoHold /\ schema = 0
    /\ budget = [p \in Workers \cup {Owner} |-> Closed]
    /\ pend = [p \in Workers \cup {Owner} |-> Idle]
    /\ acked = {}
    /\ meta = [w \in Windows |-> NoFile]
    /\ raw = [w \in Windows |-> NoFile]
    /\ canonical = [w \in Windows |-> NoFile]
    /\ cost = [w \in Windows |-> NoFile]
    /\ charged = [c \in CallIds |-> 0]
    /\ pc = [p \in Workers |-> "idle"]
    /\ job = [p \in Workers |-> NoJob]

\* The owner acts on the ledger only while no run is going, and the other way
\* round.
Quiet == \A p \in Workers : pc[p] = "idle"

Goto(p, label) == pc' = [pc EXCEPT ![p] = label]
LedgerRest == UNCHANGED <<schema, budget, pend, acked>>

\* An exception that reaches the command line, or a kill.
Stop(p) ==
    /\ L!Crash(p)
    /\ Goto(p, "idle") /\ job' = [job EXCEPT ![p] = NoJob]
    /\ UNCHANGED <<files, charged>>

Start(p) ==
    /\ pc[p] = "idle" /\ pend[Owner] = Idle
    /\ L!Initialize(p)
    /\ Goto(p, "inspect")
    /\ \E k \in Configs : job' = [job EXCEPT ![p].config = k]
    /\ UNCHANGED <<files, charged>>

\* One round of the first loop.
Inspect(p) ==
    LET w == job[p].at
        k == job[p].config
        last == w = WindowCount
    IN /\ pc[p] = "inspect"
       /\ IsPaid(w, k) \/ IsReleased(w, k) \/ IsNew(w, k)
       /\ job' = [job EXCEPT ![p].plan[w] = Recover(w, k),
                             ![p].at = IF last THEN 1 ELSE w + 1]
       /\ Goto(p, IF last THEN "preflight" ELSE "inspect")
       /\ UNCHANGED <<ledger, files, charged>>

InspectRefuses(p) ==
    LET w == job[p].at
        k == job[p].config
    IN /\ pc[p] = "inspect"
       /\ ~IsPaid(w, k) /\ ~IsReleased(w, k) /\ ~IsNew(w, k)
       /\ Stop(p)

\* The opt-in and the aggregate preflight of what is missing.
Missing(p) == {w \in Windows : job[p].plan[w].kind = "new"}
Estimate(p) == L!Total([w \in Missing(p) |-> Price[<<w, job[p].config>>]])

Affordable(p, m) ==
    ~L!HoldActive /\ (Missing(p) # {} => L!PeriodExposure(m) + Estimate(p) <= budget[p])

Preflight(p) ==
    /\ pc[p] = "preflight"
    /\ \E m \in Periods : Affordable(p, m)
    /\ Goto(p, "window")
    /\ UNCHANGED <<ledger, files, charged, job>>

PreflightRefuses(p) ==
    /\ pc[p] = "preflight"
    /\ Missing(p) # {} \/ L!HoldActive
    /\ Stop(p)

-------------------------------------------------------------------------------
\* The second loop, at window job[p].at.

EndOfLoop(p) == job[p].at = WindowCount

NextWindow(p) ==
    /\ ~EndOfLoop(p)
    /\ job' = [job EXCEPT ![p].at = @ + 1, ![p].reserved = FALSE,
                          ![p].answer = NoFile, ![p].priced = FALSE]
    /\ Goto(p, "window")
    /\ UNCHANGED ledger

\* The whole run returns.
Return(p) ==
    /\ EndOfLoop(p)
    /\ L!Crash(p)
    /\ Goto(p, "idle") /\ job' = [job EXCEPT ![p] = NoJob]

Advance(p) == NextWindow(p) \/ Return(p)

UseCache(p) ==
    /\ pc[p] = "window" /\ job[p].plan[job[p].at].kind = "full"
    /\ Advance(p)
    /\ UNCHANGED <<files, charged>>

\* _canonicalize_window_envelope: an unusable map raises.
CanonicalizeFile(p, file) ==
    \/ /\ file.result = "good"
       /\ canonical' = [canonical EXCEPT ![job[p].at] = file.call]
       /\ Advance(p)
       /\ UNCHANGED <<meta, raw, cost, charged>>
    \/ file.result = "garbled" /\ Stop(p)

UseRaw(p) ==
    /\ pc[p] = "window" /\ job[p].plan[job[p].at].kind = "raw"
    /\ CanonicalizeFile(p, job[p].plan[job[p].at].file)

WriteMeta(p) ==
    /\ pc[p] = "window" /\ job[p].plan[job[p].at].kind = "new"
    /\ meta' = [meta EXCEPT ![job[p].at] = Call(p)]
    /\ Goto(p, "reserve")
    /\ UNCHANGED <<ledger, raw, canonical, cost, charged, job>>

Quote(p, m) ==
    LET r == Request(Call(p)) IN [fp |-> r, period |-> m, reserved |-> Price[r]]

\* A row that is there already is as good as a new one, unless refused.
Reserve(p) ==
    /\ pc[p] = "reserve"
    /\ \E m \in Periods :
        \/ /\ L!InsertRow(Call(p), Quote(p, m), budget[p])
           /\ job' = [job EXCEPT ![p].reserved = TRUE]
           /\ LedgerRest
        \/ /\ rows[Call(p)] # NoRow
           /\ L!IsIdempotentReservation(rows[Call(p)], Quote(p, m))
           /\ job' = [job EXCEPT ![p].reserved =
                        rows[Call(p)].status \in {"RESERVED", "IN_FLIGHT"}]
           /\ UNCHANGED ledger
    /\ Goto(p, "upload")
    /\ UNCHANGED <<files, charged>>

ReserveRaises(p) ==
    /\ pc[p] = "reserve"
    /\ \E m \in Periods :
        IF rows[Call(p)] = NoRow THEN ~L!CanReserve(Call(p), Quote(p, m), budget[p])
        ELSE ~L!IsIdempotentReservation(rows[Call(p)], Quote(p, m))
    /\ Goto(p, "report")
    /\ UNCHANGED <<ledger, files, charged, job>>

\* GeminiProvider.execute up to the send boundary.  A failure of the upload,
\* of the wait for the remote file, or of the callback before the generation
\* leads to the handler below.
FailBeforeSend(p) ==
    /\ Goto(p, IF job[p].reserved THEN "release" ELSE "report")
    /\ UNCHANGED <<ledger, files, charged, job>>

Upload(p) ==
    /\ pc[p] = "upload"
    /\ \/ Goto(p, "mark") /\ UNCHANGED <<ledger, files, charged, job>>
       \/ FailBeforeSend(p)

\* Mutant of MarkInFlight: the ledger is not told before the generation.
MarkInFlightLater(p) ==
    /\ pc[p] = "mark"
    /\ Goto(p, "generate")
    /\ UNCHANGED <<ledger, files, charged, job>>

MarkInFlight(p) ==
    /\ pc[p] = "mark"
    /\ \/ L!Transition(Call(p), {"RESERVED"}, "IN_FLIGHT") /\ LedgerRest
       \/ rows[Call(p)].status = "IN_FLIGHT" /\ UNCHANGED ledger
    /\ Goto(p, "generate")
    /\ UNCHANGED <<files, charged, job>>

MarkRaises(p) ==
    /\ pc[p] = "mark"
    /\ rows[Call(p)].status \notin {"RESERVED", "IN_FLIGHT"}
    /\ FailBeforeSend(p)

Charge(c) == charged[c] < MaxCharges /\ charged' = [charged EXCEPT ![c] = @ + 1]

\* create_interaction: no answer, be it charged or not, or an answer.
Generate(p) ==
    /\ pc[p] = "generate"
    /\ \/ /\ UNCHANGED charged \/ Charge(Call(p))
          /\ Goto(p, "ambiguous")
          /\ UNCHANGED job
       \/ /\ Charge(Call(p))
          /\ \E result \in Results, priced \in BOOLEAN :
                /\ result = "incomplete" => ~priced
                /\ job' = [job EXCEPT ![p].priced = priced,
                             ![p].answer = [call |-> Call(p), result |-> result]]
          /\ Goto(p, "store")
    /\ UNCHANGED <<ledger, files>>

\* The raw response is stored before the call is settled; one that cannot be
\* priced is stored by the handler.
WriteRaw(p) ==
    /\ pc[p] = "store"
    /\ raw' = [raw EXCEPT ![job[p].at] = job[p].answer]
    /\ Goto(p, IF job[p].priced THEN "settle" ELSE "ambiguous")
    /\ UNCHANGED <<ledger, meta, canonical, cost, charged, job>>

\* An overrun commits and then raises; the handler's mark_ambiguous is refused
\* for a settled call.
Settle(p) ==
    /\ pc[p] = "settle"
    /\ \E u \in Usages :
        \/ /\ L!SettleRow(Call(p), u) /\ LedgerRest
           /\ Goto(p, IF UsageCost[u] > rows[Call(p)].reserved THEN "report" ELSE "receipt")
        \/ /\ rows[Call(p)].status \notin {"IN_FLIGHT", "AMBIGUOUS"}
           /\ Goto(p, IF rows[Call(p)].usage = u THEN "receipt" ELSE "report")
           /\ UNCHANGED ledger
    /\ UNCHANGED <<files, charged, job>>

WriteCost(p) ==
    /\ pc[p] = "receipt"
    /\ cost' = [cost EXCEPT ![job[p].at] = Call(p)]
    /\ Goto(p, "canonicalize")
    /\ UNCHANGED <<ledger, meta, raw, canonical, charged, job>>

Canonicalize(p) ==
    /\ pc[p] = "canonicalize"
    /\ CanonicalizeFile(p, job[p].answer)

-------------------------------------------------------------------------------
\* The exception handlers.

\* Mutant of MarkAmbiguous: a settled call becomes ambiguous again.
MarkAmbiguousAlways(p) ==
    /\ pc[p] = "ambiguous"
    /\ L!Transition(Call(p), {"IN_FLIGHT", "SETTLED"}, "AMBIGUOUS") /\ LedgerRest
    /\ Goto(p, "report")
    /\ UNCHANGED <<files, charged, job>>

MarkAmbiguous(p) ==
    /\ pc[p] = "ambiguous"
    /\ \/ L!Transition(Call(p), {"IN_FLIGHT"}, "AMBIGUOUS") /\ LedgerRest
       \/ rows[Call(p)].status # "IN_FLIGHT" /\ UNCHANGED ledger
    /\ Goto(p, "report")
    /\ UNCHANGED <<files, charged, job>>

Release(p) ==
    /\ pc[p] = "release"
    /\ \/ L!BeginRelease(p, Call(p), FALSE) /\ Goto(p, "releasing")
       \/ /\ rows[Call(p)].status = "AMBIGUOUS"
          /\ Goto(p, "report")
          /\ UNCHANGED ledger
    /\ UNCHANGED <<files, charged, job>>

FinishRelease(p) ==
    /\ pc[p] = "releasing"
    /\ L!FinishRelease(p)
    /\ Goto(p, "report")
    /\ UNCHANGED <<files, charged, job>>

\* The cost artifact of a failed call, and the exception goes on.
Report(p) ==
    /\ pc[p] = "report"
    /\ cost' = IF rows[Call(p)] = NoRow THEN cost
               ELSE [cost EXCEPT ![job[p].at] = Call(p)]
    /\ L!Crash(p)
    /\ Goto(p, "idle") /\ job' = [job EXCEPT ![p] = NoJob]
    /\ UNCHANGED <<meta, raw, canonical, charged>>

Crash(p) == pc[p] # "idle" /\ Stop(p)

-------------------------------------------------------------------------------
\* The owner reconciles by the provider's records: a charged call is settled,
\* one that was not charged is released.
Reconcile(c) ==
    \/ charged[c] > 0 /\ L!Settle(Owner, c)
    \/ charged[c] = 0 /\ L!BeginRelease(Owner, c, TRUE)
    \/ L!MarkAmbiguous(Owner, c)

OwnerSteps ==
    /\ Quiet
    /\ \/ L!Initialize(Owner)
       \/ L!FinishRelease(Owner)
       \/ L!ReviewHold(Owner) \/ L!AcknowledgeSafetyHold(Owner)
       \/ \E c \in CallIds : Reconcile(c)
    /\ UNCHANGED <<files, charged, pc, job>>

Run(p) ==
    \/ Inspect(p) \/ InspectRefuses(p) \/ Preflight(p) \/ PreflightRefuses(p)
    \/ UseCache(p) \/ UseRaw(p)
    \/ WriteMeta(p) \/ Reserve(p) \/ ReserveRaises(p)
    \/ Upload(p) \/ MarkInFlight(p) \/ MarkRaises(p) \/ Generate(p)
    \/ WriteRaw(p) \/ Settle(p) \/ WriteCost(p) \/ Canonicalize(p)
    \/ MarkAmbiguous(p) \/ Release(p) \/ FinishRelease(p) \/ Report(p)

Next == OwnerSteps \/ \E p \in Workers : Start(p) \/ Run(p) \/ Crash(p)

Spec == Init /\ [][Next]_vars

-------------------------------------------------------------------------------
Labels ==
    {"idle", "inspect", "preflight", "window", "reserve", "upload", "mark",
     "generate", "store", "settle", "receipt", "canonicalize", "ambiguous",
     "release", "releasing", "report"}

OwnCalls(w) == {c \in CallIds : c[1] = w}

JobType ==
    [config : Configs \cup {NoFile}, at : Windows,
     plan : [Windows -> Recovery \cup {NoPlan}],
     reserved : BOOLEAN, answer : RawFile \cup {NoFile}, priced : BOOLEAN]

FilesTypeOK ==
    /\ meta \in [Windows -> CallIds \cup {NoFile}]
    /\ canonical \in [Windows -> CallIds \cup {NoFile}]
    /\ cost \in [Windows -> CallIds \cup {NoFile}]
    /\ raw \in [Windows -> RawFile \cup {NoFile}]
    /\ \A w \in Windows :
         /\ {meta[w], canonical[w], cost[w]} \subseteq OwnCalls(w) \cup {NoFile}
         /\ raw[w] # NoFile => raw[w].call[1] = w

\* Files and local variables keep the shapes recovery and the handlers rely on,
\* and a window's directory only ever holds that window's calls.
TypeOK ==
    /\ L!TypeOK
    /\ FilesTypeOK
    /\ charged \in [CallIds -> 0..MaxCharges]
    /\ pc \in [Workers -> Labels]
    /\ job \in [Workers -> JobType]

\* What the provider may have charged counts in the month's budget: the row of
\* such a call is never missing, still merely reserved, or released - whatever
\* upload failure, crash or overlapping run releases reservations meanwhile.
ChargedCallsCount ==
    \A c \in CallIds :
        charged[c] > 0 =>
            /\ rows[c] # NoRow
            /\ rows[c].status \in {"IN_FLIGHT", "AMBIGUOUS", "SETTLED"}

\* A window that a run is going to serve from disk is one the provider was paid
\* for, and stays so until the run gets to it.
ServedWindowsArePaid ==
    \A p \in Workers, w \in Windows :
        job[p].plan[w].kind \in {"full", "raw"} =>
            LET c == job[p].plan[w].call
            IN rows[c] # NoRow /\ rows[c].status = "SETTLED" /\ charged[c] > 0

\* All that the runs and the owner do to the ledger is what a ledger allows.
ImplementsLedger == L!Spec

Charges(r) == {x \in CallIds \X (1..MaxCharges) : Request(x[1]) = r /\ x[2] <= charged[x[1]]}

\* "Unresolved calls fail closed before upload or generation"
\* (windowed_scout.py:781): however often runs crash, fail or are repeated, the
\* provider generates for a request at most once, over all its retries.
PaidOnce == \A r \in Requests : Cardinality(Charges(r)) <= 1
===============================================================================
