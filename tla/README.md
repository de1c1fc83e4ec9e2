# A formal model of game-highlight-finder

`highlight analyze` turns a recorded play session into a set of highlight clips and an HTML report. On the way
it pays a remote model for each stretch of the video, keeps every result on disk so that a repeated command pays
and computes nothing twice, and may be killed at any moment. These TLA+ modules model the parts of the program
in which that can go wrong: the money, the session lock, the stages and their manifest, the two paid scouts, the
maps they answer with, the clips with their report, and the child processes. TLC checks them on small instances;
TLAPS proves all their safety properties for instances of every size, and that what is proved of the ledger
holds for the money of the two paid scouts.

Paths below are relative to the repository; `…/` stands for `src/game_highlight_finder/`.

    tlc -workers 2 -config CostLedger.cfg MCCostLedger      one run; the runs are listed below
    tlapm CostLedgerProofs.tla                              one proof module

## 1. The system

### Components, their state and their operations

| Component | State | Operations | What makes it correct |
|---|---|---|---|
| Cost ledger `…/cost/ledger.py` | SQLite: `calls`, `ledger_control` (the safety hold), `schema_migrations`, `ledger_events` | initialize/migrate, reserve, mark_in_flight, mark_ambiguous, release, settle, reconcile, acknowledge_safety_hold | no month beyond a budget by reservations; an overrun stops everything until acknowledged; money that may have been spent stays counted; final rows are final |
| Cost service, prices, rates `…/cost/{service,calculator,pricing,fx}.py` | price and rate snapshots | quote, reserve, settle, reconcile | a settlement is priced like its reservation; rounding never undercounts |
| Session lock `…/storage/lock.py` | one file per session | acquire, release, removal of a stale lock | one process at a time; a dead owner does not block |
| Windowed scout `…/pipeline/windowed_scout.py` | per window: `request_meta.json`, `response.raw.json`, `response.canonical.json`, `cost.json` | inspect, preflight, generate or reuse each window | a request is paid for once; what was paid is used; what may have been charged counts |
| Gemini adapter `…/providers/gemini.py` | the remote copy of a video | upload, wait, generate, delete | the callback that marks the call runs before the request is sent |
| Runner and manifest `…/pipeline/{runner,manifest}.py` | `manifest.json`: a record per stage | start, complete, fail, recover, invalidate | a live attempt is never recovered; a completed record tells the truth |
| Ingest, proxy, local signals `…/pipeline/{ingest,proxy,local_signals}.py` | their artifacts, the source locator | serve from disk or generate under the lock | nothing made under other settings is served |
| Extraction `…/pipeline/extraction.py` | clips, thumbnails, extraction manifest | reuse, encode, record | a clip that is reused is the one that would be made |
| Ranking, report `…/pipeline/{ranking,report}.py` | ranking, page, page metadata | rank, verify a hit, render | a served page says what the session says |
| Session storage `…/storage/{sessions,atomic,hashing,preflight}.py` | the session directory | cache keys, atomic writes | a cache key contains all that the artifact depends on |
| Windows, canonical form, reconciliation, clips `…/domain/` | none: pure functions | plan windows, canonicalize an answer, merge the windows, derive clip boundaries | coverage; nothing reported is lost; what is written can be loaded; a clip holds its moment |
| Single-request scout `…/pipeline/gemini_scout.py` | request metadata, raw and canonical response, remote-file metadata, stage record | retry a cleanup, reuse an answer, or reserve, send, settle and complete, under the lock | as for the windows; no reservation and no remote copy is forgotten |
| Fake scout `…/pipeline/{scout,fake_scout}.py`, `…/providers/fake.py` | its response files | reuse or generate under the lock | offline stand-in |
| Media tools `…/media/` | a child process, its pipes and reader threads | run with a timeout, cancel, terminate | no child is left running; only a complete output counts; a late call ends |
| Benchmark `…/benchmark/` | none, but reports | match candidates to truth, aggregate | a match is one to one |
| Annotation helper `…/benchmark/annotation_server.py` | an annotation file, its backup, the review state | a thread per request loads and saves | no save is lost |
| Review proxies `…/benchmark/review_proxy.py` | a manifest per case | encode a batch | like extraction |
| Command line, configuration, diagnostics `…/{cli,config,doctor,status}.py` | `config.json` of a session | parse, run, print | |

### How they interact

* Every process of the program opens the same ledger file; it is the only state shared between sessions.
  SQLite's `BEGIN IMMEDIATE` makes each write atomic, but `release` reads in one transaction and writes in another.
* A run of `analyze` is one process that takes the stages in order. The first three work under the session lock; the
  later ones work first and take the lock only to record the result, so the work of two runs of a session may
  overlap. The windowed scout never takes the lock at all.
* The scout calls the ledger before, at and after each generation; the provider calls back into it between upload
  and generation.
* `resume` and `report` read what earlier runs left on disk, with the configuration stored by the first ingest.

### What is hard about it

Kills between any two writes; overlapping runs of one session; runs of different settings one after the other over
one set of files; a remote service that may have charged although no answer arrived; reading in one step and
acting in a later one (the lock's owner, the release, the cache keys); one failing candidate, window or upload
among many. `PROJECT.json` lists each such place with its line and the properties aimed at it.

## 2. The modules

| Module | Models | Composes |
|---|---|---|
| `BudgetGate` | abstract specification: what the cost gate promises its owner | |
| `CostLedger` | `cost/ledger.py`, `CostService` as its caller | refines `BudgetGate` |
| `SessionLock` | `storage/lock.py` | |
| `WindowedScout` | `pipeline/windowed_scout.py`, `providers/gemini.py` as it uses it | an instance of `CostLedger`, which it implements |
| `PaidScout` | `pipeline/gemini_scout.py` and `GeminiProvider.execute` | an instance of `CostLedger` |
| `Intervals` | arithmetic of half-open intervals and optional timestamps | |
| `WindowPlan` | `domain/windows.py` | extends `Intervals` |
| `SessionMap` | the records and the validator of `domain/models.py` | extends `Intervals` |
| `Canonical` | `domain/canonical.py` | extends `SessionMap` |
| `Reconcile` | `reconcile_session_maps` of `domain/reconcile.py` | extends `SessionMap` |
| `ClipBounds` | `derive_clip_boundaries` of `domain/reconcile.py` | extends `Intervals` |
| `ScoutMaps` | the order of these in `pipeline/runner.py`, the offline scouts | extends the four above |
| `SessionPipeline` | `pipeline/{runner,manifest,ingest,proxy,local_signals}.py`, the cache check of `storage/sessions.py` | |
| `ClipLibrary` | `pipeline/{extraction,ranking,report}.py`, the `report` command | |
| `MediaProcess` | `run_ffmpeg` of `media/ffmpeg.py` | |
| `…Proofs` | the theorems about `CostLedger`, `SessionLock`, `WindowedScout`, `PaidScout`, `SessionPipeline`, `ScoutMaps` (with the planner and the clip boundaries it is made of), `ClipLibrary`, `MediaProcess` | extends that module and `TLAPS`; those of the scouts have an instance of `CostLedgerProofs` |
| `MC…` | values for the model checker | extend one module each |

Operators whose comment begins with "Mutant of" are plausible wrong versions of the operator below them. No
specification uses them; each shows that some property notices the mistake.

### CostLedger

A row of `calls` is a record of its status, fingerprint, budget month, reservation and the usage it was settled
with; `hold` is the `safety_hold` control row, `schema` the newest migration. `budget[p]` is the budget with which
process `p` opened the ledger, since each reads its own configuration. One action is one transaction:
`Initialize` (with both migrations), `Reserve`, `MarkInFlight`, `MarkAmbiguous`, `BeginRelease` and
`FinishRelease` (read, then write), `Settle`, `Reconcile`, `ReviewHold` and `AcknowledgeSafetyHold`. `Crash` closes a process between
any two. Refused, blocked and repeated calls change no row and are stuttering steps. `acked` is a history variable: the
overruns that were recorded when the owner last acknowledged. Initially the ledger is new (schema 0, no rows), or an
old one of schema 1 with any rows that fit a budget but for overruns, which is what an earlier version may have left. Amounts are small numbers,
a usage payload is named by its price; the event table, which no code reads back, is left out.

### SessionLock

Every file operation of `acquire`, `release` and `_remove_if_stale` is a step: create exclusively, write the
owner (or fail to, leaving an empty file), read the owner, ask for its pid, unlink the path. A process may die
anywhere and its pid be reused. `stolen` is a history variable: a file was unlinked while its creator held the lock.

### WindowedScout

For each window the four files are variables that hold the call they speak of; a call id is window, configuration and number of retries,
as the code derives it from a hash and `-retry` suffixes. `Inspect` is `_inspect_paid_window_recovery` with its verdicts
`full`, `raw` and `new`, `InspectRefuses` its refusals; then `Preflight`, and per window
`UseCache`, `UseRaw` or the payment `WriteMeta`, `Reserve`, `Upload`, `MarkInFlight`, `Generate`, `WriteRaw`,
`Settle`, `WriteCost`, `Canonicalize`, with the exception paths `MarkAmbiguous`, `Release`,
`FinishRelease`, `Report`. `charged` counts how often the provider generated for a call, whether or not an answer
arrived. The ledger's part of every action is the ledger module's own action.

### PaidScout

The whole proxy in one request, under the session lock: one run at a time, which `Crash` may kill between any two steps and
`Interrupt` may break with Ctrl-C, which the adapter's `except Exception` lets pass and the stage's handlers do not. `Look`, `RetryCleanup` and
`WriteCleaned` are the retried deletion of an earlier copy; `Hit`, `Reuse` or `New` the decision; `PrepareCall` to `Complete` the paid
path in the order in which the code writes its files; `Handle`, `Undo`, `FinishRelease` and `Fail` the handlers. Behind the upload
the adapter has one path: `RecordCopy` writes the metadata of the copy, and whatever raises from then on, that write included,
goes to `TidyUp` (the deletion, which may fail) and `WriteReceipt` (the second write, which may fail as well: after an answer it raises and the
copy is tidied up again, in a handler it leaves the adapter). `copies` are the uploads
the provider still keeps, `charged` its charges: both external. `job.faults` is history: which of these writes and deletions failed in
this run, and whether Ctrl-C came inside the adapter. Between runs the owner reconciles, a copy
expires (`Expire`), another command replaces the session map (`ReplaceMap`).

### The maps: Intervals, WindowPlan, SessionMap, Canonical, Reconcile, ClipBounds, ScoutMaps

Pure functions are operators with the names of the code's (the comment above an operator gives the function it translates); the planner's
loop is a machine (`Cut` is one turn, `Check` the validator of the plan), since its early exits are what
is of interest. An id is the tuple the code hashes; titles, evidence and scores are left out. `ScoutMaps` puts them in order: `Plan`, then for each window
`AskProvider` (any answer of `Answers`) or `AskFixture` (the fake scout's), each canonicalized or refused; `AskSessionFixture` for the
scout of the whole source; `Reconcile`; and `DeriveClips`, which the extraction repeats, possibly under another policy. The reconciliation
runs, like the code, in three loops over what is not yet taken (`rest`): `JoinMatch` groups the matches into `joined`, `SeparateMatches` and `KeepMatch` name and
keep them in order (`kept`), `NameMatches` and `TakeCandidate` merge each candidate into `events`, `EndReconciliation` validates. The code's sorted lists
are the order in which `IsNext` takes them. A map is validated in two depths:
`IsSessionMap` when its records are made with it (canonicalization) or loaded, `ReferencesAreConsistent` alone when it is built of records
that are objects already (reconciliation), which `model_copy` has merged without a validator. Putting the clips in validates nothing:
hence `WrittenMapIsConsistent`, which holds, and `WrittenMapLoads`, which does not.

### MediaProcess

One FFmpeg call with the child, its two pipes, a reader thread for each, and the caller's loop at the grain of its looks at shared state:
`Poll` and `LookAtQueue` are the two operands of the loop condition, `SendTerminate`, `Grace`, `Kill` the
stages of `_terminate`. The child may finish, fail, hang, get stuck in a call that no signal ends, or end with 0 when asked to stop. `Cancel`,
`TimePasses` and `Interrupt` come at any step.

### SessionPipeline

`manifest` holds status, key and output hashes of each stage; a hash is the content, and a content is the settings
and inputs it was made from. For the locked stages a run reads its key (`ReadKey`), takes the lock (`Enter`), finds a hit (`Hit`) or
recovers, invalidates and starts (`Begin`), replaces its artifacts one at a time (`Commit`), and completes or fails.
`FastCache` is ingest's path over a locator, `WriteLocator` the locator's write, `Invalidate` is `--force-stage`.
For the later stages: `Serve` hands on what lies on disk when the stage looks for it (`Servable`: cached windows, reusable clips, a ranking, a page) and it is
what the stage would make (`HasItems`), `Make` writes the artifact anew; then `KeepRecord`, or `BeginRecord` and `CompleteRecord`, or
`RecordIncomplete`, under the lock. The items of a stage are one artifact here (`WindowedScout` and `ClipLibrary` have them one by one).
`--force-stage` reaches the items of few stages: the windows of the offline provider, the ranking it names, and the report of any forced
run. `owed` is a history variable: the stages that `Invalidate` marked and that were not made since. `Stop` kills a run anywhere; the lock is taken as exclusive and that of a dead process as
free, which is what `SessionLock` shows but for the stale-lock race of section 6. `alone` is a history variable: the runs during which no other run went on.

### ClipLibrary

One command at a time, killed anywhere: `Reconcile` writes the map with the clip boundaries; `OpenManifest`, then
per candidate `Reuse`, or `Encode`, `Photograph` and `SavePartial`, or `CandidateFails`; `Finish`; `Rank`;
`ServeCached`, or `Render`, `Publish`, `WriteMeta`. `ReportCommand` starts at the ranking with the map on disk and
the stored configuration. `Mishap` loses a clip or thumbnail or edits the page, `SettleCost` changes the cost that
the page shows.

## 3. The runs

| Run | Question | Bounds | Distinct states |
|---|---|---|---|
| `ledger` | Do budget, hold and paid rows survive any race, restart and migration? Does the ledger implement `BudgetGate`? | 3 calls, 2 months, 2 processes with differing budgets, prices below, at and above the reservation | 99,915 |
| `lock` | Is the lock exclusive as long as nobody unlinks a holder's file, and does a stale one go? | 2 processes of one host, 1 of another | 61,450 |
| `windows_resume` | Is each request paid once, over runs one after the other? | 2 windows, 1 configuration, 2 retries, 2 budgets, overruns | 54,210 |
| `windows_overlap` | Does every charge count, and is only what was paid served, when two runs overlap? Is the ledger used as it allows? | 1 window, 2 configurations, 2 runs | 621,589 |
| `scout` | Do charges count, and are reservations and remote copies given back, whatever ends a run? | 2 configurations in turn, 2 uploads, 2 charges a call, an overrun | 3,137,997 |
| `pipeline` | Is only one's own served, do live attempts and completed files stand, is what was forced made again before it counts? | 3 runs by 2 processes, 2 configurations, `--force-stage` for ingest (all stages marked) or scout (later ones only), to `extract` | 4,397,307 |
| `maps` | Does the session map hold what the scouts reported, why may it be refused, do its clips hold their moments? | every plan of up to 9 units and many of up to 26 (a second has 4), three policies; for one plan of two windows all pairs of some 300 answers | 800,010 |
| `clips` | Are the clips and the page those of the run? | 3 commands, 3 configurations, 2 candidates, 1 mishap, 1 settlement | 1,061,008 |
| `media` | Is a child ever left running or its half output accepted, and does a late call end? | 2 streams of 3 lines, pipes of 1, a tail of 2, 2 Ctrl-C | 1,233,082 |
| `lock_stale_race`, `scout_stale_raw`, `map_unreadable` | the disagreements of section 6 | as small as shows them | |

Why these bounds are enough for the cases meant: three calls allow an overrun, a second one that replaces the hold's row, and a victim
that must not be granted; two months show that the hold is global and the budget monthly. Three processes
are needed for the stale-lock race (the judge, the dead owner, the new owner). Two windows show a run killed
between windows; two retries show a retry of a retry. Three runs are: one that leaves something behind, one
that dies over it, one that meets the result. In `ClipLibrary.cfg`, `k1` and `k2` differ in padding, `k3` in quality, thumbnails
and in what it finds. The two configurations of `SessionPipeline.cfg` differ only in the proxy's sound, the
one setting that the next stage's key does not contain; a third configuration multiplies the states by nine and was found to add nothing.
The two forced stages are one under the lock and one behind it, whose items are served for all that; the run ends at `extract`, so it has served
stages and one that is always made (`reconcile`), and what follows is theirs over again: the theorems hold for every last stage.
In `scout`, a second configuration overwrites the files of the first, and a second upload can fail behind a retry. In `maps`, a second of four units makes the
halves and quarters of the code (jitter, slack, overlap ratios) whole units; one plan has two windows of two seconds that overlap by
one, so that a moment can be seen once, twice, in part, with or without its context, and be referred to a match; the other plans
run with the fixtures and exercise every boundary of the planner. In `media`, more lines than a pipe holds make
the child block, and the second Ctrl-C arrives inside the handler of the first.

Named bounds: `MaxRetries` and `MaxCharges` (windows), `MaxCharges` and `MaxUploads` (scout), `MaxRuns` and `StopAfter` (pipeline),
`MaxRuns`, `MaxMishaps`, `MaxCost` (clips), `Asked` (maps: the plans whose answers vary), `Lines` and `MaxInterrupts` (media). A released call with `MaxRetries` suffixes is refused in the model and retried in the
code. Symmetry over processes (and calls, in the ledger) is used only in runs without liveness. Deadlock is checked for
the ledger, the lock, the windows and the scout. It is not checked for the pipeline and the clips, whose `MaxRuns` commands come to an end, nor for
the maps and the media process, which model one command and one call.

**Fairness.** `SessionLock` adds weak fairness of the steps a live process takes inside
`acquire` and `release`, which contain no wait and no loop beyond two attempts; nothing is assumed about when
processes call them, leave the session, die or come back. Under it `StaleLockRecovered` holds: a process that comes to a dead
local owner's lock does not find it forever, unless it dies itself. `MediaProcess` adds weak fairness of the caller and of the two
reader threads, which the operating system schedules and which wait only with timeouts or for a pipe; nothing is assumed of
the child, the clock, `cancel_event` or the owner. Under it `RunEnds` holds: a call that is late ends, with the one exception that its statement names.
The other components owe nothing to a scheduler: a command that is
repeated goes on or refuses, and when the owner repeats it is up to the owner, so their properties are safety.

## 4. The properties

* `CostLedger`: `WithinBudget` (what a month has spent or set aside, up to each call's reservation, stays within a
  configured budget), `UnackedOverrunHolds`, `NoGrantUnderUnackedOverrun`, `DispatchedMoneyStays`,
  `FinalRowsStay`, `ImplementsBudgetGate`.
* `SessionLock`: `ExclusiveUnlessStolen`, `HolderOwnsFile`, `StaleLockRecovered`; `MutualExclusion` is violated.
* `WindowedScout`: `ChargedCallsCount`, `PaidOnce` (one run at a time, one configuration), `ServedWindowsArePaid`,
  `ImplementsLedger`.
* `PaidScout`: `ChargedCallsCount`, `BaseChargedOnce` (the first call of a configuration; its `-retry` has no such guarantee),
  `ReservationsGivenBack`, `OnlyFaultsStrandACopy` (an upload that the provider keeps is named by the metadata on disk for a later deletion; the
  exceptions are stated: a failed first write together with a failed deletion and receipt, or a Ctrl-C while it is unrecorded), `CleanupClaimIsTrue`; `MapIsOfKey` is violated.
* The maps: `ShortMomentsSeenWhole` (what the overlap of windows is for), `NothingReportedIsLost`, `WrittenMapIsConsistent`,
  `RefusedForCandidates`, `ClipsHoldTheirMoments`; `WrittenMapLoads` is violated.
* `SessionPipeline`: `AloneUsesOwnSettings`, `LiveAttemptsStand`, `CompletedFilesStand`, `ForcedStagesRemade` (a stage under the lock that was
  marked counts as complete only when all its artifacts were made again, whatever was killed or overlapped; a run on its own leaves marked behind it only what it may serve).
* `ClipLibrary`: `ClipsAreOfTheRun`, `ServedPageIsCurrent`.
* `MediaProcess`: `NoChildLeftRunning`, `AcceptedIsWhole`, `RunEnds`.

Each machine has one type invariant, `TypeOK`. Every property of a passing run is violated by at least one mutant of
a definition that models code (`PROJECT.json`, "mutants").

## 5. What is proved

All theorems hold for every value of the constants that satisfies the assumptions of the module, which TLC evaluates on every run:

* `LedgerAssumption`: finitely many calls, natural amounts and prices, at least one budget, null values outside their sets. `LockAssumption`: null values
  outside their sets.
* `ScoutAssumption`, `ScoutLedgerAssumption`, `PaidAssumption`, `PaidLedgerAssumption`: at least one worker and window, the rest as for the ledger.
  `ScoutMoneyAssumption`, `PaidMoneyAssumption`: finitely many configurations, natural prices. They make the scout's instance of the ledger one of
  those the ledger's theorems are about.
* `PipelineAssumption`: the last stage is a stage, settings are functions. `MediaAssumption`: natural bounds, standard error is one of the
  streams.
* `IntervalsAssumption`, `InputsAssumption`, `MapsAssumption`: a second has units, the null value is no number, the planner's arguments are
  integers (legal or not), a policy lies in the ranges that the configuration accepts.
* `ClipAssumption`: a configuration's extraction is a record of its settings, what it finds a sequence of candidates; the null value is no clip.

**The ledger** (`CostLedgerProofs`). The inductive invariant is

    LedgerInv == TypeOK /\ WithinBudget /\ UnackedOverrunHolds /\ MigrationFirst

`TypeOK` alone is inductive (`TypeCorrect`). `MigrationFirst` says that a process which has the ledger open has
migrated it; without it an old, unmigrated ledger with overruns and no hold would let a reservation through, so
neither the hold nor the refinement would be preserved. The arithmetic rests on `Total`, which
defines a sum over rows as the cardinality of a set of (call, unit) pairs so that no recursion is needed;
`TotalAddRow`, `TotalMonotone` and `TotalGrows` are its lemmas. `StepKinds` sorts every step into four kinds (grant, move of
one row to another status, settlement, no row touched), and `GrantEffect`, `MoveEffect` and `SettleEffect` say what each does to the sums and
overruns; the invariants, the action properties and the refinement are then proved by these cases.

Results: `TypeCorrect`, `BudgetHolds`, `SafetyHoldHolds`, `NoGrantUnderOverrun`, `FinalRows`, `DispatchedMoney`, and
`Refinement`, by which the ledger implements `BudgetGate` with `exposure` as the monthly sums and `frozen` as the
active hold (or the unmigrated ledger with overruns).

**The lock** (`SessionLockProofs`). `Exclusion`: the lock is exclusive unless a holder's file was unlinked under
it; `LockTypes`, `HolderKeepsFile`. The invariant is `TypeOK /\ HolderOwnsFile`: until then the path names the holder's own file, so the exclusive
creation fails for everyone else and two holders would be one creator.

**The windowed scout** (`WindowedScoutProofs`). The inductive invariant is

    IInv == TypeOK /\ (\A p : RunInv(p)) /\ OwnerInv /\ ChargedCallsCount /\ SettledIsCharged

`RunInv` ties the place of a run to the row of its call: behind the callback that marks it the row is in flight or further, which is why a charge
always finds a row that counts; a run releases only a call that it reserved and that no other run has sent since, as the second transaction of the
release checks again. `OwnerInv` says that the owner's pending release is of a call that was not charged, and that no run is
going meanwhile. Results: `ScoutTypes`, `ChargesCount`, `ServedArePaid`, and `LedgerIsRespected`, by which every
behaviour of overlapping runs and their owner is one of the ledger's.

Through it the scout inherits what is proved of the ledger, and the inheritance is a theorem too: `LP` is `CostLedgerProofs` under the scout's
substitution, `LedgerAssumed` its assumption, `SameLedger` says that both instances have one meaning, and `BudgetHolds`, `RowsStand` and `GateIsKept`
are the ledger's budget and hold, its action properties and its refinement, stated of the scout. `GateIsKept` joins three levels: the steps of a
run, the transactions of the ledger, the gate that the owner sees.

`RequestsArePaidOnce` proves `PaidOnce` with a second invariant on top of `IInv`:

    OnceInv == TipsAreNamed /\ PlansAreFresh /\ RunsAreFirst /\ ChargedOnce

Of each window's calls one is the *tip*: those with fewer `-retry` suffixes were released, those with more never reserved. `TipsAreNamed` says that the
metadata on disk lets the next run find it, `PlansAreFresh` that a plan to generate names an unreserved tip, `RunsAreFirst` that a run about to
generate does so for an uncharged call. The theorem has the hypothesis `OneRunAtATime` (one worker, one configuration), as the run `windows_resume` has:
overlapping runs share a reservation and another configuration overwrites the metadata that names a retry, and then a request
may be paid twice (section 6). Kills, failures, repeated commands and the owner's reconciliations are not restricted.

**The single-request scout** (`PaidScoutProofs`). Four invariants, each inductive given those before it:

    IInv == PlaceInv /\ MoneyInv /\ CopyInv /\ FaultInv

`PlaceInv` says what the run holds at each place: a configuration, a call, a copy of its own, an answer. `MoneyInv` adds that a run past
the callback owns a row that counts, that the first call of a configuration is uncharged as long as a run may still send it, and
that the owner's pending release is of an uncharged call; `CopyInv` ties the remote copy, its metadata and the stage record, through
the retried deletion too. `FaultInv` follows one copy through the adapter: at each place it says which failures must have come before if the
metadata on disk do not name it, so that a handler which did not tidy up, or did not write what became of the copy, would break it.
Results: `ScoutTypes`, `ChargesCount`, `FirstCallOnce`, `NoReservationKept`, `StrandedByFaultsOnly`
and `CleanupIsDone`, each for any configurations, numbers of uploads and budgets. `OpenInv` adds that a run has the ledger open from its
start to its end; with it `LedgerIsRespected` shows that this scout, too, implements the ledger, and `BudgetHolds`, `RowsStand` and
`GateIsKept` carry the ledger's theorems over as above.

**The stages** (`SessionPipelineProofs`). Again four invariants, each inductive given those before it:

    IInv == Typed /\ Working /\ (\A p \in Workers : Alone(p)) /\ Owing

`Typed` says where a run may be with which stage. `Working` says of the stages under the lock that a completed record tells, by its key too, what is
on disk, and of an attempt what it has replaced so far; the signals are complete only as long as they are of the sound on disk,
which is why a new proxy has to make them stale although their key does not contain the sound. `Alone` says of a run that
no other overlaps that everything behind it is of its settings. `Owing` adds to `ForcedStagesRemade` that a run which has made all of
its stage, and is about to complete it, owes it no more: between the last commit and the record nobody can mark the stage again, since
that takes the lock. Results:
`PipelineTypes`, `AttemptsStand`, `CompletedTellsTruth`, `OwnSettingsOnly`, `ForcedAreRemade`, for any processes, settings, forced stages and
number of runs, up to any last stage.

**The maps** (`ScoutMapsProofs`). One invariant runs from the planner to the written map:

    MapsInv == PlanInv /\ stage \in Stages /\ policy \in Policies \cup {None}
               /\ MapsAreSound /\ LoopsAreSound /\ SessionInv

`PlanInv` says that the windows cut so far are numbered, start at zero, overlap by exactly the configured amount, end before the source does and
cover every short moment before the last cut; from it `PlannerAcceptsItsPlan` (the validators never reject, progress never fails) and
`MomentsSeenWhole`. `MapsAreSound` is what canonicalization leaves true of an accepted window, whatever the provider answered. `LoopsAreSound` is the
invariant of the three loops: everything joined, kept or merged lies in the source, and every candidate already taken is held by an event
of its category, context included; a merge only widens, which is the lemma about `LeastOf` and `GreatestOf` that the loops need. `SessionInv` carries
this over the last validation and the clips. `PlacedHolds` and `BoundedHolds` say what the two steps of the clip derivation keep of an
instant; `ClipSoundBeforeFallback` composes them, so that the fallback of the code is never used, and
`ClipsAreSound` is the condition that `ClipsHoldTheirMoments` asks of every candidate.
Results: `TypeCorrect`, `PlannerAcceptsItsPlan`, `MomentsSeenWhole`, `NothingLost`, `RefusedOnlyForCandidates`, `WrittenConsistent`, `ClipsHold`, for every source,
policy and answer.

What a fold computes would need an induction over data, which the prover cannot do. Because each turn of a loop is a step of the machine, the
induction is the one over behaviours instead. That a loop has a next element, while `rest` has elements, rests on the well-founded order of the
naturals (`LeastExists`).

**The clips and the report** (`ClipLibraryProofs`). The inductive invariant is

    IInv == Scalars /\ RunIsShaped /\ ManifestIsTruthful /\ RunIsTruthful /\ PagesAreDescribed

`ManifestIsTruthful`: a completed record, whoever wrote it and whatever was killed, lost or edited since, describes a clip of the settings that its
fingerprint names. `RunIsTruthful`: what a run has recorded as completed is also on the disk and of its own settings, and the last
manifest consists of it. `PagesAreDescribed`: page metadata describe a page that was whole when they were written, and between the key and the
page nothing that the key covers has changed. Results: `TypeCorrect`, `ClipsOfTheRun`, `ServedIsCurrent`, for any configurations, candidates
and number of commands and mishaps.

**The media process** (`MediaProcessProofs`). The invariant follows the caller: past `_terminate` the child is not running, an
accepted child has not been asked to stop. `TypeCorrect`, `NoChildLeft` and `AcceptedWhole`, for any number of streams, lines and Ctrl-Cs.

**Model-checked only.** The liveness properties `StaleLockRecovered` and `RunEnds`: liveness under fairness, with `ENABLED`, is beyond the
prover. The three properties that the code violates (section 6) are refuted by TLC. Two other things are beyond the prover for good: induction over data
(the library's induction theorems take an operator as a parameter), and RECURSIVE operators, of which these modules declare none.

## 6. Where code and documentation disagree

With a run that shows it:

* `lock_stale_race` (`…/storage/lock.py:86`): between judging a lock stale and unlinking the path another process
  may have replaced it; two processes are then inside the session.
* `scout_stale_raw` (`…/pipeline/gemini_scout.py:367`): the metadata of a new request beside the answer to an old one passes for an answer
  to the new one, and the stage completes under the new key.
* `map_unreadable` (`…/domain/reconcile.py:118`): two views of one event are merged bound by bound, so the setup of the one may follow
  the start of the other, and no validator looks: the map is written and the report command refuses it, after every analysis.

Met while modelling, and part of the models, without a run of their own. Money and paid answers:

* A canonical file left by another configuration passes for that of a new raw result, after a kill between settlement and
  canonicalization (`…/pipeline/windowed_scout.py:1087`). A raw result of another configuration may be taken for a call that the owner settled (:1237).
* A kill between a retried call's settlement and `cost.json` leaves a paid result that every later run refuses (:1252).
* An unresolved retry is not seen after another configuration has overwritten the metadata, and is generated again (:1307).
* Two overlapping runs share a reservation (:945); an active hold stops a run whose windows are all cached (:575).
* The single-request scout reserves its `-retry` call without a look at its state (`…/pipeline/gemini_scout.py:430`), so that call may be charged more than once.
* `acknowledge_safety_hold` (`…/cost/ledger.py:605`) clears whatever hold is active by then (`ReviewHold`, then `AcknowledgeSafetyHold`;
  `acked` follows it).
* The fake scout reuses any valid raw result under a new key (`…/pipeline/scout.py:235`).
* A copy may stay with the provider under no name: after a Ctrl-C or a kill between the upload and its metadata (`…/providers/gemini.py:588`, :590), or when
  the first write fails and then the deletion and its receipt. The `suppress(OSError)` around that receipt (:723) does not catch the `StorageError` that
  `atomic_write_json` raises for a failed write, which then replaces the first exception. The metadata are one file, so a later upload overwrites the
  record of an earlier copy whose deletion is pending; that copy then stays until it expires.

Maps and clips:

* The validator of `Match` refuses the `ordinal` null (`…/domain/models.py:385`) that docs/04_DATA_MODELS.md:58 allows, that the
  schema sent to the provider does not require (`…/pipeline/gemini_contract.py:70`) and that the fragment accepts: a paid answer
  with such a match is refused at every canonicalization. `maps` contains such an answer.
* A setup at time 0 counts as absent (`…/domain/reconcile.py:247`, :360). Two ways for the reconciliation of accepted windows to fail,
  for good since the windows are cached (`RefusedForCandidates` says there is no third): a merged candidate keeps the match of the first view although the
  merged context leaves it (:296); two views of one event, one with a long setup, are not merged but get one id (:104). The clamp to the maximum centres on the start, so a long moment may be cut.
* An answer in source time is not compared with the window it was asked about (`…/domain/canonical.py:249`, docs/04_DATA_MODELS.md:275), and
  a timestamp a little behind the window is refused or its candidate dropped, where docs/03_PIPELINE.md:167 speaks of clamping.

Stages, clips and processes:

* `--force-stage` reads "Force one stage and its downstream local work." in the help (`…/cli.py:870`, :1087) and docs/03_PIPELINE.md:133 promises that
  the stages are marked stale. The code marks them, but reusable clips are served for all that (`…/pipeline/runner.py:276` passes no force to the
  extraction), so are paid windows (:197; tests/integration/test_m6_pipeline.py:288-301 wants it), and the ranking unless it is the
  stage that is named (:390). `ForcedStagesRemade` names what may be served.
* A stage marked stale while another run of the session has made its artifact and not yet recorded it is recorded complete by that run (`…/pipeline/runner.py:243`).
* A run that recovers a later stage's dead attempt, without a locator for its path, restarts a completed ingest and
  is refused (`…/pipeline/ingest.py:175`).
* A completed record of a later stage may name other bytes than the file for a while, because two runs write their
  artifacts outside the lock (`…/pipeline/runner.py:243`, docs/03_PIPELINE.md:106); later runs notice by the hash.
* The extraction manifest is rewritten while candidates are gone through and then holds only those so far
  (`…/pipeline/extraction.py:299`): a kill forgets finished clips, which are made again (docs/03_PIPELINE.md:229).
  An interrupt by the user counts as the failure of one candidate. Overlapping runs share `extract-<candidate>` (:192).
* `highlight report` shows the intervals of a new map over the clips of an earlier extraction (`…/pipeline/report.py:151`). The report's key
  hashes the recorded thumbnail, not whether it could be used (:229), so a page rendered with a placeholder stays a hit. `resume` and `report` use the settings of the first ingest.
* The loop of `run_ffmpeg` (`…/media/ffmpeg.py:537`) ends when the child is dead and the queue is empty for a moment, while a reader may still hold
  lines; the tail of stderr, which docs/03_PIPELINE.md:197 wants preserved and `local_signals.py` parses, may lack its end.
  A Ctrl-C between the start of the child and the `try`, or a second one in the `finally`, leaves the child running. A cancelled child that cannot be killed
  is terminated again and again without a look at the clock (no caller passes a `cancel_event`).

## 7. Assumptions and what is left out

Assumed of the environment: SQLite transactions are atomic and durable; `os.replace` and exclusive creation are atomic;
a content hash has no collisions; encoding is deterministic in its settings and inputs; the owner reconciles
truthfully, acts on the ledger while no run is going (`Quiet`), and settles what the provider charged.

Left out, by module:

* `CostLedger`: audit events, timestamps, decimal arithmetic, staleness of prices and rates.
* `WindowedScout`: cutting windows and the cache of the pieces, the remote copy and its deletion (which `PaidScout` models). Looking at one window is
  one step although the code reads several files.
* `PaidScout`: failures of the other local writes (their effect is that of an interrupt or a kill at the same place), `cost.json`, retry delays, an upload
  whose answer is lost (a copy nobody has heard of), an interrupt between the commit of a reservation and the
  assignment behind it.
* The maps: evidence, titles, confidences of candidates, limits of collections (an event names 32 windows at most), the ranking score.
* `MediaProcess`: what `progress_callback` raises; command lines, the parsing of progress and of FFprobe's output, the search for tools.
* `SessionPipeline`: manifests of earlier versions of the program, history of attempts, proxy metadata and timestamp
  mapping, the single-request and fake scouts as a stage, the intermediate manifest write that only marks stages stale.
* `ClipLibrary`: overlapping runs, the stage statuses in page and key, `embed_thumbnails`, placeholders for missing
  thumbnails (`ServedPageIsCurrent` speaks of the embedded ones).
* Not modelled at all: benchmark evaluation, the annotation helper and the review proxies (below), HTML, probing and parsing of
  media, command-line parsing, configuration parsing, logging, diagnostics.

## 8. Not modelled, and what could follow

The order of the work was by importance: the money, the lock that everything else relies on, the paid windows over the
ledger, the stages over the lock, the clips and the report, the single-request scout, the maps, the child processes. What is left is
either beside the pipeline or of a kind that these modules would not show more about:

* The benchmark tools (`…/benchmark/`) measure finished sessions and never write to one. Their matching of candidates to truth is a pure
  function with unit tests against its definition; the annotation helper is one file with a thread per request, and the only concurrency there; the review proxies
  repeat the form of extraction.
* The rounding of prices (`…/cost/calculator.py`) is decimal arithmetic on a line; the ledger allows any settlement.
* Overlapping extraction in one session: `ClipLibrary` has one command at a time. Its temporary directory is shared, and two runs would
  have to encode one candidate at the same moment.
