------------------------------- MODULE PaidScout -------------------------------
(***************************************************************************)
(* The paid scout that sends the whole analysis proxy in one request:      *)
(* pipeline/gemini_scout.py (generate_gemini_scout) together with the      *)
(* adapter it drives, providers/gemini.py (GeminiProvider.execute), the    *)
(* stage record of the manifest, and the ledger of CostLedger.tla.         *)
(*                                                                         *)
(* The stage runs under the session lock, so there is one run at a time;   *)
(* it may be killed between any two steps, interrupted from the keyboard,  *)
(* and repeated under another configuration.                               *)
(*                                                                         *)
(* Abstractions: a configuration stands for the paid cache key and for the *)
(* request fingerprint; a call id is a configuration and the number of     *)
(* "-retry" suffixes; a remote copy is the number of its upload; a map is  *)
(* NoFile or the call whose answer it was made from.                       *)
(*                                                                         *)
(* A file that cannot be written raises StorageError.  The metadata of the *)
(* remote copy are the one place where a handler goes on after that; a     *)
(* failed write elsewhere in the stage takes the way of an interrupt (from *)
(* the answer on) or of a kill (before the call and while it ends).        *)
(***************************************************************************)
EXTENDS Integers, FiniteSets

CONSTANTS
    Runner,         \* the process that runs the stage
    Owner,          \* the process with which the owner reconciles
    Configs,        \* scout configurations
    MaxCharges,     \* bound: charges of one call by the provider
    MaxUploads,     \* bound: uploads of the proxy
    Price,          \* the reservation for a request
    Periods, Usages, UsageCost, Budgets,
    NoRow, NoUsage, NoHold, Closed, Idle, NoFile

CallIds == Configs \X {0, 1}
Base(k) == <<k, 0>>
Retry(k) == <<k, 1>>
Request(c) == c[1]
Copies == 1..MaxUploads

ASSUME PaidAssumption ==
    /\ Runner # Owner
    /\ MaxCharges \in Nat \ {0} /\ MaxUploads \in Nat
    /\ NoFile \notin CallIds \cup Configs \cup Nat

VARIABLES
    rows, hold, schema, budget, pend, acked,    \* the ledger
    meta,       \* gemini_request_meta.json: the call it names
    raw,        \* gemini_response.json: the call it answers, and how
    canonical,  \* scout_result.json: the call it was made from
    sessionMap, \* session_map.json: the call it was made from
    remote,     \* gemini_remote_file.json: the copy it names, and its deletion
    stage,      \* the scout stage of the manifest
    copies,     \* external: copies of the proxy the provider keeps
    uploads,    \* external: how often the proxy was uploaded
    charged,    \* external: how often the provider generated for a call
    pc, job     \* where the run is, and its local variables

ledger == <<rows, hold, schema, budget, pend, acked>>
files == <<meta, raw, canonical, sessionMap, remote, stage>>
provider == <<copies, uploads, charged>>
vars == <<ledger, files, provider, pc, job>>

L == INSTANCE CostLedger WITH
        Calls <- CallIds, Procs <- {Runner, Owner}, Fingerprints <- Configs,
        Amounts <- {Price[k] : k \in Configs}

-------------------------------------------------------------------------------
\* Answers of the provider: completed with a usable map, with text that is no
\* map, with usage nobody can price, or ended in another status.
Results == {"good", "garbled", "unpriced", "incomplete"}
RawFile == [call : CallIds, result : Results]
Remote == [copy : Copies, deletion : {"pending", "deleted"}]

\* The outputs a completed stage vouches for, and its item state
\* remote_cleanup.
Outputs == [raw : RawFile \cup {NoFile}, canonical : CallIds \cup {NoFile},
            map : CallIds \cup {NoFile}]
NoOutputs == [raw |-> NoFile, canonical |-> NoFile, map |-> NoFile]
OnDisk == [raw |-> raw, canonical |-> canonical, map |-> sessionMap]

StageType == [status : {"PENDING", "RUNNING", "COMPLETED", "FAILED"},
              key : Configs \cup {NoFile}, outputs : Outputs,
              cleanup : {"PENDING", "COMPLETED"}]
Stage(status, k, outputs, cleanup) ==
    [status |-> status, key |-> k, outputs |-> outputs, cleanup |-> cleanup]

\* History, for a property: what went wrong with the copy behind its upload
\* (not recorded, not deleted, no receipt, the adapter interrupted).
Faults == {"record", "delete", "receipt", "interrupt"}

JobType == [config : Configs \cup {NoFile}, call : CallIds \cup {NoFile},
            copy : Copies \cup {NoFile}, answer : RawFile \cup {NoFile},
            reserved : BOOLEAN, inFlight : BOOLEAN, failed : BOOLEAN,
            cleanup : {"PENDING", "COMPLETED"}, faults : SUBSET Faults]
NoJob == [config |-> NoFile, call |-> NoFile, copy |-> NoFile, answer |-> NoFile,
          reserved |-> FALSE, inFlight |-> FALSE, failed |-> FALSE, cleanup |-> "PENDING",
          faults |-> {}]

ASSUME PaidLedgerAssumption ==
    /\ Budgets \subseteq Nat /\ Closed \notin Nat
    /\ NoUsage \notin Usages /\ NoRow \notin L!LedgerRecord
    /\ NoFile \notin RawFile \cup Remote

\* The rest of the ledger's, for what it promises of the scout's money.
ASSUME PaidMoneyAssumption ==
    /\ IsFiniteSet(Configs) /\ Price \in [Configs -> Nat] /\ Budgets # {}
    /\ UsageCost \in [Usages -> Nat] /\ NoHold \notin L!CostSafetyHold

\* _load_reusable_envelope
HasReusableEnvelope(k) ==
    /\ meta # NoFile /\ Request(meta) = k
    /\ raw # NoFile /\ raw.result \in {"good", "garbled"}

\* _cleanup_state
CleanupState ==
    IF remote # NoFile /\ remote.deletion = "deleted" THEN "COMPLETED" ELSE "PENDING"

Init ==
    /\ rows = [c \in CallIds |-> NoRow] /\ hold = NoHold /\ schema = 0
    /\ budget = [p \in {Runner, Owner} |-> Closed]
    /\ pend = [p \in {Runner, Owner} |-> Idle]
    /\ acked = {}
    /\ meta = NoFile /\ raw = NoFile /\ canonical = NoFile
    /\ sessionMap = NoFile /\ remote = NoFile
    /\ stage = Stage("PENDING", NoFile, NoOutputs, "PENDING")
    /\ copies = {} /\ uploads = 0
    /\ charged = [c \in CallIds |-> 0]
    /\ pc = "idle" /\ job = NoJob

At(label) == pc = label
Goto(label) == pc' = label
LedgerRest == UNCHANGED <<schema, budget, pend, acked>>

-------------------------------------------------------------------------------
\* Under the lock: recover_interrupted, and the look at the stage.
Start ==
    /\ At("idle") /\ pend[Owner] = Idle
    /\ L!Initialize(Runner)
    /\ \E k \in Configs : job' = [NoJob EXCEPT !.config = k]
    /\ stage' = IF stage.status = "RUNNING" THEN [stage EXCEPT !.status = "FAILED"] ELSE stage
    /\ Goto("look")
    /\ UNCHANGED <<meta, raw, canonical, sessionMap, remote, provider>>

KeyMatches == stage.status = "COMPLETED" /\ stage.key = job.config
NothingToClean == remote = NoFile \/ remote.deletion = "deleted"

Look ==
    /\ At("look")
    /\ Goto(IF KeyMatches /\ stage.cleanup # "COMPLETED" /\ ~NothingToClean
            THEN "cleanup" ELSE "decide")
    /\ UNCHANGED <<ledger, files, provider, job>>

\* Mutant of Delete: retries that run out count as a deletion.
DeleteCarelessly(copy, deletion) ==
    \/ deletion = "deleted" /\ copies' = copies \ {copy}
    \/ deletion = "deleted" /\ UNCHANGED copies

\* delete_remote_file: a copy that is not found any more is a deleted one; an
\* error of the last attempt leaves the copy, or the answer was lost.
Delete(copy, deletion) ==
    \/ deletion = "deleted" /\ copies' = copies \ {copy}
    \/ deletion = "pending" /\ copies' \in {copies, copies \ {copy}}

\* retry_remote_cleanup
RetryCleanup ==
    /\ At("cleanup")
    /\ \E deletion \in {"pending", "deleted"} :
        /\ Delete(remote.copy, deletion)
        /\ Goto(IF deletion = "deleted" THEN "cleaned" ELSE "decide")
    /\ UNCHANGED <<ledger, files, uploads, charged, job>>

WriteCleaned ==
    /\ At("cleaned")
    /\ remote' = [remote EXCEPT !.deletion = "deleted"]
    /\ Goto("decide")
    /\ UNCHANGED <<ledger, meta, raw, canonical, sessionMap, stage, provider, job>>

\* The run is over, or its process is gone.
End ==
    /\ L!Crash(Runner)
    /\ Goto("idle") /\ job' = NoJob
    /\ UNCHANGED provider

\* Mutant of CleanStage: a retried cleanup is taken for a successful one.
CleanStageAnyway == IF KeyMatches THEN [stage EXCEPT !.cleanup = "COMPLETED"] ELSE stage

\* The item state after the retry.
CleanStage ==
    IF KeyMatches /\ CleanupState = "COMPLETED"
    THEN [stage EXCEPT !.cleanup = "COMPLETED"] ELSE stage

\* completed_stage_cache_is_valid
CacheIsValid == KeyMatches /\ stage.outputs = OnDisk

Hit ==
    /\ At("decide") /\ CacheIsValid
    /\ stage' = CleanStage
    /\ End
    /\ UNCHANGED <<meta, raw, canonical, sessionMap, remote>>

StartStage == stage' = Stage("RUNNING", job.config, NoOutputs, "PENDING")

\* A stored answer to the same request is canonicalized again.
Reuse ==
    /\ At("decide") /\ ~CacheIsValid
    /\ HasReusableEnvelope(job.config)
    /\ StartStage
    /\ job' = [job EXCEPT !.answer = raw, !.cleanup = CleanupState]
    /\ Goto("canonicalize")
    /\ UNCHANGED <<ledger, meta, raw, canonical, sessionMap, remote, provider>>

New ==
    /\ At("decide") /\ ~CacheIsValid
    /\ ~HasReusableEnvelope(job.config)
    /\ StartStage
    /\ Goto("call")
    /\ UNCHANGED <<ledger, meta, raw, canonical, sessionMap, remote, provider, job>>

-------------------------------------------------------------------------------
\* ledger.get, and what a missing row reads as.
Status(c) == IF rows[c] = NoRow THEN "none" ELSE rows[c].status

\* Mutant of MayCall: a call that was left in flight is sent again.
MayCallAgain(k) == Status(Base(k)) \in {"none", "RELEASED", "IN_FLIGHT"}

\* Only the state of the base call is looked at.
MayCall(k) == Status(Base(k)) \in {"none", "RELEASED"}

\* Raised outside the try block: the stage stays RUNNING.
RefuseCall ==
    /\ At("call") /\ ~MayCall(job.config)
    /\ End
    /\ UNCHANGED files

CallIdOf(k) == IF Status(Base(k)) = "RELEASED" THEN Retry(k) ELSE Base(k)

\* gemini_request_meta.json is replaced; the raw response of an earlier
\* request stays where it is.
PrepareCall ==
    /\ At("call") /\ MayCall(job.config)
    /\ meta' = CallIdOf(job.config)
    /\ job' = [job EXCEPT !.call = meta']
    /\ Goto("reserve")
    /\ UNCHANGED <<ledger, raw, canonical, sessionMap, remote, stage, provider>>

Quote(m) ==
    LET k == Request(job.call) IN [fp |-> k, period |-> m, reserved |-> Price[k]]

Reserve ==
    /\ At("reserve")
    /\ \E m \in Periods :
        \/ /\ L!InsertRow(job.call, Quote(m), budget[Runner])
           /\ job' = [job EXCEPT !.reserved = TRUE]
           /\ LedgerRest
        \/ /\ rows[job.call] # NoRow
           /\ L!IsIdempotentReservation(rows[job.call], Quote(m))
           /\ job' = [job EXCEPT !.reserved =
                        Status(job.call) \in {"RESERVED", "IN_FLIGHT"}]
           /\ UNCHANGED ledger
    /\ Goto("upload")
    /\ UNCHANGED <<files, provider>>

ReserveRaises ==
    /\ At("reserve")
    /\ \E m \in Periods :
        IF rows[job.call] = NoRow THEN ~L!CanReserve(job.call, Quote(m), budget[Runner])
        ELSE ~L!IsIdempotentReservation(rows[job.call], Quote(m))
    /\ Goto("fail")
    /\ UNCHANGED <<ledger, files, provider, job>>

-------------------------------------------------------------------------------
\* GeminiProvider.execute.  Its handlers tidy up behind an upload and leave
\* the rest to the handlers of the stage.

Upload ==
    /\ At("upload") /\ uploads < MaxUploads
    /\ uploads' = uploads + 1 /\ copies' = copies \cup {uploads + 1}
    /\ job' = [job EXCEPT !.copy = uploads + 1]
    /\ Goto("record")
    /\ UNCHANGED <<ledger, files, charged>>

UploadFails ==
    /\ At("upload")
    /\ Goto("money")
    /\ UNCHANGED <<ledger, files, provider, job>>

\* Mutant of RecordCopy: a failed write leaves the adapter at once.
RecordCopyUntidied ==
    /\ At("record")
    /\ \/ remote' = [copy |-> job.copy, deletion |-> "pending"] /\ Goto("wait") /\ UNCHANGED job
       \/ /\ job' = [job EXCEPT !.faults = @ \cup {"record"}]
          /\ Goto("money")
          /\ UNCHANGED remote
    /\ UNCHANGED <<ledger, meta, raw, canonical, sessionMap, stage, provider>>

\* A failed write raises; the copy is deleted without its metadata then.
RecordCopy ==
    /\ At("record")
    /\ \/ remote' = [copy |-> job.copy, deletion |-> "pending"] /\ Goto("wait") /\ UNCHANGED job
       \/ /\ job' = [job EXCEPT !.failed = TRUE, !.faults = @ \cup {"record"}]
          /\ Goto("tidy")
          /\ UNCHANGED remote
    /\ UNCHANGED <<ledger, meta, raw, canonical, sessionMap, stage, provider>>

\* An exception behind the upload.
Raise(answer) ==
    /\ job' = [job EXCEPT !.failed = TRUE, !.answer = answer]
    /\ Goto("tidy")

\* wait_until_ready: ready, or failed, cancelled, or not in time.
Wait ==
    /\ At("wait")
    /\ \/ Goto("mark") /\ UNCHANGED job
       \/ Raise(NoFile)
    /\ UNCHANGED <<ledger, files, provider>>

MarkInFlight ==
    /\ At("mark")
    /\ \/ L!Transition(job.call, {"RESERVED"}, "IN_FLIGHT") /\ LedgerRest
       \/ Status(job.call) = "IN_FLIGHT" /\ UNCHANGED ledger
    /\ job' = [job EXCEPT !.inFlight = TRUE]
    /\ Goto("generate")
    /\ UNCHANGED <<files, provider>>

MarkRaises ==
    /\ At("mark")
    /\ Status(job.call) \notin {"RESERVED", "IN_FLIGHT"}
    /\ Raise(NoFile)
    /\ UNCHANGED <<ledger, files, provider>>

Charge(c) == charged[c] < MaxCharges /\ charged' = [charged EXCEPT ![c] = @ + 1]

\* create_interaction: no answer, or none that can be kept, charged or not;
\* an answer that is kept as an error; a usable one.
Generate ==
    /\ At("generate")
    /\ \/ (UNCHANGED charged \/ Charge(job.call)) /\ Raise(NoFile)
       \/ /\ Charge(job.call)
          /\ \E result \in {"unpriced", "incomplete"} :
                Raise([call |-> job.call, result |-> result])
       \/ /\ Charge(job.call)
          /\ \E result \in {"good", "garbled"} :
                job' = [job EXCEPT !.answer = [call |-> job.call, result |-> result]]
          /\ Goto("tidy")
    /\ UNCHANGED <<ledger, files, copies, uploads>>

TidyUp ==
    /\ At("tidy")
    /\ \E deletion \in {"pending", "deleted"} :
        /\ Delete(job.copy, deletion)
        /\ job' = [job EXCEPT
                        !.cleanup = IF deletion = "deleted" THEN "COMPLETED" ELSE "PENDING",
                        !.faults = IF deletion = "deleted" THEN @ ELSE @ \cup {"delete"}]
    /\ Goto("receipt")
    /\ UNCHANGED <<ledger, files, uploads, charged>>

\* What becomes of the copy is written down.  A failed write is an exception
\* of its own: of the adapter's success, and the answer is given up and the
\* copy tidied up again; of a handler, and it leaves the adapter.
WriteReceipt ==
    /\ At("receipt")
    /\ \/ /\ remote' = [copy |-> job.copy,
                        deletion |-> IF job.cleanup = "COMPLETED" THEN "deleted" ELSE "pending"]
          /\ Goto(IF job.failed THEN "handle" ELSE "store")
          /\ UNCHANGED job
       \/ /\ job' = [job EXCEPT !.failed = TRUE, !.answer = NoFile,
                                !.faults = @ \cup {"receipt"}]
          /\ Goto(IF job.failed THEN "money" ELSE "tidy")
          /\ UNCHANGED remote
    /\ UNCHANGED <<ledger, meta, raw, canonical, sessionMap, stage, provider>>

-------------------------------------------------------------------------------
\* The stage goes on with the answer.

StoreRaw ==
    /\ At("store")
    /\ raw' = job.answer
    /\ Goto("settle")
    /\ UNCHANGED <<ledger, meta, canonical, sessionMap, remote, stage, provider, job>>

\* An overrun commits and then raises.
Settle ==
    /\ At("settle")
    /\ \E u \in Usages :
        /\ L!SettleRow(job.call, u) /\ LedgerRest
        /\ Goto(IF UsageCost[u] > rows[job.call].reserved THEN "money" ELSE "canonicalize")
    /\ UNCHANGED <<files, provider, job>>

Canonicalize ==
    /\ At("canonicalize") /\ job.answer.result = "good"
    /\ canonical' = job.answer.call
    /\ Goto("publish")
    /\ UNCHANGED <<ledger, meta, raw, sessionMap, remote, stage, provider, job>>

\* A reused answer has no call whose money could be touched.
CanonicalizeRaises ==
    /\ At("canonicalize") /\ job.answer.result = "garbled"
    /\ Goto(IF job.call = NoFile THEN "fail" ELSE "money")
    /\ UNCHANGED <<ledger, files, provider, job>>

Publish ==
    /\ At("publish")
    /\ sessionMap' = job.answer.call
    /\ Goto("complete")
    /\ UNCHANGED <<ledger, meta, raw, canonical, remote, stage, provider, job>>

\* _complete_gemini_stage and the manifest.
Complete ==
    /\ At("complete")
    /\ stage' = Stage("COMPLETED", job.config, OnDisk, job.cleanup)
    /\ End
    /\ UNCHANGED <<meta, raw, canonical, sessionMap, remote>>

-------------------------------------------------------------------------------
\* The exception handlers of the stage.

\* An answer that came with the error replaces the raw response.
Handle ==
    /\ At("handle")
    /\ raw' = IF job.answer = NoFile THEN raw ELSE job.answer
    /\ Goto("money")
    /\ UNCHANGED <<ledger, meta, canonical, sessionMap, remote, stage, provider, job>>

\* Mutant of Undo: whatever was reserved is released.
UndoAll ==
    /\ At("money")
    /\ IF job.reserved
       THEN /\ Status(job.call) # "AMBIGUOUS"
            /\ L!Transition(job.call, {"RESERVED", "IN_FLIGHT"}, "RELEASED") /\ LedgerRest
            /\ Goto("fail")
       ELSE UNCHANGED ledger /\ Goto("fail")
    /\ UNCHANGED <<files, provider, job>>

\* Mutant of Undo: a reservation that was never sent is kept.
UndoNothing ==
    /\ At("money")
    /\ IF job.inFlight
       THEN /\ \/ L!Transition(job.call, {"IN_FLIGHT"}, "AMBIGUOUS") /\ LedgerRest
               \/ Status(job.call) # "IN_FLIGHT" /\ UNCHANGED ledger
            /\ Goto("fail")
       ELSE UNCHANGED ledger /\ Goto("fail")
    /\ UNCHANGED <<files, provider, job>>

\* What may have been sent becomes ambiguous, what was not is released; what
\* the ledger refuses is suppressed.
Undo ==
    /\ At("money")
    /\ \/ /\ job.inFlight
          /\ \/ L!Transition(job.call, {"IN_FLIGHT"}, "AMBIGUOUS") /\ LedgerRest
             \/ Status(job.call) # "IN_FLIGHT" /\ UNCHANGED ledger
          /\ Goto("fail")
       \/ /\ ~job.inFlight /\ job.reserved
          /\ L!BeginRelease(Runner, job.call, FALSE)
          /\ Goto("releasing")
       \/ /\ ~job.inFlight /\ ~job.reserved
          /\ UNCHANGED ledger
          /\ Goto("fail")
    /\ UNCHANGED <<files, provider, job>>

FinishRelease ==
    /\ At("releasing")
    /\ L!FinishRelease(Runner)
    /\ Goto("fail")
    /\ UNCHANGED <<files, provider, job>>

\* _record_stage_failure
Fail ==
    /\ At("fail")
    /\ stage' = [stage EXCEPT !.status = "FAILED"]
    /\ End
    /\ UNCHANGED <<meta, raw, canonical, sessionMap, remote>>

InAdapter == pc \in {"upload", "record", "wait", "mark", "generate", "tidy", "receipt"}

\* A keyboard interrupt is no Exception: the adapter's handlers let it pass,
\* those of the stage do not.  The provider may finish what was sent.
Interrupt ==
    /\ InAdapter \/ pc \in {"store", "settle", "canonicalize", "publish", "complete"}
    /\ job' = [job EXCEPT !.faults = @ \cup (IF InAdapter THEN {"interrupt"} ELSE {})
                                    \cup (IF At("record") THEN {"record"} ELSE {})]
    /\ UNCHANGED charged \/ (At("generate") /\ Charge(job.call))
    /\ Goto(IF job.call = NoFile THEN "fail" ELSE "money")
    /\ UNCHANGED <<ledger, files, copies, uploads>>

Crash == ~At("idle") /\ End /\ UNCHANGED files

-------------------------------------------------------------------------------
\* Between two runs: the owner reconciles by the provider's records, a copy
\* expires, another command replaces the session map.
Reconcile(c) ==
    \/ charged[c] > 0 /\ L!Settle(Owner, c)
    \/ charged[c] = 0 /\ L!BeginRelease(Owner, c, TRUE)
    \/ L!MarkAmbiguous(Owner, c)

OwnerSteps ==
    /\ At("idle")
    /\ \/ L!Initialize(Owner)
       \/ L!FinishRelease(Owner)
       \/ L!ReviewHold(Owner) \/ L!AcknowledgeSafetyHold(Owner)
       \/ \E c \in CallIds : Reconcile(c)
    /\ UNCHANGED <<files, provider, pc, job>>

Expire ==
    /\ \E n \in copies : copies' = copies \ {n}
    /\ UNCHANGED <<ledger, files, uploads, charged, pc, job>>

ReplaceMap ==
    /\ At("idle")
    /\ sessionMap # NoFile /\ sessionMap' = NoFile
    /\ UNCHANGED <<ledger, meta, raw, canonical, remote, stage, provider, pc, job>>

Run ==
    \/ Start \/ Look \/ RetryCleanup \/ WriteCleaned \/ Hit \/ Reuse \/ New
    \/ RefuseCall \/ PrepareCall \/ Reserve \/ ReserveRaises
    \/ Upload \/ UploadFails \/ RecordCopy \/ Wait \/ MarkInFlight \/ MarkRaises
    \/ Generate \/ TidyUp \/ WriteReceipt
    \/ StoreRaw \/ Settle \/ Canonicalize \/ CanonicalizeRaises \/ Publish \/ Complete
    \/ Handle \/ Undo \/ FinishRelease \/ Fail

Next == Run \/ Interrupt \/ Crash \/ OwnerSteps \/ Expire \/ ReplaceMap

Spec == Init /\ [][Next]_vars

-------------------------------------------------------------------------------
Labels ==
    {"idle", "look", "cleanup", "cleaned", "decide", "call", "reserve", "upload",
     "record", "wait", "mark", "generate", "tidy", "receipt", "store", "settle",
     "canonicalize", "publish", "complete", "handle", "money", "releasing", "fail"}

FilesTypeOK ==
    /\ meta \in CallIds \cup {NoFile} /\ raw \in RawFile \cup {NoFile}
    /\ canonical \in CallIds \cup {NoFile} /\ sessionMap \in CallIds \cup {NoFile}
    /\ remote \in Remote \cup {NoFile}
    /\ stage \in StageType
    /\ uploads \in 0..MaxUploads /\ copies \subseteq 1..uploads

\* Every file, the stage record and the run's variables keep the shapes that
\* recovery, cleanup and the handlers rely on.
TypeOK ==
    /\ L!TypeOK
    /\ FilesTypeOK
    /\ charged \in [CallIds -> 0..MaxCharges]
    /\ pc \in Labels
    /\ job \in JobType

\* What the provider may have charged counts in the month's budget, whichever
\* failure, interrupt or kill ended the run: the call's row is not missing, not
\* merely reserved, and not released.
ChargedCallsCount ==
    \A c \in CallIds :
        charged[c] > 0 => Status(c) \in {"IN_FLIGHT", "AMBIGUOUS", "SETTLED"}

\* However often the stage is killed, interrupted and repeated, under whatever
\* configurations in turn, a configuration's first call is sent at most once
\* (the "-retry" call has no such guarantee).
BaseChargedOnce == \A k \in Configs : charged[Base(k)] <= 1

\* A run that ended by itself, in an error or an interrupt, gives its
\* reservation back or leaves it to the owner as ambiguous: none stays
\* RESERVED to block the month's budget.
ReservationsGivenBack ==
    At("fail") /\ job.reserved => Status(job.call) # "RESERVED"

\* The run is behind the adapter, in the stage or in its handlers.
AfterAdapter ==
    {"store", "settle", "canonicalize", "publish", "complete", "handle", "money", "releasing",
     "fail"}
CopyIsNamed == remote = [copy |-> job.copy, deletion |-> "pending"]

\* "they must not strand a remote media object [...] Cleanup is best effort"
\* (gemini.py:709): whatever ends the adapter, and until the stage ends, an
\* uploaded copy that the provider keeps is named for a later deletion, unless
\* its first record failed and then the deletion and its receipt as well, or an
\* interrupt came while it was not recorded.
OnlyFaultsStrandACopy ==
    pc \in AfterAdapter /\ job.copy \in copies /\ ~CopyIsNamed =>
        /\ "record" \in job.faults
        /\ {"delete", "receipt"} \subseteq job.faults \/ "interrupt" \in job.faults

\* A completed stage that reports its remote cleanup as done has no copy left
\* at the provider under the name its metadata keeps.
CleanupClaimIsTrue ==
    stage.status = "COMPLETED" /\ stage.cleanup = "COMPLETED" =>
        remote # NoFile /\ remote.copy \notin copies

\* A completed stage vouches for a map made from an answer to the very request
\* its key names.
MapIsOfKey ==
    stage.status = "COMPLETED" => Request(stage.outputs.map) = stage.key
===============================================================================
