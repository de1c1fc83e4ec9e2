---------------------------- MODULE SessionPipeline ----------------------------
(***************************************************************************)
(* The stages of one analysis session (pipeline/runner.py, manifest.py,    *)
(* ingest.py, proxy.py, local_signals.py and the cache check of            *)
(* storage/sessions.py): which stage a run may serve from disk, which it   *)
(* generates, and what manifest.json says meanwhile.                       *)
(*                                                                         *)
(* A run is a process that goes through the stages in their order.  The    *)
(* first three do their work under the session lock; the later ones work   *)
(* first and take the lock only to record the result.  A run may be killed *)
(* between any two steps, and other runs of the session, with other        *)
(* settings, may go on at the same time.                                   *)
(*                                                                         *)
(* Abstractions: the hash of an artifact is its content, and its content   *)
(* is the settings and inputs it was made from; the lock of a dead process *)
(* is free (SessionLock.tla); the items of a later stage (windows, clips,  *)
(* a ranking, a page) are one artifact here, served as a whole or made     *)
(* (WindowedScout.tla and ClipLibrary.tla have them one by one).           *)
(***************************************************************************)
EXTENDS Integers, Sequences

CONSTANTS
    Workers,        \* processes that may run the pipeline
    Configs,        \* configurations of a run
    Setting,        \* the part of a configuration that enters each artifact
    Forces,         \* stages that --force-stage may name, or NoForce
    Paths,          \* where the video is, under one content and one mtime
    StopAfter,      \* bound: the last stage a run goes to
    MaxRuns,        \* bound: runs that are started
    NoOne, Absent, NoForce

\* STAGE_DEPENDENCIES
Order == <<"ingest", "proxy", "local_signals",
           "scout", "reconcile", "extract", "rank", "report">>
Stages == {Order[i] : i \in 1..8}
LockedStages == {Order[i] : i \in 1..3}
RecordedStages == Stages \ LockedStages
Position(s) == CHOOSE i \in 1..8 : Order[i] = s

\* The artifacts of a stage, in the order in which they are committed.
Outputs(s) ==
    CASE s = "ingest" -> <<"source">>
      [] s = "proxy" -> <<"video", "audio">>
      [] s = "local_signals" -> <<"activity">>
      [] OTHER -> <<s>>

Files == {"source", "video", "audio", "activity"} \cup RecordedStages
OutputSet(s) == {Outputs(s)[i] : i \in 1..Len(Outputs(s))}

ASSUME PipelineAssumption ==
    /\ NoOne \notin Workers /\ Forces \subseteq Stages \cup {NoForce}
    /\ StopAfter \in Stages /\ MaxRuns \in Nat
    /\ Setting \in [Configs -> [{"source", "video", "audio", "activity", "scout"} -> STRING]]

VARIABLES
    manifest,   \* manifest.json
    file,       \* the committed artifacts
    locators,   \* the paths for which a matching source locator is stored
    holder,     \* the process that holds the session lock
    pc, job,    \* where a run is, and its local variables
    alone,      \* history: runs that no other run of the session overlapped
    runs,       \* history: how many runs have been started
    owed        \* history: stages that --force-stage marked, not made again since

vars == <<manifest, file, locators, holder, pc, job, alone, runs, owed>>

Record(status, key, out) == [status |-> status, key |-> key, out |-> out]

\* new_manifest.  It is on disk only once ingest has been started.
NewManifest == [s \in Stages |-> Record("PENDING", Absent, [f \in OutputSet(s) |-> Absent])]

NoJob == [config |-> Absent, path |-> Absent, force |-> NoForce, invalidated |-> FALSE,
          at |-> 1, key |-> Absent, recovered |-> FALSE, committed |-> 0,
          activity |-> Absent, map |-> Absent, incomplete |-> FALSE]

Init ==
    /\ manifest = NewManifest
    /\ file = [f \in Files |-> Absent]
    /\ locators = {}
    /\ holder = NoOne
    /\ pc = [p \in Workers |-> "idle"]
    /\ job = [p \in Workers |-> NoJob]
    /\ alone = {}
    /\ runs = 0
    /\ owed = {}

Stage(p) == Order[job[p].at]
OnDisk == manifest["ingest"].status # "PENDING"

-------------------------------------------------------------------------------
\* manifest.py

Restatus(from, to, S) ==
    [s \in Stages |-> IF s \in S /\ manifest[s].status \in from
                      THEN [manifest[s] EXCEPT !.status = to] ELSE manifest[s]]

\* Mutant of Recovered: the reason is written for the status.
RecoveredAsReason == Restatus({"RUNNING"}, "INTERRUPTED", Stages)
Recovered == Restatus({"RUNNING"}, "FAILED", Stages)

FromOn(s) == {t \in Stages : Position(t) >= Position(s)}

\* Mutant of InvalidateFrom: the stages behind the forced one are kept.
InvalidateOnly(s) == Restatus({"COMPLETED", "RUNNING"}, "STALE", {s})
InvalidateFrom(s) == Restatus({"COMPLETED", "RUNNING"}, "STALE", FromOn(s))

Startable(m, s) == m[s].status \in {"PENDING", "FAILED", "STALE"}

Started(m, s, key) == [m EXCEPT ![s].status = "RUNNING", ![s].key = key]

Completed(s) ==
    [manifest EXCEPT ![s].status = "COMPLETED", ![s].out = [f \in OutputSet(s) |-> file[f]]]

\* completed_stage_cache_is_valid
Valid(s, key) ==
    /\ manifest[s].status = "COMPLETED"
    /\ manifest[s].key = key
    /\ \A f \in OutputSet(s) : file[f] = manifest[s].out[f]

-------------------------------------------------------------------------------
\* Control

Goto(p, label) == pc' = [pc EXCEPT ![p] = label]

\* The run ends here.
End(p) == Goto(p, "idle") /\ job' = [job EXCEPT ![p] = NoJob]

\* The stage is done; `j` is the job with what the stage returned.
Advance(p, j) ==
    IF Order[j.at] = StopAfter THEN End(p)
    ELSE IF Order[j.at] = "ingest" /\ j.force # NoForce /\ ~j.invalidated
    THEN Goto(p, "invalidate") /\ job' = [job EXCEPT ![p] = [j EXCEPT !.committed = 0]]
    ELSE /\ Goto(p, IF Order[j.at + 1] \in LockedStages THEN "key" ELSE "work")
         /\ job' = [job EXCEPT ![p] = [j EXCEPT !.at = @ + 1, !.recovered = FALSE, !.committed = 0]]

Unlocked(p) == IF holder = p THEN NoOne ELSE holder

\* The process is killed; or an exception leaves the manifest as it is: the
\* session is locked by another run, a tool or the source is missing, a start
\* is refused, a result is unusable; or --stop-after is reached.
Stop(p) ==
    /\ pc[p] # "idle"
    /\ holder' = Unlocked(p)
    /\ End(p)
    /\ UNCHANGED <<manifest, file, locators, alone, runs, owed>>

Start(p) ==
    /\ pc[p] = "idle" /\ runs < MaxRuns
    /\ \E k \in Configs, at \in Paths, force \in Forces :
          job' = [job EXCEPT ![p] = [NoJob EXCEPT !.config = k, !.path = at, !.force = force]]
    /\ Goto(p, "fast")
    /\ alone' = IF \A q \in Workers : pc[q] = "idle" THEN {p} ELSE {}
    /\ runs' = runs + 1
    /\ UNCHANGED <<manifest, file, locators, holder, owed>>

-------------------------------------------------------------------------------
\* The stages that work under the lock.

\* What the cache key of a stage is computed from.
KeyNow(p) ==
    LET setting == Setting[job[p].config]
    IN CASE Stage(p) = "ingest" -> <<setting["source"]>>
         [] Stage(p) = "proxy" -> <<setting["video"], setting["audio"]>>
         [] OTHER -> <<manifest["proxy"].out["video"], setting["activity"]>>

\* _try_fast_cache, for the path of an earlier ingest.
FastCache(p) ==
    LET key == KeyNow(p)
        running == \E s \in Stages : manifest[s].status = "RUNNING"
        hit == ~running /\ Valid("ingest", key)
    IN /\ pc[p] = "fast"
       /\ job[p].path \in locators /\ OnDisk /\ file["source"] # Absent
       /\ holder = NoOne
       /\ manifest' = IF running THEN Recovered
                      ELSE IF hit THEN manifest
                      ELSE Restatus({"COMPLETED"}, "STALE", {"ingest"})
       /\ IF hit THEN Advance(p, job[p]) ELSE Goto(p, "key") /\ UNCHANGED job
       /\ UNCHANGED <<file, locators, holder, alone, runs, owed>>

NoFastCache(p) ==
    /\ pc[p] = "fast"
    /\ job[p].path \notin locators \/ ~OnDisk \/ file["source"] = Absent
    /\ Goto(p, "key")
    /\ UNCHANGED <<manifest, file, locators, holder, job, alone, runs, owed>>

\* The key is computed before the lock is taken.
ReadKey(p) ==
    /\ pc[p] = "key"
    /\ job' = [job EXCEPT ![p].key = KeyNow(p)]
    /\ Goto(p, "enter")
    /\ UNCHANGED <<manifest, file, locators, holder, alone, runs, owed>>

\* Mutant of Enter: the stage does not take the lock.
EnterUnlocked(p) ==
    /\ pc[p] = "enter"
    /\ manifest' = Recovered
    /\ job' = [job EXCEPT ![p].recovered = Recovered # manifest]
    /\ Goto(p, "begin")
    /\ UNCHANGED <<file, locators, holder, alone, runs, owed>>

Enter(p) ==
    /\ pc[p] = "enter"
    /\ holder = NoOne /\ holder' = p
    /\ manifest' = Recovered
    /\ job' = [job EXCEPT ![p].recovered = Recovered # manifest]
    /\ Goto(p, "begin")
    /\ UNCHANGED <<file, locators, alone, runs, owed>>

\* Ingest does not look at its record when it has recovered one.
Looks(p) ==
    Stage(p) = "ingest" => ~job[p].recovered /\ OnDisk /\ file["source"] # Absent

IsHit(p) == Looks(p) /\ Valid(Stage(p), job[p].key)

\* A run goes on with the signals it has read.
Returned(p) ==
    IF Stage(p) = "local_signals" THEN [job[p] EXCEPT !.activity = file["activity"]] ELSE job[p]

Hit(p) ==
    /\ pc[p] = "begin" /\ IsHit(p)
    /\ holder' = NoOne
    /\ Advance(p, Returned(p))
    /\ UNCHANGED <<manifest, file, locators, alone, runs, owed>>

\* Mutant of Staled: a new proxy leaves the signals of the old one COMPLETED.
StaledAlone(p) == IF Looks(p) THEN {Stage(p)} ELSE {}
Staled(p) ==
    IF ~Looks(p) THEN {}
    ELSE IF Stage(p) = "proxy" THEN {"proxy", "local_signals"} ELSE {Stage(p)}

Restaled(p) == Restatus({"COMPLETED"}, "STALE", Staled(p))

\* Mutant of Begin: the attempt is not written before its work begins.
BeginUnwritten(p) ==
    /\ pc[p] = "begin" /\ ~IsHit(p)
    /\ Goto(p, "commit")
    /\ UNCHANGED <<manifest, file, locators, holder, job, alone, runs, owed>>

Begin(p) ==
    /\ pc[p] = "begin" /\ ~IsHit(p)
    /\ Startable(Restaled(p), Stage(p))
    /\ manifest' = Started(Restaled(p), Stage(p), job[p].key)
    /\ Goto(p, "commit")
    /\ UNCHANGED <<file, locators, holder, job, alone, runs, owed>>

Made(p, f) ==
    LET setting == Setting[job[p].config][f]
    IN IF f = "activity" THEN <<file["audio"], setting>> ELSE setting

Commit(p) ==
    LET f == Outputs(Stage(p))[job[p].committed + 1]
    IN /\ pc[p] = "commit" /\ job[p].committed < Len(Outputs(Stage(p)))
       /\ file' = [file EXCEPT ![f] = Made(p, f)]
       /\ job' = [job EXCEPT ![p].committed = @ + 1]
       /\ owed' = IF job[p].committed + 1 = Len(Outputs(Stage(p)))
                  THEN owed \ {Stage(p)} ELSE owed
       /\ UNCHANGED <<manifest, locators, holder, pc, alone, runs>>

\* The handler of an exception in the work of a stage.
Fail(p) ==
    /\ pc[p] = "commit"
    /\ manifest' = [manifest EXCEPT ![Stage(p)].status = "FAILED"]
    /\ holder' = Unlocked(p)
    /\ End(p)
    /\ UNCHANGED <<file, locators, alone, runs, owed>>

Complete(p) ==
    /\ pc[p] = "commit" /\ job[p].committed = Len(Outputs(Stage(p)))
    /\ manifest' = Completed(Stage(p))
    /\ IF Stage(p) = "ingest"
       THEN Goto(p, "locate") /\ UNCHANGED <<holder, job>>
       ELSE holder' = Unlocked(p) /\ Advance(p, Returned(p))
    /\ UNCHANGED <<file, locators, alone, runs, owed>>

\* Ingest is COMPLETED before its locator is written.
WriteLocator(p) ==
    /\ pc[p] = "locate"
    /\ locators' = locators \cup {job[p].path}
    /\ holder' = Unlocked(p)
    /\ Advance(p, job[p])
    /\ UNCHANGED <<manifest, file, alone, runs, owed>>

\* --force-stage, after a first ingest and before a second one.
Invalidate(p) ==
    /\ pc[p] = "invalidate"
    /\ holder = NoOne
    /\ manifest' = InvalidateFrom(job[p].force)
    /\ job' = [job EXCEPT ![p].invalidated = TRUE]
    /\ owed' = owed \cup FromOn(job[p].force)
    /\ Goto(p, "fast")
    /\ UNCHANGED <<file, locators, holder, alone, runs>>

-------------------------------------------------------------------------------
\* The stages of M6 and M7: the artifact first, then its record.

\* What the stage delivers, made or served.  The window proxies are cut from
\* the proxy as it is on disk; everything else is handed on in memory.
Content(p) ==
    IF Stage(p) = "scout"
    THEN <<file["video"], job[p].activity, Setting[job[p].config]["scout"]>>
    ELSE job[p].map

\* The stages that look for their items on disk.  --force-stage reaches the
\* ranking it names and every report; neither the clips nor windows paid for.
Servable(force) ==
    {"scout", "extract"} \cup (IF force = "rank" THEN {} ELSE {"rank"})
                        \cup (IF force = NoForce THEN {"report"} ELSE {})

HasItems(p) == Stage(p) \in Servable(job[p].force) /\ file[Stage(p)] = Content(p)

\* The windows of the fake backend are made again when the scout is forced.
MakesAgain(p) == Stage(p) = "scout" /\ job[p].force = "scout"

\* The report refuses an extraction that is incomplete.
Delivers(p) ==
    /\ pc[p] = "work"
    /\ ~(Stage(p) = "report" /\ job[p].incomplete)
    /\ job' = [job EXCEPT ![p].map = Content(p)]
    /\ Goto(p, "record")
    /\ UNCHANGED <<manifest, locators, holder, alone, runs>>

Serve(p) == HasItems(p) /\ Delivers(p) /\ UNCHANGED <<file, owed>>

Make(p) ==
    /\ ~HasItems(p) \/ MakesAgain(p)
    /\ Delivers(p)
    /\ file' = [file EXCEPT ![Stage(p)] = Content(p)]
    /\ owed' = owed \ {Stage(p)}

\* The key of a record hashes what is in memory, or the input file as it is now.
RecordKey(p) ==
    CASE Stage(p) = "reconcile" -> file["scout"]
      [] Stage(p) = "extract" -> file["reconcile"]
      [] OTHER -> job[p].map

AlreadyRecorded(p) == Valid(Stage(p), RecordKey(p))

KeepRecord(p) ==
    /\ pc[p] = "record" /\ holder = NoOne
    /\ AlreadyRecorded(p)
    /\ Advance(p, job[p])
    /\ UNCHANGED <<manifest, file, locators, holder, alone, runs, owed>>

BeginRecord(p) ==
    /\ pc[p] = "record" /\ holder = NoOne
    /\ ~AlreadyRecorded(p)
    /\ holder' = p
    /\ manifest' = Started(Recovered, Stage(p), RecordKey(p))
    /\ Goto(p, "recording")
    /\ UNCHANGED <<file, locators, job, alone, runs, owed>>

CompleteRecord(p) ==
    /\ pc[p] = "recording"
    /\ manifest' = Completed(Stage(p))
    /\ holder' = Unlocked(p)
    /\ Advance(p, job[p])
    /\ UNCHANGED <<file, locators, alone, runs, owed>>

\* _record_incomplete_stage, when some clip was not extracted.
RecordIncomplete(p) ==
    /\ pc[p] = "record" /\ Stage(p) = "extract" /\ holder = NoOne
    /\ manifest' = [Started(Recovered, "extract", RecordKey(p)) EXCEPT !["extract"].status = "FAILED"]
    /\ Advance(p, [job[p] EXCEPT !.incomplete = TRUE])
    /\ UNCHANGED <<file, locators, holder, alone, runs, owed>>

Run(p) ==
    \/ FastCache(p) \/ NoFastCache(p) \/ ReadKey(p) \/ Enter(p) \/ Hit(p) \/ Begin(p)
    \/ Commit(p) \/ Fail(p) \/ Complete(p) \/ WriteLocator(p) \/ Invalidate(p)
    \/ Serve(p) \/ Make(p) \/ KeepRecord(p) \/ BeginRecord(p) \/ CompleteRecord(p) \/ RecordIncomplete(p)

Next == \E p \in Workers : Start(p) \/ Run(p) \/ Stop(p)

Spec == Init /\ [][Next]_vars

-------------------------------------------------------------------------------
Statuses == {"PENDING", "RUNNING", "COMPLETED", "FAILED", "STALE"}
Labels == {"idle", "fast", "key", "enter", "begin", "commit", "locate", "invalidate",
           "work", "record", "recording"}

\* The manifest has a record of every stage, with a status the program knows and
\* the outputs of that stage; who is inside the lock holds it, and nobody else.
TypeOK ==
    /\ DOMAIN manifest = Stages /\ DOMAIN file = Files
    /\ \A s \in Stages :
         manifest[s].status \in Statuses /\ DOMAIN manifest[s].out = OutputSet(s)
    /\ locators \subseteq Paths
    /\ pc \in [Workers -> Labels] /\ DOMAIN job = Workers
    /\ \A p \in Workers :
         (holder = p) <=> pc[p] \in {"begin", "commit", "locate", "recording"}
    /\ alone \subseteq Workers /\ runs \in 0..MaxRuns /\ owed \subseteq Stages

\* A run that no other run overlaps works with artifacts of its own settings
\* only, whatever earlier runs left behind: runs of other settings, killed or
\* failed half way through a stage, or overlapping each other.
AloneUsesOwnSettings ==
    \A p \in alone : pc[p] # "idle" =>
        LET setting == Setting[job[p].config]
            activity == <<setting["audio"], setting["activity"]>>
            past(s) == job[p].at > Position(s)
        IN /\ past("ingest") => file["source"] = setting["source"]
           /\ past("proxy") => file["video"] = setting["video"] /\ file["audio"] = setting["audio"]
           /\ past("local_signals") => file["activity"] = activity /\ job[p].activity = activity
           /\ \A s \in RecordedStages :
                past(s) => file[s] = <<setting["video"], activity, setting["scout"]>>

\* An attempt that goes on is never recovered, restarted or invalidated by
\* another run: its record stays RUNNING, under the key it works for.
LiveAttemptsStand ==
    \A p \in Workers :
        pc[p] \in {"commit", "recording"} =>
            /\ manifest[Stage(p)].status = "RUNNING"
            /\ pc[p] = "commit" => manifest[Stage(p)].key = job[p].key

Stands(s) ==
    manifest[s].status = "COMPLETED" =>
        \A f \in OutputSet(s) : file[f] = manifest[s].out[f]

\* The artifacts of a completed ingest, proxy or local-signals stage are the
\* ones its record names, at every moment and across crashes.
CompletedFilesStand == \A s \in LockedStages : Stands(s)

\* A stage under the lock that --force-stage marked is COMPLETED again only when
\* all its artifacts have been made again, whichever runs were killed, repeated
\* without the option or overlapped meanwhile.  A run that no other overlaps has
\* made the later stages it is past as well, except what it may serve for all
\* that: cached windows, clips, a ranking it was not told to make.
ForcedStagesRemade ==
    /\ \A s \in owed \cap LockedStages : manifest[s].status # "COMPLETED"
    /\ \A p \in alone, s \in owed :
         job[p].invalidated /\ job[p].at > Position(s) => s \in Servable(job[p].force)
===============================================================================
