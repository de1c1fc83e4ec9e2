------------------------ MODULE SessionPipelineProofs ------------------------
(***************************************************************************)
(* Theorems about the stages of a session for any processes, settings and  *)
(* number of runs, overlapping or killed anywhere: an attempt that goes on *)
(* stands, a completed stage tells what is on disk, a run that is alone    *)
(* uses nothing of other settings, and a stage marked by --force-stage is  *)
(* made again before it counts as complete.                                *)
(*                                                                         *)
(* Four invariants, each inductive given those before it: Typed (shapes,   *)
(* and where a run may be), Working (the records and artifacts of the      *)
(* stages that work under the lock), Alone (a run that none overlaps) and  *)
(* Owing (what --force-stage marked).                                      *)
(***************************************************************************)
EXTENDS SessionPipeline, TLAPS

Inside == {"begin", "commit", "locate", "recording"}
JobFields == {"config", "path", "force", "invalidated", "at", "key", "recovered",
              "committed", "activity", "map", "incomplete"}
RecordFields == {"status", "key", "out"}

\* Where a run may be with which stage.
Place(p) ==
    /\ DOMAIN job[p] = JobFields
    /\ pc[p] # "idle" =>
         /\ job[p].config \in Configs /\ job[p].path \in Paths
         /\ job[p].force \in Forces
         /\ job[p].at \in 1..8
         /\ \A i \in 1..8 : i < job[p].at => Order[i] # StopAfter
    /\ pc[p] \in {"fast", "invalidate", "locate"} => job[p].at = 1
    /\ pc[p] \in {"key", "enter", "begin", "commit"} => job[p].at \in 1..3
    /\ pc[p] \in {"work", "record", "recording"} => job[p].at \in 4..8
    /\ pc[p] \in {"fast", "key", "enter", "begin", "invalidate"} => job[p].committed = 0
    /\ pc[p] = "commit" => job[p].committed \in 0..Len(Outputs(Stage(p)))
    /\ pc[p] = "invalidate" \/ (pc[p] # "idle" /\ job[p].invalidated) => job[p].force \in Stages

IsManifest(m) ==
    /\ DOMAIN m = Stages
    /\ \A s \in Stages : /\ DOMAIN m[s] = RecordFields /\ m[s].status \in Statuses
                         /\ DOMAIN m[s].out = OutputSet(s)

Typed == TypeOK /\ IsManifest(manifest) /\ \A p \in Workers : Place(p)

-------------------------------------------------------------------------------
(* The order of the stages. *)

\* The places in the order, one by one.
LEMMA Indices ==
    1..8 = {1, 2, 3, 4, 5, 6, 7, 8} /\ 1..3 = {1, 2, 3} /\ 4..8 = {4, 5, 6, 7, 8}
  OBVIOUS

\* The stages by their places.
LEMMA StageNames ==
    /\ Order[1] = "ingest" /\ Order[2] = "proxy" /\ Order[3] = "local_signals"
    /\ Order[4] = "scout" /\ Order[5] = "reconcile" /\ Order[6] = "extract"
    /\ Order[7] = "rank" /\ Order[8] = "report"
    /\ Stages = {"ingest", "proxy", "local_signals", "scout", "reconcile", "extract",
                 "rank", "report"}
    /\ LockedStages = {"ingest", "proxy", "local_signals"}
    /\ RecordedStages = {"scout", "reconcile", "extract", "rank", "report"}
  <1>1. /\ Order[1] = "ingest" /\ Order[2] = "proxy" /\ Order[3] = "local_signals"
        /\ Order[4] = "scout" /\ Order[5] = "reconcile" /\ Order[6] = "extract"
        /\ Order[7] = "rank" /\ Order[8] = "report"
    BY DEF Order
  <1>2. /\ Stages = {"ingest", "proxy", "local_signals", "scout", "reconcile", "extract",
                     "rank", "report"}
        /\ LockedStages = {"ingest", "proxy", "local_signals"}
    BY <1>1, Indices DEF Stages, LockedStages
  <1> QED BY <1>1, <1>2 DEF RecordedStages

\* What each stage makes.
LEMMA StageOutputs ==
    /\ OutputSet("ingest") = {"source"} /\ OutputSet("local_signals") = {"activity"}
    /\ OutputSet("proxy") = {"video", "audio"}
    /\ \A s \in RecordedStages : OutputSet(s) = {s}
    /\ Len(Outputs("ingest")) = 1 /\ Outputs("ingest")[1] = "source"
    /\ Len(Outputs("local_signals")) = 1 /\ Outputs("local_signals")[1] = "activity"
    /\ Len(Outputs("proxy")) = 2
    /\ Outputs("proxy")[1] = "video" /\ Outputs("proxy")[2] = "audio"
  <1>1. /\ Outputs("ingest") = <<"source">> /\ Outputs("local_signals") = <<"activity">>
        /\ Outputs("proxy") = <<"video", "audio">>
        /\ \A s \in RecordedStages : Outputs(s) = <<s>>
    BY StageNames DEF Outputs
  <1> QED BY <1>1 DEF OutputSet

\* The files of the stages under the lock are no later stage's.
LEMMA StageFiles ==
    /\ \A s \in Stages : OutputSet(s) \subseteq Files
    /\ \A s \in LockedStages : OutputSet(s) \cap RecordedStages = {}
  BY StageNames, StageOutputs DEF Files

\* Position finds the place of a stage.
LEMMA Positions == \A i \in 1..8 : Order[i] \in Stages /\ Position(Order[i]) = i
  <1> SUFFICES ASSUME NEW i \in 1..8 PROVE Order[i] \in Stages /\ Position(Order[i]) = i
    OBVIOUS
  <1>1. \A j \in 1..8 : Order[j] = Order[i] => j = i
    BY StageNames, Indices
  <1> QED BY <1>1 DEF Position, Stages

\* Every stage has its place.
LEMMA Placed == \A s \in Stages : Position(s) \in 1..8 /\ s = Order[Position(s)]
  <1> SUFFICES ASSUME NEW s \in Stages PROVE Position(s) \in 1..8 /\ s = Order[Position(s)]
    OBVIOUS
  <1>1. PICK i \in 1..8 : s = Order[i]
    BY DEF Stages
  <1> QED BY <1>1, Positions

\* The stage of a run by its place.
LEMMA StageOf ==
    ASSUME NEW p, NEW n, job[p].at = n
    PROVE  /\ n = 1 => Stage(p) = "ingest"
           /\ n = 2 => Stage(p) = "proxy"
           /\ n = 3 => Stage(p) = "local_signals"
           /\ n \in 1..3 => Stage(p) \in LockedStages
           /\ n \in 4..8 => Stage(p) \in RecordedStages
           /\ n \in 1..8 => Stage(p) \in Stages
  BY StageNames, Indices DEF Stage

-------------------------------------------------------------------------------
(* What is done to the manifest. *)

\* Records that change their status only.
LEMMA Restatused ==
    ASSUME IsManifest(manifest), NEW from, NEW to \in Statuses, NEW S
    PROVE  LET m == Restatus(from, to, S)
           IN /\ IsManifest(m)
              /\ \A s \in Stages :
                   /\ m[s].key = manifest[s].key /\ m[s].out = manifest[s].out
                   /\ m[s].status = IF s \in S /\ manifest[s].status \in from
                                    THEN to ELSE manifest[s].status
  BY DEF Restatus, IsManifest, RecordFields

\* A record that is started.
LEMMA StartedRecord ==
    ASSUME NEW m, IsManifest(m), NEW t \in Stages, NEW key
    PROVE  LET n == Started(m, t, key)
           IN /\ IsManifest(n)
              /\ \A s \in Stages \ {t} : n[s] = m[s]
              /\ n[t].status = "RUNNING" /\ n[t].key = key /\ n[t].out = m[t].out
  BY DEF Started, IsManifest, RecordFields, Statuses

\* A record that is completed with the files on disk.
LEMMA CompletedRecord ==
    ASSUME IsManifest(manifest), NEW t \in Stages
    PROVE  LET n == Completed(t)
           IN /\ IsManifest(n)
              /\ \A s \in Stages \ {t} : n[s] = manifest[s]
              /\ n[t].status = "COMPLETED" /\ n[t].key = manifest[t].key
              /\ n[t].out = [f \in OutputSet(t) |-> file[f]]
  BY DEF Completed, RecordFields, IsManifest, Statuses

\* A record that is failed.
LEMMA FailedRecord ==
    ASSUME NEW m, IsManifest(m), NEW t \in Stages
    PROVE  LET n == [m EXCEPT ![t].status = "FAILED"]
           IN /\ IsManifest(n)
              /\ \A s \in Stages \ {t} : n[s] = m[s]
              /\ n[t].status = "FAILED" /\ n[t].key = m[t].key /\ n[t].out = m[t].out
  BY DEF RecordFields, IsManifest, Statuses

\* Recovery and the two ways of staling complete no record.
Softer(m) ==
    /\ IsManifest(m)
    /\ \A s \in Stages : /\ m[s].key = manifest[s].key /\ m[s].out = manifest[s].out
                         /\ m[s].status = "COMPLETED" => manifest[s].status = "COMPLETED"

\* Which changes of the manifest are such.
LEMMA SofterManifests ==
    ASSUME IsManifest(manifest)
    PROVE  /\ Softer(Recovered) /\ Softer(manifest)
           /\ \A S : Softer(Restatus({"COMPLETED"}, "STALE", S))
           /\ \A s : Softer(InvalidateFrom(s))
           /\ \A s \in Stages : manifest[s].status = "COMPLETED" => Recovered[s].status = "COMPLETED"
  <1>1. "FAILED" \in Statuses /\ "STALE" \in Statuses
    BY DEF Statuses
  <1>2. Softer(manifest)
    BY DEF Softer
  <1>3. Softer(Recovered) /\ (\A s \in Stages :
            manifest[s].status = "COMPLETED" => Recovered[s].status = "COMPLETED")
    BY <1>1, Restatused DEF Softer, Recovered
  <1>4. ASSUME NEW from, NEW S PROVE Softer(Restatus(from, "STALE", S))
    BY <1>1 DEF Softer, Restatus, IsManifest, RecordFields
  <1>5. \A s : Softer(InvalidateFrom(s))
    BY <1>4 DEF InvalidateFrom
  <1> QED BY <1>2, <1>3, <1>4, <1>5

-------------------------------------------------------------------------------
(* Where a run goes. *)

Others(p) == \A q \in Workers \ {p} : pc'[q] = pc[q] /\ job'[q] = job[q]
Bodies == pc' \in [Workers -> Labels] /\ DOMAIN job' = Workers

\* A run that goes to a label.
LEMMA Going ==
    ASSUME Typed, NEW p \in Workers, NEW label \in Labels, Goto(p, label)
    PROVE  /\ pc' \in [Workers -> Labels] /\ pc'[p] = label
           /\ \A q \in Workers \ {p} : pc'[q] = pc[q]
  BY DEF Goto, Typed, TypeOK

\* A run that is over.
LEMMA Ending ==
    ASSUME Typed, NEW p \in Workers, End(p)
    PROVE  Others(p) /\ Bodies /\ pc'[p] = "idle" /\ job'[p] = NoJob
  BY DEF End, Goto, Typed, TypeOK, Others, Bodies, Labels

\* Where Advance leads a run that has done the stage of j.
Behind(p, j) ==
    \/ pc'[p] = "idle" /\ job'[p] = NoJob
    \/ /\ pc'[p] = "invalidate" /\ job'[p] = [j EXCEPT !.committed = 0]
       /\ j.at = 1 /\ j.force # NoForce /\ ~j.invalidated
    \/ /\ j.at \in 1..7 /\ Order[j.at] # StopAfter
       /\ pc'[p] = IF j.at + 1 \in 1..3 THEN "key" ELSE "work"
       /\ DOMAIN job'[p] = DOMAIN j
       /\ job'[p].at = j.at + 1 /\ job'[p].committed = 0 /\ job'[p].config = j.config
       /\ job'[p].path = j.path /\ job'[p].force = j.force
       /\ job'[p].invalidated = j.invalidated /\ job'[p].activity = j.activity
       /\ job'[p].map = j.map

\* Advance does no more than that.
LEMMA Advances ==
    ASSUME Typed, NEW p \in Workers, NEW j, DOMAIN j = JobFields, j.at \in 1..8,
           \A i \in 1..8 : i < j.at => Order[i] # StopAfter,
           Advance(p, j)
    PROVE  Others(p) /\ Bodies /\ Behind(p, j)
  <1>1. CASE Order[j.at] = StopAfter
    BY <1>1, Ending DEF Advance, Behind
  <1>2. CASE Order[j.at] # StopAfter
    <2>1. j.at \in 1..7
      <3>1. \E i \in 1..8 : Order[i] = StopAfter
        BY PipelineAssumption DEF Stages
      <3> QED BY <3>1, <1>2, Indices
    <2>2. CASE Order[j.at] = "ingest" /\ j.force # NoForce /\ ~j.invalidated
      <3>1. j.at = 1
        BY <2>1, <2>2, StageNames, Indices
      <3> QED BY <1>2, <2>2, <3>1, Going DEF Advance, Behind, Others, Bodies, Labels, Typed,
                 TypeOK
    <2>3. CASE ~(Order[j.at] = "ingest" /\ j.force # NoForce /\ ~j.invalidated)
      <3>1. Order[j.at + 1] \in LockedStages <=> j.at + 1 \in 1..3
        BY <2>1, StageNames, Indices
      <3>2. /\ Goto(p, IF j.at + 1 \in 1..3 THEN "key" ELSE "work")
            /\ job' = [job EXCEPT ![p] =
                          [j EXCEPT !.at = @ + 1, !.recovered = FALSE, !.committed = 0]]
        BY <1>2, <2>3, <3>1 DEF Advance
      <3>3. /\ pc'[p] = IF j.at + 1 \in 1..3 THEN "key" ELSE "work"
            /\ pc' \in [Workers -> Labels]
            /\ \A q \in Workers \ {p} : pc'[q] = pc[q]
        BY <3>2, Going DEF Labels
      <3>4. /\ DOMAIN job' = Workers
            /\ \A q \in Workers \ {p} : job'[q] = job[q]
            /\ job'[p] = [j EXCEPT !.at = @ + 1, !.recovered = FALSE, !.committed = 0]
        BY <3>2 DEF Typed, TypeOK
      <3>5. /\ DOMAIN job'[p] = DOMAIN j
            /\ job'[p].at = j.at + 1 /\ job'[p].committed = 0 /\ job'[p].config = j.config
            /\ job'[p].path = j.path /\ job'[p].force = j.force
            /\ job'[p].invalidated = j.invalidated /\ job'[p].activity = j.activity
            /\ job'[p].map = j.map
        BY <3>4 DEF JobFields
      <3> QED BY <1>2, <2>1, <3>3, <3>4, <3>5 DEF Behind, Others, Bodies
    <2> QED BY <2>2, <2>3
  <1> QED BY <1>1, <1>2

\* It leads to a place of a run.
LEMMA BehindIsPlace ==
    ASSUME Typed, NEW p \in Workers, pc[p] # "idle", NEW j, Behind(p, j),
           DOMAIN j = JobFields, j.at = job[p].at, j.config = job[p].config,
           j.path = job[p].path, j.force = job[p].force, j.invalidated = job[p].invalidated
    PROVE  Place(p)' /\ pc'[p] \notin Inside
  <1>1. Place(p)
    BY DEF Typed
  <1>2. CASE pc'[p] = "idle" /\ job'[p] = NoJob
    BY <1>2 DEF Place, NoJob, JobFields, Inside
  <1>3. CASE /\ pc'[p] = "invalidate" /\ job'[p] = [j EXCEPT !.committed = 0]
             /\ j.at = 1 /\ j.force # NoForce /\ ~j.invalidated
    BY <1>1, <1>3, PipelineAssumption DEF Place, Inside, JobFields
  <1>4. CASE pc'[p] \in {"key", "work"}
    <2>1. /\ j.at \in 1..7 /\ job'[p].at = j.at + 1
          /\ pc'[p] = "key" => j.at + 1 \in 1..3
          /\ pc'[p] = "work" => j.at + 1 \in 4..8
      BY <1>4, Indices DEF Behind
    <2>2. /\ DOMAIN job'[p] = DOMAIN j /\ job'[p].config = j.config
          /\ job'[p].path = j.path /\ job'[p].force = j.force
          /\ job'[p].invalidated = j.invalidated /\ Order[j.at] # StopAfter
          /\ job'[p].committed = 0
      BY <1>4 DEF Behind
    <2>3. \A i \in 1..8 : i < job'[p].at => Order[i] # StopAfter
      BY <1>1, <2>1, <2>2 DEF Place
    <2> QED BY <1>1, <1>4, <2>1, <2>2, <2>3 DEF Place, Inside
  <1>5. \/ pc'[p] = "idle" /\ job'[p] = NoJob
        \/ /\ pc'[p] = "invalidate" /\ job'[p] = [j EXCEPT !.committed = 0]
           /\ j.at = 1 /\ j.force # NoForce /\ ~j.invalidated
        \/ pc'[p] \in {"key", "work"}
    BY DEF Behind
  <1> QED BY <1>2, <1>3, <1>4, <1>5

\* A run is where another step leaves it.
LEMMA OthersPlace ==
    ASSUME Typed, NEW p, Others(p), NEW q \in Workers \ {p}
    PROVE  Place(q)'
  BY DEF Typed, Place, Others, Stage

\* What a step of p has to keep.
LEMMA TypedBy ==
    ASSUME Typed, NEW p \in Workers, Others(p), Bodies,
           IsManifest(manifest'), DOMAIN file' = Files, locators' \subseteq Paths,
           alone' \subseteq Workers, runs' \in 0..MaxRuns, owed' \subseteq Stages, Place(p)',
           (holder' = p) <=> pc'[p] \in Inside,
           \A q \in Workers \ {p} : holder' = q <=> holder = q
    PROVE  Typed'
  <1>1. \A q \in Workers : Place(q)'
    BY OthersPlace
  <1>2. TypeOK'
    BY DEF Typed, TypeOK, IsManifest, Others, Bodies, Inside
  <1> QED BY <1>1, <1>2 DEF Typed

-------------------------------------------------------------------------------
(* Shapes and places. *)

\* Initially.
LEMMA InitTyped == Init => Typed
  <1> SUFFICES ASSUME Init PROVE Typed
    OBVIOUS
  <1>1. IsManifest(manifest)
    BY DEF Init, NewManifest, Record, IsManifest, RecordFields, Statuses
  <1>2. \A p \in Workers : Place(p)
    BY DEF Init, NoJob, Place, JobFields
  <1>3. TypeOK
    BY <1>1, PipelineAssumption DEF Init, TypeOK, IsManifest, Labels
  <1> QED BY <1>1, <1>2, <1>3 DEF Typed

\* A step that ends the run.
LEMMA EndTyped ==
    ASSUME Typed, NEW p \in Workers, End(p), holder' = Unlocked(p), IsManifest(manifest'),
           UNCHANGED <<file, locators, alone, runs, owed>>
    PROVE  Typed'
  <1>1. Others(p) /\ Bodies /\ pc'[p] = "idle" /\ job'[p] = NoJob
    BY Ending
  <1>2. Place(p)'
    BY <1>1 DEF Place, NoJob, JobFields
  <1>3. /\ (holder' = p) <=> pc'[p] \in Inside
        /\ \A q \in Workers \ {p} : holder' = q <=> holder = q
    BY <1>1, PipelineAssumption DEF Unlocked, Inside
  <1> QED BY <1>1, <1>2, <1>3, TypedBy DEF Typed, TypeOK

\* A step that goes on to the next stage.
LEMMA AdvanceTyped ==
    ASSUME Typed, NEW p \in Workers, pc[p] # "idle", NEW j, Advance(p, j),
           DOMAIN j = JobFields, j.at = job[p].at, j.config = job[p].config,
           j.path = job[p].path, j.force = job[p].force, j.invalidated = job[p].invalidated,
           holder' = Unlocked(p), IsManifest(manifest'),
           DOMAIN file' = Files, locators' \subseteq Paths, UNCHANGED <<alone, runs, owed>>
    PROVE  Typed' /\ Others(p) /\ Behind(p, j)
  <1>1. Place(p)
    BY DEF Typed
  <1>2. Others(p) /\ Bodies /\ Behind(p, j)
    BY <1>1, Advances DEF Place
  <1>3. Place(p)' /\ pc'[p] \notin Inside
    BY <1>2, BehindIsPlace
  <1>4. /\ (holder' = p) <=> pc'[p] \in Inside
        /\ \A q \in Workers \ {p} : holder' = q <=> holder = q
    BY <1>3, PipelineAssumption DEF Unlocked
  <1> QED BY <1>2, <1>3, <1>4, TypedBy DEF Typed, TypeOK

\* A step to a label of the same stage.
LEMMA GoTyped ==
    ASSUME Typed, NEW p \in Workers, NEW label \in Labels, Goto(p, label),
           pc[p] # "idle", DOMAIN job' = Workers,
           \A q \in Workers \ {p} : job'[q] = job[q],
           Place(p)', IsManifest(manifest'), DOMAIN file' = Files, UNCHANGED <<locators, alone, runs>>,
           owed' \subseteq Stages,
           IF label \in Inside THEN holder' = p /\ holder \in {NoOne, p}
           ELSE UNCHANGED holder /\ holder # p
    PROVE  Typed'
  <1>1. /\ Bodies /\ Others(p) /\ pc'[p] = label
    BY Going DEF Others, Bodies
  <1>2. /\ (holder' = p) <=> pc'[p] \in Inside
        /\ \A q \in Workers \ {p} : holder' = q <=> holder = q
    BY <1>1, PipelineAssumption
  <1> QED BY <1>1, <1>2, TypedBy DEF Typed, TypeOK

\* Who is inside holds the lock.
LEMMA Holding ==
    ASSUME Typed, NEW p \in Workers
    PROVE  /\ DOMAIN manifest = Stages /\ IsManifest(manifest) /\ DOMAIN file = Files
           /\ locators \subseteq Paths /\ alone \subseteq Workers /\ runs \in 0..MaxRuns
           /\ owed \subseteq Stages
           /\ (holder = p) <=> pc[p] \in Inside
           /\ DOMAIN job = Workers /\ pc \in [Workers -> Labels] /\ Place(p)
  BY DEF Typed, TypeOK, Inside

\* A run is started.
LEMMA StartTyped == ASSUME Typed, NEW p \in Workers, Start(p) PROVE Typed' /\ Others(p)
  <1>1. PICK k \in Configs, at \in Paths, force \in Forces :
          job' = [job EXCEPT ![p] = [NoJob EXCEPT !.config = k, !.path = at, !.force = force]]
    BY DEF Start
  <1>2. /\ pc' \in [Workers -> Labels] /\ pc'[p] = "fast"
        /\ \A q \in Workers \ {p} : pc'[q] = pc[q]
    BY Going DEF Start, Labels
  <1>3. /\ DOMAIN job' = Workers /\ \A q \in Workers \ {p} : job'[q] = job[q]
        /\ job'[p] = [NoJob EXCEPT !.config = k, !.path = at, !.force = force]
    BY <1>1, Holding
  <1>4. Place(p)'
    BY <1>2, <1>3 DEF Place, NoJob, JobFields
  <1>5. pc[p] = "idle" /\ UNCHANGED <<manifest, file, locators, holder, owed>>
        /\ alone' \subseteq Workers /\ runs' \in 0..MaxRuns
    BY Holding, PipelineAssumption DEF Start
  <1>6. Others(p) /\ Bodies
    BY <1>2, <1>3 DEF Others, Bodies
  <1> QED BY <1>2, <1>4, <1>5, <1>6, Holding, TypedBy DEF Inside

\* The stages under the lock: up to the first commit.
LEMMA ApproachTyped ==
    ASSUME Typed, NEW p \in Workers,
           FastCache(p) \/ NoFastCache(p) \/ ReadKey(p) \/ Enter(p) \/ Hit(p) \/ Begin(p)
             \/ Invalidate(p)
    PROVE  Typed' /\ Others(p)
  <1>0. /\ IsManifest(Recovered) /\ (\A S : IsManifest(Restatus({"COMPLETED"}, "STALE", S)))
        /\ \A s : IsManifest(InvalidateFrom(s))
    BY Holding, SofterManifests DEF Softer
  <1>1. CASE FastCache(p)
    <2>1. IsManifest(manifest') /\ UNCHANGED <<file, locators, holder, alone, runs, owed>>
          /\ pc[p] = "fast"
      BY <1>0, <1>1, Holding DEF FastCache
    <2>2. CASE Advance(p, job[p])
      <3>1. holder' = Unlocked(p)
        BY <2>1, Holding DEF Unlocked, Inside
      <3> QED BY <2>1, <2>2, <3>1, Holding, AdvanceTyped DEF Place
    <2>3. CASE Goto(p, "key") /\ UNCHANGED job
      <3>1. pc'[p] = "key" /\ Others(p) /\ Place(p)'
        BY <2>1, <2>3, Going, Holding DEF Labels, Place, Stage, Others
      <3> QED BY <2>1, <2>3, <3>1, Holding, GoTyped DEF Labels, Inside
    <2> QED BY <1>1, <2>2, <2>3 DEF FastCache
  <1>2. CASE NoFastCache(p)
    <2>1. pc'[p] = "key" /\ Others(p) /\ Place(p)'
      BY <1>2, Going, Holding DEF NoFastCache, Labels, Place, Stage, Others
    <2> QED BY <1>2, <2>1, Holding, GoTyped DEF NoFastCache, Labels, Inside
  <1>3. CASE ReadKey(p)
    <2>1. /\ job'[p] = [job[p] EXCEPT !.key = KeyNow(p)] /\ DOMAIN job' = Workers
          /\ \A q \in Workers \ {p} : job'[q] = job[q]
      BY <1>3, Holding DEF ReadKey
    <2>2. pc'[p] = "enter" /\ Others(p) /\ Place(p)'
      BY <1>3, <2>1, Going, Holding DEF ReadKey, Labels, Place, Stage, Others, JobFields
    <2> QED BY <1>3, <2>1, <2>2, Holding, GoTyped DEF ReadKey, Labels, Inside
  <1>4. CASE Enter(p)
    <2>1. /\ job'[p] = [job[p] EXCEPT !.recovered = Recovered # manifest]
          /\ DOMAIN job' = Workers /\ \A q \in Workers \ {p} : job'[q] = job[q]
      BY <1>4, Holding DEF Enter
    <2>2. pc'[p] = "begin" /\ Others(p) /\ Place(p)'
      BY <1>4, <2>1, Going, Holding DEF Enter, Labels, Place, Stage, Others, JobFields
    <2> QED BY <1>0, <1>4, <2>1, <2>2, Holding, GoTyped DEF Enter, Labels, Inside
  <1>5. CASE Hit(p)
    <2>1. /\ DOMAIN Returned(p) = JobFields /\ Returned(p).at = job[p].at
          /\ Returned(p).config = job[p].config /\ Returned(p).path = job[p].path
          /\ Returned(p).force = job[p].force /\ Returned(p).invalidated = job[p].invalidated
      BY Holding DEF Returned, Place, JobFields
    <2>2. holder' = Unlocked(p) /\ pc[p] = "begin" /\ Advance(p, Returned(p))
          /\ UNCHANGED <<manifest, file, locators, alone, runs, owed>>
      BY <1>5, Holding DEF Hit, Unlocked, Inside
    <2> QED BY <2>1, <2>2, Holding, AdvanceTyped
  <1>6. CASE Begin(p)
    <2>1. /\ pc[p] = "begin" /\ Stage(p) \in Stages
          /\ manifest' = Started(Restaled(p), Stage(p), job[p].key)
          /\ UNCHANGED <<file, locators, holder, job, alone, runs, owed>> /\ Goto(p, "commit")
      BY <1>6, Holding, StageOf DEF Begin, Place
    <2>2. IsManifest(manifest')
      BY <1>0, <2>1, StartedRecord DEF Restaled
    <2>3. pc'[p] = "commit" /\ Others(p)
      BY <2>1, Going DEF Labels, Others
    <2>4. Place(p)'
      BY <2>1, <2>3, Holding DEF Place, Stage
    <2> QED BY <2>1, <2>2, <2>3, <2>4, Holding, GoTyped DEF Labels, Inside
  <1>7. CASE Invalidate(p)
    <2>1. /\ job'[p] = [job[p] EXCEPT !.invalidated = TRUE]
          /\ DOMAIN job' = Workers /\ \A q \in Workers \ {p} : job'[q] = job[q]
      BY <1>7, Holding DEF Invalidate
    <2>2. pc'[p] = "fast" /\ Others(p) /\ Place(p)'
      BY <1>7, <2>1, Going, Holding DEF Invalidate, Labels, Place, Stage, Others, JobFields
    <2>3. owed' \subseteq Stages
      BY <1>7, Holding DEF Invalidate, FromOn
    <2> QED BY <1>0, <1>7, <2>1, <2>2, <2>3, Holding, GoTyped DEF Invalidate, Labels, Inside
  <1> QED BY <1>1, <1>2, <1>3, <1>4, <1>5, <1>6, <1>7

\* The stages under the lock: their work and its record.
LEMMA WorkTyped ==
    ASSUME Typed, NEW p \in Workers, Commit(p) \/ Fail(p) \/ Complete(p) \/ WriteLocator(p)
    PROVE  Typed' /\ Others(p)
  <1>0. /\ DOMAIN Returned(p) = JobFields /\ Returned(p).at = job[p].at
        /\ Returned(p).config = job[p].config /\ Returned(p).path = job[p].path
        /\ Returned(p).force = job[p].force /\ Returned(p).invalidated = job[p].invalidated
    BY Holding DEF Returned, Place, JobFields
  <1>1. CASE Commit(p)
    <2>1. /\ job'[p] = [job[p] EXCEPT !.committed = job[p].committed + 1]
          /\ DOMAIN job' = Workers /\ \A q \in Workers \ {p} : job'[q] = job[q]
          /\ pc[p] = "commit" /\ UNCHANGED <<manifest, locators, holder, pc, alone, runs>>
      BY <1>1, Holding DEF Commit
    <2>2. DOMAIN file' = Files /\ owed' \subseteq Stages
      BY <1>1, Holding DEF Commit
    <2>3. job[p].at \in 1..3 /\ job[p].committed \in 0..Len(Outputs(Stage(p)))
          /\ job[p].committed < Len(Outputs(Stage(p)))
      BY <1>1, <2>1, Holding DEF Place, Commit
    <2>4. Stage(p)' = Stage(p) /\ Len(Outputs(Stage(p))) \in Nat
      BY <2>1, <2>3, Holding, StageOf, StageOutputs, StageNames DEF Stage, Place, JobFields
    <2>5. Place(p)'
      BY <2>1, <2>3, <2>4, Holding DEF Place, JobFields
    <2>6. Others(p) /\ Bodies
      BY <2>1, Holding DEF Others, Bodies
    <2> QED BY <2>1, <2>2, <2>5, <2>6, Holding, TypedBy
  <1>2. CASE Fail(p)
    <2>1. /\ pc[p] = "commit" /\ Stage(p) \in Stages
          /\ manifest' = [manifest EXCEPT ![Stage(p)].status = "FAILED"]
          /\ holder' = Unlocked(p) /\ End(p)
          /\ UNCHANGED <<file, locators, alone, runs, owed>>
      BY <1>2, Holding, StageOf DEF Fail, Place
    <2>2. IsManifest(manifest')
      BY <2>1, Holding, FailedRecord
    <2> QED BY <2>1, <2>2, EndTyped, Ending
  <1>3. CASE Complete(p)
    <2>1. /\ pc[p] = "commit" /\ Stage(p) \in Stages /\ manifest' = Completed(Stage(p))
          /\ UNCHANGED <<file, locators, alone, runs, owed>>
      BY <1>3, Holding, StageOf DEF Complete, Place
    <2>2. IsManifest(manifest')
      BY <2>1, Holding, CompletedRecord
    <2>3. CASE Stage(p) = "ingest"
      <3>1. Goto(p, "locate") /\ UNCHANGED <<holder, job>>
        BY <1>3, <2>3 DEF Complete
      <3>2. job[p].at = 1
        BY <2>1, <2>3, Holding, StageOf, StageNames, Indices DEF Place
      <3>3. pc'[p] = "locate" /\ Others(p) /\ Place(p)'
        BY <2>1, <3>1, <3>2, Going, Holding DEF Labels, Place, Stage, Others
      <3> QED BY <2>1, <2>2, <3>1, <3>3, Holding, GoTyped DEF Labels, Inside
    <2>4. CASE Stage(p) # "ingest"
      <3>1. holder' = Unlocked(p) /\ Advance(p, Returned(p))
        BY <1>3, <2>4 DEF Complete
      <3> QED BY <1>0, <2>1, <2>2, <3>1, Holding, AdvanceTyped
    <2> QED BY <2>3, <2>4
  <1>4. CASE WriteLocator(p)
    <2>1. pc[p] = "locate" /\ job[p].path \in Paths
      BY <1>4, Holding DEF WriteLocator, Place
    <2>2. locators' \subseteq Paths
      BY <1>4, <2>1, Holding DEF WriteLocator
    <2> QED BY <1>4, <2>1, <2>2, Holding, AdvanceTyped DEF WriteLocator, Place
  <1> QED BY <1>1, <1>2, <1>3, <1>4

\* A later stage hands on what it delivers, which is then on disk.
LEMMA Delivered ==
    ASSUME Typed, NEW p \in Workers, Serve(p) \/ Make(p)
    PROVE  /\ pc[p] = "work" /\ Goto(p, "record") /\ Stage(p) \in RecordedStages
           /\ job' = [job EXCEPT ![p].map = Content(p)]
           /\ DOMAIN file' = Files /\ file'[Stage(p)] = Content(p)
           /\ \A f \in Files \ {Stage(p)} : file'[f] = file[f]
           /\ owed' \subseteq owed /\ UNCHANGED <<manifest, locators, holder, alone, runs>>
  <1>1. Delivers(p)
    BY DEF Serve, Make
  <1>2. Stage(p) \in RecordedStages /\ Stage(p) \in Files
    BY <1>1, Holding, StageOf DEF Delivers, Place, Files
  <1>3. CASE Serve(p)
    BY <1>1, <1>2, <1>3, Holding DEF Serve, HasItems, Delivers
  <1>4. CASE Make(p)
    BY <1>1, <1>2, <1>4, Holding DEF Make, Delivers
  <1> QED BY <1>3, <1>4

\* The recorded stages.
LEMMA RecordTyped ==
    ASSUME Typed, NEW p \in Workers,
           Serve(p) \/ Make(p) \/ KeepRecord(p) \/ BeginRecord(p) \/ CompleteRecord(p) \/ RecordIncomplete(p)
    PROVE  Typed' /\ Others(p)
  <1>0. IsManifest(Recovered) /\ "extract" \in Stages
    BY Holding, SofterManifests, StageNames DEF Softer
  <1>1. CASE Serve(p) \/ Make(p)
    <2>1. /\ job'[p] = [job[p] EXCEPT !.map = Content(p)]
          /\ DOMAIN job' = Workers /\ \A q \in Workers \ {p} : job'[q] = job[q]
          /\ pc[p] = "work" /\ DOMAIN file' = Files /\ owed' \subseteq Stages
          /\ Goto(p, "record") /\ UNCHANGED <<manifest, locators, holder, alone, runs>>
      BY <1>1, Holding, Delivered
    <2>2. pc'[p] = "record" /\ Others(p) /\ Place(p)'
      BY <2>1, Going, Holding DEF Labels, Place, Stage, Others, JobFields
    <2> QED BY <2>1, <2>2, Holding, GoTyped DEF Labels, Inside
  <1>2. CASE KeepRecord(p)
    <2>1. holder' = Unlocked(p)
      BY <1>2, PipelineAssumption DEF KeepRecord, Unlocked
    <2> QED BY <1>2, <2>1, Holding, AdvanceTyped DEF KeepRecord, Place
  <1>3. CASE BeginRecord(p)
    <2>1. pc[p] = "record" /\ Stage(p) \in Stages
      BY <1>3, Holding, StageOf DEF BeginRecord, Place
    <2>2. IsManifest(manifest')
      BY <1>0, <1>3, <2>1, StartedRecord DEF BeginRecord
    <2>3. pc'[p] = "recording" /\ Others(p) /\ Place(p)'
      BY <1>3, <2>1, Going, Holding DEF BeginRecord, Labels, Place, Stage, Others
    <2> QED BY <1>3, <2>1, <2>2, <2>3, Holding, GoTyped DEF BeginRecord, Labels, Inside
  <1>4. CASE CompleteRecord(p)
    <2>1. pc[p] = "recording" /\ Stage(p) \in Stages
      BY <1>4, Holding, StageOf DEF CompleteRecord, Place
    <2>2. IsManifest(manifest')
      BY <1>4, <2>1, Holding, CompletedRecord DEF CompleteRecord
    <2> QED BY <1>4, <2>1, <2>2, Holding, AdvanceTyped DEF CompleteRecord, Place
  <1>5. CASE RecordIncomplete(p)
    <2>1. /\ pc[p] = "record" /\ holder' = Unlocked(p)
          /\ Advance(p, [job[p] EXCEPT !.incomplete = TRUE])
          /\ UNCHANGED <<file, locators, alone, runs, owed>>
      BY <1>5, PipelineAssumption DEF RecordIncomplete, Unlocked
    <2>2. IsManifest(Started(Recovered, "extract", RecordKey(p)))
      BY <1>0, StartedRecord
    <2>3. IsManifest(manifest')
      BY <1>0, <1>5, <2>2, FailedRecord DEF RecordIncomplete
    <2> QED BY <2>1, <2>3, Holding, AdvanceTyped DEF Place, JobFields
  <1> QED BY <1>1, <1>2, <1>3, <1>4, <1>5

\* A run is stopped.
LEMMA StopTyped == ASSUME Typed, NEW p \in Workers, Stop(p) PROVE Typed' /\ Others(p)
  BY EndTyped, Ending, Holding DEF Stop

\* Any step of a run.
LEMMA StepTyped ==
    ASSUME Typed, NEW p \in Workers, Start(p) \/ Run(p) \/ Stop(p)
    PROVE  Typed' /\ Others(p)
  BY StartTyped, ApproachTyped, WorkTyped, RecordTyped, StopTyped DEF Run

\* The steps of all runs, and stuttering.
LEMMA NextTyped == Typed /\ [Next]_vars => Typed'
  <1>1. ASSUME Typed, UNCHANGED vars PROVE Typed'
    <2>1. TypeOK'
      BY <1>1 DEF vars, Typed, TypeOK
    <2>2. \A p \in Workers : Place(p)'
      BY <1>1 DEF vars, Typed, Place, Stage
    <2>3. IsManifest(manifest')
      BY <1>1 DEF vars, Typed
    <2> QED BY <2>1, <2>2, <2>3 DEF Typed
  <1>2. ASSUME Typed, Next PROVE Typed'
    BY <1>2, StepTyped DEF Next
  <1> QED BY <1>1, <1>2

-------------------------------------------------------------------------------
(* The stages that work under the lock. *)

Own(p) == Setting[job[p].config]

\* What the record of a completed stage tells of the files.
RecordsTell ==
    /\ manifest["ingest"].status = "COMPLETED" =>
         manifest["ingest"].key = <<file["source"]>>
    /\ manifest["proxy"].status = "COMPLETED" =>
         manifest["proxy"].key = <<file["video"], file["audio"]>>
    /\ manifest["local_signals"].status = "COMPLETED" =>
         file["activity"] = <<file["audio"], manifest["local_signals"].key[2]>>

\* The key that a run has read.
Keyed(p) ==
    pc[p] \in {"enter", "begin", "commit"} =>
        /\ job[p].at = 1 => job[p].key = <<Own(p)["source"]>>
        /\ job[p].at = 2 => job[p].key = <<Own(p)["video"], Own(p)["audio"]>>
        /\ job[p].at = 3 => job[p].key[2] = Own(p)["activity"]

\* What an attempt has replaced so far.
Committed(p) ==
    pc[p] = "commit" =>
        /\ job[p].at = 1 /\ job[p].committed = 1 => file["source"] = Own(p)["source"]
        /\ job[p].at = 2 =>
             /\ job[p].committed >= 1 => file["video"] = Own(p)["video"]
             /\ job[p].committed = 2 => file["audio"] = Own(p)["audio"]
             /\ manifest["local_signals"].status # "COMPLETED"
        /\ job[p].at = 3 /\ job[p].committed = 1 =>
             file["activity"] = <<file["audio"], Own(p)["activity"]>>

Live(p) ==
    pc[p] \in {"commit", "recording"} =>
        /\ manifest[Stage(p)].status = "RUNNING"
        /\ pc[p] = "commit" => manifest[Stage(p)].key = job[p].key

Working ==
    /\ CompletedFilesStand /\ RecordsTell
    /\ \A p \in Workers : Live(p) /\ Keyed(p) /\ Committed(p)

\* The invariant holds the property for each run.
LEMMA WorkingIsLive == Working => LiveAttemptsStand
  BY DEF Working, Live, LiveAttemptsStand

\* Initially nothing is at work.
LEMMA InitWorking == Init => Working
  BY StageNames, InitTyped DEF Init, Working, CompletedFilesStand, Stands, RecordsTell, Live,
     Keyed,
     Committed, NewManifest, Record

\* No locked stage becomes complete, nor do its files or its record change.
KeepsLocked ==
    \A s \in LockedStages :
        /\ manifest'[s].key = manifest[s].key /\ manifest'[s].out = manifest[s].out
        /\ manifest'[s].status = "COMPLETED" => manifest[s].status = "COMPLETED"
KeepsFiles == \A s \in LockedStages : \A f \in OutputSet(s) : file'[f] = file[f]

\* Such a step keeps what completed records tell.
LEMMA LockedKept ==
    ASSUME Working, KeepsLocked, KeepsFiles
    PROVE  CompletedFilesStand' /\ RecordsTell'
  <1>1. CompletedFilesStand'
    BY DEF Working, KeepsLocked, KeepsFiles, CompletedFilesStand, Stands
  <1>2. \A f \in {"source", "video", "audio", "activity"} : file'[f] = file[f]
    BY StageNames, StageOutputs DEF KeepsFiles
  <1>3. RecordsTell'
    BY <1>2, StageNames DEF Working, KeepsLocked, RecordsTell
  <1> QED BY <1>1, <1>3

\* The lock keeps the others out.
LEMMA Exclusive ==
    ASSUME Typed, NEW p \in Workers, holder = NoOne \/ pc[p] \in Inside
    PROVE  \A q \in Workers \ {p} : pc[q] \notin Inside
  BY PipelineAssumption, Holding

\* A step of p with no other run at work.
LEMMA WorkingAlone ==
    ASSUME Typed, Working, NEW p \in Workers, Others(p),
           \A q \in Workers \ {p} : pc[q] \notin Inside,
           CompletedFilesStand', RecordsTell', Live(p)', Keyed(p)', Committed(p)'
    PROVE  Working'
  <1> SUFFICES ASSUME NEW q \in Workers \ {p} PROVE (Live(q) /\ Keyed(q) /\ Committed(q))'
    BY DEF Working
  <1>1. pc'[q] = pc[q] /\ job'[q] = job[q] /\ pc[q] \notin {"commit", "recording"}
    BY DEF Others, Inside
  <1> QED BY <1>1 DEF Working, Live, Keyed, Committed, Own

\* A step of p that leaves manifest and locked files alone.
LEMMA WorkingBeside ==
    ASSUME Typed, Working, NEW p \in Workers, Others(p), UNCHANGED manifest, KeepsFiles,
           pc'[p] \notin {"commit", "recording"}, Keyed(p)'
    PROVE  Working'
  <1>1. CompletedFilesStand' /\ RecordsTell'
    BY LockedKept DEF KeepsLocked
  <1>2. \A f \in {"source", "video", "audio", "activity"} : file'[f] = file[f]
    BY StageNames, StageOutputs DEF KeepsFiles
  <1>3. Live(p)' /\ Committed(p)'
    BY DEF Live, Committed
  <1>4. ASSUME NEW q \in Workers \ {p} PROVE (Live(q) /\ Keyed(q) /\ Committed(q))'
    <2>1. pc'[q] = pc[q] /\ job'[q] = job[q]
      BY DEF Others
    <2>2. Live(q)'
      BY <2>1 DEF Working, Live, Stage
    <2>3. Keyed(q)' /\ Committed(q)'
      BY <1>2, <2>1 DEF Working, Keyed, Committed, Own
    <2> QED BY <2>2, <2>3
  <1> QED BY <1>1, <1>3, <1>4 DEF Working

\* Behind a stage no key has been read.
LEMMA BehindIsQuiet ==
    ASSUME NEW p, NEW j, Behind(p, j)
    PROVE  pc'[p] \notin {"enter", "begin", "commit", "recording"} /\ Live(p)' /\ Keyed(p)'
           /\ Committed(p)'
  <1>1. pc'[p] \in {"idle", "invalidate", "key", "work"}
    BY DEF Behind
  <1> QED BY <1>1 DEF Live, Keyed, Committed

\* What the steps before the work do to the manifest and to their run.
LEMMA ApproachWorking ==
    ASSUME Typed, Working, NEW p \in Workers,
           FastCache(p) \/ NoFastCache(p) \/ ReadKey(p) \/ Enter(p) \/ Hit(p) \/ Invalidate(p)
    PROVE  Working'
  <1>0. /\ Others(p) /\ LockedStages \subseteq Stages
        /\ Softer(manifest) /\ Softer(Recovered)
        /\ \A S : Softer(Restatus({"COMPLETED"}, "STALE", S))
        /\ \A s : Softer(InvalidateFrom(s))
    BY ApproachTyped, Holding, SofterManifests, StageNames
  <1>1. CASE FastCache(p)
    <2>1. Softer(manifest') /\ UNCHANGED file /\ holder = NoOne
      BY <1>0, <1>1 DEF FastCache
    <2>2. CompletedFilesStand' /\ RecordsTell'
      BY <1>0, <2>1, LockedKept DEF Softer, KeepsLocked, KeepsFiles
    <2>3. Live(p)' /\ Keyed(p)' /\ Committed(p)'
      <3>1. CASE Advance(p, job[p])
        <4>1. Behind(p, job[p])
          BY <1>1, <3>1, Holding, Advances DEF FastCache, Place
        <4> QED BY <4>1, BehindIsQuiet
      <3>2. CASE Goto(p, "key")
        BY <3>2, Going DEF Labels, Live, Keyed, Committed
      <3> QED BY <1>1, <3>1, <3>2 DEF FastCache
    <2> QED BY <1>0, <2>1, <2>2, <2>3, Exclusive, WorkingAlone
  <1>2. CASE NoFastCache(p)
    <2>1. pc'[p] = "key" /\ UNCHANGED <<manifest, file>>
      BY <1>2, Going DEF NoFastCache, Labels
    <2> QED BY <1>0, <2>1, WorkingBeside DEF KeepsFiles, Keyed
  <1>3. CASE ReadKey(p)
    <2>1. /\ pc'[p] = "enter" /\ UNCHANGED <<manifest, file>>
          /\ job'[p] = [job[p] EXCEPT !.key = KeyNow(p)]
      BY <1>3, Going, Holding DEF ReadKey, Labels
    <2>2. job'[p].at = job[p].at /\ job'[p].config = job[p].config /\ job'[p].key = KeyNow(p)
      BY <2>1, Holding DEF Place, JobFields
    <2>3. /\ job[p].at = 1 => KeyNow(p) = <<Own(p)["source"]>>
          /\ job[p].at = 2 => KeyNow(p) = <<Own(p)["video"], Own(p)["audio"]>>
          /\ job[p].at = 3 =>
               KeyNow(p) = <<manifest["proxy"].out["video"], Own(p)["activity"]>>
      BY StageOf DEF KeyNow, Own
    <2>4. Keyed(p)'
      BY <2>2, <2>3 DEF Keyed, Own
    <2> QED BY <1>0, <2>1, <2>4, WorkingBeside DEF KeepsFiles
  <1>4. CASE Enter(p)
    <2>1. /\ pc'[p] = "begin" /\ manifest' = Recovered /\ UNCHANGED file /\ holder = NoOne
          /\ job'[p] = [job[p] EXCEPT !.recovered = Recovered # manifest] /\ pc[p] = "enter"
      BY <1>4, Going, Holding DEF Enter, Labels
    <2>2. CompletedFilesStand' /\ RecordsTell'
      BY <1>0, <2>1, LockedKept DEF Softer, KeepsLocked, KeepsFiles
    <2>3. job'[p].at = job[p].at /\ job'[p].config = job[p].config /\ job'[p].key = job[p].key
      BY <2>1, Holding DEF Place, JobFields
    <2>4. Live(p)' /\ Keyed(p)' /\ Committed(p)'
      BY <2>1, <2>3 DEF Working, Live, Keyed, Committed, Own
    <2> QED BY <1>0, <2>1, <2>2, <2>4, Exclusive, WorkingAlone
  <1>5. CASE Hit(p)
    <2>1. Advance(p, Returned(p)) /\ UNCHANGED <<manifest, file>> /\ pc[p] = "begin"
      BY <1>5 DEF Hit
    <2>2. DOMAIN Returned(p) = JobFields /\ Returned(p).at = job[p].at
      BY Holding DEF Returned, Place, JobFields
    <2>3. Behind(p, Returned(p))
      BY <2>1, <2>2, Holding, Advances DEF Place
    <2> QED BY <1>0, <2>1, <2>3, BehindIsQuiet, WorkingBeside DEF KeepsFiles
  <1>6. CASE Invalidate(p)
    <2>1. /\ pc'[p] = "fast" /\ Softer(manifest') /\ UNCHANGED file /\ holder = NoOne
      BY <1>0, <1>6, Going DEF Invalidate, Labels
    <2>2. CompletedFilesStand' /\ RecordsTell'
      BY <1>0, <2>1, LockedKept DEF Softer, KeepsLocked, KeepsFiles
    <2>3. Live(p)' /\ Keyed(p)' /\ Committed(p)'
      BY <2>1 DEF Live, Keyed, Committed
    <2> QED BY <1>0, <2>1, <2>2, <2>3, Exclusive, WorkingAlone
  <1> QED BY <1>1, <1>2, <1>3, <1>4, <1>5, <1>6

\* An attempt is started, and with a new proxy the signals are stale.
LEMMA BeginWorking ==
    ASSUME Typed, Working, NEW p \in Workers, Begin(p)
    PROVE  Working'
  <1>1. /\ pc[p] = "begin" /\ pc'[p] = "commit" /\ UNCHANGED <<file, job>> /\ Others(p)
        /\ manifest' = Started(Restaled(p), Stage(p), job[p].key)
        /\ job[p].at \in 1..3 /\ Stage(p) \in LockedStages /\ LockedStages \subseteq Stages
    BY Going, Holding, ApproachTyped, StageOf, StageNames DEF Begin, Place, Labels
  <1>2. Softer(Restaled(p))
    BY Holding, SofterManifests DEF Restaled
  <1>3. /\ \A s \in Stages \ {Stage(p)} : manifest'[s] = Restaled(p)[s]
        /\ manifest'[Stage(p)].status = "RUNNING" /\ manifest'[Stage(p)].key = job[p].key
        /\ manifest'[Stage(p)].out = Restaled(p)[Stage(p)].out
    BY <1>1, <1>2, StartedRecord DEF Softer
  <1>4. CompletedFilesStand'
    BY <1>1, <1>2, <1>3 DEF Working, CompletedFilesStand, Stands, Softer
  <1>5. RecordsTell'
    <2>1. \A s \in LockedStages : manifest'[s].status = "COMPLETED" =>
             manifest[s].status = "COMPLETED" /\ manifest'[s].key = manifest[s].key
      BY <1>1, <1>2, <1>3 DEF Softer
    <2> QED BY <1>1, <2>1, StageNames DEF Working, RecordsTell
  <1>6. job[p].at = 2 => manifest'["local_signals"].status # "COMPLETED"
    <2> SUFFICES ASSUME job[p].at = 2 PROVE manifest'["local_signals"].status # "COMPLETED"
      OBVIOUS
    <2>1. Stage(p) = "proxy" /\ "local_signals" \in Stages
      BY StageOf, StageNames
    <2>2. Staled(p) = {"proxy", "local_signals"}
      BY <2>1 DEF Staled, Looks
    <2>3. Restaled(p)["local_signals"].status # "COMPLETED"
      BY <2>1, <2>2, Holding DEF Restaled, Restatus, IsManifest, RecordFields
    <2> QED BY <1>3, <2>1, <2>3
  <1>7. Live(p)' /\ Keyed(p)' /\ Committed(p)'
    <2>1. Stage(p)' = Stage(p) /\ job[p].committed = 0
      BY <1>1, Holding DEF Stage, Place
    <2> QED BY <1>1, <1>3, <1>6, <2>1 DEF Working, Live, Keyed, Committed, Own
  <1> QED BY <1>1, <1>4, <1>5, <1>7, Exclusive, WorkingAlone DEF Inside

\* One artifact is replaced.
LEMMA CommitWorking ==
    ASSUME Typed, Working, NEW p \in Workers, Commit(p)
    PROVE  Working'
  <1> DEFINE f == Outputs(Stage(p))[job[p].committed + 1]
  <1>1. /\ pc[p] = "commit" /\ UNCHANGED <<manifest, pc>> /\ Others(p)
        /\ file' = [file EXCEPT ![f] = Made(p, f)]
        /\ job'[p] = [job[p] EXCEPT !.committed = job[p].committed + 1]
        /\ job[p].at \in 1..3 /\ job[p].committed < Len(Outputs(Stage(p)))
        /\ job[p].committed \in 0..Len(Outputs(Stage(p)))
    BY WorkTyped, Holding DEF Commit, Place
  <1>2. /\ job'[p].at = job[p].at /\ job'[p].config = job[p].config
        /\ job'[p].key = job[p].key /\ job'[p].committed = job[p].committed + 1
        /\ Stage(p)' = Stage(p) /\ Own(p)' = Own(p)
    BY <1>1, Holding DEF Place, JobFields, Stage, Own
  <1>3. manifest[Stage(p)].status = "RUNNING" /\ manifest[Stage(p)].key = job[p].key
    BY <1>1 DEF Working, Live
  <1>4. Live(p)' /\ Keyed(p)'
    BY <1>1, <1>2, <1>3 DEF Working, Live, Keyed
  <1>5. {"source", "video", "audio", "activity"} \subseteq DOMAIN file
    BY Holding DEF Files
  <1>6. CASE job[p].at = 1
    <2>1. Stage(p) = "ingest" /\ job[p].committed = 0 /\ f = "source"
      BY <1>1, <1>6, StageOf, StageOutputs
    <2>2. /\ file'["source"] = Own(p)["source"]
          /\ \A g \in {"video", "audio", "activity"} : file'[g] = file[g]
      BY <1>1, <1>5, <2>1 DEF Made, Own
    <2>3. CompletedFilesStand' /\ RecordsTell'
      BY <1>1, <1>3, <2>1, <2>2, StageNames, StageOutputs
      DEF Working, CompletedFilesStand, Stands, RecordsTell
    <2>4. Committed(p)'
      BY <1>2, <1>6, <2>1, <2>2 DEF Committed
    <2> QED BY <1>1, <1>4, <2>3, <2>4, Exclusive, WorkingAlone DEF Inside
  <1>7. CASE job[p].at = 2
    <2>1. Stage(p) = "proxy" /\ manifest["local_signals"].status # "COMPLETED"
      BY <1>1, <1>7, StageOf DEF Working, Committed
    <2>2. \/ job[p].committed = 0 /\ f = "video"
          \/ job[p].committed = 1 /\ f = "audio"
      BY <1>1, <2>1, StageOutputs
    <2>3. /\ file'[f] = Own(p)[f]
          /\ \A g \in {"source", "video", "audio", "activity"} : g # f => file'[g] = file[g]
      BY <1>1, <1>5, <2>2 DEF Made, Own
    <2>4. CompletedFilesStand' /\ RecordsTell'
      BY <1>1, <1>3, <2>1, <2>2, <2>3, StageNames, StageOutputs
      DEF Working, CompletedFilesStand, Stands, RecordsTell
    <2>5. Committed(p)'
      <3>1. job[p].committed >= 1 => file["video"] = Own(p)["video"]
        BY <1>1, <1>7 DEF Working, Committed
      <3> QED BY <1>1, <1>2, <1>7, <2>1, <2>2, <2>3, <3>1 DEF Committed
    <2> QED BY <1>1, <1>4, <2>4, <2>5, Exclusive, WorkingAlone DEF Inside
  <1>8. CASE job[p].at = 3
    <2>1. Stage(p) = "local_signals" /\ job[p].committed = 0 /\ f = "activity"
      BY <1>1, <1>8, StageOf, StageOutputs
    <2>2. /\ file'["activity"] = <<file["audio"], Own(p)["activity"]>>
          /\ \A g \in {"source", "video", "audio"} : file'[g] = file[g]
      BY <1>1, <1>5, <2>1 DEF Made, Own
    <2>3. CompletedFilesStand' /\ RecordsTell'
      BY <1>1, <1>3, <2>1, <2>2, StageNames, StageOutputs
      DEF Working, CompletedFilesStand, Stands, RecordsTell
    <2>4. Committed(p)'
      BY <1>2, <1>8, <2>1, <2>2 DEF Committed
    <2> QED BY <1>1, <1>4, <2>3, <2>4, Exclusive, WorkingAlone DEF Inside
  <1> QED BY <1>1, <1>6, <1>7, <1>8, Indices

\* The attempt is over and its record tells what it made.
LEMMA CompleteWorking ==
    ASSUME Typed, Working, NEW p \in Workers, Complete(p)
    PROVE  Working'
  <1>1. /\ pc[p] = "commit" /\ UNCHANGED file /\ Others(p) /\ manifest' = Completed(Stage(p))
        /\ job[p].at \in 1..3 /\ job[p].committed = Len(Outputs(Stage(p)))
        /\ Stage(p) \in LockedStages /\ LockedStages \subseteq Stages
    BY WorkTyped, Holding, StageOf, StageNames DEF Complete, Place
  <1>2. /\ \A s \in Stages \ {Stage(p)} : manifest'[s] = manifest[s]
        /\ manifest'[Stage(p)].key = manifest[Stage(p)].key
        /\ manifest'[Stage(p)].out = [f \in OutputSet(Stage(p)) |-> file[f]]
    BY <1>1, Holding, CompletedRecord
  <1>3. CompletedFilesStand'
    BY <1>1, <1>2 DEF Working, CompletedFilesStand, Stands
  <1>4. /\ manifest[Stage(p)].key = job[p].key /\ Keyed(p) /\ Committed(p)
    BY <1>1 DEF Working, Live
  <1>5. RecordsTell'
    <2>1. CASE job[p].at = 1
      BY <1>1, <1>2, <1>4, <2>1, StageOf, StageOutputs, StageNames
      DEF Working, RecordsTell, Keyed, Committed
    <2>2. CASE job[p].at = 2
      BY <1>1, <1>2, <1>4, <2>2, StageOf, StageOutputs, StageNames
      DEF Working, RecordsTell, Keyed, Committed
    <2>3. CASE job[p].at = 3
      BY <1>1, <1>2, <1>4, <2>3, StageOf, StageOutputs, StageNames
      DEF Working, RecordsTell, Keyed, Committed
    <2> QED BY <1>1, <2>1, <2>2, <2>3, Indices
  <1>6. Live(p)' /\ Keyed(p)' /\ Committed(p)'
    <2>1. CASE Stage(p) = "ingest"
      <3>1. pc'[p] = "locate"
        BY <2>1, Going DEF Complete, Labels
      <3> QED BY <3>1 DEF Live, Keyed, Committed
    <2>2. CASE Stage(p) # "ingest"
      <3>1. Advance(p, Returned(p)) /\ DOMAIN Returned(p) = JobFields
            /\ Returned(p).at = job[p].at
        BY <2>2, Holding DEF Complete, Returned, Place, JobFields
      <3>2. Behind(p, Returned(p))
        BY <1>1, <3>1, Holding, Advances DEF Place
      <3> QED BY <3>2, BehindIsQuiet
    <2> QED BY <2>1, <2>2
  <1> QED BY <1>1, <1>3, <1>5, <1>6, Exclusive, WorkingAlone DEF Inside

\* The steps that neither start nor complete a stage under the lock.
LEMMA OtherWorking ==
    ASSUME Typed, Working, NEW p \in Workers,
           Start(p) \/ Stop(p) \/ Fail(p) \/ WriteLocator(p) \/ Serve(p) \/ Make(p)
             \/ KeepRecord(p)
    PROVE  Working'
  <1>0. Others(p)
    BY StepTyped DEF Run
  <1>1. CASE Start(p)
    <2>1. pc'[p] = "fast" /\ UNCHANGED <<manifest, file>>
      BY <1>1, Going DEF Start, Labels
    <2> QED BY <1>0, <2>1, WorkingBeside DEF KeepsFiles, Keyed
  <1>2. CASE Stop(p)
    <2>1. pc'[p] = "idle" /\ UNCHANGED <<manifest, file>>
      BY <1>2, Ending DEF Stop
    <2> QED BY <1>0, <2>1, WorkingBeside DEF KeepsFiles, Keyed
  <1>3. CASE Fail(p)
    <2>1. /\ pc[p] = "commit" /\ pc'[p] = "idle" /\ UNCHANGED file /\ Stage(p) \in Stages
          /\ manifest' = [manifest EXCEPT ![Stage(p)].status = "FAILED"]
      BY <1>3, Ending, Holding, StageOf DEF Fail, Place
    <2>2. KeepsLocked
      <3>1. LockedStages \subseteq Stages
        BY StageNames
      <3> QED BY <2>1, <3>1, Holding, FailedRecord DEF KeepsLocked
    <2>3. CompletedFilesStand' /\ RecordsTell'
      BY <2>1, <2>2, LockedKept DEF KeepsFiles
    <2>4. Live(p)' /\ Keyed(p)' /\ Committed(p)'
      BY <2>1 DEF Live, Keyed, Committed
    <2> QED BY <1>0, <2>1, <2>3, <2>4, Exclusive, WorkingAlone DEF Inside
  <1>4. CASE WriteLocator(p)
    <2>1. Advance(p, job[p]) /\ UNCHANGED <<manifest, file>> /\ pc[p] = "locate"
      BY <1>4 DEF WriteLocator
    <2>2. Behind(p, job[p])
      BY <2>1, Holding, Advances DEF Place
    <2> QED BY <1>0, <2>1, <2>2, BehindIsQuiet, WorkingBeside DEF KeepsFiles
  <1>5. CASE Serve(p) \/ Make(p)
    <2>1. pc'[p] = "record" /\ UNCHANGED manifest /\ Stage(p) \in RecordedStages
          /\ \A f \in Files \ {Stage(p)} : file'[f] = file[f]
      BY <1>5, Going, Delivered DEF Labels
    <2>2. KeepsFiles
      <3>1. \A s \in LockedStages : \A f \in OutputSet(s) : f \in Files /\ f # Stage(p)
        BY <2>1, StageFiles, StageNames
      <3> QED BY <2>1, <3>1 DEF KeepsFiles
    <2> QED BY <1>0, <2>1, <2>2, WorkingBeside DEF Keyed
  <1>6. CASE KeepRecord(p)
    <2>1. Advance(p, job[p]) /\ UNCHANGED <<manifest, file>> /\ pc[p] = "record"
      BY <1>6 DEF KeepRecord
    <2>2. Behind(p, job[p])
      BY <2>1, Holding, Advances DEF Place
    <2> QED BY <1>0, <2>1, <2>2, BehindIsQuiet, WorkingBeside DEF KeepsFiles
  <1> QED BY <1>1, <1>2, <1>3, <1>4, <1>5, <1>6

\* The record of a later stage is no record of a stage under the lock.
LEMMA RecordKeepsLocked ==
    ASSUME Typed, NEW p \in Workers,
           BeginRecord(p) \/ CompleteRecord(p) \/ RecordIncomplete(p)
    PROVE  KeepsLocked
  <1>0. /\ Softer(Recovered) /\ LockedStages \subseteq Stages
        /\ LockedStages \cap RecordedStages = {} /\ RecordedStages \subseteq Stages
        /\ "extract" \in RecordedStages
    BY Holding, SofterManifests, StageNames
  <1>1. CASE BeginRecord(p)
    <2>1. Stage(p) \in RecordedStages /\ manifest' = Started(Recovered, Stage(p), RecordKey(p))
      BY <1>1, Holding, StageOf DEF BeginRecord, Place
    <2>2. \A s \in Stages \ {Stage(p)} : manifest'[s] = Recovered[s]
      BY <1>0, <2>1, StartedRecord DEF Softer
    <2> QED BY <1>0, <2>1, <2>2 DEF KeepsLocked, Softer
  <1>2. CASE CompleteRecord(p)
    <2>1. Stage(p) \in RecordedStages /\ manifest' = Completed(Stage(p))
      BY <1>2, Holding, StageOf DEF CompleteRecord, Place
    <2>2. \A s \in Stages \ {Stage(p)} : manifest'[s] = manifest[s]
      BY <1>0, <2>1, Holding, CompletedRecord
    <2> QED BY <1>0, <2>1, <2>2 DEF KeepsLocked
  <1>3. CASE RecordIncomplete(p)
    <2> DEFINE started == Started(Recovered, "extract", RecordKey(p))
    <2>1. manifest' = [started EXCEPT !["extract"].status = "FAILED"]
      BY <1>3 DEF RecordIncomplete
    <2>2. IsManifest(started) /\ \A s \in Stages \ {"extract"} : started[s] = Recovered[s]
      BY <1>0, StartedRecord DEF Softer
    <2>3. \A s \in Stages \ {"extract"} : manifest'[s] = started[s]
      BY <1>0, <2>1, <2>2, FailedRecord
    <2> QED BY <1>0, <2>2, <2>3 DEF KeepsLocked, Softer
  <1> QED BY <1>1, <1>2, <1>3

\* The record of a later stage.
LEMMA RecordWorking ==
    ASSUME Typed, Working, NEW p \in Workers,
           BeginRecord(p) \/ CompleteRecord(p) \/ RecordIncomplete(p)
    PROVE  Working'
  <1>0. Others(p) /\ KeepsLocked
    BY RecordTyped, RecordKeepsLocked
  <1>1. CompletedFilesStand' /\ RecordsTell'
    <2>1. UNCHANGED file
      BY DEF BeginRecord, CompleteRecord, RecordIncomplete
    <2> QED BY <1>0, <2>1, LockedKept DEF KeepsFiles
  <1>2. holder = NoOne \/ pc[p] \in Inside
    BY DEF BeginRecord, CompleteRecord, RecordIncomplete, Inside
  <1>3. Live(p)' /\ Keyed(p)' /\ Committed(p)'
    <2>1. CASE BeginRecord(p)
      <3>1. /\ Stage(p) \in Stages /\ pc'[p] = "recording" /\ UNCHANGED job
            /\ manifest' = Started(Recovered, Stage(p), RecordKey(p))
        BY <2>1, Going, Holding, StageOf DEF BeginRecord, Labels, Place
      <3>2. manifest'[Stage(p)].status = "RUNNING" /\ Stage(p)' = Stage(p)
        BY <3>1, Holding, SofterManifests, StartedRecord DEF Softer, Stage
      <3> QED BY <3>1, <3>2 DEF Live, Keyed, Committed
    <2>2. CASE CompleteRecord(p)
      <3>1. Behind(p, job[p])
        BY <2>2, Holding, Advances DEF CompleteRecord, Place
      <3> QED BY <3>1, BehindIsQuiet
    <2>3. CASE RecordIncomplete(p)
      <3> DEFINE j == [job[p] EXCEPT !.incomplete = TRUE]
      <3>1. DOMAIN j = JobFields /\ j.at = job[p].at /\ Advance(p, j) /\ pc[p] = "record"
        BY <2>3, Holding DEF RecordIncomplete, Place, JobFields
      <3>2. Behind(p, j)
        BY <3>1, Holding, Advances DEF Place
      <3> QED BY <3>2, BehindIsQuiet
    <2> QED BY <2>1, <2>2, <2>3
  <1> QED BY <1>0, <1>1, <1>2, <1>3, Exclusive, WorkingAlone

\* Any step of a run.
LEMMA StepWorking ==
    ASSUME Typed, Working, NEW p \in Workers, Start(p) \/ Run(p) \/ Stop(p)
    PROVE  Working'
  BY ApproachWorking, BeginWorking, CommitWorking, CompleteWorking, OtherWorking, RecordWorking
  DEF Run

-------------------------------------------------------------------------------
(* A run that no other overlaps. *)

SignalsOf(own) == <<own["audio"], own["activity"]>>
MapOf(own) == <<own["video"], SignalsOf(own), own["scout"]>>

\* The files of the stages before the n-th are those of the run's settings.
HasFiles(files, own, n) ==
    /\ n > 1 => files["source"] = own["source"]
    /\ n > 2 => files["video"] = own["video"] /\ files["audio"] = own["audio"]
    /\ n > 3 => files["activity"] = SignalsOf(own)
    /\ \A i \in 4..8 : i < n => files[Order[i]] = MapOf(own)

HasInHand(j, own, n) ==
    /\ n > 3 => j.activity = SignalsOf(own)
    /\ n > 4 => j.map = MapOf(own)

\* The stage that a run comes to next, or is at.
Ahead(p) == IF pc[p] = "locate" THEN 2 ELSE job[p].at

Alone(p) ==
    p \in alone =>
        /\ \A q \in Workers \ {p} : pc[q] = "idle"
        /\ pc[p] # "idle" =>
             /\ HasFiles(file, Own(p), Ahead(p))
             /\ HasInHand(job[p], Own(p), Ahead(p))
             /\ pc[p] \in {"record", "recording"} =>
                  file[Stage(p)] = MapOf(Own(p)) /\ job[p].map = MapOf(Own(p))

\* Initially no run is alone.
LEMMA InitAlone == Init => \A p \in Workers : Alone(p)
  BY DEF Init, Alone

\* Another run's step ends the solitude, or there is none.
LEMMA OthersAlone ==
    ASSUME Typed, NEW p \in Workers, NEW q \in Workers \ {p}, Alone(q),
           Start(p) \/ Run(p) \/ Stop(p)
    PROVE  Alone(q)'
  <1>1. CASE Start(p)
    <2>1. q \notin alone'
      BY <1>1 DEF Start
    <2> QED BY <2>1 DEF Alone
  <1>2. CASE Run(p) \/ Stop(p)
    <2>1. pc[p] # "idle" /\ alone' = alone
      BY <1>2 DEF Run, Stop, FastCache, NoFastCache, ReadKey, Enter, Hit, Begin, Commit, Fail,
         Complete, WriteLocator, Invalidate, Serve, Make, Delivers, KeepRecord, BeginRecord,
         CompleteRecord, RecordIncomplete
    <2> QED BY <2>1 DEF Alone
  <1> QED BY <1>1, <1>2

\* A run that goes on to the next stage.
LEMMA AdvanceAlone ==
    ASSUME Typed, NEW p \in Workers, Others(p), Alone(p), p \in alone, UNCHANGED alone,
           NEW j, Behind(p, j), DOMAIN j = JobFields, j.config = job[p].config,
           HasFiles(file', Own(p), j.at + 1), HasInHand(j, Own(p), j.at + 1)
    PROVE  Alone(p)'
  <1>1. \A q \in Workers \ {p} : pc'[q] = "idle"
    BY DEF Alone, Others
  <1>2. CASE pc'[p] = "idle"
    BY <1>1, <1>2 DEF Alone
  <1>3. CASE /\ pc'[p] = "invalidate" /\ job'[p] = [j EXCEPT !.committed = 0]
             /\ j.at = 1 /\ j.force # NoForce /\ ~j.invalidated
    <2>1. job'[p].at = 1
      BY <1>3 DEF JobFields
    <2>2. HasFiles(file', Own(p)', 1) /\ HasInHand(job'[p], Own(p)', 1)
      BY Indices DEF HasFiles, HasInHand
    <2> QED BY <1>1, <1>3, <2>1, <2>2 DEF Alone, Ahead
  <1>4. CASE pc'[p] \in {"key", "work"}
    <2>1. /\ job'[p].at = j.at + 1 /\ job'[p].config = j.config
          /\ job'[p].activity = j.activity /\ job'[p].map = j.map
      BY <1>4 DEF Behind
    <2>2. Own(p)' = Own(p) /\ Ahead(p)' = j.at + 1
      BY <1>4, <2>1 DEF Own, Ahead
    <2>3. HasInHand(job'[p], Own(p), j.at + 1)
      BY <2>1 DEF HasInHand
    <2> QED BY <1>1, <1>4, <2>2, <2>3 DEF Alone
  <1>5. \/ pc'[p] = "idle" \/ pc'[p] \in {"key", "work"}
        \/ /\ pc'[p] = "invalidate" /\ job'[p] = [j EXCEPT !.committed = 0]
           /\ j.at = 1 /\ j.force # NoForce /\ ~j.invalidated
    BY DEF Behind
  <1> QED BY <1>2, <1>3, <1>4, <1>5

\* A step within a stage.
LEMMA StayAlone ==
    ASSUME Typed, NEW p \in Workers, Others(p), Alone(p), p \in alone, UNCHANGED alone,
           pc[p] \notin {"idle", "locate"}, pc'[p] \notin {"locate", "record", "recording"},
           job'[p].at = job[p].at, job'[p].config = job[p].config,
           job'[p].activity = job[p].activity, job'[p].map = job[p].map,
           HasFiles(file', Own(p), job[p].at)
    PROVE  Alone(p)'
  <1>1. /\ \A q \in Workers \ {p} : pc'[q] = "idle"
        /\ Own(p)' = Own(p) /\ Ahead(p) = job[p].at /\ Ahead(p)' = job[p].at
    BY DEF Alone, Others, Own, Ahead
  <1>2. HasInHand(job'[p], Own(p), job[p].at)
    BY <1>1 DEF Alone, HasInHand
  <1> QED BY <1>1, <1>2 DEF Alone

\* A run that starts has nothing behind it.
LEMMA StartAlone ==
    ASSUME Typed, NEW p \in Workers, Start(p)
    PROVE  Alone(p)'
  <1>1. PICK k \in Configs, at \in Paths, force \in Forces :
          job' = [job EXCEPT ![p] = [NoJob EXCEPT !.config = k, !.path = at, !.force = force]]
    BY DEF Start
  <1>2. job'[p].at = 1 /\ pc'[p] = "fast"
    BY <1>1, Holding, Going DEF NoJob, Start, Labels
  <1>3. p \in alone' => \A q \in Workers \ {p} : pc'[q] = "idle"
    BY StartTyped DEF Start, Others
  <1> QED
    BY <1>2, <1>3, Indices DEF Alone, Ahead, HasFiles, HasInHand

\* Before the work of a stage under the lock.
LEMMA ApproachAlone ==
    ASSUME Typed, Working, NEW p \in Workers, Alone(p), p \in alone,
           FastCache(p) \/ NoFastCache(p) \/ ReadKey(p) \/ Enter(p) \/ Begin(p) \/ Hit(p)
             \/ Invalidate(p)
    PROVE  Alone(p)'
  <1>0. Others(p) /\ Place(p)
    BY ApproachTyped, Holding
  <1>1. CASE FastCache(p)
    <2>1. /\ pc[p] = "fast" /\ job[p].at = 1 /\ UNCHANGED <<file, alone>>
      BY <1>0, <1>1 DEF FastCache, Place
    <2>2. CASE Valid("ingest", KeyNow(p)) /\ manifest' = manifest /\ Advance(p, job[p])
      <3>1. KeyNow(p) = <<Own(p)["source"]>>
        BY <2>1, StageOf DEF KeyNow, Own
      <3>2. file["source"] = Own(p)["source"]
        BY <2>2, <3>1 DEF Valid, Working, RecordsTell
      <3>3. HasFiles(file', Own(p), 2) /\ HasInHand(job[p], Own(p), 2)
        BY <2>1, <3>2, Indices DEF HasFiles, HasInHand
      <3>4. Behind(p, job[p])
        BY <1>0, <2>1, <2>2, Advances DEF Place
      <3> QED BY <1>0, <2>1, <3>3, <3>4, AdvanceAlone DEF Place
    <2>3. CASE Goto(p, "key") /\ UNCHANGED job
      <3>1. pc'[p] = "key" /\ HasFiles(file', Own(p), job[p].at)
        BY <2>1, <2>3, Going, Indices DEF Labels, HasFiles
      <3> QED BY <1>0, <2>1, <2>3, <3>1, StayAlone
    <2> QED BY <1>1, <2>2, <2>3 DEF FastCache
  <1>2. CASE NoFastCache(p) \/ ReadKey(p) \/ Enter(p)
    <2>1. /\ pc[p] \in {"fast", "key", "enter"} /\ pc'[p] \in {"key", "enter", "begin"}
          /\ UNCHANGED <<file, alone>>
      BY <1>0, <1>2, Going DEF NoFastCache, ReadKey, Enter, Labels
    <2>2. /\ job'[p].at = job[p].at /\ job'[p].config = job[p].config
          /\ job'[p].activity = job[p].activity /\ job'[p].map = job[p].map
      BY <1>0, <1>2, Holding DEF NoFastCache, ReadKey, Enter, Place, JobFields
    <2>3. HasFiles(file', Own(p), job[p].at)
      BY <2>1 DEF Alone, Ahead
    <2> QED BY <1>0, <2>1, <2>2, <2>3, StayAlone
  <1>3. CASE Begin(p)
    <2>1. pc[p] = "begin" /\ pc'[p] = "commit" /\ UNCHANGED <<file, job, alone>>
      BY <1>3, Going DEF Begin, Labels
    <2>2. HasFiles(file', Own(p), job[p].at)
      BY <2>1 DEF Alone, Ahead
    <2> QED BY <1>0, <2>1, <2>2, StayAlone
  <1>4. CASE Hit(p)
    <2>1. /\ pc[p] = "begin" /\ job[p].at \in 1..3 /\ Valid(Stage(p), job[p].key)
          /\ UNCHANGED <<manifest, file, alone>> /\ Advance(p, Returned(p))
      BY <1>0, <1>4 DEF Hit, IsHit, Place
    <2>2. /\ DOMAIN Returned(p) = JobFields /\ Returned(p).at = job[p].at
          /\ Returned(p).config = job[p].config
          /\ job[p].at = 3 => Returned(p).activity = file["activity"]
      BY <1>0, StageOf DEF Returned, Place, JobFields
    <2>3. Behind(p, Returned(p))
      BY <1>0, <2>1, <2>2, Advances DEF Place
    <2>4. Keyed(p) /\ HasFiles(file, Own(p), job[p].at)
      BY <2>1 DEF Working, Alone, Ahead
    <2>5. /\ job[p].at = 1 => file["source"] = Own(p)["source"]
          /\ job[p].at = 2 => file["video"] = Own(p)["video"] /\ file["audio"] = Own(p)["audio"]
          /\ job[p].at = 3 => file["activity"] = SignalsOf(Own(p))
      <3>1. CASE job[p].at = 1
        BY <2>1, <2>4, <3>1, StageOf DEF Valid, Working, RecordsTell, Keyed
      <3>2. CASE job[p].at = 2
        BY <2>1, <2>4, <3>2, StageOf DEF Valid, Working, RecordsTell, Keyed
      <3>3. CASE job[p].at = 3
        BY <2>1, <2>4, <3>3, StageOf DEF Valid, Working, RecordsTell, Keyed, HasFiles, SignalsOf
      <3> QED BY <2>1, <3>1, <3>2, <3>3, Indices
    <2>6. HasFiles(file', Own(p), job[p].at + 1) /\ HasInHand(Returned(p), Own(p), job[p].at + 1)
      BY <2>1, <2>2, <2>4, <2>5, Indices DEF HasFiles, HasInHand
    <2> QED BY <1>0, <2>1, <2>2, <2>3, <2>6, AdvanceAlone
  <1>5. CASE Invalidate(p)
    <2>1. /\ pc[p] = "invalidate" /\ pc'[p] = "fast" /\ UNCHANGED <<file, alone>>
          /\ job'[p].at = 1
      BY <1>0, <1>5, Going, Holding DEF Invalidate, Labels, Place, JobFields
    <2>2. HasFiles(file', Own(p)', 1) /\ HasInHand(job'[p], Own(p)', 1)
      BY Indices DEF HasFiles, HasInHand
    <2> QED BY <1>0, <2>1, <2>2 DEF Alone, Ahead, Others
  <1> QED BY <1>1, <1>2, <1>3, <1>4, <1>5

\* The work of a stage under the lock.
LEMMA WorkAlone ==
    ASSUME Typed, Working, NEW p \in Workers, Alone(p), p \in alone,
           Commit(p) \/ Complete(p) \/ WriteLocator(p)
    PROVE  Alone(p)'
  <1>0. Others(p) /\ Place(p)
    BY WorkTyped, Holding
  <1>1. CASE Commit(p)
    <2> DEFINE f == Outputs(Stage(p))[job[p].committed + 1]
    <2>1. /\ pc[p] = "commit" /\ UNCHANGED <<pc, alone>> /\ job[p].at \in 1..3
          /\ file' = [file EXCEPT ![f] = Made(p, f)]
          /\ job'[p] = [job[p] EXCEPT !.committed = job[p].committed + 1]
          /\ job[p].committed < Len(Outputs(Stage(p)))
          /\ job[p].committed \in 0..Len(Outputs(Stage(p)))
      BY <1>0, <1>1, Holding DEF Commit, Place
    <2>2. /\ job'[p].at = job[p].at /\ job'[p].config = job[p].config
          /\ job'[p].activity = job[p].activity /\ job'[p].map = job[p].map
      BY <1>0, <2>1 DEF Place, JobFields
    <2>3. /\ job[p].at = 2 => f \in {"video", "audio"}
          /\ job[p].at = 3 => f = "activity"
      BY <2>1, StageOf, StageOutputs
    <2>4. HasFiles(file', Own(p), job[p].at)
      <3>1. HasFiles(file, Own(p), job[p].at)
        BY <2>1 DEF Alone, Ahead
      <3>2. \A g \in {"source", "video", "audio"} : g # f => file'[g] = file[g]
        BY <2>1, Holding DEF Files
      <3> QED BY <2>1, <2>3, <3>1, <3>2, Indices DEF HasFiles
    <2> QED BY <1>0, <2>1, <2>2, <2>4, StayAlone
  <1>2. CASE Complete(p)
    <2>1. /\ pc[p] = "commit" /\ UNCHANGED <<file, alone>>
          /\ job[p].at \in 1..3 /\ job[p].committed = Len(Outputs(Stage(p)))
      BY <1>0, <1>2 DEF Complete, Place
    <2>2. HasFiles(file, Own(p), job[p].at) /\ Committed(p)
      BY <2>1 DEF Working, Alone, Ahead
    <2>3. /\ job[p].at = 1 => file["source"] = Own(p)["source"]
          /\ job[p].at = 2 => file["video"] = Own(p)["video"] /\ file["audio"] = Own(p)["audio"]
          /\ job[p].at = 3 => file["activity"] = SignalsOf(Own(p))
      <3>1. CASE job[p].at = 1
        BY <2>1, <2>2, <3>1, StageOf, StageOutputs DEF Committed
      <3>2. CASE job[p].at = 2
        BY <2>1, <2>2, <3>2, StageOf, StageOutputs DEF Committed
      <3>3. CASE job[p].at = 3
        BY <2>1, <2>2, <3>3, StageOf, StageOutputs DEF Committed, HasFiles, SignalsOf
      <3> QED BY <2>1, <3>1, <3>2, <3>3, Indices
    <2>4. HasFiles(file', Own(p), job[p].at + 1)
      BY <2>1, <2>2, <2>3, Indices DEF HasFiles
    <2>5. CASE Stage(p) = "ingest"
      <3>1. pc'[p] = "locate" /\ UNCHANGED job /\ job[p].at = 1
        BY <1>2, <2>1, <2>5, Going, StageNames, Indices DEF Complete, Labels, Stage
      <3>2. HasInHand(job'[p], Own(p)', 2) /\ Own(p)' = Own(p) /\ Ahead(p)' = 2
        BY <3>1 DEF HasInHand, Own, Ahead
      <3> QED BY <1>0, <2>1, <2>4, <3>1, <3>2 DEF Alone, Others
    <2>6. CASE Stage(p) # "ingest"
      <3>1. Advance(p, Returned(p))
        BY <1>2, <2>6 DEF Complete
      <3>2. /\ DOMAIN Returned(p) = JobFields /\ Returned(p).at = job[p].at
            /\ Returned(p).config = job[p].config
            /\ job[p].at = 3 => Returned(p).activity = file["activity"]
        BY <1>0, StageOf DEF Returned, Place, JobFields
      <3>3. Behind(p, Returned(p))
        BY <1>0, <2>1, <3>1, <3>2, Advances DEF Place
      <3>4. HasInHand(Returned(p), Own(p), job[p].at + 1)
        BY <2>1, <2>3, <3>2, Indices DEF HasInHand
      <3> QED BY <1>0, <2>1, <2>4, <3>2, <3>3, <3>4, AdvanceAlone
    <2> QED BY <2>5, <2>6
  <1>3. CASE WriteLocator(p)
    <2>1. /\ pc[p] = "locate" /\ job[p].at = 1 /\ UNCHANGED <<file, alone>>
          /\ Advance(p, job[p])
      BY <1>0, <1>3 DEF WriteLocator, Place
    <2>2. Behind(p, job[p])
      BY <1>0, <2>1, Advances DEF Place
    <2>3. HasFiles(file', Own(p), job[p].at + 1) /\ HasInHand(job[p], Own(p), job[p].at + 1)
      BY <2>1 DEF Alone, Ahead
    <2> QED BY <1>0, <2>1, <2>2, <2>3, AdvanceAlone DEF Place
  <1> QED BY <1>1, <1>2, <1>3

\* A later stage that is done.
LEMMA RecordedAlone ==
    ASSUME Typed, NEW p \in Workers, Alone(p), p \in alone, Others(p),
           pc[p] \in {"record", "recording"}, NEW j, Advance(p, j), UNCHANGED <<file, alone>>,
           DOMAIN j = JobFields, j.at = job[p].at, j.config = job[p].config,
           j.activity = job[p].activity, j.map = job[p].map
    PROVE  Alone(p)'
  <1>1. /\ Place(p) /\ job[p].at \in 4..8 /\ Stage(p) = Order[job[p].at]
    BY Holding DEF Place, Stage
  <1>2. /\ HasFiles(file, Own(p), job[p].at) /\ HasInHand(job[p], Own(p), job[p].at)
        /\ file[Stage(p)] = MapOf(Own(p)) /\ job[p].map = MapOf(Own(p))
    BY DEF Alone, Ahead
  <1>3. Behind(p, j)
    BY <1>1, Advances DEF Place
  <1>4. HasFiles(file', Own(p), j.at + 1)
    <2>1. \A i \in 4..8 : i < j.at + 1 => i < job[p].at \/ i = job[p].at
      BY <1>1
    <2> QED BY <1>1, <1>2, <2>1 DEF HasFiles
  <1>5. HasInHand(j, Own(p), j.at + 1)
    BY <1>1, <1>2 DEF HasInHand
  <1> QED BY <1>3, <1>4, <1>5, AdvanceAlone

\* The later stages.
LEMMA RecordAlone ==
    ASSUME Typed, NEW p \in Workers, Alone(p), p \in alone,
           Serve(p) \/ Make(p) \/ KeepRecord(p) \/ BeginRecord(p) \/ CompleteRecord(p)
             \/ RecordIncomplete(p)
    PROVE  Alone(p)'
  <1>0. Others(p) /\ Place(p)
    BY RecordTyped, Holding
  <1>1. CASE Serve(p) \/ Make(p)
    <2>1. /\ pc[p] = "work" /\ pc'[p] = "record" /\ UNCHANGED alone
          /\ job[p].at \in 4..8 /\ Stage(p) \in RecordedStages /\ Stage(p) = Order[job[p].at]
          /\ file'[Stage(p)] = Content(p) /\ \A g \in Files \ {Stage(p)} : file'[g] = file[g]
          /\ job'[p] = [job[p] EXCEPT !.map = Content(p)]
      BY <1>0, <1>1, Going, Holding, Delivered DEF Labels, Place, Stage
    <2>2. HasFiles(file, Own(p), job[p].at) /\ HasInHand(job[p], Own(p), job[p].at)
      BY <2>1 DEF Alone, Ahead
    <2>3. Content(p) = MapOf(Own(p))
      <3>1. CASE job[p].at = 4
        <4>1. Stage(p) = "scout"
          BY <2>1, <3>1, StageNames
        <4> QED BY <2>2, <3>1, <4>1 DEF Content, MapOf, HasFiles, HasInHand, Own
      <3>2. CASE job[p].at # 4
        <4>1. Stage(p) # "scout"
          BY <2>1, <3>2, StageNames, Indices
        <4> QED BY <2>1, <2>2, <3>2, <4>1 DEF Content, HasInHand
      <3> QED BY <3>1, <3>2
    <2>4. /\ job'[p].at = job[p].at /\ job'[p].config = job[p].config
          /\ job'[p].activity = job[p].activity /\ job'[p].map = MapOf(Own(p))
      BY <1>0, <2>1, <2>3 DEF Place, JobFields
    <2>5. Own(p)' = Own(p) /\ Ahead(p)' = job[p].at /\ Stage(p)' = Stage(p)
      BY <2>1, <2>4 DEF Own, Ahead, Stage
    <2>6. HasInHand(job'[p], Own(p), job[p].at)
      BY <2>2, <2>4 DEF HasInHand
    <2>7. /\ file'[Stage(p)] = MapOf(Own(p))
          /\ \A g \in Files : g # Stage(p) => file'[g] = file[g]
      BY <2>1, <2>3
    <2>8. HasFiles(file', Own(p), job[p].at)
      <3>1. \A i \in 4..8 : i < job[p].at => Order[i] # Stage(p) /\ Order[i] \in Files
        <4>1. \A i \in 4..8 : i \in 1..8 /\ Order[i] \in RecordedStages
          BY StageNames, Indices
        <4> QED BY <2>1, <4>1, Positions DEF Files
      <3>2. {"source", "video", "audio", "activity"} \subseteq Files \ {Stage(p)}
        BY <2>1, StageNames DEF Files
      <3> QED BY <2>2, <2>7, <3>1, <3>2 DEF HasFiles
    <2> QED BY <1>0, <2>1, <2>4, <2>5, <2>6, <2>7, <2>8 DEF Alone, Others
  <1>2. CASE KeepRecord(p)
    BY <1>0, <1>2, RecordedAlone DEF KeepRecord, Place
  <1>3. CASE BeginRecord(p)
    <2>1. pc[p] = "record" /\ pc'[p] = "recording" /\ UNCHANGED <<file, job, alone>>
      BY <1>3, Going DEF BeginRecord, Labels
    <2>2. Own(p)' = Own(p) /\ Ahead(p)' = Ahead(p) /\ Stage(p)' = Stage(p)
      BY <2>1 DEF Own, Ahead, Stage
    <2> QED BY <1>0, <2>1, <2>2 DEF Alone, Others
  <1>4. CASE CompleteRecord(p)
    BY <1>0, <1>4, RecordedAlone DEF CompleteRecord, Place
  <1>5. CASE RecordIncomplete(p)
    <2> DEFINE j == [job[p] EXCEPT !.incomplete = TRUE]
    <2>1. pc[p] = "record" /\ UNCHANGED <<file, alone>> /\ Advance(p, j)
      BY <1>5 DEF RecordIncomplete
    <2>2. /\ DOMAIN j = JobFields /\ j.at = job[p].at /\ j.config = job[p].config
          /\ j.activity = job[p].activity /\ j.map = job[p].map
      BY <1>0 DEF Place, JobFields
    <2> QED BY <1>0, <2>1, <2>2, RecordedAlone
  <1> QED BY <1>1, <1>2, <1>3, <1>4, <1>5

\* The end of a run.
LEMMA EndAlone ==
    ASSUME Typed, NEW p \in Workers, Alone(p), Stop(p) \/ Fail(p)
    PROVE  Alone(p)'
  <1>1. Others(p) /\ pc'[p] = "idle" /\ UNCHANGED alone
    BY Ending DEF Stop, Fail
  <1> QED BY <1>1 DEF Alone, Others

\* Any step of a run, for this run and the others.
LEMMA StepAlone ==
    ASSUME Typed, Working, NEW p \in Workers, Start(p) \/ Run(p) \/ Stop(p),
           \A q \in Workers : Alone(q)
    PROVE  \A q \in Workers : Alone(q)'
  <1>1. \A q \in Workers \ {p} : Alone(q)'
    BY OthersAlone
  <1>2. CASE p \in alone
    BY <1>1, <1>2, StartAlone, ApproachAlone, WorkAlone, RecordAlone, EndAlone DEF Run
  <1>3. CASE p \notin alone /\ ~Start(p)
    <2>1. alone' = alone
      BY <1>3 DEF Run, Stop, FastCache, NoFastCache, ReadKey, Enter, Hit, Begin, Commit, Fail,
         Complete, WriteLocator, Invalidate, Serve, Make, Delivers, KeepRecord, BeginRecord,
         CompleteRecord, RecordIncomplete
    <2> QED BY <1>1, <1>3, <2>1 DEF Alone
  <1> QED BY <1>1, <1>2, <1>3, StartAlone

-------------------------------------------------------------------------------
(* What --force-stage marked. *)

\* The stages before this one are made or served.
Reached(p) == IF pc[p] \in {"record", "recording"} THEN job[p].at + 1 ELSE job[p].at

\* A run that has made all of its stage has made what was marked, and a run that
\* none overlaps has left marked only what it may serve.
Finished(p) ==
    /\ pc[p] = "commit" /\ job[p].committed = Len(Outputs(Stage(p))) => Stage(p) \notin owed
    /\ pc[p] = "locate" => "ingest" \notin owed
Leaves(p) ==
    p \in alone /\ job[p].invalidated =>
        \A s \in owed : Position(s) < Reached(p) => s \in Servable(job[p].force)

Unmade == \A s \in owed \cap LockedStages : manifest[s].status # "COMPLETED"

Owing == Unmade /\ \A p \in Workers : Finished(p) /\ Leaves(p)

\* Initially nothing is marked.
LEMMA InitOwing == Init => Owing
  BY DEF Init, Owing, Unmade, Finished, Leaves, NoJob

\* Another run's step that marks nothing more.
LEMMA OthersOwing ==
    ASSUME Typed, Owing, NEW p \in Workers, Others(p), owed' \subseteq owed,
           NEW q \in Workers \ {p}, q \in alone' => q \in alone
    PROVE  Finished(q)' /\ Leaves(q)'
  <1>1. pc'[q] = pc[q] /\ job'[q] = job[q] /\ Stage(q)' = Stage(q) /\ Finished(q) /\ Leaves(q)
    BY DEF Others, Stage, Owing
  <1>2. Reached(q)' = Reached(q)
    BY <1>1 DEF Reached
  <1> QED BY <1>1, <1>2 DEF Finished, Leaves

\* A step of p that marks nothing more and completes no marked stage.
LEMMA OwingBy ==
    ASSUME Typed, Owing, NEW p \in Workers, Others(p), owed' \subseteq owed,
           alone' \ {p} \subseteq alone, Finished(p)', Leaves(p)',
           \A s \in owed' \cap LockedStages :
              manifest'[s].status = "COMPLETED" => manifest[s].status = "COMPLETED"
    PROVE  Owing'
  <1>1. \A q \in Workers \ {p} : Finished(q)' /\ Leaves(q)'
    BY OthersOwing
  <1>2. Unmade'
    BY DEF Owing, Unmade
  <1> QED BY <1>1, <1>2 DEF Owing

\* A step within a stage, before its work is done.
LEMMA StayOwing ==
    ASSUME Typed, Owing, NEW p \in Workers, owed' \subseteq owed, UNCHANGED alone,
           pc'[p] \notin {"commit", "locate", "record", "recording"},
           pc[p] \notin {"record", "recording"},
           job'[p].at = job[p].at, job'[p].force = job[p].force,
           job'[p].invalidated = job[p].invalidated
    PROVE  Finished(p)' /\ Leaves(p)'
  BY DEF Owing, Finished, Leaves, Reached

\* The end of a run.
LEMMA EndOwing ==
    ASSUME NEW p, pc'[p] = "idle", job'[p] = NoJob
    PROVE  Finished(p)' /\ Leaves(p)'
  BY DEF Finished, Leaves, NoJob

\* A run that goes on to the next stage.
LEMMA AdvanceOwing ==
    ASSUME Typed, Owing, NEW p \in Workers, UNCHANGED <<alone, owed>>,
           NEW j, Behind(p, j), DOMAIN j = JobFields, j.at = job[p].at,
           j.force = job[p].force, j.invalidated = job[p].invalidated,
           job[p].at \in 1..8,
           p \in alone /\ job[p].invalidated /\ Stage(p) \in owed =>
              Stage(p) \in Servable(job[p].force)
    PROVE  Finished(p)' /\ Leaves(p)'
  <1>1. CASE pc'[p] = "idle" /\ job'[p] = NoJob
    BY <1>1, EndOwing
  <1>2. CASE /\ pc'[p] = "invalidate" /\ job'[p] = [j EXCEPT !.committed = 0]
             /\ j.at = 1 /\ j.force # NoForce /\ ~j.invalidated
    <2>1. ~job'[p].invalidated
      BY <1>2 DEF JobFields
    <2> QED BY <1>2, <2>1 DEF Finished, Leaves
  <1>3. CASE pc'[p] \in {"key", "work"}
    <2>1. /\ job'[p].at = j.at + 1 /\ job'[p].force = j.force
          /\ job'[p].invalidated = j.invalidated /\ Reached(p)' = job[p].at + 1
      BY <1>3 DEF Behind, Reached
    <2>2. ASSUME NEW s \in owed, Position(s) < job[p].at + 1
          PROVE  Position(s) < job[p].at \/ s = Stage(p)
      <3>1. Position(s) \in 1..8 /\ s = Order[Position(s)]
        BY Holding, Placed
      <3> QED BY <2>2, <3>1 DEF Stage
    <2>3. p \in alone /\ job[p].invalidated =>
             \A s \in owed : Position(s) < job[p].at => s \in Servable(job[p].force)
      <3>1. Reached(p) \in {job[p].at, job[p].at + 1}
        BY DEF Reached
      <3>2. \A s \in owed : Position(s) \in 1..8
        BY Holding, Placed
      <3> QED BY <3>1, <3>2 DEF Owing, Leaves
    <2> QED BY <1>3, <2>1, <2>2, <2>3 DEF Finished, Leaves
  <1> QED BY <1>1, <1>2, <1>3 DEF Behind

\* The stages under the lock, up to the first commit.
LEMMA ApproachOwing ==
    ASSUME Typed, Owing, NEW p \in Workers,
           FastCache(p) \/ NoFastCache(p) \/ ReadKey(p) \/ Enter(p) \/ Hit(p) \/ Begin(p)
    PROVE  Owing'
  <1>0. /\ Others(p) /\ Place(p) /\ LockedStages \subseteq Stages
        /\ Softer(manifest) /\ Softer(Recovered)
        /\ \A S : Softer(Restatus({"COMPLETED"}, "STALE", S))
    BY ApproachTyped, Holding, SofterManifests, StageNames
  <1>1. UNCHANGED <<alone, owed>>
    BY DEF FastCache, NoFastCache, ReadKey, Enter, Hit, Begin
  <1>2. CASE FastCache(p)
    <2>1. pc[p] = "fast" /\ Softer(manifest') /\ job[p].at = 1
      BY <1>0, <1>2 DEF FastCache, Place
    <2>2. Finished(p)' /\ Leaves(p)'
      <3>1. CASE Goto(p, "key") /\ UNCHANGED job
        <4>1. pc'[p] = "key"
          BY <3>1, Going DEF Labels
        <4> QED BY <1>1, <2>1, <3>1, <4>1, StayOwing
      <3>2. CASE Valid("ingest", KeyNow(p)) /\ Advance(p, job[p])
        <4>1. Behind(p, job[p])
          BY <1>0, <2>1, <3>2, Advances DEF Place
        <4>2. Stage(p) \notin owed
          BY <2>1, <3>2, StageOf, StageNames DEF Valid, Owing, Unmade
        <4> QED BY <1>0, <1>1, <2>1, <4>1, <4>2, AdvanceOwing DEF Place
      <3> QED BY <1>2, <3>1, <3>2 DEF FastCache
    <2> QED BY <1>0, <1>1, <2>1, <2>2, OwingBy DEF Softer
  <1>3. CASE NoFastCache(p) \/ ReadKey(p) \/ Enter(p)
    <2>1. /\ pc[p] \in {"fast", "key", "enter"} /\ pc'[p] \in {"key", "enter", "begin"}
          /\ Softer(manifest')
      BY <1>0, <1>3, Going DEF NoFastCache, ReadKey, Enter, Labels
    <2>2. /\ job'[p].at = job[p].at /\ job'[p].force = job[p].force
          /\ job'[p].invalidated = job[p].invalidated
      BY <1>0, <1>3, Holding DEF NoFastCache, ReadKey, Enter, Place, JobFields
    <2>3. Finished(p)' /\ Leaves(p)'
      BY <1>1, <2>1, <2>2, StayOwing
    <2> QED BY <1>0, <1>1, <2>1, <2>3, OwingBy DEF Softer
  <1>4. CASE Hit(p)
    <2>1. /\ pc[p] = "begin" /\ job[p].at \in 1..3 /\ Valid(Stage(p), job[p].key)
          /\ UNCHANGED manifest /\ Advance(p, Returned(p))
      BY <1>0, <1>4 DEF Hit, IsHit, Place
    <2>2. /\ DOMAIN Returned(p) = JobFields /\ Returned(p).at = job[p].at
          /\ Returned(p).force = job[p].force /\ Returned(p).invalidated = job[p].invalidated
      BY <1>0 DEF Returned, Place, JobFields
    <2>3. Behind(p, Returned(p)) /\ Stage(p) \notin owed
      BY <1>0, <2>1, <2>2, Advances, StageOf DEF Place, Valid, Owing, Unmade
    <2>4. Finished(p)' /\ Leaves(p)'
      BY <1>1, <2>1, <2>2, <2>3, Indices, AdvanceOwing
    <2> QED BY <1>0, <1>1, <2>1, <2>4, OwingBy
  <1>5. CASE Begin(p)
    <2>1. /\ pc[p] = "begin" /\ pc'[p] = "commit" /\ UNCHANGED job /\ Stage(p) \in LockedStages
          /\ manifest' = Started(Restaled(p), Stage(p), job[p].key) /\ job[p].committed = 0
      BY <1>0, <1>5, Going, StageOf DEF Begin, Labels, Place
    <2>2. Softer(Restaled(p))
      BY <1>0 DEF Restaled
    <2>3. \A s \in Stages : manifest'[s].status = "COMPLETED" => manifest[s].status = "COMPLETED"
      BY <1>0, <2>1, <2>2, StartedRecord DEF Softer
    <2>4. Len(Outputs(Stage(p))) # 0 /\ Stage(p)' = Stage(p)
      BY <2>1, StageOutputs, StageNames DEF Stage
    <2>5. Finished(p)' /\ Leaves(p)'
      BY <1>1, <2>1, <2>4 DEF Owing, Finished, Leaves, Reached
    <2> QED BY <1>0, <1>1, <2>3, <2>5, OwingBy
  <1> QED BY <1>2, <1>3, <1>4, <1>5

\* A stage and all behind it are marked.
LEMMA InvalidateOwing ==
    ASSUME Typed, Owing, NEW p \in Workers, Alone(p), \A q \in Workers : Alone(q), Invalidate(p)
    PROVE  Owing'
  <1>1. /\ Others(p) /\ Place(p) /\ IsManifest(manifest) /\ owed \subseteq Stages
        /\ holder = NoOne /\ UNCHANGED alone /\ pc[p] = "invalidate" /\ pc'[p] = "fast"
        /\ manifest' = InvalidateFrom(job[p].force) /\ owed' = owed \cup FromOn(job[p].force)
        /\ job'[p] = [job[p] EXCEPT !.invalidated = TRUE]
    BY ApproachTyped, Holding, Going DEF Invalidate, Labels
  <1>2. Unmade'
    <2>1. Softer(manifest') /\ LockedStages \subseteq Stages
      BY <1>1, SofterManifests, StageNames
    <2>2. \A s \in FromOn(job[p].force) : manifest'[s].status # "COMPLETED"
      BY <1>1 DEF InvalidateFrom, Restatus, IsManifest, RecordFields, FromOn
    <2> QED BY <1>1, <2>1, <2>2 DEF Owing, Unmade, Softer
  <1>3. ASSUME NEW q \in Workers \ {p} PROVE Finished(q)' /\ Leaves(q)'
    <2>1. pc'[q] = pc[q] /\ pc[q] \notin Inside
      BY <1>1, <1>3, Exclusive DEF Others
    <2>2. q \notin alone
      BY <1>1 DEF Alone
    <2> QED BY <1>1, <2>1, <2>2 DEF Finished, Leaves, Inside
  <1>4. Finished(p)' /\ Leaves(p)'
    <2>1. Reached(p)' = 1
      BY <1>1 DEF Reached, Place, JobFields
    <2>2. \A s \in owed' : Position(s) \in 1..8
      BY <1>1, Placed DEF FromOn
    <2> QED BY <1>1, <2>1, <2>2 DEF Finished, Leaves
  <1> QED BY <1>2, <1>3, <1>4 DEF Owing

\* The work of a stage under the lock.
LEMMA WorkOwing ==
    ASSUME Typed, Owing, NEW p \in Workers, Commit(p) \/ Complete(p) \/ WriteLocator(p)
    PROVE  Owing'
  <1>0. /\ Others(p) /\ Place(p) /\ IsManifest(manifest) /\ LockedStages \subseteq Stages
        /\ UNCHANGED alone
    BY WorkTyped, Holding, StageNames DEF Commit, Complete, WriteLocator
  <1>1. CASE Commit(p)
    <2>1. /\ pc[p] = "commit" /\ UNCHANGED <<pc, manifest>>
          /\ job'[p] = [job[p] EXCEPT !.committed = job[p].committed + 1]
          /\ owed' = IF job[p].committed + 1 = Len(Outputs(Stage(p)))
                     THEN owed \ {Stage(p)} ELSE owed
      BY <1>0, <1>1, Holding DEF Commit
    <2>2. /\ job'[p].at = job[p].at /\ job'[p].force = job[p].force
          /\ job'[p].invalidated = job[p].invalidated
          /\ job'[p].committed = job[p].committed + 1
      BY <1>0, <2>1 DEF Place, JobFields
    <2>3. Stage(p)' = Stage(p) /\ Reached(p)' = Reached(p)
      BY <2>1, <2>2 DEF Stage, Reached
    <2>4. Finished(p)'
      BY <2>1, <2>2, <2>3 DEF Finished
    <2>5. Leaves(p)'
      BY <1>0, <2>1, <2>2, <2>3 DEF Owing, Leaves
    <2> QED BY <1>0, <2>1, <2>4, <2>5, OwingBy
  <1>2. CASE Complete(p)
    <2>1. /\ pc[p] = "commit" /\ job[p].at \in 1..3 /\ UNCHANGED owed
          /\ Stage(p) \in Stages /\ Stage(p) \notin owed /\ manifest' = Completed(Stage(p))
      BY <1>0, <1>2, StageOf DEF Complete, Place, Owing, Finished
    <2>2. \A s \in Stages \ {Stage(p)} : manifest'[s] = manifest[s]
      BY <1>0, <2>1, CompletedRecord
    <2>3. Finished(p)' /\ Leaves(p)'
      <3>1. CASE Stage(p) = "ingest"
        <4>1. pc'[p] = "locate" /\ UNCHANGED job
          BY <1>2, <3>1, Going DEF Complete, Labels
        <4> QED BY <1>0, <2>1, <3>1, <4>1 DEF Finished, Owing, Leaves, Reached
      <3>2. CASE Stage(p) # "ingest"
        <4>1. /\ DOMAIN Returned(p) = JobFields /\ Returned(p).at = job[p].at
              /\ Returned(p).force = job[p].force
              /\ Returned(p).invalidated = job[p].invalidated /\ Advance(p, Returned(p))
          BY <1>0, <1>2, <3>2 DEF Complete, Returned, Place, JobFields
        <4>2. Behind(p, Returned(p))
          BY <1>0, <2>1, <4>1, Advances DEF Place
        <4> QED BY <1>0, <2>1, <4>1, <4>2, Indices, AdvanceOwing
      <3> QED BY <3>1, <3>2
    <2> QED BY <1>0, <2>1, <2>2, <2>3, OwingBy
  <1>3. CASE WriteLocator(p)
    <2>1. /\ pc[p] = "locate" /\ job[p].at = 1 /\ UNCHANGED <<manifest, owed>>
          /\ Advance(p, job[p])
      BY <1>0, <1>3 DEF WriteLocator, Place
    <2>2. Behind(p, job[p]) /\ Stage(p) \notin owed
      BY <1>0, <2>1, Advances, StageOf DEF Place, Owing, Finished
    <2>3. Finished(p)' /\ Leaves(p)'
      BY <1>0, <2>1, <2>2, AdvanceOwing DEF Place
    <2> QED BY <1>0, <2>1, <2>3, OwingBy
  <1> QED BY <1>1, <1>2, <1>3

\* The later stages.
LEMMA RecordOwing ==
    ASSUME Typed, Owing, NEW p \in Workers,
           Serve(p) \/ Make(p) \/ KeepRecord(p) \/ BeginRecord(p) \/ CompleteRecord(p)
             \/ RecordIncomplete(p)
    PROVE  Owing'
  <1>0. /\ Others(p) /\ Place(p) /\ UNCHANGED alone
    BY RecordTyped, Holding
       DEF Serve, Make, Delivers, KeepRecord, BeginRecord, CompleteRecord, RecordIncomplete
  <1>1. CASE Serve(p) \/ Make(p)
    <2>1. /\ pc[p] = "work" /\ pc'[p] = "record" /\ UNCHANGED manifest /\ owed' \subseteq owed
          /\ job'[p] = [job[p] EXCEPT !.map = Content(p)] /\ job[p].at \in 4..8
      BY <1>0, <1>1, Going, Holding, Delivered DEF Labels, Place
    <2>2. Stage(p) \notin owed' \/ Stage(p) \in Servable(job[p].force)
      BY <1>1 DEF Serve, Make, HasItems
    <2>3. /\ job'[p].at = job[p].at /\ job'[p].force = job[p].force
          /\ job'[p].invalidated = job[p].invalidated
      BY <1>0, <2>1 DEF Place, JobFields
    <2>4. ASSUME NEW s \in owed', Position(s) < job[p].at + 1
          PROVE  Position(s) < job[p].at \/ s = Stage(p)
      <3>1. s \in Stages
        BY <2>1, Holding
      <3>2. Position(s) \in 1..8 /\ s = Order[Position(s)]
        BY <3>1, Placed
      <3> QED BY <2>1, <2>4, <3>2 DEF Stage
    <2>5. Finished(p)' /\ Leaves(p)'
      BY <1>0, <2>1, <2>2, <2>3, <2>4 DEF Finished, Leaves, Owing, Reached
    <2> QED BY <1>0, <2>1, <2>5, OwingBy
  <1>2. CASE BeginRecord(p)
    <2>1. pc[p] = "record" /\ pc'[p] = "recording" /\ UNCHANGED <<job, owed>>
      BY <1>2, Going DEF BeginRecord, Labels
    <2>2. Finished(p)' /\ Leaves(p)'
      BY <1>0, <2>1 DEF Finished, Leaves, Owing, Reached
    <2> QED BY <1>0, <1>2, <2>1, <2>2, RecordKeepsLocked, OwingBy DEF KeepsLocked
  <1>3. CASE KeepRecord(p) \/ CompleteRecord(p) \/ RecordIncomplete(p)
    <2>1. PICK j : /\ Advance(p, j) /\ DOMAIN j = JobFields /\ j.at = job[p].at
                   /\ j.force = job[p].force /\ j.invalidated = job[p].invalidated
      <3>1. CASE KeepRecord(p) \/ CompleteRecord(p)
        BY <1>0, <3>1 DEF KeepRecord, CompleteRecord, Place
      <3>2. CASE RecordIncomplete(p)
        <4> DEFINE j == [job[p] EXCEPT !.incomplete = TRUE]
        <4>1. /\ Advance(p, j) /\ DOMAIN j = JobFields /\ j.at = job[p].at
              /\ j.force = job[p].force /\ j.invalidated = job[p].invalidated
          BY <1>0, <3>2 DEF RecordIncomplete, Place, JobFields
        <4> QED BY <4>1
      <3> QED BY <1>3, <3>1, <3>2
    <2>2. pc[p] \in {"record", "recording"} /\ UNCHANGED owed /\ job[p].at \in 4..8
      BY <1>0, <1>3 DEF KeepRecord, CompleteRecord, RecordIncomplete, Place
    <2>3. Behind(p, j)
      BY <1>0, <2>1, <2>2, Advances DEF Place
    <2>4. p \in alone /\ job[p].invalidated /\ Stage(p) \in owed =>
             Stage(p) \in Servable(job[p].force)
      BY <2>2, Positions, Indices DEF Owing, Leaves, Reached, Stage
    <2>5. Finished(p)' /\ Leaves(p)'
      BY <1>0, <2>1, <2>2, <2>3, <2>4, Indices, AdvanceOwing
    <2>6. \A s \in LockedStages :
             manifest'[s].status = "COMPLETED" => manifest[s].status = "COMPLETED"
      BY <1>3, RecordKeepsLocked DEF KeepRecord, KeepsLocked
    <2> QED BY <1>0, <2>2, <2>5, <2>6, OwingBy
  <1> QED BY <1>1, <1>2, <1>3

\* The start and the end of a run.
LEMMA EdgeOwing ==
    ASSUME Typed, Owing, NEW p \in Workers, Start(p) \/ Stop(p) \/ Fail(p)
    PROVE  Owing'
  <1>1. CASE Start(p)
    <2>1. PICK k \in Configs, at \in Paths, force \in Forces :
            job' = [job EXCEPT ![p] = [NoJob EXCEPT !.config = k, !.path = at, !.force = force]]
      BY <1>1 DEF Start
    <2>2. job'[p].invalidated = FALSE /\ pc'[p] = "fast" /\ UNCHANGED <<manifest, owed>>
          /\ alone' \subseteq {p} /\ Others(p)
      BY <1>1, <2>1, Holding, Going, StartTyped DEF NoJob, Start, Labels
    <2> QED BY <2>2, OwingBy DEF Finished, Leaves
  <1>2. CASE Stop(p) \/ Fail(p)
    <2>1. Others(p) /\ pc'[p] = "idle" /\ job'[p] = NoJob /\ UNCHANGED <<alone, owed>>
      BY <1>2, Ending DEF Stop, Fail
    <2>2. \A s \in LockedStages :
             manifest'[s].status = "COMPLETED" => manifest[s].status = "COMPLETED"
      <3>1. CASE Fail(p)
        <4>1. /\ Stage(p) \in Stages /\ LockedStages \subseteq Stages
              /\ manifest' = [manifest EXCEPT ![Stage(p)].status = "FAILED"]
          BY <3>1, Holding, StageOf, StageNames DEF Fail, Place
        <4> QED BY <4>1, Holding, FailedRecord
      <3> QED BY <1>2, <3>1 DEF Stop
    <2> QED BY <2>1, <2>2, EndOwing, OwingBy
  <1> QED BY <1>1, <1>2

\* Any step of a run.
LEMMA StepOwing ==
    ASSUME Typed, Owing, NEW p \in Workers, Start(p) \/ Run(p) \/ Stop(p),
           \A q \in Workers : Alone(q)
    PROVE  Owing'
  BY ApproachOwing, InvalidateOwing, WorkOwing, RecordOwing, EdgeOwing DEF Run

-------------------------------------------------------------------------------
(* The theorems. *)

IInv == Typed /\ Working /\ (\A p \in Workers : Alone(p)) /\ Owing

\* The invariant holds throughout.
LEMMA IInvHolds == Spec => []IInv
  <1>1. Init => IInv
    BY InitTyped, InitWorking, InitAlone, InitOwing DEF IInv
  <1>2. IInv /\ [Next]_vars => IInv'
    <2>1. ASSUME IInv, Next PROVE IInv'
      <3>1. PICK p \in Workers : Start(p) \/ Run(p) \/ Stop(p)
        BY <2>1 DEF Next
      <3> QED BY <2>1, <3>1, StepTyped, StepWorking, StepAlone, StepOwing DEF IInv
    <2>2. ASSUME IInv, UNCHANGED vars PROVE IInv'
      <3>1. Typed'
        BY <2>2, NextTyped DEF IInv
      <3>2. /\ manifest' = manifest /\ file' = file /\ pc' = pc /\ job' = job
            /\ alone' = alone /\ owed' = owed
        BY <2>2 DEF vars
      <3>3. Working'
        BY <2>2, <3>2 DEF IInv, Working, CompletedFilesStand, Stands, RecordsTell, Live, Keyed,
           Committed, Own, Stage
      <3>4. \A p \in Workers : Alone(p)'
        BY <2>2, <3>2 DEF IInv, Alone, Ahead, Own, Stage, HasFiles, HasInHand
      <3>5. Owing'
        BY <2>2, <3>2 DEF IInv, Owing, Unmade, Finished, Leaves, Reached, Stage
      <3> QED BY <3>1, <3>3, <3>4, <3>5 DEF IInv
    <2> QED BY <2>1, <2>2
  <1> QED BY <1>1, <1>2, PTL DEF Spec

\* The manifest knows every stage, and who is inside the lock holds it.
THEOREM PipelineTypes == Spec => []TypeOK
  <1>1. IInv => TypeOK
    BY DEF IInv, Typed
  <1> QED BY <1>1, IInvHolds, PTL

\* However many runs overlap, are killed or recover what others left: no
\* attempt that goes on is recovered, restarted or invalidated.
THEOREM AttemptsStand == Spec => []LiveAttemptsStand
  <1>1. IInv => LiveAttemptsStand
    BY WorkingIsLive DEF IInv
  <1> QED BY <1>1, IInvHolds, PTL

\* What a completed stage under the lock recorded is what is on disk.
THEOREM CompletedTellsTruth == Spec => []CompletedFilesStand
  <1>1. IInv => CompletedFilesStand
    BY DEF IInv, Working
  <1> QED BY <1>1, IInvHolds, PTL

\* A run that none overlaps works with artifacts of its own settings only.
THEOREM OwnSettingsOnly == Spec => []AloneUsesOwnSettings
  <1>1. ASSUME IInv PROVE AloneUsesOwnSettings
    <2> SUFFICES ASSUME NEW p \in alone, pc[p] # "idle"
                 PROVE  /\ HasFiles(file, Own(p), job[p].at)
                        /\ job[p].at > 3 => job[p].activity = SignalsOf(Own(p))
      <3>1. /\ Position("ingest") = 1
            /\ Position("proxy") = 2 /\ Position("local_signals") = 3
        BY Positions, StageNames, Indices
      <3>2. \A s \in RecordedStages : \E i \in 4..8 : s = Order[i] /\ Position(s) = i
        BY Positions, StageNames, Indices
      <3> QED BY <3>1, <3>2 DEF AloneUsesOwnSettings, HasFiles, Own, SignalsOf, MapOf
    <2>1. p \in Workers /\ Place(p) /\ Alone(p)
      BY <1>1 DEF IInv, Typed, TypeOK
    <2>2. HasFiles(file, Own(p), Ahead(p)) /\ HasInHand(job[p], Own(p), Ahead(p))
      BY <2>1 DEF Alone
    <2>3. Ahead(p) = job[p].at \/ (Ahead(p) = 2 /\ job[p].at = 1)
      BY <2>1 DEF Ahead, Place
    <2> QED BY <2>2, <2>3, Indices DEF HasFiles, HasInHand
  <1> QED BY <1>1, IInvHolds, PTL

\* A stage under the lock that --force-stage marked is complete again only when
\* all of it has been made again; a run that none overlaps leaves behind it no
\* marked stage but those it may serve for all that.
THEOREM ForcedAreRemade == Spec => []ForcedStagesRemade
  <1>1. ASSUME IInv PROVE ForcedStagesRemade
    <2>1. ASSUME NEW p \in alone, NEW s \in owed, job[p].invalidated, job[p].at > Position(s)
          PROVE  s \in Servable(job[p].force)
      <3>1. p \in Workers /\ Place(p) /\ Leaves(p) /\ s \in Stages
        BY <1>1 DEF IInv, Typed, TypeOK, Owing
      <3>2. CASE pc[p] = "idle"
        BY <1>1, <2>1, <3>1, <3>2 DEF Leaves, Reached
      <3>3. CASE pc[p] # "idle"
        <4>1. job[p].at \in 1..8 /\ Position(s) \in 1..8
          BY <3>1, <3>3, Placed DEF Place
        <4> QED BY <2>1, <3>1, <4>1 DEF Leaves, Reached
      <3> QED BY <3>2, <3>3
    <2> QED BY <1>1, <2>1 DEF ForcedStagesRemade, IInv, Owing, Unmade
  <1> QED BY <1>1, IInvHolds, PTL

===============================================================================
