--------------------------- MODULE ClipLibraryProofs ---------------------------
(***************************************************************************)
(* Proofs about ClipLibrary: whatever commands were run, killed or damaged *)
(* before, a run that extracts ends with clips of its own settings, and a  *)
(* page that is served is current.                                         *)
(*                                                                         *)
(* The invariant says that a COMPLETED record, on disk or in a run,        *)
(* describes a clip of the settings it names; that those of the run are on *)
(* the disk; and that metadata describe a page that was whole.             *)
(***************************************************************************)
EXTENDS ClipLibrary, TLAPS

Settings == [pad : Nat, quality : Nat, thumbnail : BOOLEAN]
RunFields == {"config", "force", "map", "old", "records", "at", "key", "page"}
Extracting == {"next", "photograph", "save"}
Reporting == {"rank", "check", "publish", "describe", "served"}

\* The simple variables have their types.
Scalars ==
    /\ map \in {Absent} \cup {MapOf(k) : k \in Configs}
    /\ config \in Configs \cup {Absent} /\ cost \in 0..MaxCost
    /\ pc \in Labels /\ runs \in 0..MaxRuns /\ mishaps \in 0..MaxMishaps
    /\ DOMAIN clip = Candidates /\ DOMAIN thumbnail = Candidates

\* A command in its place.
RunIsShaped ==
    /\ DOMAIN run = RunFields /\ DOMAIN run.records = Candidates
    /\ pc = "idle" => run = NoRun
    /\ pc # "idle" => run.config \in Configs
    /\ pc \in Extracting \cup {"open"} => run.map = MapOf(run.config)
    /\ pc \in Reporting => run.map \in {MapOf(k) : k \in Configs}
    /\ run.at \in Nat \ {0}
    /\ pc \in {"photograph", "save"} => run.at =< Len(run.map.found)

\* A record that says COMPLETED describes a clip of its settings.
Truthful(r) ==
    IsCompleted(r) =>
        /\ r.fingerprint \in Settings
        /\ r.clip = [pad |-> r.fingerprint.pad, quality |-> r.fingerprint.quality]
        /\ r.fingerprint.thumbnail => r.thumbnail = r.clip

ManifestIsTruthful ==
    manifest # Absent =>
        /\ \A c \in Candidates : Truthful(manifest.records[c])
        /\ (manifest.status = "INCOMPLETE") <=> \E c \in Candidates : IsIncomplete(manifest.records[c])

\* The clip and the thumbnail of c are those of the run's settings.
OnDisk(c) ==
    /\ clip[c] = ClipOf(run.config)
    /\ Extraction[run.config].thumbnail => thumbnail[c] = ClipOf(run.config)

\* The run's records are true, and what they say is on the disk; the last
\* manifest is made of them.
RunIsTruthful ==
    /\ \A c \in Candidates : Truthful(run.old[c]) /\ Truthful(run.records[c])
    /\ \A c \in Candidates : IsCompleted(run.records[c]) =>
            run.records[c].clip = clip[c] /\ OnDisk(c)
    /\ pc = "photograph" => clip[Candidate] = ClipOf(run.config)
    /\ pc \in Reporting => manifest.records = run.records \/ run.records = NoRecords

\* A page as its key describes it.
Describes(key, p) ==
    /\ p.map = key.map /\ p.ranking = key.ranking /\ p.cost = key.cost
    /\ \A c \in DOMAIN p.thumbnails :
        /\ c \in ToSet(key.map.found)
        /\ p.thumbnails[c] = key.extraction.records[c].thumbnail

PagesAreDescribed ==
    /\ meta # Absent => Describes(meta.key, meta.page)
    /\ pc \in Reporting \ {"rank"} => ranking = RankingOf(run.map, run.config)
    /\ pc \in {"publish", "describe"} => run.key = Key /\ run.page = Page
    /\ pc = "describe" => page = run.page
    /\ ServedPageIsCurrent

IInv ==
    /\ Scalars /\ RunIsShaped /\ ManifestIsTruthful /\ RunIsTruthful /\ PagesAreDescribed

-------------------------------------------------------------------------------
\* A run that extracts has its settings, and a candidate while it has more.
LEMMA CandidateIs ==
    ASSUME IInv, pc \in Extracting
    PROVE  /\ run.config \in Configs /\ Extraction[run.config] \in Settings
           /\ ClipOf(run.config) \in [pad : Nat, quality : Nat]
           /\ Len(run.map.found) \in Nat
           /\ More => Candidate \in Candidates
           /\ pc \in {"photograph", "save"} => More
  <1>1. run.config \in Configs /\ run.map = MapOf(run.config) /\ pc # "idle"
    BY DEF IInv, RunIsShaped, Extracting
  <1>2. run.map.found \in Seq(Candidates) /\ Extraction[run.config] \in Settings
    BY <1>1, ClipAssumption DEF MapOf, Settings
  <1>3. ClipOf(run.config) \in [pad : Nat, quality : Nat]
    BY <1>2 DEF ClipOf, Settings
  <1>4. run.at \in Nat \ {0} /\ (pc \in {"photograph", "save"} => run.at =< Len(run.map.found))
    BY DEF IInv, RunIsShaped
  <1> QED
    BY <1>1, <1>2, <1>3, <1>4 DEF More, Candidate

\* Nothing is there yet.
LEMMA InitHolds == Init => IInv
  <1> SUFFICES ASSUME Init PROVE IInv
    OBVIOUS
  <1>1. Scalars
    BY ClipAssumption DEF Init, Scalars, Labels
  <1>2. RunIsShaped
    BY DEF Init, RunIsShaped, NoRun, NoRecords, RunFields, Extracting, Reporting
  <1>3. ManifestIsTruthful
    BY DEF Init, ManifestIsTruthful
  <1>4. RunIsTruthful
    BY DEF Init, RunIsTruthful, NoRun, NoRecords, Truthful, IsCompleted, Reporting
  <1>5. PagesAreDescribed
    BY DEF Init, PagesAreDescribed, Reporting, ServedPageIsCurrent
  <1> QED
    BY <1>1, <1>2, <1>3, <1>4, <1>5 DEF IInv

\* A run that has nothing yet owes nothing to the disk.
LEMMA EmptyRun ==
    ASSUME run'.records = NoRecords, run'.old = NoRecords, pc' # "photograph"
    PROVE  RunIsTruthful'
  BY DEF RunIsTruthful, NoRecords, Truthful, IsCompleted

\* What an action leaves alone that does not touch the files of the clips.
LEMMA FilesStay ==
    ASSUME IInv, UNCHANGED <<map, manifest, clip, thumbnail, config, cost, runs, mishaps>>,
           pc' \in Labels
    PROVE  Scalars' /\ ManifestIsTruthful'
  BY DEF IInv, Scalars, ManifestIsTruthful

\* A command begins.
LEMMA StartHolds ==
    ASSUME IInv, NEW k \in Configs, NEW force \in BOOLEAN, Start(k, force)
    PROVE  IInv'
  <1>1. /\ DOMAIN run' = RunFields /\ run'.records = NoRecords /\ run'.old = NoRecords
        /\ run'.config = k /\ run'.at = 1
    BY DEF Start, NoRun, RunFields
  <1>2. /\ pc = "idle" /\ pc' = "reconcile" /\ runs < MaxRuns /\ runs' = runs + 1
        /\ config' = IF config = Absent THEN k ELSE config
        /\ UNCHANGED <<map, manifest, clip, thumbnail, ranking, page, meta, cost, mishaps>>
    BY DEF Start, Goto
  <1>3. Scalars'
    BY <1>2, ClipAssumption DEF IInv, Scalars, Labels
  <1>4. RunIsShaped'
    BY <1>1, <1>2 DEF RunIsShaped, Extracting, Reporting, NoRecords
  <1>5. ManifestIsTruthful'
    BY <1>2 DEF IInv, ManifestIsTruthful
  <1>6. RunIsTruthful'
    BY <1>1, <1>2, EmptyRun
  <1>7. PagesAreDescribed'
    BY <1>2 DEF IInv, PagesAreDescribed, Reporting, ServedPageIsCurrent
  <1> QED
    BY <1>3, <1>4, <1>5, <1>6, <1>7 DEF IInv

\* The `report` command begins with what is on disk.
LEMMA ReportHolds == IInv /\ ReportCommand => IInv'
  <1> SUFFICES ASSUME IInv, ReportCommand PROVE IInv'
    OBVIOUS
  <1>1. /\ DOMAIN run' = RunFields /\ run'.records = NoRecords /\ run'.old = NoRecords
        /\ run'.config = config /\ run'.at = 1 /\ run'.map = map /\ map # Absent
    BY DEF ReportCommand, NoRun, RunFields
  <1>2. /\ pc = "idle" /\ pc' = "rank" /\ runs < MaxRuns /\ runs' = runs + 1 /\ config # Absent
        /\ UNCHANGED <<map, manifest, clip, thumbnail, ranking, page, meta, config, cost, mishaps>>
    BY DEF ReportCommand, Goto, disk
  <1>3. Scalars'
    BY <1>2, ClipAssumption DEF IInv, Scalars, Labels
  <1>4. RunIsShaped'
    BY <1>1, <1>2 DEF IInv, Scalars, RunIsShaped, Extracting, Reporting, NoRecords
  <1>5. ManifestIsTruthful'
    BY <1>2 DEF IInv, ManifestIsTruthful
  <1>6. RunIsTruthful'
    BY <1>1, <1>2, EmptyRun
  <1>7. PagesAreDescribed'
    BY <1>2 DEF IInv, PagesAreDescribed, Reporting, ServedPageIsCurrent
  <1> QED
    BY <1>3, <1>4, <1>5, <1>6, <1>7 DEF IInv

\* A command ends or is killed.
LEMMA StopHolds == IInv /\ Stop => IInv'
  <1> SUFFICES ASSUME IInv, Stop PROVE IInv'
    OBVIOUS
  <1>1. /\ pc' = "idle" /\ run' = NoRun
        /\ UNCHANGED <<map, manifest, clip, thumbnail, ranking, page, meta, config, cost, runs, mishaps>>
    BY DEF Stop, Goto, disk
  <1>2. Scalars' /\ ManifestIsTruthful'
    BY <1>1, FilesStay DEF Labels
  <1>3. RunIsShaped'
    BY <1>1 DEF RunIsShaped, NoRun, NoRecords, RunFields, Extracting, Reporting
  <1>4. RunIsTruthful'
    BY <1>1, EmptyRun DEF NoRun
  <1>5. PagesAreDescribed'
    BY <1>1 DEF IInv, PagesAreDescribed, Reporting, ServedPageIsCurrent
  <1> QED
    BY <1>2, <1>3, <1>4, <1>5 DEF IInv

\* Files may be lost and edited while no command runs, and money be settled.
LEMMA MishapHolds == IInv /\ (Mishap \/ SettleCost) => IInv'
  <1> SUFFICES ASSUME IInv, Mishap \/ SettleCost PROVE IInv'
    OBVIOUS
  <1>1. /\ pc = "idle" /\ pc' = "idle" /\ run' = run
        /\ UNCHANGED <<map, manifest, ranking, meta, config, runs>>
    BY DEF Mishap, SettleCost, disk
  <1>2. /\ DOMAIN clip' = DOMAIN clip /\ DOMAIN thumbnail' = DOMAIN thumbnail
        /\ cost' \in 0..MaxCost /\ mishaps' \in 0..MaxMishaps
    <2>1. CASE Mishap
      <3>1. DOMAIN clip' = DOMAIN clip /\ DOMAIN thumbnail' = DOMAIN thumbnail
        BY <2>1 DEF Mishap
      <3>2. cost' = cost /\ mishaps' = mishaps + 1 /\ mishaps < MaxMishaps
        BY <2>1 DEF Mishap
      <3> QED BY <3>1, <3>2, ClipAssumption DEF IInv, Scalars
    <2>2. CASE SettleCost
      BY <2>2, ClipAssumption DEF SettleCost, disk, IInv, Scalars
    <2> QED BY <2>1, <2>2
  <1>3. Scalars'
    BY <1>1, <1>2 DEF IInv, Scalars
  <1>4. run = NoRun
    BY <1>1 DEF IInv, RunIsShaped
  <1>5. RunIsShaped' /\ ManifestIsTruthful'
    BY <1>1 DEF IInv, RunIsShaped, ManifestIsTruthful, Extracting, Reporting
  <1>6. RunIsTruthful'
    BY <1>1, <1>4, EmptyRun DEF NoRun
  <1>7. PagesAreDescribed'
    BY <1>1 DEF IInv, PagesAreDescribed, Reporting, ServedPageIsCurrent
  <1> QED
    BY <1>3, <1>5, <1>6, <1>7 DEF IInv

\* The map of the run's settings is written.
LEMMA ReconcileHolds == IInv /\ Reconcile => IInv'
  <1> SUFFICES ASSUME IInv, Reconcile PROVE IInv'
    OBVIOUS
  <1>1. /\ pc = "reconcile" /\ pc' = "open" /\ map' = MapOf(run.config)
        /\ run' = [run EXCEPT !.map = MapOf(run.config)]
        /\ UNCHANGED <<manifest, clip, thumbnail, ranking, page, meta, config, cost, runs, mishaps>>
    BY DEF Reconcile, Goto
  <1>2. DOMAIN run = RunFields /\ run.config \in Configs
    BY <1>1 DEF IInv, RunIsShaped
  <1>3. /\ DOMAIN run' = RunFields /\ run'.map = MapOf(run.config) /\ run'.config = run.config
        /\ run'.at = run.at /\ run'.old = run.old /\ run'.records = run.records
    BY <1>1, <1>2 DEF RunFields
  <1>4. Scalars'
    BY <1>1, <1>2 DEF IInv, Scalars, Labels
  <1>5. RunIsShaped'
    BY <1>1, <1>2, <1>3 DEF IInv, RunIsShaped, MapOf
  <1>6. ManifestIsTruthful'
    BY <1>1 DEF IInv, ManifestIsTruthful
  <1>7. RunIsTruthful'
    BY <1>1, <1>3 DEF IInv, RunIsTruthful, Reporting, OnDisk, ClipOf
  <1>8. PagesAreDescribed'
    BY <1>1 DEF IInv, PagesAreDescribed, Reporting, ServedPageIsCurrent
  <1> QED
    BY <1>4, <1>5, <1>6, <1>7, <1>8 DEF IInv

\* The records of the earlier manifest are read.
LEMMA OpenHolds == IInv /\ OpenManifest => IInv'
  <1> SUFFICES ASSUME IInv, OpenManifest PROVE IInv'
    OBVIOUS
  <1>1. /\ pc = "open" /\ pc' = "next"
        /\ run' = [run EXCEPT !.old = IF manifest = Absent THEN NoRecords ELSE manifest.records]
        /\ UNCHANGED <<map, manifest, clip, thumbnail, ranking, page, meta, config, cost, runs, mishaps>>
    BY DEF OpenManifest, Goto, disk
  <1>2. DOMAIN run = RunFields
    BY DEF IInv, RunIsShaped
  <1>3. /\ DOMAIN run' = RunFields /\ run'.map = run.map /\ run'.config = run.config
        /\ run'.old = IF manifest = Absent THEN NoRecords ELSE manifest.records
        /\ run'.at = run.at /\ run'.records = run.records
    BY <1>1, <1>2 DEF RunFields
  <1>4. Scalars' /\ ManifestIsTruthful'
    BY <1>1, FilesStay DEF Labels
  <1>5. RunIsShaped'
    BY <1>1, <1>3 DEF IInv, RunIsShaped, Extracting, Reporting, MapOf
  <1>6. \A c \in Candidates : Truthful(run'.old[c])
    BY <1>3 DEF IInv, ManifestIsTruthful, NoRecords, Truthful, IsCompleted
  <1>7. RunIsTruthful'
    BY <1>1, <1>3, <1>6 DEF IInv, RunIsTruthful, Reporting, OnDisk, ClipOf
  <1>8. PagesAreDescribed'
    BY <1>1 DEF IInv, PagesAreDescribed, Reporting, ServedPageIsCurrent
  <1> QED
    BY <1>4, <1>5, <1>7, <1>8 DEF IInv

\* The run once it has a record for its candidate.
NextRun(record, at) ==
    /\ DOMAIN run' = RunFields /\ run'.map = run.map /\ run'.config = run.config
    /\ run'.at = at /\ run'.old = run.old
    /\ run'.records = [run.records EXCEPT ![Candidate] = record]

\* That is what putting the record into it makes of the run.
LEMMA NextRunIs ==
    ASSUME IInv, NEW record
    PROVE  /\ run' = [run EXCEPT !.records[Candidate] = record] => NextRun(record, run.at)
           /\ run' = [run EXCEPT !.records[Candidate] = record, !.at = @ + 1]
                => NextRun(record, run.at + 1)
  <1> DEFINE records == [run.records EXCEPT ![Candidate] = record]
  <1>1. DOMAIN run = RunFields
    BY DEF IInv, RunIsShaped
  <1>2. ASSUME run' = [run EXCEPT !.records[Candidate] = record]
        PROVE  NextRun(record, run.at)
    <2>1. run' = [run EXCEPT !.records = records]
      BY <1>2, Zenon
    <2> HIDE DEF records
    <2>2. /\ DOMAIN run' = RunFields /\ run'.map = run.map /\ run'.config = run.config
          /\ run'.at = run.at /\ run'.old = run.old /\ run'.records = records
      BY <2>1, <1>1 DEF RunFields
    <2> QED BY <2>2, Zenon DEF records, NextRun
  <1>3. ASSUME run' = [run EXCEPT !.records[Candidate] = record, !.at = @ + 1]
        PROVE  NextRun(record, run.at + 1)
    <2>1. run' = [run EXCEPT !.records = records, !.at = run.at + 1]
      BY <1>3, Zenon
    <2> HIDE DEF records
    <2>2. /\ DOMAIN run' = RunFields /\ run'.map = run.map /\ run'.config = run.config
          /\ run'.at = run.at + 1 /\ run'.old = run.old /\ run'.records = records
      BY <2>1, <1>1 DEF RunFields
    <2> QED BY <2>2, Zenon DEF records, NextRun
  <1> QED
    BY <1>2, <1>3

\* What a step of the extraction has to show: the record it makes is true, and
\* what a COMPLETED one says is on the disk.
LEMMA RecordHolds ==
    ASSUME IInv, pc \in {"next", "photograph"}, More, pc' \in {"next", "save"},
           NEW record, NEW at \in {run.at, run.at + 1},
           NextRun(record, at),
           pc' = "save" => at = run.at,
           DOMAIN clip' = Candidates, DOMAIN thumbnail' = Candidates,
           \A c \in Candidates \ {Candidate} : clip'[c] = clip[c] /\ thumbnail'[c] = thumbnail[c],
           clip'[Candidate] \in {clip[Candidate], ClipOf(run.config)},
           thumbnail'[Candidate] \in {thumbnail[Candidate], ClipOf(run.config)},
           Truthful(record),
           IsCompleted(record) =>
                /\ record.clip = clip'[Candidate] /\ clip'[Candidate] = ClipOf(run.config)
                /\ Extraction[run.config].thumbnail => thumbnail'[Candidate] = ClipOf(run.config),
           UNCHANGED <<map, manifest, ranking, page, meta, config, cost, runs, mishaps>>
    PROVE  IInv'
  <1>1. Candidate \in Candidates /\ run.config \in Configs
    BY CandidateIs DEF Extracting
  <1>2. /\ DOMAIN run = RunFields /\ DOMAIN run.records = Candidates
        /\ run.map = MapOf(run.config) /\ run.at \in Nat \ {0}
    BY DEF IInv, RunIsShaped, Extracting, Reporting
  <1> DEFINE x == Candidate
  <1> HIDE DEF x
  <1>3. x \in Candidates
    BY <1>1 DEF x
  <1>4. /\ DOMAIN run' = RunFields /\ run'.map = run.map /\ run'.config = run.config
        /\ run'.at = at /\ run'.old = run.old
        /\ DOMAIN run'.records = Candidates /\ run'.records[x] = record
        /\ \A c \in Candidates \ {x} : run'.records[c] = run.records[c]
    BY <1>2, <1>3 DEF NextRun, x
  <1>5. Scalars' /\ ManifestIsTruthful'
    BY DEF IInv, Scalars, ManifestIsTruthful, Labels
  <1>6. RunIsShaped'
    BY <1>1, <1>2, <1>4 DEF RunIsShaped, Extracting, Reporting, MapOf, More
  <1>7. RunIsTruthful'
    <2>1. ASSUME NEW c \in Candidates
          PROVE  /\ Truthful(run'.old[c]) /\ Truthful(run'.records[c])
                 /\ IsCompleted(run'.records[c]) => run'.records[c].clip = clip'[c] /\ OnDisk(c)'
      <3>1. CASE c = x
        BY <3>1, <1>4 DEF IInv, RunIsTruthful, OnDisk, ClipOf, x
      <3>2. CASE c # x
        BY <3>2, <1>4 DEF IInv, RunIsTruthful, OnDisk, ClipOf, x
      <3> QED BY <3>1, <3>2
    <2> QED BY <2>1 DEF RunIsTruthful, Reporting
  <1>8. PagesAreDescribed'
    BY DEF IInv, PagesAreDescribed, Reporting, ServedPageIsCurrent
  <1> QED
    BY <1>5, <1>6, <1>7, <1>8 DEF IInv

\* A clip that is reused has the run's settings.
LEMMA ReuseHolds == IInv /\ Reuse => IInv'
  <1> SUFFICES ASSUME IInv, Reuse PROVE IInv'
    OBVIOUS
  <1> DEFINE record == run.old[Candidate]
  <1>1. /\ pc = "next" /\ More /\ pc' = "next" /\ Reusable(Candidate)
        /\ run' = [run EXCEPT !.records[Candidate] = record, !.at = @ + 1]
        /\ UNCHANGED <<map, manifest, clip, thumbnail, ranking, page, meta, config, cost, runs, mishaps>>
    BY DEF Reuse, disk
  <1>2. Candidate \in Candidates /\ Extraction[run.config] \in Settings
    BY <1>1, CandidateIs DEF Extracting
  <1>3. NextRun(record, run.at + 1)
    BY <1>1, NextRunIs
  <1>4. Truthful(record) /\ IsCompleted(record)
    BY <1>1, <1>2 DEF IInv, RunIsTruthful, Reusable
  <1>5. /\ record.clip = clip[Candidate] /\ clip[Candidate] = ClipOf(run.config)
        /\ Extraction[run.config].thumbnail => thumbnail[Candidate] = ClipOf(run.config)
    BY <1>1, <1>4 DEF Reusable, Truthful, ClipOf
  <1>6. DOMAIN clip = Candidates /\ DOMAIN thumbnail = Candidates
    BY DEF IInv, Scalars
  <1> HIDE DEF record
  <1> QED
    BY <1>1, <1>3, <1>4, <1>5, <1>6, RecordHolds

\* A tool that fails ends its candidate.
LEMMA FailHolds == IInv /\ CandidateFails => IInv'
  <1> SUFFICES ASSUME IInv, CandidateFails PROVE IInv'
    OBVIOUS
  <1>1. /\ pc \in {"next", "photograph"} /\ (pc = "next" => More)
        /\ pc' = "save" /\ run' = [run EXCEPT !.records[Candidate] = IncompleteRecord]
        /\ UNCHANGED <<map, manifest, clip, thumbnail, ranking, page, meta, config, cost, runs, mishaps>>
    BY DEF CandidateFails, Recorded, Goto, disk
  <1>2. More
    BY <1>1, CandidateIs DEF Extracting
  <1>3. NextRun(IncompleteRecord, run.at)
    BY <1>1, NextRunIs
  <1>4. ~IsCompleted(IncompleteRecord)
    BY DEF IsCompleted, IncompleteRecord
  <1>5. Truthful(IncompleteRecord)
    BY <1>4 DEF Truthful
  <1>6. DOMAIN clip = Candidates /\ DOMAIN thumbnail = Candidates
    BY DEF IInv, Scalars
  <1> QED
    BY <1>1, <1>2, <1>3, <1>4, <1>5, <1>6, RecordHolds

\* A clip is encoded, and is the last of its candidate without a thumbnail.
LEMMA EncodeHolds == IInv /\ Encode => IInv'
  <1> SUFFICES ASSUME IInv, Encode PROVE IInv'
    OBVIOUS
  <1> DEFINE x == Candidate
             record == CompletedRecord(Candidate)
  <1>1. /\ pc = "next" /\ More
        /\ clip' = [clip EXCEPT ![x] = ClipOf(run.config)]
        /\ IF Extraction[run.config].thumbnail
           THEN pc' = "photograph" /\ run' = run
           ELSE pc' = "save" /\ run' = [run EXCEPT !.records[Candidate] = record]
        /\ UNCHANGED <<map, manifest, thumbnail, ranking, page, meta, config, cost, runs, mishaps>>
    BY DEF Encode, Recorded, Goto
  <1>2. /\ x \in Candidates /\ Extraction[run.config] \in Settings
        /\ run.config \in Configs
    BY <1>1, CandidateIs DEF Extracting
  <1>3. DOMAIN clip = Candidates /\ DOMAIN thumbnail = Candidates /\ run.map = MapOf(run.config)
    BY <1>1 DEF IInv, Scalars, RunIsShaped, Extracting, Reporting
  <1>4. /\ DOMAIN clip' = Candidates /\ clip'[x] = ClipOf(run.config)
        /\ \A c \in Candidates \ {x} : clip'[c] = clip[c]
    BY <1>1, <1>2, <1>3
  <1>5. CASE ~Extraction[run.config].thumbnail
    <2>1. NextRun(record, run.at)
      BY <1>1, <1>5, NextRunIs
    <2>2. /\ record.fingerprint = Extraction[run.config] /\ record.clip = ClipOf(run.config)
      BY <1>4 DEF CompletedRecord
    <2>3. Truthful(record)
      BY <2>2, <1>2, <1>5 DEF Truthful, ClipOf
    <2> HIDE DEF record
    <2> QED BY <1>1, <1>3, <1>4, <1>5, <2>1, <2>2, <2>3, RecordHolds
  <1>6. CASE Extraction[run.config].thumbnail
    <2>1. pc' = "photograph" /\ run' = run
      BY <1>1, <1>6
    <2>2. Candidate' = x
      BY <2>1 DEF Candidate
    <2> HIDE DEF x
    <2>3. Scalars' /\ ManifestIsTruthful'
      BY <1>1, <1>3, <1>4, <2>1 DEF IInv, Scalars, ManifestIsTruthful, Labels
    <2>4. RunIsShaped'
      BY <1>1, <2>1 DEF IInv, RunIsShaped, Extracting, Reporting, MapOf, More
    <2>5. RunIsTruthful'
      <3>1. ASSUME NEW c \in Candidates, IsCompleted(run.records[c])
            PROVE  run.records[c].clip = clip'[c] /\ OnDisk(c)'
        <4>1. run.records[c].clip = clip[c] /\ OnDisk(c)
          BY <3>1 DEF IInv, RunIsTruthful
        <4> QED BY <4>1, <1>1, <1>4, <2>1 DEF OnDisk, ClipOf
      <3>2. clip'[Candidate'] = ClipOf(run.config)
        BY <2>2, <1>4
      <3> QED BY <3>1, <3>2, <2>1 DEF IInv, RunIsTruthful, Reporting, ClipOf
    <2>6. PagesAreDescribed'
      BY <1>1, <2>1 DEF IInv, PagesAreDescribed, Reporting, ServedPageIsCurrent
    <2> QED BY <2>3, <2>4, <2>5, <2>6 DEF IInv
  <1> QED
    BY <1>5, <1>6

\* A thumbnail is taken from the clip that is there.
LEMMA PhotographHolds == IInv /\ Photograph => IInv'
  <1> SUFFICES ASSUME IInv, Photograph PROVE IInv'
    OBVIOUS
  <1> DEFINE x == Candidate
             record == CompletedRecord(Candidate)
  <1>1. /\ pc = "photograph" /\ pc' = "save"
        /\ thumbnail' = [thumbnail EXCEPT ![x] = clip[x]]
        /\ run' = [run EXCEPT !.records[Candidate] = record]
        /\ UNCHANGED <<map, manifest, clip, ranking, page, meta, config, cost, runs, mishaps>>
    BY DEF Photograph, Recorded, Goto
  <1>2. /\ More /\ x \in Candidates /\ Extraction[run.config] \in Settings
        /\ run.config \in Configs
    BY <1>1, CandidateIs DEF Extracting
  <1>3. DOMAIN clip = Candidates /\ DOMAIN thumbnail = Candidates /\ clip[x] = ClipOf(run.config)
    BY <1>1 DEF IInv, Scalars, RunIsTruthful
  <1>4. /\ DOMAIN thumbnail' = Candidates /\ thumbnail'[x] = ClipOf(run.config)
        /\ \A c \in Candidates \ {x} : thumbnail'[c] = thumbnail[c]
    BY <1>1, <1>2, <1>3
  <1>5. NextRun(record, run.at)
    BY <1>1, NextRunIs
  <1>6. /\ record.fingerprint = Extraction[run.config] /\ record.clip = ClipOf(run.config)
        /\ record.fingerprint.thumbnail => record.thumbnail = ClipOf(run.config)
    BY <1>1, <1>3, <1>4 DEF CompletedRecord
  <1>7. Truthful(record)
    BY <1>6, <1>2 DEF Truthful, ClipOf
  <1> HIDE DEF record
  <1> QED
    BY <1>1, <1>2, <1>3, <1>4, <1>5, <1>6, <1>7, RecordHolds

\* A manifest made of the run's records tells the truth.
LEMMA ManifestHolds ==
    ASSUME IInv, manifest' = ManifestOf(run.records)
    PROVE  ManifestIsTruthful'
  <1>1. manifest'.records = run.records
    BY DEF ManifestOf
  <1>2. manifest'.status = "INCOMPLETE" <=> \E c \in Candidates : IsIncomplete(run.records[c])
    BY DEF ManifestOf
  <1>3. \A c \in Candidates : Truthful(run.records[c])
    BY DEF IInv, RunIsTruthful
  <1> QED
    BY <1>1, <1>2, <1>3 DEF ManifestIsTruthful

\* The manifest is written after a candidate.
LEMMA SaveHolds == IInv /\ SavePartial => IInv'
  <1> SUFFICES ASSUME IInv, SavePartial PROVE IInv'
    OBVIOUS
  <1>1. /\ pc = "save" /\ pc' = "next" /\ manifest' = ManifestOf(run.records)
        /\ run' = [run EXCEPT !.at = run.at + 1]
        /\ UNCHANGED <<map, clip, thumbnail, ranking, page, meta, config, cost, runs, mishaps>>
    BY DEF SavePartial, Goto
  <1>2. DOMAIN run = RunFields /\ run.at \in Nat \ {0}
    BY DEF IInv, RunIsShaped
  <1>3. /\ DOMAIN run' = RunFields /\ run'.map = run.map /\ run'.config = run.config
        /\ run'.old = run.old /\ run'.records = run.records /\ run'.at = run.at + 1
    BY <1>1, <1>2 DEF RunFields
  <1>4. Scalars'
    BY <1>1 DEF IInv, Scalars, Labels
  <1>5. RunIsShaped'
    BY <1>1, <1>2, <1>3 DEF IInv, RunIsShaped, Extracting, Reporting, MapOf
  <1>6. RunIsTruthful'
    BY <1>1, <1>3 DEF IInv, RunIsTruthful, OnDisk, ClipOf, Reporting
  <1>7. PagesAreDescribed'
    BY <1>1 DEF IInv, PagesAreDescribed, Reporting, ServedPageIsCurrent
  <1> QED
    BY <1>1, <1>4, <1>5, <1>6, <1>7, ManifestHolds DEF IInv

\* The last manifest holds the records of the whole run.
LEMMA FinishHolds == IInv /\ Finish => IInv'
  <1> SUFFICES ASSUME IInv, Finish PROVE IInv'
    OBVIOUS
  <1>1. /\ pc = "next" /\ pc' = "rank" /\ manifest' = ManifestOf(run.records) /\ run' = run
        /\ UNCHANGED <<map, clip, thumbnail, ranking, page, meta, config, cost, runs, mishaps>>
    BY DEF Finish, Goto
  <1>2. manifest'.records = run.records
    BY <1>1 DEF ManifestOf
  <1>3. Scalars'
    BY <1>1 DEF IInv, Scalars, Labels
  <1>4. RunIsShaped'
    BY <1>1 DEF IInv, RunIsShaped, Extracting, Reporting, MapOf
  <1>5. RunIsTruthful'
    BY <1>1, <1>2 DEF IInv, RunIsTruthful, OnDisk, ClipOf, Reporting
  <1>6. PagesAreDescribed'
    BY <1>1 DEF IInv, PagesAreDescribed, Reporting, ServedPageIsCurrent
  <1> QED
    BY <1>1, <1>3, <1>4, <1>5, <1>6, ManifestHolds DEF IInv

\* The ranking is that of the map and the settings.
LEMMA RankHolds == IInv /\ Rank => IInv'
  <1> SUFFICES ASSUME IInv, Rank PROVE IInv'
    OBVIOUS
  <1>1. /\ pc = "rank" /\ pc' = "check" /\ ranking' = RankingOf(run.map, run.config)
        /\ UNCHANGED <<map, manifest, clip, thumbnail, page, meta, config, cost, run, runs, mishaps>>
    BY DEF Rank, Goto
  <1>2. Scalars' /\ ManifestIsTruthful'
    BY <1>1, FilesStay DEF Labels
  <1>3. RunIsShaped'
    BY <1>1 DEF IInv, RunIsShaped, Extracting, Reporting
  <1>4. RunIsTruthful'
    BY <1>1 DEF IInv, RunIsTruthful, OnDisk, ClipOf, Reporting
  <1>5. PagesAreDescribed'
    BY <1>1 DEF IInv, PagesAreDescribed, Reporting, ServedPageIsCurrent, RankingOf
  <1> QED
    BY <1>2, <1>3, <1>4, <1>5 DEF IInv

\* The page that the command would render now is described by its key.
LEMMA PageIsDescribed == Describes(Key, Page)
  <1>1. /\ Page.map = run.map /\ Page.ranking = RankingOf(run.map, run.config)
        /\ Page.cost = cost
        /\ Page.thumbnails = [c \in {d \in Shown : ThumbnailOk(d)} |-> thumbnail[c]]
    BY DEF Page
  <1>2. /\ Key.map = run.map /\ Key.ranking = RankingOf(run.map, run.config) /\ Key.cost = cost
        /\ Key.extraction = IF Shown = {} THEN Absent ELSE manifest
    BY DEF Key
  <1>3. ASSUME NEW c \in DOMAIN Page.thumbnails
        PROVE  /\ c \in ToSet(Key.map.found)
               /\ Page.thumbnails[c] = Key.extraction.records[c].thumbnail
    <2>1. c \in Shown /\ ThumbnailOk(c) /\ Page.thumbnails[c] = thumbnail[c]
      BY <1>1, <1>3
    <2>2. thumbnail[c] = manifest.records[c].thumbnail
      BY <2>1 DEF ThumbnailOk
    <2>3. Key.extraction = manifest
      BY <2>1, <1>2
    <2> QED BY <2>1, <2>2, <2>3, <1>2 DEF Shown
  <1> QED
    BY <1>1, <1>2, <1>3 DEF Describes

\* A page described by the key of now is current.
LEMMA DescribedIsCurrent ==
    ASSUME NEW p, Describes(Key, p)
    PROVE  /\ p.map = run.map /\ p.ranking = RankingOf(run.map, run.config) /\ p.cost = cost
           /\ \A c \in DOMAIN p.thumbnails : p.thumbnails[c] = manifest.records[c].thumbnail
  <1>1. /\ Key.map = run.map /\ Key.ranking = RankingOf(run.map, run.config) /\ Key.cost = cost
        /\ Key.extraction = IF Shown = {} THEN Absent ELSE manifest
    BY DEF Key
  <1>2. ASSUME NEW c \in DOMAIN p.thumbnails
        PROVE  p.thumbnails[c] = manifest.records[c].thumbnail
    <2>1. c \in Shown /\ p.thumbnails[c] = Key.extraction.records[c].thumbnail
      BY <1>1, <1>2 DEF Describes, Shown
    <2> QED BY <2>1, <1>1
  <1> QED
    BY <1>1, <1>2 DEF Describes

\* The step of a report leaves the run as it is but for its page and key.
LEMMA ReportStep ==
    ASSUME IInv, pc \in Reporting, pc' \in Reporting,
           run' = run \/ run' = [run EXCEPT !.key = Key, !.page = Page],
           UNCHANGED <<map, manifest, clip, thumbnail, ranking, config, cost, runs, mishaps>>
    PROVE  /\ Scalars' /\ ManifestIsTruthful' /\ RunIsShaped' /\ RunIsTruthful'
           /\ Key' = Key /\ Page' = Page
           /\ run'.map = run.map /\ run'.config = run.config
           /\ run' # run => run'.key = Key /\ run'.page = Page
  <1>1. DOMAIN run = RunFields
    BY DEF IInv, RunIsShaped
  <1>2. /\ DOMAIN run' = RunFields /\ run'.map = run.map /\ run'.config = run.config
        /\ run'.at = run.at /\ run'.old = run.old /\ run'.records = run.records
        /\ run' # run => run'.key = Key /\ run'.page = Page
    BY <1>1 DEF RunFields
  <1>3. Scalars' /\ ManifestIsTruthful'
    BY FilesStay DEF Labels, Reporting
  <1>4. RunIsShaped'
    BY <1>2 DEF IInv, RunIsShaped, Extracting, Reporting
  <1>5. RunIsTruthful'
    BY <1>2 DEF IInv, RunIsTruthful, OnDisk, ClipOf, Reporting
  <1>6. Shown' = Shown
    BY <1>2 DEF Shown
  <1>7. Key' = Key
    BY <1>2, <1>6 DEF Key, RankingOf
  <1>8. Page' = Page
    BY <1>2, <1>6 DEF Page, RankingOf, ThumbnailOk
  <1> QED
    BY <1>2, <1>3, <1>4, <1>5, <1>7, <1>8

\* A cached page is served when its key is that of now, and it is whole.
LEMMA ServeHolds == IInv /\ ServeCached => IInv'
  <1> SUFFICES ASSUME IInv, ServeCached PROVE IInv'
    OBVIOUS
  <1>1. /\ pc = "check" /\ pc' = "served" /\ run' = run
        /\ page # Absent /\ meta # Absent /\ meta.key = Key /\ meta.page = page
        /\ UNCHANGED <<map, manifest, clip, thumbnail, ranking, page, meta, config, cost, runs, mishaps>>
    BY DEF ServeCached, VerifiedHit, Goto, disk
  <1>2. /\ Scalars' /\ ManifestIsTruthful' /\ RunIsShaped' /\ RunIsTruthful'
        /\ run'.map = run.map /\ run'.config = run.config
    BY <1>1, ReportStep DEF Reporting
  <1>3. Describes(Key, page) /\ ranking = RankingOf(run.map, run.config)
    BY <1>1 DEF IInv, PagesAreDescribed, Reporting
  <1>4. ServedPageIsCurrent'
    BY <1>1, <1>3, DescribedIsCurrent DEF ServedPageIsCurrent
  <1>5. PagesAreDescribed'
    BY <1>1, <1>3, <1>4 DEF IInv, PagesAreDescribed, Reporting, RankingOf
  <1> QED
    BY <1>2, <1>5 DEF IInv

\* The page is rendered of what is there now.
LEMMA RenderHolds == IInv /\ Render => IInv'
  <1> SUFFICES ASSUME IInv, Render PROVE IInv'
    OBVIOUS
  <1>1. /\ pc = "check" /\ pc' = "publish" /\ run' = [run EXCEPT !.key = Key, !.page = Page]
        /\ UNCHANGED <<map, manifest, clip, thumbnail, ranking, page, meta, config, cost, runs, mishaps>>
    BY DEF Render, Goto, disk
  <1>2. /\ Scalars' /\ ManifestIsTruthful' /\ RunIsShaped' /\ RunIsTruthful'
        /\ Key' = Key /\ Page' = Page
        /\ run'.map = run.map /\ run'.config = run.config
    BY <1>1, ReportStep DEF Reporting
  <1>3. run'.key = Key /\ run'.page = Page
    <2>1. DOMAIN run = RunFields
      BY DEF IInv, RunIsShaped
    <2> QED BY <2>1, <1>1 DEF RunFields
  <1>4. ranking' = RankingOf(run'.map, run'.config)
    BY <1>1, <1>2 DEF IInv, PagesAreDescribed, Reporting
  <1>5. PagesAreDescribed'
    BY <1>1, <1>2, <1>3, <1>4 DEF IInv, PagesAreDescribed, Reporting, ServedPageIsCurrent
  <1> QED
    BY <1>2, <1>5 DEF IInv

\* The page is in place before its metadata are.
LEMMA PublishHolds == IInv /\ Publish => IInv'
  <1> SUFFICES ASSUME IInv, Publish PROVE IInv'
    OBVIOUS
  <1>1. /\ pc = "publish" /\ pc' = "describe" /\ run' = run /\ page' = run.page
        /\ UNCHANGED <<map, manifest, clip, thumbnail, ranking, meta, config, cost, runs, mishaps>>
    BY DEF Publish, Goto
  <1>2. /\ Scalars' /\ ManifestIsTruthful' /\ RunIsShaped' /\ RunIsTruthful'
        /\ Key' = Key /\ Page' = Page
    BY <1>1, ReportStep DEF Reporting
  <1>3. /\ run.key = Key /\ run.page = Page
        /\ ranking = RankingOf(run.map, run.config)
    BY <1>1 DEF IInv, PagesAreDescribed, Reporting
  <1>4. PagesAreDescribed'
    BY <1>1, <1>2, <1>3
       DEF IInv, PagesAreDescribed, Reporting, ServedPageIsCurrent, RankingOf
  <1> QED
    BY <1>2, <1>4 DEF IInv

\* The metadata describe the page that is there.
LEMMA WriteMetaHolds == IInv /\ WriteMeta => IInv'
  <1> SUFFICES ASSUME IInv, WriteMeta PROVE IInv'
    OBVIOUS
  <1>1. /\ pc = "describe" /\ pc' = "served" /\ run' = run
        /\ meta' = [key |-> run.key, page |-> run.page]
        /\ UNCHANGED <<map, manifest, clip, thumbnail, ranking, page, config, cost, runs, mishaps>>
    BY DEF WriteMeta, Goto
  <1>2. Scalars' /\ ManifestIsTruthful' /\ RunIsShaped' /\ RunIsTruthful'
    BY <1>1, ReportStep DEF Reporting
  <1>3. /\ run.key = Key /\ run.page = Page /\ page = run.page
        /\ ranking = RankingOf(run.map, run.config)
    BY <1>1 DEF IInv, PagesAreDescribed, Reporting
  <1>4. Describes(Key, Page)
    BY PageIsDescribed
  <1>5. Describes(meta'.key, meta'.page)
    BY <1>1, <1>3, <1>4
  <1>6. ServedPageIsCurrent'
    BY <1>1, <1>3, <1>4, DescribedIsCurrent DEF ServedPageIsCurrent
  <1>7. PagesAreDescribed'
    BY <1>1, <1>3, <1>5, <1>6 DEF PagesAreDescribed, Reporting, RankingOf
  <1> QED
    BY <1>2, <1>7 DEF IInv

\* Every step keeps the invariant.
LEMMA StepHolds == IInv /\ [Next]_vars => IInv'
  <1> SUFFICES ASSUME IInv, [Next]_vars PROVE IInv'
    OBVIOUS
  <1>1. CASE \E k \in Configs, force \in BOOLEAN : Start(k, force)
    BY <1>1, StartHolds
  <1>2. CASE Reconcile \/ OpenManifest \/ Reuse
    BY <1>2, ReconcileHolds, OpenHolds, ReuseHolds
  <1>3. CASE Encode \/ Photograph \/ CandidateFails
    BY <1>3, EncodeHolds, PhotographHolds, FailHolds
  <1>4. CASE SavePartial \/ Finish
    BY <1>4, SaveHolds, FinishHolds
  <1>5. CASE ReportCommand \/ Rank \/ ServeCached \/ Render \/ Publish \/ WriteMeta
    BY <1>5, ReportHolds, RankHolds, ServeHolds, RenderHolds, PublishHolds, WriteMetaHolds
  <1>6. CASE Stop \/ Mishap \/ SettleCost
    BY <1>6, StopHolds, MishapHolds
  <1>7. CASE UNCHANGED vars
    <2>1. UNCHANGED <<map, manifest, clip, thumbnail, ranking, page, meta, config, cost, pc, run, runs, mishaps>>
      BY <1>7 DEF vars, disk
    <2>2. Scalars' /\ RunIsShaped' /\ ManifestIsTruthful'
      BY <2>1 DEF IInv, Scalars, RunIsShaped, ManifestIsTruthful, Extracting, Reporting
    <2>3. RunIsTruthful'
      BY <2>1 DEF IInv, RunIsTruthful, OnDisk, ClipOf, Reporting, Candidate
    <2>4. Key' = Key /\ Page' = Page
      BY <2>1 DEF Key, Page, Shown, RankingOf, ThumbnailOk
    <2>5. PagesAreDescribed'
      BY <2>1, <2>4 DEF IInv, PagesAreDescribed, Reporting, ServedPageIsCurrent, RankingOf
    <2> QED BY <2>2, <2>3, <2>5 DEF IInv
  <1> QED
    BY <1>1, <1>2, <1>3, <1>4, <1>5, <1>6, <1>7 DEF Next

\* It holds in every state.
LEMMA Invariant == Spec => []IInv
  BY InitHolds, StepHolds, PTL DEF Spec

-------------------------------------------------------------------------------
\* The variables have their types, the manifest's status is that of its records,
\* a COMPLETED record names its clip, and metadata are those of a whole page.
THEOREM TypeCorrect == Spec => []TypeOK
  <1>1. ASSUME IInv PROVE TypeOK
    <2>1. ASSUME manifest # Absent, NEW c \in Candidates, IsRecorded(c)
          PROVE  manifest.records[c].clip # Absent
      <3> DEFINE r == manifest.records[c]
      <3>1. r.fingerprint \in Settings
            /\ r.clip = [pad |-> r.fingerprint.pad, quality |-> r.fingerprint.quality]
        BY <1>1, <2>1 DEF IInv, ManifestIsTruthful, Truthful, IsRecorded
      <3>2. r.clip \in [pad : Nat, quality : Nat]
        BY <3>1 DEF Settings
      <3> QED BY <3>2, ClipAssumption
    <2>2. meta # Absent => meta.page.ranking = meta.key.ranking
      BY <1>1 DEF IInv, PagesAreDescribed, Describes
    <2> QED BY <1>1, <2>1, <2>2 DEF IInv, Scalars, ManifestIsTruthful, TypeOK
  <1> QED
    BY <1>1, Invariant, PTL

\* A run that has extracted what it found leaves clips and thumbnails of its
\* own settings, whatever runs came before it and whatever was lost.
THEOREM ClipsOfTheRun == Spec => []ClipsAreOfTheRun
  <1>1. ASSUME IInv PROVE ClipsAreOfTheRun
    <2> SUFFICES ASSUME pc \in Reporting, run.at > Len(run.map.found),
                        NEW c \in Shown, IsCompleted(run.records[c])
                 PROVE  /\ clip[c] = ClipOf(run.config)
                        /\ Extraction[run.config].thumbnail => thumbnail[c] = ClipOf(run.config)
                        /\ manifest.records[c].clip = clip[c]
      BY DEF ClipsAreOfTheRun, Reporting
    <2>1. c \in Candidates
      <3>1. PICK k \in Configs : run.map = MapOf(k)
        BY <1>1 DEF IInv, RunIsShaped
      <3>2. run.map.found \in Seq(Candidates)
        BY <3>1, ClipAssumption DEF MapOf
      <3> QED BY <3>2 DEF Shown, ToSet
    <2>2. run.records[c].clip = clip[c] /\ OnDisk(c)
      BY <1>1, <2>1 DEF IInv, RunIsTruthful
    <2>3. manifest.records = run.records
      BY <1>1, <2>1 DEF IInv, RunIsTruthful, NoRecords, IsCompleted
    <2> QED BY <2>2, <2>3 DEF OnDisk
  <1> QED
    BY <1>1, Invariant, PTL

\* A page that is served says what the map, the ranking and the ledger say now.
THEOREM ServedIsCurrent == Spec => []ServedPageIsCurrent
  <1>1. IInv => ServedPageIsCurrent
    BY DEF IInv, PagesAreDescribed
  <1> QED
    BY <1>1, Invariant, PTL
===============================================================================
