------------------------------ MODULE ClipLibrary ------------------------------
(***************************************************************************)
(* From the session map to the report: the clips and thumbnails with their *)
(* manifest (pipeline/extraction.py), the ranking (ranking.py), the page   *)
(* and its metadata (report.py), and the `report` command, which renders   *)
(* what earlier runs have left on disk (cli.py).                           *)
(*                                                                         *)
(* One run at a time; it may be killed between any two writes.  None of    *)
(* these stages looks at manifest.json, whose record is the subject of     *)
(* SessionPipeline.tla.                                                    *)
(*                                                                         *)
(* Abstractions: a hash is the content; a clip is its padding around the   *)
(* event and its quality, and a thumbnail is the clip it was taken from;   *)
(* a clip is encoded, probed and moved into place in one step.  The stage  *)
(* statuses that the page repeats and its key hashes are left out.         *)
(***************************************************************************)
EXTENDS Integers, Sequences, SequencesExt

CONSTANTS
    Candidates,     \* candidate ids
    Configs,        \* configurations of a run
    Found,          \* the candidates that a configuration's scout finds
    Extraction,     \* the extraction settings of a configuration
    Presentation,   \* the ranking and report settings of a configuration
    MaxRuns,        \* bound: commands that are started
    MaxMishaps,     \* bound: artifacts that get lost or edited
    MaxCost,        \* bound: settlements of this session's calls
    Absent

ASSUME ClipAssumption ==
    /\ Found \in [Configs -> Seq(Candidates)]
    /\ Extraction \in [Configs -> [pad : Nat, quality : Nat, thumbnail : BOOLEAN]]
    /\ Presentation \in [Configs -> Nat]
    /\ MaxRuns \in Nat /\ MaxMishaps \in Nat /\ MaxCost \in Nat
    /\ Absent \notin [pad : Nat, quality : Nat]

VARIABLES
    map,                \* reconcile/session_map.json
    manifest,           \* the extraction manifest
    clip, thumbnail,    \* the media files of each candidate
    ranking,            \* reports/ranking.json
    page, meta,         \* reports/index.html and its metadata
    config,             \* config.json, written by the first ingest
    cost,               \* what the ledger says of this session
    pc, run,            \* where the command is, and its local variables
    runs, mishaps       \* history: how many there were

disk == <<map, manifest, clip, thumbnail, ranking, page, meta, config>>
vars == <<disk, cost, pc, run, runs, mishaps>>

NoRecords == [c \in Candidates |-> Absent]

NoRun == [config |-> Absent, force |-> FALSE, map |-> Absent, old |-> NoRecords,
          records |-> NoRecords, at |-> 1, key |-> Absent, page |-> Absent]

Init ==
    /\ map = Absent /\ manifest = Absent
    /\ clip = [c \in Candidates |-> Absent] /\ thumbnail = [c \in Candidates |-> Absent]
    /\ ranking = Absent /\ page = Absent /\ meta = Absent
    /\ config = Absent /\ cost = 0
    /\ pc = "idle" /\ run = NoRun
    /\ runs = 0 /\ mishaps = 0

-------------------------------------------------------------------------------
\* What is made of what.

\* The reconciled map with the clip boundaries of a configuration.
MapOf(k) == [found |-> Found[k], pad |-> Extraction[k].pad]

ClipOf(k) == [pad |-> Extraction[k].pad, quality |-> Extraction[k].quality]

CompletedRecord(c) ==
    [status |-> "COMPLETED", pad |-> run.map.pad, fingerprint |-> Extraction[run.config],
     clip |-> clip'[c], thumbnail |-> IF Extraction[run.config].thumbnail THEN thumbnail'[c] ELSE Absent]

IncompleteRecord ==
    [status |-> "INCOMPLETE", pad |-> run.map.pad, fingerprint |-> Extraction[run.config],
     clip |-> Absent, thumbnail |-> Absent]

IsCompleted(r) == r # Absent /\ r.status = "COMPLETED"
IsIncomplete(r) == r # Absent /\ r.status = "INCOMPLETE"

\* Mutant of ManifestOf: the incomplete records are not looked at.
ManifestCompleted(records) == [records |-> records, status |-> "COMPLETED"]
ManifestOf(records) ==
    [records |-> records,
     status |-> IF \E c \in Candidates : IsIncomplete(records[c]) THEN "INCOMPLETE" ELSE "COMPLETED"]

RankingOf(m, k) == [map |-> m, presentation |-> Presentation[k]]

-------------------------------------------------------------------------------
\* extract_candidates

Goto(label) == pc' = label

Start(k, force) ==
    /\ pc = "idle" /\ runs < MaxRuns
    /\ config' = IF config = Absent THEN k ELSE config
    /\ run' = [NoRun EXCEPT !.config = k, !.force = force]
    /\ runs' = runs + 1
    /\ Goto("reconcile")
    /\ UNCHANGED <<map, manifest, clip, thumbnail, ranking, page, meta, cost, mishaps>>

Reconcile ==
    /\ pc = "reconcile"
    /\ map' = MapOf(run.config)
    /\ run' = [run EXCEPT !.map = MapOf(run.config)]
    /\ Goto("open")
    /\ UNCHANGED <<manifest, clip, thumbnail, ranking, page, meta, config, cost, runs, mishaps>>

OpenManifest ==
    /\ pc = "open"
    /\ run' = [run EXCEPT !.old = IF manifest = Absent THEN NoRecords ELSE manifest.records]
    /\ Goto("next")
    /\ UNCHANGED <<disk, cost, runs, mishaps>>

Candidate == run.map.found[run.at]
More == run.at <= Len(run.map.found)

\* Mutant of Reusable: the settings of the earlier extraction are not compared.
ReusableUnderAnySettings(c) ==
    LET r == run.old[c]
    IN /\ IsCompleted(r)
       /\ r.pad = run.map.pad
       /\ clip[c] # Absent /\ r.clip = clip[c]
       /\ Extraction[run.config].thumbnail => thumbnail[c] # Absent /\ r.thumbnail = thumbnail[c]

Reusable(c) ==
    LET r == run.old[c]
    IN /\ IsCompleted(r)
       /\ r.pad = run.map.pad
       /\ r.fingerprint = Extraction[run.config]
       /\ clip[c] # Absent /\ r.clip = clip[c]
       /\ Extraction[run.config].thumbnail => thumbnail[c] # Absent /\ r.thumbnail = thumbnail[c]

\* A candidate that is served from disk does not write the manifest.
Reuse ==
    /\ pc = "next" /\ More
    /\ Reusable(Candidate)
    /\ run' = [run EXCEPT !.records[Candidate] = run.old[Candidate], !.at = @ + 1]
    /\ UNCHANGED <<disk, cost, pc, runs, mishaps>>

\* The candidate is done, one way or the other, and the manifest comes next.
Recorded(record) ==
    /\ run' = [run EXCEPT !.records[Candidate] = record]
    /\ Goto("save")

Encode ==
    /\ pc = "next" /\ More
    /\ ~Reusable(Candidate)
    /\ clip' = [clip EXCEPT ![Candidate] = ClipOf(run.config)]
    /\ UNCHANGED thumbnail
    /\ IF Extraction[run.config].thumbnail
       THEN Goto("photograph") /\ UNCHANGED run
       ELSE Recorded(CompletedRecord(Candidate))
    /\ UNCHANGED <<map, manifest, ranking, page, meta, config, cost, runs, mishaps>>

Photograph ==
    /\ pc = "photograph"
    /\ thumbnail' = [thumbnail EXCEPT ![Candidate] = clip[Candidate]]
    /\ UNCHANGED clip
    /\ Recorded(CompletedRecord(Candidate))
    /\ UNCHANGED <<map, manifest, ranking, page, meta, config, cost, runs, mishaps>>

\* A tool fails, times out or is interrupted, before or after the clip is in
\* place: the exception ends the candidate and not the run.
CandidateFails ==
    /\ \/ pc = "next" /\ More /\ ~Reusable(Candidate)
       \/ pc = "photograph"
    /\ Recorded(IncompleteRecord)
    /\ UNCHANGED <<disk, cost, runs, mishaps>>

\* The partial manifest holds the candidates gone through so far.
SavePartial ==
    /\ pc = "save"
    /\ manifest' = ManifestOf(run.records)
    /\ run' = [run EXCEPT !.at = @ + 1]
    /\ Goto("next")
    /\ UNCHANGED <<map, clip, thumbnail, ranking, page, meta, config, cost, runs, mishaps>>

Finish ==
    /\ pc = "next" /\ ~More
    /\ manifest' = ManifestOf(run.records)
    /\ Goto("rank")
    /\ UNCHANGED <<map, clip, thumbnail, ranking, page, meta, config, cost, run, runs, mishaps>>

-------------------------------------------------------------------------------
\* load_or_create_ranking and render_report

\* The `report` command: the settings are those of config.json, the map is the
\* one on disk, and no clip is made.
ReportCommand ==
    /\ pc = "idle" /\ runs < MaxRuns
    /\ config # Absent /\ map # Absent /\ ranking # Absent
    /\ run' = [NoRun EXCEPT !.config = config, !.map = map]
    /\ runs' = runs + 1
    /\ Goto("rank")
    /\ UNCHANGED <<disk, cost, mishaps>>

Rank ==
    /\ pc = "rank"
    /\ ranking' = RankingOf(run.map, run.config)
    /\ Goto("check")
    /\ UNCHANGED <<map, manifest, clip, thumbnail, page, meta, config, cost, run, runs, mishaps>>

Shown == ToSet(run.map.found)
IsRecorded(c) == IsCompleted(manifest.records[c])

\* _validate_extraction
Accepts ==
    Shown # {} =>
        /\ manifest # Absent
        /\ \A c \in Candidates : IsRecorded(c) => clip[c] # Absent /\ clip[c] = manifest.records[c].clip
        /\ \A c \in Shown : IsRecorded(c)

ThumbnailOk(c) ==
    /\ manifest.records[c].thumbnail # Absent
    /\ thumbnail[c] = manifest.records[c].thumbnail

Page ==
    [map |-> run.map, ranking |-> RankingOf(run.map, run.config), cost |-> cost,
     thumbnails |-> [c \in {d \in Shown : ThumbnailOk(d)} |-> thumbnail[c]]]

Key ==
    [map |-> run.map, ranking |-> RankingOf(run.map, run.config), cost |-> cost,
     extraction |-> IF Shown = {} THEN Absent ELSE manifest]

\* Mutant of VerifiedHit: the page itself is not looked at.
HitByKey == page # Absent /\ meta # Absent /\ meta.key = Key
VerifiedHit == page # Absent /\ meta # Absent /\ meta.key = Key /\ meta.page = page

ServeCached ==
    /\ pc = "check" /\ Accepts
    /\ ~run.force /\ VerifiedHit
    /\ Goto("served")
    /\ UNCHANGED <<disk, cost, run, runs, mishaps>>

Render ==
    /\ pc = "check" /\ Accepts
    /\ run.force \/ ~VerifiedHit
    /\ run' = [run EXCEPT !.key = Key, !.page = Page]
    /\ Goto("publish")
    /\ UNCHANGED <<disk, cost, runs, mishaps>>

Publish ==
    /\ pc = "publish"
    /\ page' = run.page
    /\ Goto("describe")
    /\ UNCHANGED <<map, manifest, clip, thumbnail, ranking, meta, config, cost, run, runs, mishaps>>

WriteMeta ==
    /\ pc = "describe"
    /\ meta' = [key |-> run.key, page |-> run.page]
    /\ Goto("served")
    /\ UNCHANGED <<map, manifest, clip, thumbnail, ranking, page, config, cost, run, runs, mishaps>>

\* The command ends: the report is served or refused, --stop-after is reached,
\* or the process is killed.
Stop ==
    /\ pc # "idle"
    /\ Goto("idle") /\ run' = NoRun
    /\ UNCHANGED <<disk, cost, runs, mishaps>>

-------------------------------------------------------------------------------
\* Between the commands.

\* Media get lost; somebody edits the page.
Mishap ==
    /\ pc = "idle" /\ mishaps < MaxMishaps
    /\ mishaps' = mishaps + 1
    /\ \/ \E c \in Candidates :
             \/ clip[c] # Absent /\ clip' = [clip EXCEPT ![c] = Absent] /\ UNCHANGED <<thumbnail, page>>
             \/ thumbnail[c] # Absent /\ thumbnail' = [thumbnail EXCEPT ![c] = Absent] /\ UNCHANGED <<clip, page>>
       \/ page # Absent /\ page' = [page EXCEPT !.ranking = Absent] /\ UNCHANGED <<clip, thumbnail>>
    /\ UNCHANGED <<map, manifest, ranking, meta, config, cost, pc, run, runs>>

\* The owner settles a call of the session.
SettleCost ==
    /\ pc = "idle" /\ cost < MaxCost
    /\ cost' = cost + 1
    /\ UNCHANGED <<disk, pc, run, runs, mishaps>>

Next ==
    \/ \E k \in Configs, force \in BOOLEAN : Start(k, force)
    \/ Reconcile \/ OpenManifest \/ Reuse \/ Encode \/ Photograph \/ CandidateFails
    \/ SavePartial \/ Finish \/ ReportCommand \/ Rank \/ ServeCached \/ Render
    \/ Publish \/ WriteMeta \/ Stop \/ Mishap \/ SettleCost

Spec == Init /\ [][Next]_vars

-------------------------------------------------------------------------------
Labels == {"idle", "reconcile", "open", "next", "photograph", "save", "rank",
           "check", "publish", "describe", "served"}

\* The manifest is INCOMPLETE exactly when one of its records is, a COMPLETED
\* record names its clip, and the metadata are those of a page that was whole.
TypeOK ==
    /\ map \in {Absent} \cup {MapOf(k) : k \in Configs}
    /\ config \in Configs \cup {Absent} /\ cost \in 0..MaxCost
    /\ pc \in Labels /\ runs \in 0..MaxRuns /\ mishaps \in 0..MaxMishaps
    /\ manifest # Absent =>
         /\ \A c \in Candidates : IsRecorded(c) => manifest.records[c].clip # Absent
         /\ (manifest.status = "INCOMPLETE") <=> \E c \in Candidates : IsIncomplete(manifest.records[c])
    /\ meta # Absent => meta.page.ranking = meta.key.ranking

\* A run of the pipeline that has extracted everything it found leaves every
\* candidate with a clip and a thumbnail made under its own settings, whichever
\* it made itself and whichever it took over from runs of other settings, from
\* runs killed between a clip and its thumbnail or its record, or from a disk
\* that has lost files since.
ClipsAreOfTheRun ==
    pc \in {"rank", "check", "publish", "describe", "served"} /\ run.at > Len(run.map.found) =>
        \A c \in Shown : IsCompleted(run.records[c]) =>
            /\ clip[c] = ClipOf(run.config)
            /\ Extraction[run.config].thumbnail => thumbnail[c] = ClipOf(run.config)
            /\ manifest.records[c].clip = clip[c]

\* A page that is served, from the cache or anew, says what the map, the
\* ranking and the ledger say now, and embeds no thumbnail but a recorded one:
\* whatever was killed between the page and its metadata, edited or settled.
ServedPageIsCurrent ==
    pc = "served" =>
        /\ page.map = run.map /\ page.ranking = ranking /\ page.cost = cost
        /\ \A c \in DOMAIN page.thumbnails : page.thumbnails[c] = manifest.records[c].thumbnail
===============================================================================
