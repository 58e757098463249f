---------------------------- MODULE DailyMetric ----------------------------
(***************************************************************************)
(* The metric document of ONE domain and day: a snapshot of each weight    *)
(* source, the preferred one of them repeated at the top level, and the    *)
(* Chinaz supplement.  Three workers write it, each with one update (two   *)
(* when they race to insert it); the start-up migrations of documents that *)
(* an older version wrote read it first and write it later.                *)
(*                                                                         *)
(* An aggregation-pipeline update is one atomic step; its stages are the   *)
(* operators Bootstrapped, Saved, FailedBy and Projected on the document.  *)
(*                                                                         *)
(* A definition marked "Slip" is no part of the specification: it is a     *)
(* plausible mistake in the definition below it, that a property notices.  *)
(***************************************************************************)
EXTENDS Naturals

CONSTANTS
    MaxFetches,    \* bound on the successful fetches
    MaxRestarts    \* bound on the restarts of the server

ASSUME BoundsAssumption == MaxFetches \in Nat /\ MaxRestarts \in Nat

VARIABLES
    doc,        \* the document
    provider,   \* SOURCE_PROVIDER: "aizhan" (three queues) or "chinaz" (the old one)
    writer,     \* each worker's position in SaveJobResult, and its result
    migration,  \* the start-up migrations, with what they have read
    \* --- bookkeeping of the model
    legacy,     \* ghost: the document as the older version left it
    last,       \* ghost: how the latest recorded attempt of each source ended
    result,     \* ghost: the latest result each source saved
    proven,     \* ghost: a succeeded job proved the legacy document valid
    used        \* how much of each bound is spent

vars == <<doc, provider, writer, migration, legacy, last, result, proven, used>>

(***************************************************************************)
(* Documents                                                               *)
(***************************************************************************)
Sources == {"aizhan", "chinaz"}
Writers == Sources \cup {"supplement"}
Sites   == Sources \cup {"none"}

\* The primary fields of one response: whose they are, which response, and
\* whether both Baidu weights are there (HasBaiduWeights).  Legacy ones are number 0.
Metric   == [from : Sources, id : Nat, usable : BOOLEAN]
NoMetric == [from |-> "none", id |-> 0, usable |-> FALSE]

\* source_url and collected_at, told apart from the fields they came with.
Provenance == [site : Sites, id : Nat]
ProvenanceOf(m) == [site |-> m.from, id |-> m.id]

\* A valid snapshot holds both Baidu weights.
Snapshot   == {x \in [known : BOOLEAN, metric : Metric \cup {NoMetric}, valid : BOOLEAN] :
                  /\ ~x.known => x.metric = NoMetric
                  /\ x.valid => x.known /\ x.metric.usable}
NoSnapshot == [known |-> FALSE, metric |-> NoMetric, valid |-> FALSE]

\* shown, prov, label (weight_source) and valid (weight_valid) are top level fields.
Document ==
    [exists : BOOLEAN, shown : Metric \cup {NoMetric}, prov : Provenance, label : Sites,
     valid : {"missing", "yes", "no"}, extra : Nat, snap : [Sources -> Snapshot]]

NoDocument ==
    [exists |-> FALSE, shown |-> NoMetric, prov |-> ProvenanceOf(NoMetric),
     label |-> "none", valid |-> "missing", extra |-> 0,
     snap |-> [s \in Sources |-> NoSnapshot]]

\* What an older version may have left: unlabeled, or labeled with the site of
\* its weights; called valid only when labeled and usable.
LegacyDocument(m, label, valid) ==
    [NoDocument EXCEPT !.exists = TRUE, !.shown = m, !.prov = ProvenanceOf(m),
                       !.label = label, !.valid = valid]
LegacyDocuments ==
    {d \in {LegacyDocument([from |-> s, id |-> 0, usable |-> u], l, v) :
               s \in Sources, u \in BOOLEAN, l \in Sites, v \in {"missing", "yes", "no"}} :
        /\ d.label \in {"none", d.shown.from}
        /\ d.valid = "yes" => d.label # "none" /\ d.shown.usable}

(***************************************************************************)
(* The stages of the pipelines                                             *)
(***************************************************************************)
\* The site an unlabeled document's weights come from, by URL and real weights.
LegacyWeightSource(d) == IF d.shown.usable THEN d.prov.site ELSE "none"

\* Whose result the top level holds, as far as it can be told.
SourceOf(d) == IF d.label # "none" THEN d.label ELSE LegacyWeightSource(d)

\* Slip: nothing is kept.
BootstrappedNever(d) == d

\* bootstrapWeightSnapshots: keep what the top level holds before it is overwritten.
Bootstrapped(d) ==
    [d EXCEPT !.snap = [s \in Sources |->
        IF ~@[s].known /\ SourceOf(d) = s
        THEN [known |-> TRUE, metric |-> d.shown, valid |-> d.valid = "yes"]
        ELSE @[s]]]

\* Slip: a valid result of Chinaz is preferred.
PreferredChinaz(d) ==
    IF d.snap["chinaz"].valid THEN "chinaz"
    ELSE IF d.snap["aizhan"].valid THEN "aizhan" ELSE "none"

\* preferredWeightProjection: a valid Aizhan result, else a valid Chinaz one.
Preferred(d) ==
    IF d.snap["aizhan"].valid THEN "aizhan"
    ELSE IF d.snap["chinaz"].valid THEN "chinaz" ELSE "none"

\* With no valid result the fields on display stay, but no longer count as valid.
Projected(d) ==
    IF Preferred(d) = "none" THEN [d EXCEPT !.valid = "no"]
    ELSE LET m == d.snap[Preferred(d)].metric IN
         [d EXCEPT !.valid = "yes", !.shown = m, !.prov = ProvenanceOf(m), !.label = m.from]

WithSnapshot(d, s, snapshot) == [d EXCEPT !.snap[s] = snapshot]

\* weightSnapshotUpdate.  The required provenance fields are filled in if missing;
\* the old single-source mode writes the supplement along with the weights.
Saved(d, m, full) ==
    LET b == Bootstrapped(d)
        n == [b EXCEPT !.exists = TRUE,
                       !.prov = IF @.site = "none" THEN ProvenanceOf(m) ELSE @,
                       !.extra = IF full THEN m.id ELSE @]
    IN  Projected(WithSnapshot(n, m.from,
            [known |-> TRUE, metric |-> m, valid |-> m.usable]))

\* Slip: a failure drops the last result of the source.
FailedByDropping(d, s) ==
    Projected(WithSnapshot(Bootstrapped(d), s,
        [known |-> TRUE, metric |-> NoMetric, valid |-> FALSE]))

\* weightFailureUpdate: the source's last result stays, but is not valid any more.
FailedBy(d, s) ==
    LET b == Bootstrapped(d) IN
    Projected(WithSnapshot(b, s, [b.snap[s] EXCEPT !.known = TRUE, !.valid = FALSE]))

\* Slip: the provenance is set on every update.
SupplementedAlways(d, id) ==
    [d EXCEPT !.exists = TRUE, !.extra = id, !.prov = [site |-> "chinaz", id |-> id]]

\* sourceMetricUpdate of the supplement: its provenance only on insertion.
Supplemented(d, id) ==
    [d EXCEPT !.exists = TRUE, !.extra = id,
              !.prov = IF d.exists THEN @ ELSE [site |-> "chinaz", id |-> id]]

\* What a reader who asks for one source gets: its own snapshot, or the top level
\* of a document labeled with it, or nothing; never the other source's weights.
SourceWeightMetric(d, s) ==
    IF d.snap[s].known THEN d.snap[s].metric
    ELSE IF d.label = s THEN d.shown ELSE NoMetric

(***************************************************************************)
(* The workers                                                             *)
(***************************************************************************)
WriterPCs == {"idle", "update", "insert", "again"}
WriterType == [pc : WriterPCs, id : Nat, usable : BOOLEAN]
NoResult   == [pc |-> "idle", id |-> 0, usable |-> FALSE]

MigrationType ==
    [pc : {"sources", "label", "snapshots", "import", "done"}, seen : Document]
Migrating(pc, d) == [pc |-> pc, seen |-> d]

UsedType == [fetches : Nat, restarts : Nat]

Init ==
    /\ legacy \in LegacyDocuments \cup {NoDocument}
    /\ doc = legacy
    /\ provider \in Sources
    /\ writer = [a \in Writers |-> NoResult]
    /\ migration = Migrating("sources", NoDocument)
    /\ last = [s \in Sources |-> "none"]
    /\ result = [s \in Sources |-> NoMetric]
    /\ proven = FALSE
    /\ used = [fetches |-> 0, restarts |-> 0]

\* Only the Chinaz worker exists in the old mode.
Employed(a) == provider = "aizhan" \/ a = "chinaz"

\* A fetch succeeds.  Only the old Chinaz scraper accepts a page without weights.
Fetch(a) ==
    /\ Employed(a) /\ writer[a].pc = "idle"
    /\ used.fetches < MaxFetches
    /\ used' = [used EXCEPT !.fetches = @ + 1]
    /\ \E usable \in (IF provider = "aizhan" THEN {TRUE} ELSE BOOLEAN) :
        writer' = [writer EXCEPT ![a] =
            [pc |-> "update", id |-> used.fetches + 1, usable |-> usable]]
    /\ UNCHANGED <<doc, provider, migration, legacy, last, result, proven>>

ResultOf(s) == [from |-> s, id |-> writer[s].id, usable |-> writer[s].usable]

\* The update of SaveJobResult takes effect on d, and the worker is done.
Write(a, d) ==
    /\ writer' = [writer EXCEPT ![a] = NoResult]
    /\ IF a = "supplement"
       THEN /\ doc' = Supplemented(d, writer[a].id)
            /\ UNCHANGED <<last, result>>
       ELSE /\ doc' = Saved(d, ResultOf(a), provider = "chinaz")
            /\ last' = [last EXCEPT ![a] = IF writer[a].usable THEN "valid" ELSE "invalid"]
            /\ result' = [result EXCEPT ![a] = ResultOf(a)]
    /\ UNCHANGED <<provider, migration, legacy, proven, used>>

\* The upsert finds the document and updates it...
UpdateMetric(a) ==
    /\ writer[a].pc \in {"update", "again"}
    /\ doc.exists
    /\ Write(a, doc)

\* ... or finds none and goes on to insert one.
MissMetric(a) ==
    /\ writer[a].pc \in {"update", "again"}
    /\ ~doc.exists
    /\ writer' = [writer EXCEPT ![a].pc = "insert"]
    /\ UNCHANGED <<doc, provider, migration, legacy, last, result, proven, used>>

\* The unique index lets one insertion through.
InsertMetric(a) ==
    /\ writer[a].pc = "insert"
    /\ ~doc.exists
    /\ Write(a, NoDocument)

\* The loser's duplicate key error makes it try again, once.
LoseInsertion(a) ==
    /\ writer[a].pc = "insert"
    /\ doc.exists
    /\ writer' = [writer EXCEPT ![a].pc = "again"]
    /\ UNCHANGED <<doc, provider, migration, legacy, last, result, proven, used>>

\* Any other error: the result is given up, and the attempt will be recorded as failed.
AbandonResult(a) ==
    /\ writer[a].pc # "idle"
    /\ writer' = [writer EXCEPT ![a] = NoResult]
    /\ UNCHANGED <<doc, provider, migration, legacy, last, result, proven, used>>

\* invalidateWeightAttempt: without a document there is nothing to invalidate.
InvalidateWeightAttempt(s) ==
    /\ Employed(s) /\ writer[s].pc = "idle"
    /\ doc.exists
    /\ doc' = FailedBy(doc, s)
    /\ last' = [last EXCEPT ![s] = "invalid"]
    /\ UNCHANGED <<provider, writer, migration, legacy, result, proven, used>>

WriterStep(a) ==
    \/ Fetch(a) \/ UpdateMetric(a) \/ MissMetric(a) \/ InsertMetric(a)
    \/ LoseInsertion(a) \/ AbandonResult(a)
    \/ a \in Sources /\ InvalidateWeightAttempt(a)

(***************************************************************************)
(* The migrations: InitializeWeightSources, then InitializeWeightSnapshots *)
(***************************************************************************)
FindUnlabeled ==
    /\ migration.pc = "sources"
    /\ migration' = IF doc.exists /\ doc.label = "none" /\ LegacyWeightSource(doc) # "none"
                    THEN Migrating("label", doc) ELSE Migrating("snapshots", NoDocument)
    /\ UNCHANGED <<doc, provider, writer, legacy, last, result, proven, used>>

\* The latest job of the day, read after the document, proves it valid or not;
\* without a job the validity stays unknown.
LabelSource ==
    LET seen == migration.seen IN
    /\ migration.pc = "label"
    /\ \E job \in {"none", "succeeded", "other"} :
        LET valid == IF seen.valid # "missing" \/ job = "none" THEN seen.valid
                     ELSE IF job = "succeeded" THEN "yes" ELSE "no"
        IN IF doc.label = "none" /\ doc.valid = seen.valid
           THEN /\ doc' = [doc EXCEPT !.label = LegacyWeightSource(seen), !.valid = valid]
                /\ proven' = (proven \/ valid = "yes")
           ELSE UNCHANGED <<doc, proven>>
    /\ migration' = Migrating("snapshots", NoDocument)
    /\ UNCHANGED <<provider, writer, legacy, last, result, used>>

FindUnimported ==
    /\ migration.pc = "snapshots"
    /\ migration' = IF doc.label \in Sources /\ ~doc.snap[doc.label].known
                    THEN Migrating("import", doc) ELSE Migrating("done", NoDocument)
    /\ UNCHANGED <<doc, provider, writer, legacy, last, result, proven, used>>

\* Slip: the import does not look whether the document has changed since.
ImportSnapshotUnchecked ==
    LET seen == migration.seen IN
    /\ migration.pc = "import"
    /\ doc' = WithSnapshot(doc, seen.label,
                  [known |-> TRUE, metric |-> seen.shown,
                   valid |-> seen.valid = "yes" /\ seen.shown.usable])
    /\ migration' = Migrating("done", NoDocument)
    /\ UNCHANGED <<provider, writer, legacy, last, result, proven, used>>

ImportSnapshot ==
    LET seen == migration.seen IN
    /\ migration.pc = "import"
    /\ IF /\ ~doc.snap[seen.label].known
          /\ doc.label = seen.label /\ doc.prov = seen.prov /\ doc.valid = seen.valid
       THEN doc' = WithSnapshot(doc, seen.label,
                       [known |-> TRUE, metric |-> seen.shown,
                        valid |-> seen.valid = "yes" /\ seen.shown.usable])
       ELSE UNCHANGED doc
    /\ migration' = Migrating("done", NoDocument)
    /\ UNCHANGED <<provider, writer, legacy, last, result, proven, used>>

\* An error ends one migration; the next one is tried all the same.
MigrationFails ==
    /\ migration.pc # "done"
    /\ migration' = Migrating(IF migration.pc \in {"sources", "label"}
                              THEN "snapshots" ELSE "done", NoDocument)
    /\ UNCHANGED <<doc, provider, writer, legacy, last, result, proven, used>>

MigrationStep ==
    FindUnlabeled \/ LabelSource \/ FindUnimported \/ ImportSnapshot \/ MigrationFails

\* A crash or a stop, and a start with either provider.
Restart ==
    /\ used.restarts < MaxRestarts
    /\ used' = [used EXCEPT !.restarts = @ + 1]
    /\ provider' \in Sources
    /\ writer' = [a \in Writers |-> NoResult]
    /\ migration' = Migrating("sources", NoDocument)
    /\ UNCHANGED <<doc, legacy, last, result, proven>>

Next == (\E a \in Writers : WriterStep(a)) \/ MigrationStep \/ Restart

Spec == Init /\ [][Next]_vars

(***************************************************************************)
(* Properties                                                              *)
(***************************************************************************)
TypeOK ==
    /\ doc \in Document
    /\ provider \in Sources
    /\ writer \in [Writers -> WriterType]
    /\ migration \in MigrationType
    /\ legacy \in Document
    /\ last \in [Sources -> {"none", "valid", "invalid"}]
    /\ result \in [Sources -> Metric \cup {NoMetric}]
    /\ proven \in BOOLEAN
    /\ used \in UsedType

\* The top level repeats the valid result of Aizhan, else the one of Chinaz, in
\* whatever order the sources and the migrations have written; without a valid
\* result it does not call itself valid.
PreferredIsShown ==
    LET aizhan == doc.snap["aizhan"]
        chinaz == doc.snap["chinaz"]
        Shows(m) == /\ doc.valid = "yes" /\ doc.shown = m
                    /\ doc.label = m.from /\ doc.prov = ProvenanceOf(m)
    IN  /\ aizhan.valid => Shows(aizhan.metric)
        /\ chinaz.valid /\ ~aizhan.valid => Shows(chinaz.metric)
        /\ aizhan.known \/ chinaz.known =>
              (doc.valid = "yes" => aizhan.valid \/ chinaz.valid)

\* No source's weights are ever attributed to the other one: the label is that of
\* the weights shown, and a reader of one source gets its weights or none.
WeightsAreAttributed ==
    /\ doc.label # "none" => doc.shown.from = doc.label
    /\ \A s \in Sources : SourceWeightMetric(doc, s).from \in {"none", s}

\* A source's snapshot is valid exactly if that source's own latest attempt was a
\* success, and holds its latest result.  Before its first attempt it can only
\* be the legacy document's, valid only if it was, or if a job proved it.
LatestAttemptDecides ==
    \A s \in Sources :
        LET snapshot == doc.snap[s] IN
        /\ last[s] = "none" /\ snapshot.known =>
              /\ snapshot.metric = legacy.shown
              /\ snapshot.valid => legacy.valid = "yes" \/ proven
        /\ last[s] # "none" => snapshot.known /\ (snapshot.valid <=> last[s] = "valid")
        /\ result[s] # NoMetric => snapshot.metric = result[s]

\* Until its own source has saved a new result, the result an older version left
\* is not lost: it is still at the top level, or in the snapshot of its source.
LegacyIsKept ==
    \A s \in Sources :
        legacy.exists /\ SourceOf(legacy) = s /\ result[s] = NoMetric =>
            legacy.shown = IF doc.snap[s].known THEN doc.snap[s].metric ELSE doc.shown

\* A step never touches two known snapshots; the result in one is replaced only by
\* its own worker; the supplement changes only by its own worker, or by the old
\* mode's, which fetches both.  Nothing imported overwrites a collection.
SourcesKeepApart ==
    [][/\ \A s \in Sources : doc.snap[s].known =>
             /\ doc'.snap[s] # doc.snap[s] =>
                   \A r \in Sources \ {s} : doc.snap[r].known => doc'.snap[r] = doc.snap[r]
             /\ doc'.snap[s].metric # doc.snap[s].metric => doc'.snap[s].metric = ResultOf(s)
             /\ doc'.snap[s].valid /\ ~doc.snap[s].valid => doc'.snap[s].metric = ResultOf(s)
       /\ doc'.extra # doc.extra =>
             \/ doc'.extra = writer["supplement"].id
             \/ provider = "chinaz" /\ doc'.extra = writer["chinaz"].id]_vars
=============================================================================
