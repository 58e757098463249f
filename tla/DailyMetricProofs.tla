-------------------------- MODULE DailyMetricProofs --------------------------
(***************************************************************************)
(* Proofs about DailyMetric, for any number of fetches and restarts.       *)
(*                                                                         *)
(* A pipeline is proved stage by stage: every stage takes a document d to  *)
(* another, and preserves what Base says of d, of the legacy document l,   *)
(* of how the latest attempts la ended, of the results re they saved, and  *)
(* of whether a job proved the legacy document, pr.  The last stage,       *)
(* Projected, restores what Bootstrapped and WithSnapshot may break.       *)
(***************************************************************************)
EXTENDS DailyMetric, TLAPS

\* A snapshot holds a result of its own source, if any.
OwnSnapshots(d) == \A s \in Sources : d.snap[s].metric.from \in {s, "none"}

\* The top level fields belong together.
TopLevel(d) ==
    /\ d.label # "none" => d.shown.from = d.label
    /\ d.shown.from # "none" => d.prov = ProvenanceOf(d.shown)
    /\ d.valid = "yes" => d.label # "none" /\ d.shown.usable

\* As long as the source on display has no snapshot, the older version's result is shown.
StillLegacy(d, l, pr) ==
    d.label = "none" \/ ~d.snap[d.label].known =>
        /\ d.shown = l.shown
        /\ d.valid = "yes" => l.valid = "yes" \/ pr

\* Every snapshot is what the latest attempt of its source has made of it.
Attempted(d, l, la, re, pr) ==
    \A s \in Sources :
        /\ la[s] = "none" /\ d.snap[s].known =>
              /\ d.snap[s].metric = l.shown
              /\ d.snap[s].valid => l.valid = "yes" \/ pr
        /\ la[s] # "none" => d.snap[s].known /\ (d.snap[s].valid <=> la[s] = "valid")
        /\ re[s] # NoMetric => d.snap[s].metric = re[s] /\ la[s] # "none"

\* The source of the legacy result is known until its snapshot has been made.
LegacyHeld(d, l, re) ==
    \A s \in Sources : SourceOf(l) = s =>
        IF d.snap[s].known THEN re[s] = NoMetric => d.snap[s].metric = l.shown
                           ELSE SourceOf(d) = s

Base(d, l, la, re, pr) ==
    /\ d \in Document /\ OwnSnapshots(d) /\ TopLevel(d)
    /\ StillLegacy(d, l, pr) /\ Attempted(d, l, la, re, pr) /\ LegacyHeld(d, l, re)

\* PreferredIsShown of a document.
ShowsPreferred(d) ==
    LET Shows(m) == d.valid = "yes" /\ d.shown = m /\ d.label = m.from /\ d.prov = ProvenanceOf(m)
    IN  /\ d.snap["aizhan"].valid => Shows(d.snap["aizhan"].metric)
        /\ d.snap["chinaz"].valid /\ ~d.snap["aizhan"].valid => Shows(d.snap["chinaz"].metric)
        /\ d.snap["aizhan"].known \/ d.snap["chinaz"].known =>
              (d.valid = "yes" => d.snap["aizhan"].valid \/ d.snap["chinaz"].valid)

\* What holds between two updates: Base, the projection, and that no snapshot is made of
\* an unlabeled document before the validity of the document is decided.
Whole(d, l, la, re, pr) ==
    /\ Base(d, l, la, re, pr)
    /\ ShowsPreferred(d)
    /\ d.label = "none" /\ d.valid = "missing" => \A s \in Sources : ~d.snap[s].known
    /\ ~d.exists => d = NoDocument /\ l = NoDocument

\* What a migration has read of the document stays true of the legacy result.
SeenInv ==
    LET seen == migration.seen IN
    /\ migration.pc = "label" =>
          /\ seen.valid # "yes" /\ seen.shown = legacy.shown
          /\ seen.shown.usable /\ seen.prov = ProvenanceOf(seen.shown)
    /\ migration.pc = "import" => seen.label \in Sources /\ seen.shown = legacy.shown

\* Only a worker that exists has a result to save.
WritersEmployed == \A a \in Writers : writer[a].pc # "idle" => Employed(a)

\* The inductive invariant of the document, the migrations and the workers.
IInv ==
    /\ TypeOK
    /\ legacy \in LegacyDocuments \cup {NoDocument}
    /\ Whole(doc, legacy, last, result, proven)
    /\ SeenInv /\ WritersEmployed

-----------------------------------------------------------------------------
(***************************************************************************)
(* The stages of a pipeline.                                               *)
(***************************************************************************)

\* A document is as good as its fields.
LEMMA Fields ==
    ASSUME NEW d \in Document
    PROVE  /\ d.exists \in BOOLEAN /\ d.shown \in Metric \cup {NoMetric} /\ d.prov \in Provenance
           /\ d.label \in Sites /\ d.valid \in {"missing", "yes", "no"} /\ d.extra \in Nat
           /\ d.snap \in [Sources -> Snapshot]
BY DEF Document

\* A metric without a source is no metric.
LEMMA Metrics ==
    ASSUME NEW m \in Metric \cup {NoMetric}
    PROVE  /\ m.from \in Sites /\ m.id \in Nat /\ m.usable \in BOOLEAN
           /\ m.from = "none" <=> m = NoMetric
           /\ m.from = "none" => ~m.usable
           /\ ProvenanceOf(m) \in Provenance /\ ProvenanceOf(m).site = m.from
<1>1. /\ m.from \in Sites /\ m.id \in Nat /\ m.usable \in BOOLEAN
      /\ m.from = "none" => m = NoMetric
  <2>1. CASE m \in Metric
    BY <2>1 DEF Metric, Sites, Sources
  <2>2. CASE m = NoMetric
    BY <2>2 DEF NoMetric, Sites
  <2> QED
    BY <2>1, <2>2
<1>2. NoMetric.from = "none" /\ ~NoMetric.usable
  BY DEF NoMetric
<1>3. ProvenanceOf(m) \in Provenance /\ ProvenanceOf(m).site = m.from
  BY <1>1 DEF ProvenanceOf, Provenance
<1> QED
  BY <1>1, <1>2, <1>3

\* A snapshot is as good as its fields.
LEMMA Snapshots ==
    ASSUME NEW k \in BOOLEAN, NEW m \in Metric \cup {NoMetric}, NEW v \in BOOLEAN,
           ~k => m = NoMetric, v => k /\ m.usable
    PROVE  /\ [known |-> k, metric |-> m, valid |-> v] \in Snapshot
           /\ [known |-> k, metric |-> m, valid |-> v].known = k
           /\ [known |-> k, metric |-> m, valid |-> v].metric = m
           /\ [known |-> k, metric |-> m, valid |-> v].valid = v
BY DEF Snapshot

\* What a snapshot is made of.
LEMMA SnapshotFields ==
    ASSUME NEW x \in Snapshot
    PROVE  /\ x.known \in BOOLEAN /\ x.metric \in Metric \cup {NoMetric} /\ x.valid \in BOOLEAN
           /\ ~x.known => x.metric = NoMetric
           /\ x.valid => x.known /\ x.metric.usable
BY DEF Snapshot

\* The source of a document is that of the result it shows.
LEMMA Sourced ==
    ASSUME NEW d \in Document, TopLevel(d)
    PROVE  /\ SourceOf(d) \in Sites
           /\ SourceOf(d) # "none" => d.shown.from = SourceOf(d)
           /\ SourceOf(d) = "none" => d.label = "none"
           /\ d.label # "none" => SourceOf(d) = d.label
BY Fields, Metrics DEF SourceOf, LegacyWeightSource, TopLevel, Sites, Sources, ProvenanceOf

\* Bootstrapping changes the snapshots only.
LEMMA Booted ==
    ASSUME NEW d \in Document, TopLevel(d), NEW b, b = Bootstrapped(d)
    PROVE  /\ b \in Document /\ SourceOf(b) = SourceOf(d)
           /\ b.exists = d.exists /\ b.shown = d.shown /\ b.prov = d.prov /\ b.label = d.label
           /\ b.valid = d.valid /\ b.extra = d.extra
           /\ \A s \in Sources : IF ~d.snap[s].known /\ SourceOf(d) = s
                THEN /\ b.snap[s].known /\ b.snap[s].metric = d.shown
                     /\ b.snap[s].valid <=> d.valid = "yes"
                ELSE b.snap[s] = d.snap[s]
<1>1. PICK f : f = [s \in Sources |->
                       IF ~d.snap[s].known /\ SourceOf(d) = s
                       THEN [known |-> TRUE, metric |-> d.shown, valid |-> d.valid = "yes"]
                       ELSE d.snap[s]]
  OBVIOUS
<1>2. b = [d EXCEPT !.snap = f]
  BY <1>1 DEF Bootstrapped
<1>3. ASSUME NEW s \in Sources
      PROVE  /\ f[s] \in Snapshot
             /\ IF ~d.snap[s].known /\ SourceOf(d) = s
                THEN /\ f[s].known /\ f[s].metric = d.shown
                     /\ f[s].valid <=> d.valid = "yes"
                ELSE f[s] = d.snap[s]
  <2>1. CASE ~d.snap[s].known /\ SourceOf(d) = s
    <3>1. d.shown \in Metric \cup {NoMetric} /\ (d.valid = "yes" => d.shown.usable)
      BY Fields DEF TopLevel
    <3>2. CASE d.valid = "yes"
      <4>1. f[s] = [known |-> TRUE, metric |-> d.shown, valid |-> TRUE]
        BY <1>1, <2>1, <3>2
      <4> QED
        BY <2>1, <3>1, <3>2, <4>1 DEF Snapshot
    <3>3. CASE d.valid # "yes"
      <4>1. f[s] = [known |-> TRUE, metric |-> d.shown, valid |-> FALSE]
        BY <1>1, <2>1, <3>3
      <4> QED
        BY <2>1, <3>1, <3>3, <4>1, Snapshots, ZenonT(30)
    <3> QED
      BY <3>2, <3>3
  <2>2. CASE ~(~d.snap[s].known /\ SourceOf(d) = s)
    BY <1>1, <2>2, Fields
  <2> QED
    BY <2>1, <2>2
<1>4. f \in [Sources -> Snapshot]
  BY <1>1, <1>3
<1>5. /\ b \in Document
      /\ b.exists = d.exists /\ b.shown = d.shown /\ b.prov = d.prov /\ b.label = d.label
      /\ b.valid = d.valid /\ b.extra = d.extra /\ b.snap = f
  BY <1>2, <1>4 DEF Document
<1>6. SourceOf(b) = SourceOf(d)
  BY <1>5 DEF SourceOf, LegacyWeightSource
<1> QED
  BY <1>3, <1>5, <1>6

\* Every source whose result is on display has a snapshot, as Bootstrapped sees to.
Covered(b) == \A s \in Sources : SourceOf(b) = s => b.snap[s].known

\* Bootstrapping preserves Base.
LEMMA BootedBase ==
    ASSUME NEW d, NEW l \in Document, NEW la, NEW re, NEW pr, Base(d, l, la, re, pr),
           NEW b, b = Bootstrapped(d)
    PROVE  Base(b, l, la, re, pr) /\ Covered(b)
<1>1. d \in Document /\ TopLevel(d)
  BY DEF Base
<1>2. /\ b \in Document /\ SourceOf(b) = SourceOf(d)
      /\ b.exists = d.exists /\ b.shown = d.shown /\ b.prov = d.prov /\ b.label = d.label
      /\ b.valid = d.valid /\ b.extra = d.extra
      /\ \A s \in Sources : IF ~d.snap[s].known /\ SourceOf(d) = s
           THEN /\ b.snap[s].known /\ b.snap[s].metric = d.shown
                /\ b.snap[s].valid <=> d.valid = "yes"
           ELSE b.snap[s] = d.snap[s]
  BY <1>1, Booted
<1>3. /\ SourceOf(d) \in Sites
      /\ SourceOf(d) # "none" => d.shown.from = SourceOf(d)
      /\ SourceOf(d) = "none" => d.label = "none"
      /\ d.label # "none" => SourceOf(d) = d.label
  BY <1>1, Sourced
<1>4. Covered(b)
  BY <1>2 DEF Covered
<1>5. OwnSnapshots(b)
  BY <1>2, <1>3 DEF Base, OwnSnapshots, Sources
<1>6. TopLevel(b)
  BY <1>1, <1>2 DEF TopLevel
<1>7. d.label # "none" => d.label \in Sources
  BY <1>1, Fields DEF Sites
<1>8. StillLegacy(b, l, pr)
  BY <1>2, <1>3, <1>7 DEF Base, StillLegacy
<1>9. Attempted(b, l, la, re, pr)
  <2> SUFFICES ASSUME NEW s \in Sources
               PROVE  /\ la[s] = "none" /\ b.snap[s].known =>
                            /\ b.snap[s].metric = l.shown
                            /\ b.snap[s].valid => l.valid = "yes" \/ pr
                      /\ la[s] # "none" =>
                            b.snap[s].known /\ (b.snap[s].valid <=> la[s] = "valid")
                      /\ re[s] # NoMetric => b.snap[s].metric = re[s] /\ la[s] # "none"
    BY DEF Attempted
  <2>1. CASE ~d.snap[s].known /\ SourceOf(d) = s
    <3>1. la[s] = "none" /\ re[s] = NoMetric
      BY <2>1 DEF Base, Attempted
    <3>2. d.label = "none" \/ ~d.snap[d.label].known
      BY <1>3, <2>1
    <3>3. d.shown = l.shown /\ (d.valid = "yes" => l.valid = "yes" \/ pr)
      BY <3>2 DEF Base, StillLegacy
    <3> QED
      BY <1>2, <2>1, <3>1, <3>3
  <2>2. CASE ~(~d.snap[s].known /\ SourceOf(d) = s)
    BY <1>2, <2>2 DEF Base, Attempted
  <2> QED
    BY <2>1, <2>2
<1>10. LegacyHeld(b, l, re)
  <2> SUFFICES ASSUME NEW s \in Sources, SourceOf(l) = s
               PROVE  IF b.snap[s].known THEN re[s] = NoMetric => b.snap[s].metric = l.shown
                                         ELSE SourceOf(b) = s
    BY DEF LegacyHeld
  <2>1. IF d.snap[s].known THEN re[s] = NoMetric => d.snap[s].metric = l.shown
                           ELSE SourceOf(d) = s
    BY DEF Base, LegacyHeld
  <2>2. CASE d.snap[s].known
    BY <1>2, <2>1, <2>2
  <2>3. CASE ~d.snap[s].known
    <3>1. d.label = "none" \/ ~d.snap[d.label].known
      BY <1>3, <2>1, <2>3
    <3>2. d.shown = l.shown
      BY <3>1 DEF Base, StillLegacy
    <3> QED
      BY <1>2, <2>1, <2>3, <3>2
  <2> QED
    BY <2>2, <2>3
<1> QED
  BY <1>2, <1>4, <1>5, <1>6, <1>8, <1>9, <1>10 DEF Base

\* One source's attempt replaces its snapshot, and no other.
LEMMA Replaced ==
    ASSUME NEW b, NEW l \in Document, NEW la, NEW re, NEW pr, Base(b, l, la, re, pr), Covered(b),
           NEW c \in Document, c.shown = b.shown, c.label = b.label, c.valid = b.valid,
           c.prov = b.prov \/ b.prov.site = "none",
           NEW s \in Sources, \A r \in Sources \ {s} : c.snap[r] = b.snap[r],
           c.snap[s].known, c.snap[s].metric.from \in {s, "none"},
           NEW la2, \A r \in Sources \ {s} : la2[r] = la[r],
           la2[s] # "none", c.snap[s].valid <=> la2[s] = "valid",
           NEW re2, \A r \in Sources \ {s} : re2[r] = re[r],
           re2[s] # NoMetric => c.snap[s].metric = re2[s],
           re2[s] = NoMetric => re[s] = NoMetric /\ c.snap[s].metric = b.snap[s].metric
    PROVE  /\ Base(c, l, la2, re2, pr)
           /\ \A r \in Sources : SourceOf(l) = r => c.snap[r].known
<1>1. /\ b \in Document /\ TopLevel(b) /\ OwnSnapshots(b) /\ StillLegacy(b, l, pr)
      /\ Attempted(b, l, la, re, pr) /\ LegacyHeld(b, l, re)
  BY DEF Base
<1>2. OwnSnapshots(c)
  BY <1>1 DEF OwnSnapshots
<1>3. TopLevel(c)
  <2>1. b.shown.from # "none" => b.prov.site # "none"
    BY <1>1 DEF TopLevel, ProvenanceOf
  <2> QED
    BY <1>1, <2>1 DEF TopLevel
<1>4. \A r \in Sources : b.snap[r].known => c.snap[r].known
  OBVIOUS
<1>5. StillLegacy(c, l, pr)
  <2>1. b.label # "none" => b.label \in Sources /\ b.snap[b.label].known
    BY <1>1, Fields, Sourced DEF Covered, Sites
  <2> QED
    BY <1>1, <1>4, <2>1 DEF StillLegacy
<1>6. Attempted(c, l, la2, re2, pr)
  <2> SUFFICES ASSUME NEW r \in Sources
               PROVE  /\ la2[r] = "none" /\ c.snap[r].known =>
                            /\ c.snap[r].metric = l.shown
                            /\ c.snap[r].valid => l.valid = "yes" \/ pr
                      /\ la2[r] # "none" =>
                            c.snap[r].known /\ (c.snap[r].valid <=> la2[r] = "valid")
                      /\ re2[r] # NoMetric => c.snap[r].metric = re2[r] /\ la2[r] # "none"
    BY DEF Attempted
  <2>1. CASE r = s
    BY <2>1
  <2>2. CASE r # s
    BY <1>1, <2>2 DEF Attempted
  <2> QED
    BY <2>1, <2>2
<1>7. \A r \in Sources : SourceOf(l) = r => b.snap[r].known
  BY <1>1 DEF LegacyHeld, Covered
<1>8. LegacyHeld(c, l, re2)
  BY <1>1, <1>4, <1>7 DEF LegacyHeld
<1> QED
  BY <1>2, <1>3, <1>4, <1>5, <1>6, <1>7, <1>8 DEF Base

\* Projecting restores the preference.
LEMMA Projects ==
    ASSUME NEW c, NEW l \in Document, NEW la, NEW re, NEW pr, Base(c, l, la, re, pr),
           \A r \in Sources : SourceOf(l) = r => c.snap[r].known,
           NEW e, e = Projected(c)
    PROVE  /\ Base(e, l, la, re, pr) /\ ShowsPreferred(e) /\ e.valid # "missing"
           /\ e.exists = c.exists /\ e.extra = c.extra /\ e.snap = c.snap
<1>1. /\ c \in Document /\ TopLevel(c) /\ OwnSnapshots(c) /\ StillLegacy(c, l, pr)
      /\ Attempted(c, l, la, re, pr) /\ LegacyHeld(c, l, re)
  BY DEF Base
<1>2. /\ c.exists \in BOOLEAN /\ c.shown \in Metric \cup {NoMetric} /\ c.prov \in Provenance
      /\ c.label \in Sites /\ c.valid \in {"missing", "yes", "no"} /\ c.extra \in Nat
      /\ c.snap \in [Sources -> Snapshot]
  BY <1>1, Fields
<1>3. CASE Preferred(c) = "none"
  <2>1. e = [c EXCEPT !.valid = "no"]
    BY <1>3 DEF Projected
  <2>2. /\ e \in Document /\ e.exists = c.exists /\ e.extra = c.extra /\ e.snap = c.snap
        /\ e.shown = c.shown /\ e.prov = c.prov /\ e.label = c.label /\ e.valid = "no"
    BY <1>1, <2>1 DEF Document
  <2>3. ~c.snap["aizhan"].valid /\ ~c.snap["chinaz"].valid
    BY <1>3 DEF Preferred
  <2>4. ShowsPreferred(e)
    BY <2>2, <2>3 DEF ShowsPreferred
  <2>5. OwnSnapshots(e) /\ TopLevel(e) /\ StillLegacy(e, l, pr)
    BY <1>1, <2>2 DEF OwnSnapshots, TopLevel, StillLegacy
  <2>6. Attempted(e, l, la, re, pr) /\ LegacyHeld(e, l, re)
    BY <1>1, <2>2 DEF Attempted, LegacyHeld
  <2> QED
    BY <2>2, <2>4, <2>5, <2>6 DEF Base
<1>4. ASSUME NEW s \in Sources, Preferred(c) = s
      PROVE  /\ Base(e, l, la, re, pr) /\ ShowsPreferred(e) /\ e.valid # "missing"
             /\ e.exists = c.exists /\ e.extra = c.extra /\ e.snap = c.snap
  <2>1. PICK m : m = c.snap[s].metric
    OBVIOUS
  <2>2. c.snap[s].valid /\ (s = "chinaz" => ~c.snap["aizhan"].valid)
    BY <1>4 DEF Preferred, Sources
  <2>3. /\ m \in Metric \cup {NoMetric} /\ m.usable /\ m.from = s /\ c.snap[s].known
        /\ ProvenanceOf(m) \in Provenance
    <3>1. c.snap[s] \in Snapshot
      BY <1>2
    <3>2. m \in Metric \cup {NoMetric} /\ m.usable /\ c.snap[s].known
      BY <2>1, <2>2, <3>1, SnapshotFields
    <3> QED
      BY <1>1, <2>1, <3>2, Metrics DEF OwnSnapshots
  <2>4. e = [c EXCEPT !.valid = "yes", !.shown = m, !.prov = ProvenanceOf(m), !.label = s]
    BY <1>4, <2>1, <2>3 DEF Projected, Sources
  <2>5. /\ e \in Document /\ e.exists = c.exists /\ e.extra = c.extra /\ e.snap = c.snap
        /\ e.shown = m /\ e.prov = ProvenanceOf(m) /\ e.label = s /\ e.valid = "yes"
    <3>1. PICK p \in Provenance : p = ProvenanceOf(m)
      BY <2>3
    <3>2. s \in Sites
      BY DEF Sites
    <3>3. PICK x : x = [c EXCEPT !.valid = "yes", !.shown = m]
      OBVIOUS
    <3>4. x \in Document
      BY <1>1, <2>3, <3>3 DEF Document
    <3>5. e = [x EXCEPT !.prov = p, !.label = s]
      BY <2>4, <3>1, <3>3
    <3>6. e \in Document
      BY <3>1, <3>2, <3>4, <3>5 DEF Document
    <3>7. /\ e.exists = c.exists /\ e.extra = c.extra /\ e.snap = c.snap
          /\ e.shown = m /\ e.prov = p /\ e.label = s /\ e.valid = "yes"
      BY <1>1, <2>4, <3>1 DEF Document
    <3> QED
      BY <3>1, <3>6, <3>7
  <2>6. ShowsPreferred(e)
    BY <2>1, <2>2, <2>3, <2>5 DEF ShowsPreferred, Sources
  <2>7. OwnSnapshots(e) /\ TopLevel(e) /\ StillLegacy(e, l, pr)
    <3>1. s # "none"
      BY DEF Sources
    <3> QED
      BY <1>1, <2>3, <2>5, <3>1 DEF OwnSnapshots, TopLevel, StillLegacy
  <2>8. Attempted(e, l, la, re, pr) /\ LegacyHeld(e, l, re)
    BY <1>1, <2>5 DEF Attempted, LegacyHeld
  <2> QED
    BY <2>5, <2>6, <2>7, <2>8 DEF Base
<1> QED
  BY <1>3, <1>4 DEF Preferred, Sources

-----------------------------------------------------------------------------
(***************************************************************************)
(* The updates.                                                            *)
(***************************************************************************)

\* An update leaves the other source's known snapshot alone.
Apart(d, e, s) == \A r \in Sources \ {s} : d.snap[r].known => e.snap[r] = d.snap[r]

\* A source saves a result.
LEMMA SavedWhole ==
    ASSUME NEW d, NEW l \in Document, NEW la, NEW re, NEW pr, Whole(d, l, la, re, pr),
           NEW m \in Metric, NEW s \in Sources, m.from = s, NEW full \in BOOLEAN,
           NEW e, e = Saved(d, m, full),
           NEW la2, \A r \in Sources \ {s} : la2[r] = la[r],
           la2[s] = IF m.usable THEN "valid" ELSE "invalid",
           NEW re2, \A r \in Sources \ {s} : re2[r] = re[r], re2[s] = m
    PROVE  /\ Whole(e, l, la2, re2, pr) /\ Apart(d, e, s) /\ e.snap[s].metric = m
           /\ e.extra # d.extra => full /\ e.extra = m.id
<1>1. Base(d, l, la, re, pr) /\ d \in Document /\ TopLevel(d)
  BY DEF Whole, Base
<1>2. PICK b : b = Bootstrapped(d)
  OBVIOUS
<1>3. Base(b, l, la, re, pr) /\ Covered(b) /\ b \in Document
  BY <1>1, <1>2, BootedBase DEF Base
<1>4. /\ b.extra = d.extra
      /\ \A r \in Sources : d.snap[r].known => b.snap[r] = d.snap[r]
  BY <1>1, <1>2, Booted
<1>5. /\ m \in Metric \cup {NoMetric} /\ m # NoMetric /\ m.id \in Nat /\ m.usable \in BOOLEAN
      /\ ProvenanceOf(m) \in Provenance
  BY Metrics DEF Sources
<1>6. PICK p \in Provenance :
          p = (IF b.prov.site = "none" THEN ProvenanceOf(m) ELSE b.prov)
  BY <1>3, <1>5, Fields
<1>7. PICK k \in Nat : k = (IF full THEN m.id ELSE b.extra)
  BY <1>3, <1>5, Fields
<1>8. PICK x : x = [known |-> TRUE, metric |-> m, valid |-> m.usable]
  OBVIOUS
<1>9. x \in Snapshot /\ x.known /\ x.metric = m /\ (x.valid <=> m.usable)
  <2>1. CASE m.usable
    <3>1. x = [known |-> TRUE, metric |-> m, valid |-> TRUE]
      BY <1>5, <1>8, <2>1
    <3> QED
      BY <1>5, <2>1, <3>1 DEF Snapshot
  <2>2. CASE ~m.usable
    <3>1. x = [known |-> TRUE, metric |-> m, valid |-> FALSE]
      BY <1>5, <1>8, <2>2
    <3> QED
      BY <1>5, <2>2, <3>1 DEF Snapshot
  <2> QED
    BY <2>1, <2>2
<1>10. PICK n : n = [b EXCEPT !.exists = TRUE, !.prov = p, !.extra = k]
  OBVIOUS
<1>11. /\ n \in Document /\ n.exists /\ n.shown = b.shown /\ n.prov = p /\ n.label = b.label
       /\ n.valid = b.valid /\ n.extra = k /\ n.snap = b.snap
  <2>1. PICK y : y = [b EXCEPT !.exists = TRUE, !.prov = p]
    OBVIOUS
  <2>2. y \in Document
    BY <1>3, <2>1 DEF Document
  <2>3. n = [y EXCEPT !.extra = k]
    BY <1>10, <2>1
  <2>4. n \in Document
    BY <2>2, <2>3 DEF Document
  <2>5. /\ n.exists /\ n.shown = b.shown /\ n.prov = p /\ n.label = b.label
        /\ n.valid = b.valid /\ n.extra = k /\ n.snap = b.snap
    BY <1>3, <1>10 DEF Document
  <2> QED
    BY <2>4, <2>5
<1>12. PICK c : c = WithSnapshot(n, s, x)
  OBVIOUS
<1>13. /\ c \in Document /\ c.exists /\ c.shown = b.shown /\ c.prov = p /\ c.label = b.label
       /\ c.valid = b.valid /\ c.extra = k
       /\ c.snap[s] = x /\ \A r \in Sources \ {s} : c.snap[r] = b.snap[r]
  <2>1. PICK f : f = [b.snap EXCEPT ![s] = x]
    OBVIOUS
  <2>2. /\ f \in [Sources -> Snapshot] /\ f[s] = x
        /\ \A r \in Sources \ {s} : f[r] = b.snap[r]
    BY <1>3, <1>9, <2>1, Fields
  <2>3. c = [n EXCEPT !.snap = f]
    BY <1>11, <1>12, <2>1 DEF WithSnapshot
  <2> QED
    BY <1>11, <2>2, <2>3 DEF Document
<1>14. e = Projected(c)
  BY <1>2, <1>6, <1>7, <1>8, <1>10, <1>12 DEF Saved
<1>15. c.prov = b.prov \/ b.prov.site = "none"
  BY <1>6, <1>13
<1>16. la2[s] # "none" /\ (c.snap[s].valid <=> la2[s] = "valid")
  BY <1>9, <1>13
<1>17. c.snap[s].known /\ c.snap[s].metric = m
  BY <1>9, <1>13
<1>18. /\ Base(c, l, la2, re2, pr)
       /\ \A r \in Sources : SourceOf(l) = r => c.snap[r].known
  BY <1>3, <1>5, <1>13, <1>15, <1>16, <1>17, Replaced
<1>19. /\ Base(e, l, la2, re2, pr) /\ ShowsPreferred(e) /\ e.valid # "missing"
       /\ e.exists = c.exists /\ e.extra = c.extra /\ e.snap = c.snap
  BY <1>14, <1>18, Projects
<1>20. Whole(e, l, la2, re2, pr)
  BY <1>13, <1>19 DEF Whole
<1>21. Apart(d, e, s)
  BY <1>4, <1>13, <1>19 DEF Apart
<1> QED
  BY <1>4, <1>7, <1>13, <1>17, <1>19, <1>20, <1>21

\* A source's attempt fails: its snapshot keeps its result, and is not valid.
LEMMA FailedWhole ==
    ASSUME NEW d, NEW l \in Document, NEW la, NEW re, NEW pr, Whole(d, l, la, re, pr), d.exists,
           NEW s \in Sources, NEW e, e = FailedBy(d, s),
           NEW la2, \A r \in Sources \ {s} : la2[r] = la[r], la2[s] = "invalid"
    PROVE  /\ Whole(e, l, la2, re, pr) /\ Apart(d, e, s) /\ ~e.snap[s].valid
           /\ d.snap[s].known => e.snap[s].metric = d.snap[s].metric
           /\ e.extra = d.extra
<1>1. Base(d, l, la, re, pr) /\ d \in Document /\ TopLevel(d)
  BY DEF Whole, Base
<1>2. PICK b : b = Bootstrapped(d)
  OBVIOUS
<1>3. Base(b, l, la, re, pr) /\ Covered(b) /\ b \in Document
  BY <1>1, <1>2, BootedBase DEF Base
<1>4. /\ b.extra = d.extra /\ b.exists = d.exists
      /\ \A r \in Sources : d.snap[r].known => b.snap[r] = d.snap[r]
  BY <1>1, <1>2, Booted, ZenonT(30)
<1>5. PICK x : x = [b.snap[s] EXCEPT !.known = TRUE, !.valid = FALSE]
  OBVIOUS
<1>6. x \in Snapshot /\ x.known /\ x.metric = b.snap[s].metric /\ ~x.valid
  <2>1. b.snap[s] \in Snapshot
    BY <1>3, Fields
  <2>2. PICK m \in Metric \cup {NoMetric} : m = b.snap[s].metric
    BY <2>1, SnapshotFields
  <2>3. x = [known |-> TRUE, metric |-> m, valid |-> FALSE]
    BY <1>5, <2>1, <2>2 DEF Snapshot
  <2> QED
    BY <2>2, <2>3 DEF Snapshot
<1>7. PICK c : c = WithSnapshot(b, s, x)
  OBVIOUS
<1>8. /\ c \in Document /\ c.exists = b.exists /\ c.shown = b.shown /\ c.prov = b.prov
      /\ c.label = b.label /\ c.valid = b.valid /\ c.extra = b.extra
      /\ c.snap[s] = x /\ \A r \in Sources \ {s} : c.snap[r] = b.snap[r]
  <2>1. PICK f : f = [b.snap EXCEPT ![s] = x]
    OBVIOUS
  <2>2. /\ f \in [Sources -> Snapshot] /\ f[s] = x
        /\ \A r \in Sources \ {s} : f[r] = b.snap[r]
    BY <1>3, <1>6, <2>1, Fields
  <2>3. c = [b EXCEPT !.snap = f]
    BY <1>7, <2>1 DEF WithSnapshot
  <2> QED
    BY <1>3, <2>2, <2>3 DEF Document
<1>9. e = Projected(c)
  BY <1>2, <1>5, <1>7 DEF FailedBy
<1>10. c.snap[s].known /\ c.snap[s].metric = b.snap[s].metric /\ ~c.snap[s].valid
  BY <1>6, <1>8
<1>11. c.snap[s].metric.from \in {s, "none"}
  BY <1>3, <1>10 DEF Base, OwnSnapshots
<1>12. re[s] # NoMetric => c.snap[s].metric = re[s]
  BY <1>3, <1>10 DEF Base, Attempted
<1>13. /\ Base(c, l, la2, re, pr)
       /\ \A r \in Sources : SourceOf(l) = r => c.snap[r].known
  BY <1>3, <1>8, <1>10, <1>11, <1>12, Replaced
<1>14. /\ Base(e, l, la2, re, pr) /\ ShowsPreferred(e) /\ e.valid # "missing"
       /\ e.exists = c.exists /\ e.extra = c.extra /\ e.snap = c.snap
  BY <1>9, <1>13, Projects
<1>15. Whole(e, l, la2, re, pr)
  BY <1>4, <1>8, <1>14 DEF Whole
<1>16. Apart(d, e, s)
  BY <1>4, <1>8, <1>14 DEF Apart
<1> QED
  BY <1>4, <1>8, <1>10, <1>14, <1>15, <1>16

\* The supplement changes no weights, and tells its provenance only of a new document.
LEMMA SupplementedWhole ==
    ASSUME NEW d, NEW l \in Document, NEW la, NEW re, NEW pr, Whole(d, l, la, re, pr),
           NEW id \in Nat, NEW e, e = Supplemented(d, id)
    PROVE  Whole(e, l, la, re, pr) /\ e.snap = d.snap /\ e.extra = id
<1>1. /\ d \in Document /\ OwnSnapshots(d) /\ TopLevel(d) /\ StillLegacy(d, l, pr)
      /\ Attempted(d, l, la, re, pr) /\ LegacyHeld(d, l, re) /\ ShowsPreferred(d)
      /\ d.label = "none" /\ d.valid = "missing" => \A s \in Sources : ~d.snap[s].known
      /\ ~d.exists => d = NoDocument /\ l = NoDocument
  BY DEF Whole, Base
<1>2. PICK p \in Provenance :
          p = (IF d.exists THEN d.prov ELSE [site |-> "chinaz", id |-> id])
  BY <1>1, Fields DEF Provenance, Sites, Sources
<1>3. /\ e \in Document /\ e.exists /\ e.shown = d.shown /\ e.prov = p /\ e.label = d.label
      /\ e.valid = d.valid /\ e.extra = id /\ e.snap = d.snap
  <2>1. PICK x : x = [d EXCEPT !.exists = TRUE, !.extra = id]
    OBVIOUS
  <2>2. x \in Document
    BY <1>1, <2>1 DEF Document
  <2>3. e = [x EXCEPT !.prov = p]
    BY <1>2, <2>1 DEF Supplemented
  <2>4. e \in Document
    BY <2>2, <2>3 DEF Document
  <2>5. e = [d EXCEPT !.exists = TRUE, !.extra = id, !.prov = p]
    BY <1>2 DEF Supplemented
  <2>6. /\ e.exists /\ e.shown = d.shown /\ e.prov = p /\ e.label = d.label
        /\ e.valid = d.valid /\ e.extra = id /\ e.snap = d.snap
    BY <1>1, <2>5 DEF Document
  <2> QED
    BY <2>4, <2>6
<1>4. CASE d.exists
  <2>1. p = d.prov /\ SourceOf(e) = SourceOf(d)
    BY <1>2, <1>3, <1>4 DEF SourceOf, LegacyWeightSource
  <2>2. OwnSnapshots(e) /\ TopLevel(e) /\ StillLegacy(e, l, pr) /\ ShowsPreferred(e)
    BY <1>1, <1>3, <2>1 DEF OwnSnapshots, TopLevel, StillLegacy, ShowsPreferred
  <2>3. Attempted(e, l, la, re, pr) /\ LegacyHeld(e, l, re)
    BY <1>1, <1>3, <2>1 DEF Attempted, LegacyHeld
  <2> QED
    BY <1>1, <1>3, <2>2, <2>3 DEF Whole, Base
<1>5. CASE ~d.exists
  <2>1. d = NoDocument /\ l = NoDocument
    BY <1>1, <1>5
  <2>2. /\ d.shown = NoMetric /\ d.label = "none" /\ d.valid = "missing"
        /\ \A s \in Sources : d.snap[s] = NoSnapshot
    BY <2>1 DEF NoDocument
  <2>3. \A s \in Sources : SourceOf(l) # s
    BY <2>1 DEF NoDocument, SourceOf, LegacyWeightSource, NoMetric, Sources
  <2>4. NoMetric.from = "none" /\ ~NoSnapshot.valid /\ ~NoSnapshot.known
    BY DEF NoMetric, NoSnapshot
  <2>5. OwnSnapshots(e) /\ TopLevel(e) /\ StillLegacy(e, l, pr) /\ ShowsPreferred(e)
    BY <1>1, <1>3, <2>2, <2>4
       DEF OwnSnapshots, TopLevel, StillLegacy, ShowsPreferred, Sources
  <2>6. Attempted(e, l, la, re, pr) /\ LegacyHeld(e, l, re)
    BY <1>1, <1>3, <2>3 DEF Attempted, LegacyHeld
  <2> QED
    BY <1>1, <1>3, <2>5, <2>6 DEF Whole, Base
<1> QED
  BY <1>3, <1>4, <1>5

\* The update of a label and the validity.
Labeled(d, label, v) == [d EXCEPT !.label = label, !.valid = v]

\* The legacy document is proven at least as before, and if v says so.
Proves(pr, v, pr2) == (pr => pr2) /\ (v = "yes" => pr2)

\* A migration labels the legacy result with its source.
LEMMA LabeledWhole ==
    ASSUME NEW d, NEW l \in Document, NEW la, NEW re, NEW pr, Whole(d, l, la, re, pr),
           d.label = "none", d.valid # "yes", l.shown.usable,
           NEW v \in {"missing", "yes", "no"}, v = "yes" => d.valid = "missing",
           v = "missing" => d.valid = "missing",
           NEW e, e = Labeled(d, l.shown.from, v),
           NEW pr2, Proves(pr, v, pr2)
    PROVE  Whole(e, l, la, re, pr2) /\ e.snap = d.snap /\ e.extra = d.extra
<1>1. /\ d \in Document /\ OwnSnapshots(d) /\ TopLevel(d) /\ StillLegacy(d, l, pr)
      /\ Attempted(d, l, la, re, pr) /\ LegacyHeld(d, l, re) /\ ShowsPreferred(d)
      /\ d.valid = "missing" => \A s \in Sources : ~d.snap[s].known
      /\ ~d.exists => d = NoDocument /\ l = NoDocument
  BY DEF Whole, Base
<1>2. PICK s \in Sources : s = l.shown.from
  BY Fields, Metrics DEF Sites
<1>3. /\ e \in Document /\ e.exists = d.exists /\ e.shown = d.shown /\ e.prov = d.prov
      /\ e.label = s /\ e.valid = v /\ e.extra = d.extra /\ e.snap = d.snap
  <2>1. s \in Sites
    BY DEF Sites
  <2>2. e = [d EXCEPT !.label = s, !.valid = v]
    BY <1>2 DEF Labeled
  <2> QED
    BY <1>1, <2>1, <2>2 DEF Document
<1>4. d.shown = l.shown
  BY <1>1 DEF StillLegacy
<1>5. s # "none" /\ d.prov.site = s /\ d.prov = ProvenanceOf(d.shown)
  BY <1>1, <1>2, <1>4 DEF TopLevel, ProvenanceOf, Sources
<1>6. SourceOf(d) = s /\ SourceOf(e) = s
  BY <1>3, <1>4, <1>5 DEF SourceOf, LegacyWeightSource
<1>7. d.exists
  BY <1>1, <1>4 DEF NoDocument, NoMetric
<1>8. OwnSnapshots(e) /\ TopLevel(e) /\ StillLegacy(e, l, pr2)
  BY <1>1, <1>2, <1>3, <1>4, <1>5 DEF OwnSnapshots, TopLevel, StillLegacy, Proves
<1>9. Attempted(e, l, la, re, pr2)
  BY <1>1, <1>3 DEF Attempted, Proves
<1>10. LegacyHeld(e, l, re)
  BY <1>1, <1>3, <1>6 DEF LegacyHeld
<1>11. ~d.snap["aizhan"].valid /\ ~d.snap["chinaz"].valid
  BY <1>1 DEF ShowsPreferred
<1>12. ShowsPreferred(e)
  <2>1. v = "yes" => ~d.snap["aizhan"].known /\ ~d.snap["chinaz"].known
    BY <1>1 DEF Sources
  <2> QED
    BY <1>3, <1>11, <2>1 DEF ShowsPreferred
<1> QED
  BY <1>3, <1>5, <1>7, <1>8, <1>9, <1>10, <1>12 DEF Whole, Base

\* A migration imports the legacy result into the snapshot of its source.
LEMMA ImportedWhole ==
    ASSUME NEW d, NEW l \in Document, NEW la, NEW re, NEW pr, Whole(d, l, la, re, pr),
           NEW s \in Sources, d.label = s, ~d.snap[s].known,
           NEW x \in Snapshot, x.known, x.metric = l.shown, x.valid <=> d.valid = "yes",
           NEW e, e = WithSnapshot(d, s, x)
    PROVE  Whole(e, l, la, re, pr) /\ Apart(d, e, s) /\ e.extra = d.extra
<1>1. /\ d \in Document /\ OwnSnapshots(d) /\ TopLevel(d) /\ StillLegacy(d, l, pr)
      /\ Attempted(d, l, la, re, pr) /\ LegacyHeld(d, l, re) /\ ShowsPreferred(d)
      /\ ~d.exists => d = NoDocument /\ l = NoDocument
  BY DEF Whole, Base
<1>2. /\ e \in Document /\ e.exists = d.exists /\ e.shown = d.shown /\ e.prov = d.prov
      /\ e.label = s /\ e.valid = d.valid /\ e.extra = d.extra
      /\ e.snap[s] = x /\ \A r \in Sources \ {s} : e.snap[r] = d.snap[r]
  <2>1. PICK f : f = [d.snap EXCEPT ![s] = x]
    OBVIOUS
  <2>2. /\ f \in [Sources -> Snapshot] /\ f[s] = x
        /\ \A r \in Sources \ {s} : f[r] = d.snap[r]
    BY <1>1, <2>1, Fields
  <2>3. e = [d EXCEPT !.snap = f]
    BY <2>1 DEF WithSnapshot
  <2> QED
    BY <1>1, <2>2, <2>3 DEF Document
<1>3. /\ s # "none" /\ d.shown = l.shown /\ d.shown.from = s
      /\ d.valid = "yes" => l.valid = "yes" \/ pr
  BY <1>1 DEF StillLegacy, TopLevel, Sources
<1>4. SourceOf(d) = s /\ SourceOf(e) = s
  BY <1>2, <1>3 DEF SourceOf
<1>5. la[s] = "none" /\ re[s] = NoMetric
  BY <1>1 DEF Attempted
<1>6. OwnSnapshots(e) /\ TopLevel(e) /\ StillLegacy(e, l, pr)
  BY <1>1, <1>2, <1>3 DEF OwnSnapshots, TopLevel, StillLegacy
<1>7. Attempted(e, l, la, re, pr)
  <2> SUFFICES ASSUME NEW r \in Sources
               PROVE  /\ la[r] = "none" /\ e.snap[r].known =>
                            /\ e.snap[r].metric = l.shown
                            /\ e.snap[r].valid => l.valid = "yes" \/ pr
                      /\ la[r] # "none" =>
                            e.snap[r].known /\ (e.snap[r].valid <=> la[r] = "valid")
                      /\ re[r] # NoMetric => e.snap[r].metric = re[r] /\ la[r] # "none"
    BY DEF Attempted
  <2>1. CASE r = s
    BY <1>2, <1>3, <1>5, <2>1
  <2>2. CASE r # s
    BY <1>1, <1>2, <2>2 DEF Attempted
  <2> QED
    BY <2>1, <2>2
<1>8. LegacyHeld(e, l, re)
  BY <1>1, <1>2, <1>4 DEF LegacyHeld
<1>9. ShowsPreferred(e)
  <2>1. d.prov = ProvenanceOf(l.shown)
    BY <1>1, <1>3 DEF TopLevel
  <2>2. CASE s = "aizhan"
    <3>1. e.snap["aizhan"] = x /\ e.snap["chinaz"] = d.snap["chinaz"]
      BY <1>2, <2>2 DEF Sources
    <3>2. d.snap["chinaz"].valid => d.valid = "yes"
      BY <1>1, <2>2 DEF ShowsPreferred, Sources
    <3> QED
      BY <1>2, <1>3, <2>1, <2>2, <3>1, <3>2 DEF ShowsPreferred
  <2>3. CASE s = "chinaz"
    <3>1. e.snap["chinaz"] = x /\ e.snap["aizhan"] = d.snap["aizhan"]
      BY <1>2, <2>3 DEF Sources
    <3> QED
      BY <1>1, <1>2, <1>3, <2>1, <2>3, <3>1 DEF ShowsPreferred
  <2> QED
    BY <2>2, <2>3 DEF Sources
<1>10. Apart(d, e, s)
  BY <1>2 DEF Apart
<1>11. d.exists
  BY <1>1, <1>3 DEF NoDocument, NoMetric
<1> QED
  BY <1>2, <1>3, <1>6, <1>7, <1>8, <1>9, <1>10, <1>11 DEF Whole, Base

-----------------------------------------------------------------------------
(***************************************************************************)
(* The steps.                                                              *)
(***************************************************************************)

\* What SourcesKeepApart says of one step.
KeptApart ==
    /\ \A s \in Sources : doc.snap[s].known =>
          /\ doc'.snap[s] # doc.snap[s] =>
                \A r \in Sources \ {s} : doc.snap[r].known => doc'.snap[r] = doc.snap[r]
          /\ doc'.snap[s].metric # doc.snap[s].metric => doc'.snap[s].metric = ResultOf(s)
          /\ doc'.snap[s].valid /\ ~doc.snap[s].valid => doc'.snap[s].metric = ResultOf(s)
    /\ doc'.extra # doc.extra =>
          \/ doc'.extra = writer["supplement"].id
          \/ provider = "chinaz" /\ doc'.extra = writer["chinaz"].id

\* The parts of the invariant.
LEMMA Parts ==
    ASSUME IInv
    PROVE  /\ doc \in Document /\ legacy \in Document /\ provider \in Sources
           /\ writer \in [Writers -> WriterType] /\ migration \in MigrationType
           /\ last \in [Sources -> {"none", "valid", "invalid"}]
           /\ result \in [Sources -> Metric \cup {NoMetric}] /\ proven \in BOOLEAN
           /\ used \in UsedType
           /\ legacy \in LegacyDocuments \cup {NoDocument}
           /\ Whole(doc, legacy, last, result, proven)
           /\ SeenInv /\ WritersEmployed
BY DEF IInv, TypeOK

\* Nobody writes the document.
LEMMA QuietApart ==
    ASSUME doc' = doc
    PROVE  KeptApart
BY DEF KeptApart

\* A document that is as good as none is one.
LEMMA NoDocumentTyped == NoDocument \in Document /\ NoSnapshot \in Snapshot
<1>1. NoSnapshot \in Snapshot
  BY DEF NoSnapshot, Snapshot
<1>2. PICK f : f = [s \in Sources |-> NoSnapshot]
  OBVIOUS
<1>3. f \in [Sources -> Snapshot]
  BY <1>1, <1>2
<1>4. PICK p \in Provenance : p = ProvenanceOf(NoMetric)
  BY Metrics
<1>5. NoDocument = [exists |-> FALSE, shown |-> NoMetric, prov |-> p, label |-> "none",
                    valid |-> "missing", extra |-> 0, snap |-> f]
  BY <1>2, <1>4 DEF NoDocument
<1> QED
  BY <1>1, <1>3, <1>4, <1>5 DEF Document, Sites

\* A worker's update takes effect.
LEMMA WriteInv ==
    ASSUME IInv, NEW a \in Writers, writer[a].pc # "idle", Write(a, doc)
    PROVE  IInv' /\ KeptApart
<1>1. /\ legacy \in Document /\ writer \in [Writers -> WriterType]
      /\ Whole(doc, legacy, last, result, proven)
  BY Parts
<1>2. /\ writer' = [writer EXCEPT ![a] = NoResult]
      /\ UNCHANGED <<provider, migration, legacy, proven, used>>
  BY DEF Write
<1>3. writer' \in [Writers -> WriterType] /\ writer[a].id \in Nat /\ writer[a].usable \in BOOLEAN
  BY <1>1, <1>2 DEF WriterType, NoResult, WriterPCs
<1>4. WritersEmployed'
  BY <1>1, <1>2, Parts DEF WritersEmployed, Employed, NoResult
<1>5. SeenInv'
  BY <1>2, Parts DEF SeenInv
<1>6. CASE a = "supplement"
  <2>1. doc' = Supplemented(doc, writer[a].id) /\ last' = last /\ result' = result
    BY <1>6 DEF Write
  <2>2. /\ Whole(doc', legacy, last, result, proven) /\ doc'.snap = doc.snap
        /\ doc'.extra = writer[a].id
    BY <1>1, <1>3, <2>1, SupplementedWhole
  <2>3. Whole(doc, legacy, last, result, proven)'
    BY <1>2, <2>1, <2>2
  <2>4. TypeOK'
    BY <1>2, <1>3, <2>1, <2>2, Parts DEF TypeOK, Whole, Base
  <2>5. KeptApart
    BY <1>6, <2>2 DEF KeptApart
  <2> QED
    BY <1>2, <1>4, <1>5, <2>3, <2>4, <2>5, Parts DEF IInv
<1>7. CASE a # "supplement"
  <2>1. a \in Sources
    BY <1>7 DEF Writers
  <2>2. PICK m \in Metric : m = ResultOf(a)
    BY <1>3, <2>1 DEF ResultOf, Metric
  <2>3. m.from = a /\ m.id = writer[a].id /\ m.usable = writer[a].usable
    BY <2>2 DEF ResultOf
  <2>4. PICK full \in BOOLEAN : full = (provider = "chinaz")
    OBVIOUS
  <2>5. /\ doc' = Saved(doc, m, full)
        /\ last' = [last EXCEPT ![a] = IF writer[a].usable THEN "valid" ELSE "invalid"]
        /\ result' = [result EXCEPT ![a] = m]
    BY <1>7, <2>2, <2>4 DEF Write
  <2>6. /\ last \in [Sources -> {"none", "valid", "invalid"}]
        /\ result \in [Sources -> Metric \cup {NoMetric}]
    BY Parts
  <2>7. /\ last' \in [Sources -> {"none", "valid", "invalid"}]
        /\ \A r \in Sources \ {a} : last'[r] = last[r]
        /\ last'[a] = IF m.usable THEN "valid" ELSE "invalid"
    BY <2>1, <2>3, <2>5, <2>6
  <2>8. /\ result' \in [Sources -> Metric \cup {NoMetric}]
        /\ \A r \in Sources \ {a} : result'[r] = result[r]
        /\ result'[a] = m
    BY <2>1, <2>5, <2>6
  <2>9. /\ Whole(doc', legacy, last', result', proven) /\ Apart(doc, doc', a)
        /\ doc'.snap[a].metric = m
        /\ doc'.extra # doc.extra => full /\ doc'.extra = m.id
    <3>1. PICK e, la2, re2 : e = doc' /\ la2 = last' /\ re2 = result'
      OBVIOUS
    <3>2. PICK d, l, la, re, pr :
              d = doc /\ l = legacy /\ la = last /\ re = result /\ pr = proven
      OBVIOUS
    <3>3. l \in Document /\ Whole(d, l, la, re, pr) /\ e = Saved(d, m, full)
      BY <1>1, <2>5, <3>1, <3>2
    <3>4. /\ \A r \in Sources \ {a} : la2[r] = la[r]
          /\ la2[a] = IF m.usable THEN "valid" ELSE "invalid"
          /\ \A r \in Sources \ {a} : re2[r] = re[r]
          /\ re2[a] = m
      BY <2>7, <2>8, <3>1, <3>2
    <3>5. /\ Whole(e, l, la2, re2, pr) /\ Apart(d, e, a) /\ e.snap[a].metric = m
          /\ e.extra # d.extra => full /\ e.extra = m.id
      BY <2>1, <2>3, <3>3, <3>4, SavedWhole, SMTT(30)
    <3> QED
      BY <3>1, <3>2, <3>5
  <2>10. Whole(doc, legacy, last, result, proven)'
    BY <1>2, <2>9
  <2>11. TypeOK'
    BY <1>2, <1>3, <2>7, <2>8, <2>9, Parts DEF TypeOK, Whole, Base
  <2>12. full => provider = "chinaz" /\ a = "chinaz"
    <3>1. Employed(a)
      BY Parts DEF WritersEmployed
    <3> QED
      BY <2>1, <2>4, <3>1 DEF Employed
  <2>13. KeptApart
    <3>1. doc'.extra # doc.extra => provider = "chinaz" /\ doc'.extra = writer["chinaz"].id
      BY <2>3, <2>9, <2>12
    <3>2. ASSUME NEW s \in Sources, doc.snap[s].known
          PROVE  /\ doc'.snap[s] # doc.snap[s] =>
                       \A r \in Sources \ {s} : doc.snap[r].known => doc'.snap[r] = doc.snap[r]
                 /\ doc'.snap[s].metric # doc.snap[s].metric => doc'.snap[s].metric = ResultOf(s)
                 /\ doc'.snap[s].valid /\ ~doc.snap[s].valid => doc'.snap[s].metric = ResultOf(s)
      <4>1. CASE s = a
        BY <2>2, <2>9, <4>1 DEF Apart
      <4>2. CASE s # a
        BY <2>9, <3>2, <4>2 DEF Apart
      <4> QED
        BY <4>1, <4>2
    <3> QED
      BY <3>1, <3>2 DEF KeptApart
  <2> QED
    BY <1>2, <1>4, <1>5, <2>10, <2>11, <2>13, Parts DEF IInv
<1> QED
  BY <1>6, <1>7

\* A worker fetches, misses the document, loses an insertion or gives up.
LEMMA WorkerInv ==
    ASSUME IInv, NEW a \in Writers,
           Fetch(a) \/ MissMetric(a) \/ LoseInsertion(a) \/ AbandonResult(a)
    PROVE  IInv' /\ KeptApart
<1>1. UNCHANGED <<doc, provider, migration, legacy, last, result, proven>>
  BY DEF Fetch, MissMetric, LoseInsertion, AbandonResult
<1>2. writer \in [Writers -> WriterType] /\ used \in UsedType
  BY Parts
<1>3. /\ writer' \in [Writers -> WriterType] /\ used' \in UsedType
      /\ \A x \in Writers \ {a} : writer'[x] = writer[x]
      /\ writer'[a].pc # "idle" => Employed(a)
  <2>1. CASE Fetch(a)
    <3>1. PICK n \in Nat : n = used.fetches + 1
      BY <1>2 DEF UsedType
    <3>2. PICK u \in BOOLEAN : writer' = [writer EXCEPT ![a] =
                                              [pc |-> "update", id |-> n, usable |-> u]]
      <4>1. PICK u \in (IF provider = "aizhan" THEN {TRUE} ELSE BOOLEAN) :
                writer' = [writer EXCEPT ![a] =
                              [pc |-> "update", id |-> used.fetches + 1, usable |-> u]]
        BY <2>1 DEF Fetch
      <4> QED
        BY <3>1, <4>1
    <3>3. used' \in UsedType
      BY <1>2, <2>1 DEF Fetch, UsedType
    <3>4. [pc |-> "update", id |-> n, usable |-> u] \in WriterType
      BY DEF WriterType, WriterPCs
    <3> QED
      BY <1>2, <2>1, <3>2, <3>3, <3>4 DEF Fetch
  <2>2. CASE MissMetric(a)
    BY <1>2, <2>2, Parts DEF MissMetric, WriterType, WriterPCs, WritersEmployed
  <2>3. CASE LoseInsertion(a)
    BY <1>2, <2>3, Parts DEF LoseInsertion, WriterType, WriterPCs, WritersEmployed
  <2>4. CASE AbandonResult(a)
    BY <1>2, <2>4 DEF AbandonResult, WriterType, WriterPCs, NoResult
  <2> QED
    BY <2>1, <2>2, <2>3, <2>4
<1>4. TypeOK'
  BY <1>1, <1>3, Parts DEF TypeOK
<1>5. Whole(doc, legacy, last, result, proven)' /\ SeenInv'
  BY <1>1, Parts DEF SeenInv
<1>6. WritersEmployed'
  BY <1>1, <1>3, Parts DEF WritersEmployed, Employed
<1> QED
  BY <1>1, <1>4, <1>5, <1>6, QuietApart, Parts DEF IInv

\* An attempt of a source is recorded as failed.
LEMMA InvalidateInv ==
    ASSUME IInv, NEW s \in Sources, InvalidateWeightAttempt(s)
    PROVE  IInv' /\ KeptApart
<1>1. /\ doc.exists /\ doc' = FailedBy(doc, s) /\ last' = [last EXCEPT ![s] = "invalid"]
      /\ UNCHANGED <<provider, writer, migration, legacy, result, proven, used>>
  BY DEF InvalidateWeightAttempt
<1>2. /\ last' \in [Sources -> {"none", "valid", "invalid"}]
      /\ \A r \in Sources \ {s} : last'[r] = last[r]
      /\ last'[s] = "invalid"
  BY <1>1, Parts
<1>3. /\ Whole(doc', legacy, last', result, proven) /\ Apart(doc, doc', s) /\ ~doc'.snap[s].valid
      /\ doc.snap[s].known => doc'.snap[s].metric = doc.snap[s].metric
      /\ doc'.extra = doc.extra
  <2>1. legacy \in Document /\ Whole(doc, legacy, last, result, proven)
    BY Parts
  <2>2. /\ Whole(doc', legacy, last', result, proven) /\ Apart(doc, doc', s) /\ ~doc'.snap[s].valid
        /\ doc.snap[s].known => doc'.snap[s].metric = doc.snap[s].metric
        /\ doc'.extra = doc.extra
    <3>1. PICK e, la2, d, l, la, re, pr :
              /\ e = doc' /\ la2 = last' /\ d = doc /\ l = legacy /\ la = last
              /\ re = result /\ pr = proven
      OBVIOUS
    <3>2. /\ l \in Document /\ Whole(d, l, la, re, pr) /\ d.exists /\ e = FailedBy(d, s)
          /\ \A r \in Sources \ {s} : la2[r] = la[r]
          /\ la2[s] = "invalid"
      BY <1>1, <1>2, <2>1, <3>1
    <3>3. /\ Whole(e, l, la2, re, pr) /\ Apart(d, e, s) /\ ~e.snap[s].valid
          /\ d.snap[s].known => e.snap[s].metric = d.snap[s].metric
          /\ e.extra = d.extra
      BY <3>2, FailedWhole
    <3> QED
      BY <3>1, <3>3
  <2> QED
    BY <2>2
<1>4. Whole(doc, legacy, last, result, proven)' /\ SeenInv' /\ WritersEmployed'
  BY <1>1, <1>3, Parts DEF SeenInv, WritersEmployed, Employed
<1>5. TypeOK'
  BY <1>1, <1>2, <1>3, Parts DEF TypeOK, Whole, Base
<1>6. KeptApart
  BY <1>3 DEF KeptApart, Apart
<1> QED
  BY <1>1, <1>4, <1>5, <1>6, Parts DEF IInv

\* A migration looks for a document, or gives up.
LEMMA LookInv ==
    ASSUME IInv, FindUnlabeled \/ FindUnimported \/ MigrationFails
    PROVE  IInv' /\ KeptApart
<1>1. UNCHANGED <<doc, provider, writer, legacy, last, result, proven, used>>
  BY DEF FindUnlabeled, FindUnimported, MigrationFails
<1>2. /\ doc \in Document /\ legacy \in Document
      /\ TopLevel(doc) /\ StillLegacy(doc, legacy, proven)
  BY Parts DEF Whole, Base
<1>3. migration' \in MigrationType
  <2>1. PICK n \in Document : n = NoDocument
    BY NoDocumentTyped
  <2>2. PICK c \in {"sources", "label", "snapshots", "import", "done"}, x \in Document :
            migration' = [pc |-> c, seen |-> x]
    BY <1>2, <2>1 DEF FindUnlabeled, FindUnimported, MigrationFails, Migrating
  <2> QED
    BY <2>2 DEF MigrationType
<1>4. SeenInv'
  <2>1. CASE FindUnlabeled
    <3>1. CASE doc.exists /\ doc.label = "none" /\ LegacyWeightSource(doc) # "none"
      <4>1. migration' = [pc |-> "label", seen |-> doc]
        BY <2>1, <3>1 DEF FindUnlabeled, Migrating
      <4>2. doc.shown.usable
        BY <3>1 DEF LegacyWeightSource
      <4>3. /\ doc.valid # "yes" /\ doc.shown = legacy.shown
            /\ doc.prov = ProvenanceOf(doc.shown)
        BY <1>2, <3>1, <4>2, Fields, Metrics DEF TopLevel, StillLegacy
      <4> QED
        BY <1>1, <4>1, <4>2, <4>3 DEF SeenInv
    <3>2. CASE ~(doc.exists /\ doc.label = "none" /\ LegacyWeightSource(doc) # "none")
      <4>1. migration'.pc = "snapshots"
        BY <2>1, <3>2 DEF FindUnlabeled, Migrating
      <4> QED
        BY <4>1 DEF SeenInv
    <3> QED
      BY <3>1, <3>2
  <2>2. CASE FindUnimported
    <3>1. CASE doc.label \in Sources /\ ~doc.snap[doc.label].known
      <4>1. migration' = [pc |-> "import", seen |-> doc]
        BY <2>2, <3>1 DEF FindUnimported, Migrating
      <4> QED
        BY <1>1, <1>2, <3>1, <4>1 DEF SeenInv, StillLegacy
    <3>2. CASE ~(doc.label \in Sources /\ ~doc.snap[doc.label].known)
      <4>1. migration'.pc = "done"
        BY <2>2, <3>2 DEF FindUnimported, Migrating
      <4> QED
        BY <4>1 DEF SeenInv
    <3> QED
      BY <3>1, <3>2
  <2>3. CASE MigrationFails
    <3>1. migration'.pc \in {"snapshots", "done"}
      BY <2>3 DEF MigrationFails, Migrating
    <3> QED
      BY <3>1 DEF SeenInv
  <2> QED
    BY <2>1, <2>2, <2>3
<1>5. TypeOK'
  BY <1>1, <1>3, Parts DEF TypeOK
<1>6. Whole(doc, legacy, last, result, proven)' /\ WritersEmployed'
  BY <1>1, Parts DEF WritersEmployed, Employed
<1> QED
  BY <1>1, <1>4, <1>5, <1>6, QuietApart, Parts DEF IInv

\* A migration labels the legacy result.
LEMMA LabelInv ==
    ASSUME IInv, LabelSource
    PROVE  IInv' /\ KeptApart
<1>1. /\ UNCHANGED <<provider, writer, legacy, last, result, used>>
      /\ migration.pc = "label" /\ migration' = [pc |-> "snapshots", seen |-> NoDocument]
  BY DEF LabelSource, Migrating
<1>2. migration' \in MigrationType /\ SeenInv'
  BY <1>1, NoDocumentTyped DEF MigrationType, SeenInv
<1>3. PICK seen : seen = migration.seen
  OBVIOUS
<1>4. /\ seen \in Document /\ seen.valid # "yes" /\ seen.shown = legacy.shown
      /\ seen.shown.usable /\ seen.prov = ProvenanceOf(seen.shown)
  BY <1>1, <1>3, Parts DEF SeenInv, MigrationType
<1>5. LegacyWeightSource(seen) = legacy.shown.from
  BY <1>4 DEF LegacyWeightSource, ProvenanceOf
<1>6. PICK job \in {"none", "succeeded", "other"}, v \in {"missing", "yes", "no"} :
          /\ v = (IF seen.valid # "missing" \/ job = "none" THEN seen.valid
                  ELSE IF job = "succeeded" THEN "yes" ELSE "no")
          /\ IF doc.label = "none" /\ doc.valid = seen.valid
             THEN /\ doc' = [doc EXCEPT !.label = LegacyWeightSource(seen), !.valid = v]
                  /\ proven' = (proven \/ v = "yes")
             ELSE UNCHANGED <<doc, proven>>
  <2>1. seen.valid \in {"missing", "yes", "no"}
    BY <1>4, Fields
  <2> QED
    BY <1>3, <2>1 DEF LabelSource
<1>7. CASE doc.label = "none" /\ doc.valid = seen.valid
  <2>1. doc' = Labeled(doc, legacy.shown.from, v)
    BY <1>5, <1>6, <1>7 DEF Labeled
  <2>2. proven' = (proven \/ v = "yes")
    BY <1>6, <1>7
  <2>3. proven' \in BOOLEAN /\ (proven => proven') /\ (v = "yes" => proven')
    BY <2>2, Parts
  <2>4. PICK d, e, l, la, re, pr, pr2 :
            /\ d = doc /\ e = doc' /\ l = legacy /\ la = last /\ re = result
            /\ pr = proven /\ pr2 = proven'
    OBVIOUS
  <2>5. /\ l \in Document /\ Whole(d, l, la, re, pr) /\ d.label = "none" /\ d.valid # "yes"
        /\ l.shown.usable /\ e = Labeled(d, l.shown.from, v)
    BY <1>4, <1>7, <2>1, <2>4, Parts
  <2>6. /\ v \in {"missing", "yes", "no"}
        /\ (v = "yes" => d.valid = "missing") /\ (v = "missing" => d.valid = "missing")
    BY <1>4, <1>6, <1>7, <2>4
  <2>7. Proves(pr, v, pr2)
    BY <2>3, <2>4 DEF Proves
  <2>8. Whole(e, l, la, re, pr2) /\ e.snap = d.snap /\ e.extra = d.extra
    BY <2>5, <2>6, <2>7, LabeledWhole
  <2>9. Whole(doc, legacy, last, result, proven)'
    BY <1>1, <2>4, <2>8
  <2>10. TypeOK'
    BY <1>1, <1>2, <2>3, <2>9, Parts DEF TypeOK, Whole, Base
  <2>11. KeptApart
    BY <2>4, <2>8 DEF KeptApart
  <2> QED
    BY <1>1, <1>2, <2>9, <2>10, <2>11, Parts DEF IInv, WritersEmployed, Employed
<1>8. CASE ~(doc.label = "none" /\ doc.valid = seen.valid)
  <2>1. UNCHANGED <<doc, proven>>
    BY <1>6, <1>8
  <2>2. TypeOK'
    BY <1>1, <1>2, <2>1, Parts DEF TypeOK
  <2>3. Whole(doc, legacy, last, result, proven)' /\ WritersEmployed'
    BY <1>1, <2>1, Parts DEF WritersEmployed, Employed
  <2> QED
    BY <1>1, <1>2, <2>1, <2>2, <2>3, QuietApart, Parts DEF IInv
<1> QED
  BY <1>7, <1>8

\* A migration imports the legacy result.
LEMMA ImportInv ==
    ASSUME IInv, ImportSnapshot
    PROVE  IInv' /\ KeptApart
<1>1. /\ UNCHANGED <<provider, writer, legacy, last, result, proven, used>>
      /\ migration.pc = "import" /\ migration' = [pc |-> "done", seen |-> NoDocument]
  BY DEF ImportSnapshot, Migrating
<1>2. migration' \in MigrationType /\ SeenInv'
  BY <1>1, NoDocumentTyped DEF MigrationType, SeenInv
<1>3. PICK seen : seen = migration.seen
  OBVIOUS
<1>4. PICK s \in Sources : s = seen.label
  BY <1>1, <1>3, Parts DEF SeenInv
<1>5. seen.shown = legacy.shown
  BY <1>1, <1>3, Parts DEF SeenInv
<1>6. CASE /\ ~doc.snap[s].known
           /\ doc.label = s /\ doc.prov = seen.prov /\ doc.valid = seen.valid
  <2>1. PICK x : /\ x = [known |-> TRUE, metric |-> legacy.shown,
                         valid |-> seen.valid = "yes" /\ legacy.shown.usable]
                 /\ doc' = WithSnapshot(doc, s, x)
    BY <1>3, <1>4, <1>5, <1>6 DEF ImportSnapshot
  <2>2. doc.valid = "yes" => legacy.shown.usable
    <3>1. TopLevel(doc) /\ StillLegacy(doc, legacy, proven)
      BY Parts DEF Whole, Base
    <3> QED
      BY <1>6, <3>1 DEF TopLevel, StillLegacy
  <2>3. legacy.shown \in Metric \cup {NoMetric}
    BY Fields, Parts
  <2>4. x \in Snapshot /\ x.known /\ x.metric = legacy.shown /\ (x.valid <=> doc.valid = "yes")
    <3>1. CASE doc.valid = "yes"
      <4>1. (seen.valid = "yes" /\ legacy.shown.usable) = TRUE
        BY <1>6, <2>2, <3>1
      <4>2. x = [known |-> TRUE, metric |-> legacy.shown, valid |-> TRUE]
        BY <2>1, <4>1
      <4> QED
        BY <2>2, <2>3, <3>1, <4>2 DEF Snapshot
    <3>2. CASE doc.valid # "yes"
      <4>1. (seen.valid = "yes" /\ legacy.shown.usable) = FALSE
        BY <1>6, <3>2
      <4>2. x = [known |-> TRUE, metric |-> legacy.shown, valid |-> FALSE]
        BY <2>1, <4>1
      <4> QED
        BY <2>3, <3>2, <4>2 DEF Snapshot
    <3> QED
      BY <3>1, <3>2
  <2>5. PICK d, e, l, la, re, pr :
            /\ d = doc /\ e = doc' /\ l = legacy /\ la = last /\ re = result /\ pr = proven
    OBVIOUS
  <2>6. /\ l \in Document /\ Whole(d, l, la, re, pr) /\ d.label = s /\ ~d.snap[s].known
        /\ x.metric = l.shown /\ (x.valid <=> d.valid = "yes") /\ e = WithSnapshot(d, s, x)
    BY <1>6, <2>1, <2>4, <2>5, Parts
  <2>7. Whole(e, l, la, re, pr) /\ Apart(d, e, s) /\ e.extra = d.extra
    BY <2>4, <2>6, ImportedWhole
  <2>8. Whole(doc, legacy, last, result, proven)' /\ WritersEmployed'
    BY <1>1, <2>5, <2>7, Parts DEF WritersEmployed, Employed
  <2>9. TypeOK'
    BY <1>1, <1>2, <2>8, Parts DEF TypeOK, Whole, Base
  <2>10. KeptApart
    BY <1>6, <2>5, <2>7 DEF KeptApart, Apart
  <2> QED
    BY <1>1, <1>2, <2>8, <2>9, <2>10, Parts DEF IInv
<1>7. CASE ~(/\ ~doc.snap[s].known
             /\ doc.label = s /\ doc.prov = seen.prov /\ doc.valid = seen.valid)
  <2>1. UNCHANGED doc
    BY <1>3, <1>4, <1>7 DEF ImportSnapshot
  <2>2. TypeOK'
    BY <1>1, <1>2, <2>1, Parts DEF TypeOK
  <2>3. Whole(doc, legacy, last, result, proven)' /\ WritersEmployed'
    BY <1>1, <2>1, Parts DEF WritersEmployed, Employed
  <2> QED
    BY <1>1, <1>2, <2>1, <2>2, <2>3, QuietApart, Parts DEF IInv
<1> QED
  BY <1>6, <1>7

\* The process starts again.
LEMMA RestartInv ==
    ASSUME IInv, Restart
    PROVE  IInv' /\ KeptApart
<1>1. /\ UNCHANGED <<doc, legacy, last, result, proven>> /\ provider' \in Sources
      /\ used' = [used EXCEPT !.restarts = @ + 1]
      /\ writer' = [a \in Writers |-> NoResult]
      /\ migration' = [pc |-> "sources", seen |-> NoDocument]
  BY DEF Restart, Migrating
<1>2. /\ used' \in UsedType /\ migration' \in MigrationType
      /\ writer' \in [Writers -> WriterType]
  BY <1>1, NoDocumentTyped, Parts DEF UsedType, MigrationType, WriterType, WriterPCs, NoResult
<1>3. SeenInv' /\ WritersEmployed'
  BY <1>1 DEF SeenInv, WritersEmployed, NoResult
<1>4. TypeOK'
  BY <1>1, <1>2, Parts DEF TypeOK
<1>5. Whole(doc, legacy, last, result, proven)'
  BY <1>1, Parts
<1> QED
  BY <1>1, <1>3, <1>4, <1>5, QuietApart, Parts DEF IInv

\* Every step preserves the invariant and keeps the sources apart.
LEMMA Step ==
    ASSUME IInv, [Next]_vars
    PROVE  IInv' /\ KeptApart
<1>1. ASSUME NEW a \in Writers, UpdateMetric(a)
      PROVE  IInv' /\ KeptApart
  BY <1>1, WriteInv DEF UpdateMetric
<1>2. ASSUME NEW a \in Writers, InsertMetric(a)
      PROVE  IInv' /\ KeptApart
  <2>1. doc = NoDocument
    BY <1>2, Parts DEF InsertMetric, Whole
  <2> QED
    BY <1>2, <2>1, WriteInv DEF InsertMetric
<1>3. ASSUME NEW a \in Writers, WriterStep(a)
      PROVE  IInv' /\ KeptApart
  BY <1>1, <1>2, <1>3, WorkerInv, InvalidateInv DEF WriterStep
<1>4. CASE MigrationStep
  BY <1>4, LookInv, LabelInv, ImportInv DEF MigrationStep
<1>5. CASE Restart
  BY <1>5, RestartInv
<1>6. CASE UNCHANGED vars
  <2>1. UNCHANGED <<doc, provider, writer, migration, legacy, last, result, proven, used>>
    BY <1>6 DEF vars
  <2>2. TypeOK'
    BY <2>1, Parts DEF TypeOK
  <2>3. Whole(doc, legacy, last, result, proven)' /\ SeenInv' /\ WritersEmployed'
    BY <2>1, Parts DEF SeenInv, WritersEmployed, Employed
  <2> QED
    BY <2>1, <2>2, <2>3, QuietApart, Parts DEF IInv
<1> QED
  BY <1>3, <1>4, <1>5, <1>6 DEF Next

\* An older version left a document without snapshots, whose fields belong together.
LEMMA LegacyShape ==
    ASSUME NEW d \in LegacyDocuments \cup {NoDocument}
    PROVE  /\ d \in Document /\ TopLevel(d) /\ \A s \in Sources : d.snap[s] = NoSnapshot
           /\ ~d.exists => d = NoDocument
<1>1. CASE d = NoDocument
  <2>1. /\ d.shown = NoMetric /\ d.label = "none" /\ d.valid = "missing"
        /\ \A s \in Sources : d.snap[s] = NoSnapshot
    BY <1>1 DEF NoDocument
  <2> QED
    BY <1>1, <2>1, NoDocumentTyped DEF TopLevel, NoMetric
<1>2. CASE d \in LegacyDocuments
  <2>1. PICK s \in Sources, u \in BOOLEAN, l \in Sites, v \in {"missing", "yes", "no"} :
            d = LegacyDocument([from |-> s, id |-> 0, usable |-> u], l, v)
    BY <1>2 DEF LegacyDocuments
  <2>2. PICK m \in Metric : m = [from |-> s, id |-> 0, usable |-> u]
    BY <2>1 DEF Metric
  <2>3. PICK p \in Provenance : p = ProvenanceOf(m)
    BY Metrics
  <2>4. PICK f \in [Sources -> Snapshot] : f = [x \in Sources |-> NoSnapshot]
    BY NoDocumentTyped
  <2>5. NoDocument = [exists |-> FALSE, shown |-> NoMetric, prov |-> ProvenanceOf(NoMetric),
                      label |-> "none", valid |-> "missing", extra |-> 0, snap |-> f]
    BY <2>4 DEF NoDocument
  <2>6. d = [exists |-> TRUE, shown |-> m, prov |-> p, label |-> l, valid |-> v,
             extra |-> 0, snap |-> f]
    BY <2>1, <2>2, <2>3, <2>5 DEF LegacyDocument
  <2>7. d \in Document
    <3>1. /\ l \in Sites /\ v \in {"missing", "yes", "no"} /\ m \in Metric \cup {NoMetric}
          /\ p \in Provenance /\ f \in [Sources -> Snapshot]
      BY <2>1, <2>2, <2>3, <2>4
    <3> QED
      BY <2>6, <3>1 DEF Document
  <2>8. /\ d.exists /\ d.shown = m /\ d.prov = p /\ d.label = l /\ d.valid = v /\ d.snap = f
    BY <2>6
  <2>9. /\ d.label \in {"none", d.shown.from}
        /\ d.valid = "yes" => d.label # "none" /\ d.shown.usable
    BY <1>2 DEF LegacyDocuments
  <2>10. TopLevel(d)
    BY <2>3, <2>8, <2>9 DEF TopLevel
  <2> QED
    BY <2>4, <2>7, <2>8, <2>10
<1> QED
  BY <1>1, <1>2

\* The system starts with what an older version left, or with nothing.
LEMMA InitInv == Init => IInv
<1> SUFFICES ASSUME Init PROVE IInv
  OBVIOUS
<1>1. /\ legacy \in LegacyDocuments \cup {NoDocument} /\ doc = legacy /\ provider \in Sources
      /\ writer = [a \in Writers |-> NoResult]
      /\ migration = [pc |-> "sources", seen |-> NoDocument]
      /\ last = [s \in Sources |-> "none"] /\ result = [s \in Sources |-> NoMetric]
      /\ proven = FALSE /\ used = [fetches |-> 0, restarts |-> 0]
  BY DEF Init, Migrating
<1>2. /\ doc \in Document /\ TopLevel(doc) /\ \A s \in Sources : doc.snap[s] = NoSnapshot
      /\ ~doc.exists => doc = NoDocument
  BY <1>1, LegacyShape
<1>3. ~NoSnapshot.known /\ ~NoSnapshot.valid /\ NoSnapshot.metric.from = "none"
  BY DEF NoSnapshot, NoMetric
<1>4. Whole(doc, legacy, last, result, proven)
  <2>1. OwnSnapshots(doc) /\ StillLegacy(doc, legacy, proven)
    BY <1>1, <1>2, <1>3 DEF OwnSnapshots, StillLegacy, TopLevel
  <2>2. Attempted(doc, legacy, last, result, proven) /\ LegacyHeld(doc, legacy, result)
    BY <1>1, <1>2, <1>3 DEF Attempted, LegacyHeld
  <2>3. ShowsPreferred(doc)
    BY <1>2, <1>3 DEF ShowsPreferred, Sources
  <2> QED
    BY <1>1, <1>2, <1>3, <2>1, <2>2, <2>3 DEF Whole, Base
<1>5. SeenInv /\ WritersEmployed
  BY <1>1 DEF SeenInv, WritersEmployed, NoResult
<1>6. writer \in [Writers -> WriterType] /\ migration \in MigrationType /\ used \in UsedType
  BY <1>1, NoDocumentTyped DEF WriterType, WriterPCs, NoResult, MigrationType, UsedType
<1>7. TypeOK
  BY <1>1, <1>2, <1>6 DEF TypeOK
<1> QED
  BY <1>1, <1>4, <1>5, <1>7 DEF IInv

-----------------------------------------------------------------------------
(***************************************************************************)
(* The theorems.                                                           *)
(***************************************************************************)

\* The inductive invariant holds of every state.
THEOREM Invariance == Spec => []IInv
<1>1. IInv /\ [Next]_vars => IInv'
  BY Step
<1> QED
  BY <1>1, InitInv, PTL DEF Spec

\* Documents, snapshots, workers and migrations keep their types; above all, a snapshot
\* is never called valid without its Baidu weights (weightSnapshotUpdate in weight_snapshots.go).
THEOREM TypeCorrect == Spec => []TypeOK
<1>1. IInv => TypeOK
  BY DEF IInv
<1> QED
  BY <1>1, Invariance, PTL

\* The top level repeats the valid result of Aizhan, else that of Chinaz, whatever the
\* order of the writes (preferredWeightProjection in weight_snapshots.go).
THEOREM ThePreferredIsShown == Spec => []PreferredIsShown
<1>1. IInv => PreferredIsShown
  BY DEF IInv, Whole, ShowsPreferred, PreferredIsShown
<1> QED
  BY <1>1, Invariance, PTL

\* Nobody reads one source's weights as the other's: not at the top level, and not in
\* SourceWeightMetric.
THEOREM RightAttribution == Spec => []WeightsAreAttributed
<1>1. ASSUME IInv
      PROVE  WeightsAreAttributed
  <2>1. OwnSnapshots(doc) /\ TopLevel(doc)
    BY <1>1 DEF IInv, Whole, Base
  <2>2. NoMetric.from = "none"
    BY DEF NoMetric
  <2>3. ASSUME NEW s \in Sources
        PROVE  SourceWeightMetric(doc, s).from \in {"none", s}
    BY <2>1, <2>2 DEF SourceWeightMetric, OwnSnapshots, TopLevel, Sources
  <2> QED
    BY <2>1, <2>3 DEF WeightsAreAttributed, TopLevel
<1> QED
  BY <1>1, Invariance, PTL

\* A snapshot is what its source's latest attempt made of it; before the first one it is
\* the legacy document's (weightSnapshotUpdate, weightFailureUpdate, and the bootstrap and
\* the migrations that never touch a known snapshot).
THEOREM TheLatestDecides == Spec => []LatestAttemptDecides
<1>1. ASSUME IInv
      PROVE  LatestAttemptDecides
  <2>1. Attempted(doc, legacy, last, result, proven)
    BY <1>1 DEF IInv, Whole, Base
  <2> QED
    BY <2>1 DEF Attempted, LatestAttemptDecides
<1> QED
  BY <1>1, Invariance, PTL

\* No update and no migration loses the result of an older version.
THEOREM LegacyStays == Spec => []LegacyIsKept
<1>1. ASSUME IInv
      PROVE  LegacyIsKept
  <2>1. /\ LegacyHeld(doc, legacy, result) /\ StillLegacy(doc, legacy, proven)
        /\ doc \in Document /\ TopLevel(doc)
    BY <1>1 DEF IInv, Whole, Base
  <2>2. ASSUME NEW s \in Sources, SourceOf(legacy) = s, result[s] = NoMetric
        PROVE  legacy.shown = IF doc.snap[s].known THEN doc.snap[s].metric ELSE doc.shown
    <3>1. CASE doc.snap[s].known
      BY <2>1, <2>2, <3>1 DEF LegacyHeld
    <3>2. CASE ~doc.snap[s].known
      <4>1. SourceOf(doc) = s
        BY <2>1, <2>2, <3>2 DEF LegacyHeld
      <4>2. doc.label = "none" \/ doc.label = s
        BY <2>1, <4>1, Sourced
      <4> QED
        BY <2>1, <3>2, <4>2 DEF StillLegacy
    <3> QED
      BY <3>1, <3>2
  <2> QED
    BY <2>2 DEF LegacyIsKept
<1> QED
  BY <1>1, Invariance, PTL

\* No step changes two known snapshots, replaces a source's result by another's, or
\* touches the supplement for somebody else (SaveJobResult and the migrations).
THEOREM SourcesStayApart == Spec => SourcesKeepApart
<1>1. IInv /\ [Next]_vars => KeptApart
  BY Step
<1>2. IInv /\ [Next]_vars => [KeptApart]_vars
  BY <1>1
<1>3. SourcesKeepApart <=> [][KeptApart]_vars
  BY PTL DEF SourcesKeepApart, KeptApart
<1> QED
  BY <1>2, <1>3, Invariance, PTL DEF Spec

=============================================================================
