----------------------------- MODULE BuildCache -----------------------------
(***************************************************************************)
(* `tn build` with its cache (tn-driver, build.rs): a record beside the     *)
(* product of what it was made from.  One build runs at a time; it may fail *)
(* or be killed after any step, and between builds files are edited, edits  *)
(* are undone, configurations change, and others touch what was built.      *)
(***************************************************************************)
EXTENDS SourceTree

CONSTANTS Broken,          \* contents with diagnostics: a set of <<file, version>>
          HasCompanion,    \* is a header or a .d.ts emitted beside the product?
          MaxWrites,       \* products written in one run
          NoSetup          \* none of the setups

ASSUME BuildConstants ==
    /\ Broken \subseteq Files \X Versions
    /\ HasCompanion \in [Setups -> BOOLEAN]
    /\ MaxWrites \in Nat
    /\ NoSetup \notin Setups

VARIABLES job,         \* the build that runs
          product,     \* the product on disk and its metadata
          companion,   \* the file beside it
          record,      \* the cache file
          writes,      \* products written so far
          settled      \* the setup built last, if nothing has changed since (history)

output == <<product, companion, record, writes, settled>>

Absent == [is |-> "absent"]
Garbage(stamp) == [is |-> "garbage", stamp |-> stamp]
Product(s, modules, stamp) == [is |-> "product", setup |-> s, of |-> modules, stamp |-> stamp]
Companion(modules) == [is |-> "companion", of |-> modules]

Job(place, s, loaded, pending) == [pc |-> place, setup |-> s, loaded |-> loaded, pending |-> pending]
Idle == Job("idle", NoSetup, Unread, {})
At(place) == job.pc = place
Turn(place) == job' = [job EXCEPT !.pc = place]

BuildInit ==
    /\ job = Idle
    /\ product = Absent /\ companion = Absent /\ record = Absent
    /\ writes = 0
    /\ settled = NoSetup

\* Length and time of modification: no two writes give the same.
Writing == writes < MaxWrites /\ writes' = writes + 1
Metadata(file) == IF file = Absent THEN 0 ELSE file.stamp

\* Of the modules the record names, does each still hold the same?
SourcesCurrent == \A f \in DOMAIN record.sources : versions[f] = record.sources[f]

\* Mutant: the product on disk is not looked at.
BuildCacheIsCurrentNoProduct ==
    /\ record # Absent
    /\ record.setup = job.setup
    /\ SourcesCurrent
    /\ companion = record.companion \/ ~HasCompanion[record.setup]

\* Mutant: the companion on disk has to be the record's, emitted or not.
BuildCacheIsCurrentAnyCompanion ==
    /\ record # Absent
    /\ record.setup = job.setup
    /\ product # Absent /\ Metadata(product) = record.metadata
    /\ SourcesCurrent
    /\ companion # Absent /\ companion = record.companion

BuildCacheIsCurrent ==
    /\ record # Absent
    /\ record.setup = job.setup
    /\ product # Absent /\ Metadata(product) = record.metadata
    /\ SourcesCurrent
    /\ HasCompanion[record.setup] => companion = record.companion

StartBuild(s) ==
    /\ At("idle")
    /\ job' = Job("look", s, Unread, Roots(s))
    /\ UNCHANGED <<tree, output>>

Reuse ==
    /\ At("look") /\ BuildCacheIsCurrent
    /\ Turn("reused")
    /\ settled' = job.setup
    /\ UNCHANGED <<tree, product, companion, record, writes>>

Miss ==
    /\ At("look") /\ ~BuildCacheIsCurrent
    /\ Turn("load")
    /\ UNCHANGED <<tree, output>>

LoadModule(f) ==
    /\ At("load") /\ f \in job.pending
    /\ job' = [job EXCEPT !.loaded = With(@, f, versions[f]),
                          !.pending = Discovered(job.loaded, @, f)]
    /\ UNCHANGED <<tree, output>>

\* Diagnostics end the build before anything is written.
Diagnosed == \E f \in DOMAIN job.loaded : <<f, job.loaded[f]>> \in Broken
Reject ==
    /\ At("load") /\ job.pending = {} /\ Diagnosed
    /\ job' = Idle
    /\ UNCHANGED <<tree, output>>

\* The linker, or the code generator, writes the product; it may fail half way.
Emit ==
    /\ At("load") /\ job.pending = {} /\ ~Diagnosed
    /\ Writing
    /\ \/ product' = Product(job.setup, job.loaded, writes') /\ Turn("companions")
       \/ product' \in {Absent, Garbage(writes')} /\ job' = Idle
    /\ settled' = NoSetup
    /\ UNCHANGED <<tree, companion, record>>

WriteCompanions ==
    /\ At("companions")
    /\ IF HasCompanion[job.setup]
       THEN \/ companion' = Companion(job.loaded) /\ Turn("record")
            \/ companion' = Garbage(0) /\ job' = Idle
       ELSE Turn("record") /\ UNCHANGED companion
    /\ UNCHANGED <<tree, product, record, writes, settled>>

\* What the modules of the graph hold, looked at again, and the metadata of the
\* product; the old record is replaced in one step.
WriteBuildCache ==
    /\ At("record")
    /\ record' = [setup |-> job.setup, metadata |-> Metadata(product),
                  companion |-> IF HasCompanion[job.setup] THEN companion ELSE Absent,
                  sources |-> [f \in DOMAIN job.loaded |-> versions[f]]]
    /\ settled' = job.setup
    /\ Turn("built")
    /\ UNCHANGED <<tree, product, companion, writes>>

\* A failure to write, a kill, or the end.
Leave ==
    /\ ~At("idle")
    /\ job' = Idle
    /\ UNCHANGED <<tree, output>>

BuildStep ==
    \/ \E s \in Setups : StartBuild(s)
    \/ \E f \in Files : LoadModule(f)
    \/ Reuse \/ Miss \/ Reject \/ Emit \/ WriteCompanions \/ WriteBuildCache \/ Leave

\* Others remove or overwrite what was built.
Meddle ==
    /\ At("idle")
    /\ \/ Writing /\ product' \in {Absent, Garbage(writes')} /\ UNCHANGED companion
       \/ companion' \in {Absent, Garbage(0)} /\ UNCHANGED <<product, writes>>
    /\ settled' = NoSetup
    /\ UNCHANGED <<tree, job, record>>

\* No file is edited while a build runs.
EditBetweenBuilds(f, v) ==
    /\ At("idle")
    /\ Save(f, v)
    /\ settled' = NoSetup
    /\ UNCHANGED <<job, product, companion, record, writes>>

-----------------------------------------------------------------------------
\* What a build ends with, made or reused, is the product of this setup and of
\* the files as they are, whole, with its companion - after failures, kills,
\* edits, edits undone, other setups and other people's removals in any order.
BuildsAnswerCurrent ==
    job.pc \in {"built", "reused"} =>
        /\ product.is = "product" /\ product.setup = job.setup
        /\ Closed(job.setup, product.of)
        /\ \A f \in DOMAIN product.of : product.of[f] = versions[f] /\ <<f, versions[f]>> \notin Broken
        /\ HasCompanion[job.setup] => companion = Companion(product.of)

\* A build of what was built last, with nothing changed since, compiles nothing.
UnchangedIsReused == At("load") => settled # job.setup

=============================================================================
