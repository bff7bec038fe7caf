# A TLA+ verification of SpecGate

SpecGate records what annotated operations of a Rust or C# package do while its
tests run (*capture*), writes the recording as a bundle of three files, re-runs
the recorded scenarios against another implementation (*replay*) and compares
the two traces. This directory holds TLA+ models of the parts of that pipeline
where the order of steps, or the agreement of two pieces of code, decides
whether a recording can be trusted, the TLC configurations that check them, and
TLAPS proofs of their main properties.
Paths below are relative to the repository root; `RT` is
`rust/crates/specgate-runtime/src`, `CLI` is `rust/crates/specgate-cli/src`,
`CTSC` is `rust/crates/specgate-ctsc/src`, `DI` is
`rust/crates/specgate-discovery/src`.

## The system

| Component | State it keeps | Operations | What makes it correct | Module |
|---|---|---|---|---|
| Capture sessions (`RT/capture.rs`) | per thread a `SESSION` slot holding a shared collector; in the collector the logical clock, the current operation, the operations, a terminal error | `start`, `begin_operation`, `begin_async_operation`, `complete`, drop of a scope, `record_observation`, `persist_collector_capture`, `finish` | each operation is recorded once, under the operation that called it, with the outcome it had; a failure is never silent | `NativeCapture` |
| Async context (`RT/capture/async_context.rs`) | a collector handle and an operation per annotated future | capture at construction, install and restore around each poll | the current operation is right inside every poll and unharmed after it | `NativeCapture` |
| Environment activation (`RT/capture/environment.rs`) | once-per-thread flag | `activate_env` | one session per test | `NativeCapture` |
| Sidecar persistence (`RT/capture/io.rs`) | a temporary file, the destination | `persist_atomic` | readers see whole, committed captures only | `SidecarPersist`, `AtomicSidecar` |
| Setup folding (`RT/capture/setup.rs`) | staged setup inputs per thread | deferring, recording and consuming setup inputs | an operation receives the inputs of its own setup | `SetupStaging`, `SetupPlan`, `Declarations` |
| Generated bodies (`specgate-annotations-macros-impl`) | none | the call protocol around each annotated function | every scope is closed on every path | the shape of `NativeCapture`'s actions |
| Capture command (`CLI/capture`) | the batch's captures and failures | lock, check, build, run each test, settle, filter, encode, write | a bundle describes exactly the tests that may be published | `BundlePipeline`, `Recording`, `CaptureFilter`, `CtscEncoding`, `CtscPipeline` |
| Replay command (`CLI/replay`, `CTSC/replay.rs`) | bundle, plan, candidate captures | read, verify, lock, link, execute, publish | a replay uses one consistent bundle and makes the recorded calls | `BundlePipeline`, `CtscReplay`, `ReplayBinding` |
| Trace validation (`CTSC/validation`) | the index by identifier, the climb in progress, the ancestry cache, the issues | parse, group, index, climb, compare roots, check spans, events, values and links | exactly the faulty spans are reported; what is accepted has one reading | `TraceValidation`, `CtscRules`, `CtscTrace`, `CtscValues` |
| Comparison (`CTSC/comparison`) | the report | align, compare | equivalent means the same | `CtscComparison`, `SiblingOrder` |
| Registry (`CTSC/registry`, `CTSC/validation/registry.rs`) | the documents loaded so far | encode, merge, validate, import | the registry says what the source declares, and is read with the imports its author saw | `CtscRegistry`, `RegistryImports` |
| Discovery (`DI/discovery`) | none | fold, map types, close dependencies, qualify | no type changes its meaning on the way | `Discovery` |
| Discovery runner, bindings, goldens, C# runtime and weaver, reporting | | | | not modelled |

The pieces interact through shared state and files: generated code calls the
runtime; threads and polls of one test process share a collector behind a mutex;
the runtime and the CLI share the sidecar file, the process exit status and a
failure marker on stderr; commands share a package lock, a bundle directory and
a replay output; encoder, validator, decoder and comparison share only the
formats, and each has a reader of its own. The hard behaviours are the
interleavings of polls on several threads, state read under the lock and used
after it (the snapshot), scopes and futures that outlive a session, completions
that fail half way, kills between file-system calls, retries, checks made long
before the writes they guard, and two pieces of code that must decide the same
question in the same way. `PROJECT.json` lists each of them, at its line, with
the properties that cover it.

## Modules

`NativeCapture` models the Rust runtime inside one test process. One step is one
critical section of a collector's mutex, or the file replacement that happens
outside it.

| State | Code |
|---|---|
| `sess[t]` | the collector created by thread t: `State.next_time_ns` (in steps), `current_operation`, `terminal_error`; `finished` / `rejected` when `finish` has taken the `State` out |
| `slot[t]` | the thread's `SESSION` |
| `ops` | `State.operations` of all collectors in the order of recording; `caller` and the entries of `obs` are history: who really called or emitted |
| `frames` | the annotated calls and polls on the stacks of all threads: `OperationScope`, `InstalledContext` |
| `tasks[k]` | an `InstrumentedFuture`: its `CaptureContext`, its scope |
| `io[t]` | where the thread is inside `persist_collector_capture` |
| `sidecar`, `marker`, `exited` | what the CLI looks at afterwards |

| Action | Code |
|---|---|
| `BeginOperation`, `CompleteOperation` | a synchronous annotated function is entered / returns, fails or is unwound into the generated `catch_unwind` |
| `ConstructFuture`, `InstallContext`, `BeginAsyncOperation`, `CompleteAsyncOperation`, `UnwindFuture`, `RestoreContext`, `DropFuture` | the life of an annotated future |
| `RecordObservation` | an observation is appended to the current operation |
| `TakeSnapshot`, `PersistSnapshot`, `PersistFails` | `persist_collector_capture`: build under the lock, replace the file after it, report a failure |
| `Start`, `Finish` | manual sessions, as the replay runner uses them |
| `Panic`, `CatchPanic`, `Exit` | the program |

Abstractions: values, names, span identifiers and setup inputs are left out; the
list of explicit operation identifiers is empty, as in every configuration the
CLI issues; a begin that fails because setup inputs do not fold is left to
`Declarations`. `inputs_recorded` persists at once after the begin, so it is the
`op = 0` persistence of the begin. A collector is named after the thread that
created it, since the environment is read once per thread; as a bound, a thread
calls `start` at most once.

`Serial` restricts the *program*, not the runtime: one thread runs at a time, a
future may be polled on any thread while its caller waits, and the outermost
future of a test that carries no context is driven to its end. It is the
discipline under which attribution is promised; the runs `spawn` and `stale`
show what happens without it.

`SidecarPersist` models `persist_atomic`, one step per file-system call, with
failures, a process kill and a machine stop. `AtomicSidecar` is what it
promises: one-step replacement by a whole capture. `SidecarPersist!Refines` maps
the destination file to the abstract one; a torn destination maps to a value the
abstract file can never have. In `NativeCapture` the same call is the single step
`PersistSnapshot`: this refinement is what justifies it.

`BundlePipeline` models several `capture` and `replay` commands around one bundle
directory. A file is who wrote it and whether all of it is there, so equal
digests mean equal bytes. `fs::write` is a truncation and a fill. `Fail` lets any
call return an error, `Kill` stops a command anywhere; either closes its lock.
The captured package is a Rust one (`Build`, then `RunTest` with `Settle`) or a
C# one (`ResolveProjects`, `BuildProject`, `ListTests`, `Reflect`, then `RunTest`
with `SettleCSharp`). `Results` stands for what a test process can leave behind,
and is the subset of exit status, marker, sidecar and result log that tells the
branches of `settle`, `verify_selection` and `apply_outcome` apart.

### Values, traces and comparison

`CtscValues` holds the values of a trace in the forms they go through: what the
runtime recorded, the JSON node the encoder writes for it (`Encode`), what the
OTLP parser makes of a node (`SchemaOk`, `ParseValue`), the typed checks and
canonical forms of linked validation (`ValidValue`, `CanonicalValue`), and the
replay decoder's own reading of the same node (`WireOk`, `DecodeValue`). A value,
a type and a node are tuples headed by their kind; integers keep the widths the
types tell apart, and a number's spelling is kept where the readers differ on it.

`ReplayBinding` adds how a candidate is bound: `CheckRust` (`CLI/replay/storage.rs`)
and `Shape` (`binding.rs`) are the two type checks, `LinkOperation`,
`BindOperation`, `Rejected` and `BuildPlan` the plan, `RenderValue` the argument in
the generated runner, `InputDecode` the one passed to the harness, `ToNativeValue`
what the candidate records and `ConvertValue` its conversion back. Calls backed by
setups and the choice of an executor package are left out.

`CtscReadings` puts one input and one result through all of them: two sides write
a value, either by the encoder or by hand, the traces are loaded, validated and
compared (`LoadTraces`, `Compare`), the reference is decoded (`DecodeInputs`), a
candidate is linked and run (`LinkCandidate`, `Execute`).

`CtscRules` holds the rules of `CTSC/validation/trace.rs` for one span and one
event, over the texts of `CtscTexts`. `TraceValidation` is `validate_semantics`
with `validate_ancestry`, one loop iteration per action:

| Action | Code |
|---|---|
| `IndexSpan` | an iteration of the loop that fills `by_id` and reports repeated identifiers |
| `SkipRun`, `StartClimb` | the loop over the spans that are no runs; `run_ancestor` is entered |
| `ClimbOn`, `EndClimb` | an iteration of `run_ancestor`'s loop: on to the one parent, or out of it with a `Resolution`, which all keys of the path get in the cache |
| `CompareRoots` | an iteration of the loop over `resolved` |
| `CheckSpan` | an iteration of the last loop: the span's own rules and its events |
| `NextPass` | the end of a loop |

`by_id` and `trace_roots` are functions of the document and of what was found, so
they are operators (`Candidates`, `TraceRoots`) and no variables; `path` and
`seen` hold the same keys and are one variable. An issue is its kind and the span
it is reported for. What the loops should report is defined apart from them, by
smallest closed sets of spans (`Ancestors`, `Roots`).

`CtscTrace` adds parsing of spans, events and attributes and grouping by
resource, and decides a whole document at once, climbing without a cache; the
modules after it use this form. `SiblingOrder` is the order of spans beside each
other, by interval, and the two checks that look at neighbours in it: the
decoder's (`InTurn`) and the comparison engine's (`StrictlyOrdered`). The sort is
stated as a place for every span, after all that precede it. `CtscComparison` is
linked validation of a trace and the comparison engine. `CtscDocuments` builds a document span by span, in any
order and with any parents, gives it events, presents it again with other
identifiers, orders and clocks, edits it, and validates and compares the two.

`Recording` records tests of a library and of test binaries, one after the other
(`Begin`, `Observe`, `Complete`, `EndTest`): `NativeCapture`'s recording for one
thread, with the span identifiers and timestamps that `NativeCapture` leaves out.
`CaptureFilter` is `filter`, which takes a component's share of it in one pass.
`CtscEncoding` is the encoder (identifiers and times renumbered into one trace)
and the bundle validator; `CtscReplay` the decoder of a bundle. `CtscPipeline`
composes them: it records (`Record`, a step of `Recording`), publishes the share
of one component, decodes it, replays it with a candidate that may deviate in any
operation, and compares.

### Declarations

`Discovery` takes the metadata of a linked program (`Linked`) to normalized
schemas: setups folded into the operations they serve, native types mapped to
semantic ones, owners and dependency closure, qualification, outcomes, and the
refusals. `CtscRegistry` encodes one or several schemas as one registry, merging
what each says of a shared component, and holds the shape and semantic rules of
registries. `RegistryImports` is `load_fs` among registries that are published
again and imported: `Publish` and `Author` change files, `StartLoad`, `OpenInput`,
`FollowImport`, `NextDocument` and `EndLoad` are a validation, one file read or one
import per step, so that any file may be replaced in between. What is asked of one
document and of the documents selected are its parameters `DocumentOk`, `TypesUse`
and `SetOk`, which the run sets to `CtscRegistry`'s `ShapeOk`, `ReferToRegistry`
and `LinkedSetOk`. A document's digest is its content. `SetupPlan` is the runtime's own plan of setups, written apart from
discovery's in the code and here. `SetupStaging` is the program running: `Start`,
`Inherit`, `Construct`, `Call` and `Finish`, with what each thread's setups have
staged; whether all setups fold is its parameter `DeclaredFolds`, which the run
sets to `SetupPlan`'s `FoldingOk`. `Declarations` composes all of them: `Discover`,
`EncodeMany`, then `Edit` and `Share` (a step of `RegistryImports` with the
registry just encoded), and `Run`, a step of `SetupStaging`.

The MC modules only declare model values and the definitions the configurations
use. Mutated definitions next to some actions (marked mutant) are what a
plausible bug would make of them; each property is violated under one of them.

## Runs

| Run | Checks | Bounds |
|---|---|---|
| `serial` | `TypeOK`, `ParentageFaithful`, `ObservationsFaithful`, `AckedIsDurable`, `AcceptedIsComplete` | 2 threads, 2 futures (symmetric), 3 operations, depth 2, 1 observation per operation, a clock of 8 steps so that it can run out in each kind of step, failing persistence |
| `threads` | `SessionForest`, `SnapshotSound`, `ClosedOnce` | 2 unsynchronised threads, 1 future, 3 operations |
| `manual` | `FinishedIsComplete`, `FinishedIsFinal` | 2 unsynchronised threads, `start`/`finish`, 2 operations, a clock of 7 steps |
| `sidecar_persist` | `TypeOK`, `AtomicInv`, `NoLitter`, `Refines`, `Settles` | 2 threads, 3 captures, 3 attempts |
| `bundle` | `ArtifactsExact`, `NoClobber`, `ReplayOfOneCapture` | 2 captures of one package, Rust or C#, and 1 replay of another, 2 tests |
| `readings` | `EqualMeansSame`, `DecoderSound`, `DecoderComplete`, `DecodedSameAsCompared`, `PlannedReplaysEqual` | every pair of written values of a type, for each type constructor over small element types; candidate storage types from the sets `storage.rs` tells apart |
| `validation` | `AncestryExact`, `OneOutcome` | every way to hang 3 or 4 spans under each other, under absent ones and under runs that claim a parent; 3 spans with repeated or zero identifiers in 2 traces; up to 2 events of any kind on any span of a valid document, with any status |
| `documents` | `EquivalentMeansSame`, `ComparisonSymmetric`, `NoHiddenOverlap` | seeds of up to 4 spans, well formed or not, plus 2 more with any parents and intervals over 3 clock values, up to 2 events on a span |
| `pipeline` | `ShareComplete`, `PublishedIsValid`, `RefusedOnlyIfEmpty`, `DecodedFaithful`, `VerdictExact` | two components, tests of a library and of a binary with the same test name, 3 operations over both tests, 1 of them in the second, 1 observation, reserved span identifiers that generated ones run into |
| `declarations` | `TypesSurvive`, `EncodesUnlessUnsupported`, `RegistryValid`, `MergeOrderIndependent`, `FoldsAgree`, `InputsOfReceiver`, `ImportsExact` | the programs of `MCDeclarations`; 2 threads, 2 objects, 2 calls, 2 sessions, 2 publications, before or during a validation, 2 explicit files |
| `spawn`, `stale` | expected violations, below | |

Three operations are enough for a parent, a child and a sibling on another
thread, which is the smallest shape in which a wrong release, a wrong swap or a
lost snapshot shows; depth two nests every kind of frame in every other (deeper
stacks are in `threads` and in the proofs); two threads and two futures give every
pairwise interleaving. The clock bounds reach overflow at a begin, at an observation,
between the two timestamps of a completion, in a drop and in a snapshot. Three
attempts distinguish first, middle and last. Four spans are a cycle with a span
that leads into it and one that meets the cached result; `MCTraceValidation` also
assumes, and TLC evaluates, that `CtscTrace`'s climb without a cache decides the
same documents. Two tests let a good test come
before or after one that stops the batch. Collections of up to two elements tell
order, duplicates and loss apart, and each type constructor is taken over element
types the readers treat differently. The programs of `declarations` are one per
feature of the normalizer (local and foreign names, shadowing, enum payloads,
dependencies of dependencies, each form of setup), since features of one
declaration do not meet those of another except through names. Deadlock is not
checked where a process that has exited, a call that has returned, a command that
has ended or a comparison that was made stops.

What the runs of the formats show: the validator, the comparison engine and the
replay decoder each read a value with code of their own, and they agree; a bundle
the capture command writes passes the validator and decodes to the outermost
calls; the verdict of a replay is exact; what linking lets through, replay carries
across; types keep their meaning from source to registry; and discovery and the
runtime fold setups alike. The properties name their exceptions: `RegistryValid`
an operation that returns `Option<&()>` (`DI/discovery/normalize/schema.rs:314`
declares it empty with a result that has no type), `EncodesUnlessUnsupported`
native types without a CTSC counterpart and enums without variants, `FoldsAgree` a
method without a receiver setup, which only discovery refuses, and
`InputsOfReceiver` objects constructed on another thread, or before a capture was
finished, which take whatever is staged now.

The two expected violations are disagreements between the code and its documents:

* `spawn`: the collector has one current operation
  (`RT/capture/async_context.rs:57`); two simultaneous polls overwrite each
  other's, and a future is recorded under the wrong parent. The decision record
  says parentage no longer depends on write order.
* `stale`: a snapshot is written after the lock is released
  (`RT/capture.rs:799`), so an older one can replace a newer one. The decision
  record calls the sidecar cumulative.

Known limits of the code that the models contain and no property is stated about:

* futures constructed before the session exists have no context
  (`RT/capture/async_context.rs:84`); polled alternately, the second is recorded
  under the first;
* an existing replay output is removed before the new one is renamed
  (`CLI/system/filesystem.rs:406`), so for a moment, or after a crash, there is none;
* a second thread without a context activates a session of its own with the same
  sidecar (`RT/capture/environment.rs:66`);
* captures of two packages with one `--out` hold different locks
  (`CLI/capture/facade.rs:391`);
* a test of the library's module `m` and a test of the test binary `m` can get one
  scenario name (`CLI/capture/rust.rs:169`); the capture succeeds and its bundle is
  refused later. The C# path refuses a name listed twice (`csharp.rs:152`).

Fairness is used in one place. `Settles` assumes that a thread inside
`persist_atomic` keeps being scheduled and its file-system calls return
(`WF_vars(Step(w))`): the calls are synchronous, nothing in the function waits on
another thread, and its retry sleeps for a bounded time. Nothing is assumed of
callers, and the property allows the process to stop.

## Proofs

`NativeCaptureProofs` proves, for any sets of threads and futures and any bounds,
with or without `Serial`, `EnvMode` and `MayFail`:

* `TypeCorrect`: `Spec => []TypeOK`
* `ForestAlways`: `Spec => []SessionForest`
* `SnapshotsSound`: `Spec => []SnapshotSound`
* `FinishedComplete`: `Spec => []FinishedIsComplete`
* `OutcomeOnce`: `Spec => ClosedOnce`
* `EndedIsFinal`: `Spec => FinishedIsFinal`

They rest on `ConstantAssumption` only. None of these is inductive alone. A
parent is the collector's current operation at the time of the begin, so the
forest needs `CurrentOK` (the current operation belongs to the collector); that
pointer is written by polls, so it needs `ContextOK` (what a future's context and
an installed poll remember are operations of the collector in the context). One
outcome per operation needs `OwnersOK`: every scope owns a different operation,
still open. A snapshot is sound because it was when taken and outcomes are final
(`SnapsOK`, covering snapshots not yet written). `IInv` is the conjunction. Each
action has a lemma that it keeps `IInv` and satisfies `Grown` (recorded
operations keep collector, parent and outcome) and `EndedKept` (an ended session
is untouched); the two action properties follow from these.

`SidecarPersistProofs` proves, for any number of threads, captures and attempts,
from `PersistAssumption`: `TypeCorrect` (`[]TypeOK`), `DestinationSound`
(`[]AtomicInv`), `NoLitterLeft` (`[]NoLitter`) and `Refinement` (`Spec =>
Refines`). The invariant says that a call in the replacement phase has synced its
file, that calls in progress write different captures, and that every file the
destination has ever been is sound, which is what a machine stop needs.

`SerialCaptureProofs` and `CurrentOperationProofs` are about `NativeCapture`
under the hypotheses `Serial` and `EnvMode`, those of the run `serial`: an
environment capture of a program that runs one thread at a time. The hypotheses
are the program's discipline and not the runtime's, and they are needed: `spawn`
and `stale` show what fails without `Serial`. Threads, futures, bounds and
`MayFail` stay arbitrary.

* `AcksDurable`: `Spec => []AckedIsDurable`
* `AcceptedComplete`: `Spec => []AcceptedIsComplete`
* `ParentsFaithful`: `Spec => []ParentageFaithful`
* `ObservedFaithful`: `Spec => []ObservationsFaithful`

The first two use `DurableInv`. `SessionInv` says that only the test thread's
collector is in use: whatever runs on another thread runs inside a poll that
installed it there, which in turn needs what each poll will put back. `SidecarInv` says that one thread at a time persists, that its snapshot is
the collector's state, and that between persistences the sidecar differs from the
operations only where it says `incomplete`; that last part is what makes an
accepted sidecar complete. The other two use `PointerInv`: unless a failure was
reported, the pointer is at the operation of the innermost running body. Begins,
returns, polls, drops and unwinding each move it, so the invariant also says what
every frame will hand it back to (`StackOK`), what every suspended future will
install (`FuturesOK`), and that at most one future without a context is suspended
in mid-operation (`Body[0]`), the one case in which the pointer stays behind when
no frame is left. TLC checked both invariants under the bounds of `serial` (887,711
states), and before that on smaller instances of depth three.

`BundlePipelineProofs` proves, for any commands, packages, tests and results, from
`BundleAssumption`:

* `LockExcludes`: two commands past their `package_guard` call are not of one package
* `BundleExact`: `Spec => []ArtifactsExact`
* `NothingClobbered`: `Spec => []NoClobber`
* `OneCaptureReplayed`: `Spec => []ReplayOfOneCapture`

`LockInv` ties the lock of a package to the phase of its owner, in both
directions, so that a failing or killed command frees it and no other does.
`Provenance` says that a file in the bundle, or one a replay has read, comes from a
capture whose batch was run to its end with something to publish; `NoClobber` is
inductive with it and `LockInv`. `ReadInv` says how many files a replay holds in
each phase and that they agree from `guard` on. TLC checked the conjunction (2.56
million states). The first attempt failed for a good reason: `Settle` was a `CASE`
with overlapping guards that relied on TLC's order of evaluation, which TLA+ does
not promise. It and the other definitions written so are `IF` chains now.

`TraceValidationProofs` proves, for documents of any size:

* `ClimbsExact`: `Spec => []AncestryExact`
* `AcceptedReadsOnce`: `Spec => []OneOutcome`
* `ValidationExact`: at the end, nothing is reported iff `RulesOk` and `Forest` hold

All climbs share a cache, so the invariant has to say that every resolution in it
is right about the root runs over its span (`CacheInv`), and of the climb in
progress that every span passed stands under the same roots as the current one
and has its parent among the spans passed or at the current one (`ClimbInv`). A
climb that meets a span it has passed has therefore passed a closed set without a
run in it: as ancestors are a smallest closed set, no induction is needed to
conclude that nothing on the cycle has a root. `IssueInv` says what exactly has
been reported so far. TLC checked the invariant (165,514 states).

At its end the module proves, for any spans with valid intervals:

* `InTurnExact`: `InTurn` holds iff no two of the intervals overlap
* `StrictlyOrderedExact`: `StrictlyOrdered` holds iff all intervals are valid, no
  two overlap and no two are the same instant

Both are about code that sorts and then compares neighbours only. The places of
the sort are shown to be a permutation (what precedes a span has an earlier place,
so no two spans have the same, and there are as many places as spans); then, by
the least counterexample, a chain of neighbours that do not overlap holds between
any two. The second needs more: two intervals of no length at the same instant
precede each other either way, and if two such exist, so do two adjacent ones.
`NoHiddenOverlap` is what the first half says of a comparison, which walks the
trace recursively and stays with TLC.

`RecordingProofs` proves, for any tests, schemas, outcomes and bounds, from
`IdentitiesAssumption` (what `validate_config` checks: the identifiers supplied
are different from each other, the run's and the scenario's):

* `FilterComplete`: `RecordingSpec => []ShareComplete`
* `ShareEncodes`: `RecordingSpec => []ShareResolves`: in a share, identifiers are
  different and a parent is the scenario or stands before its children, which is
  what the encoder needs to renumber it

`filter` makes one pass, in the order of recording, and keeps what has a kept
parent; `Shares` says what it should keep, by the smallest closed set of callers.
They agree only because of how a session records. `RecordedInv` says, of the
running session and of every capture, that no identifier is given twice, that none
is the scenario's and that a parent has begun before its children. The first is
`next_span`'s doing: that its search has a result, for every set of reserved
identifiers, is a counting argument, and that a supplied identifier is still free
needs that all supplied ones are used up before the first is generated. The rest
is one induction along the recording: an operation is kept up to position n iff
its outermost caller is the component's. TLC checked `RecordedInv` and
`ShareResolves` under the bounds of `pipeline` (214,771 states).

`DeclarationsProofs` proves, for any constants that satisfy the assumptions of the
modules they are about:

* `OwnInputs`: `SetupSpec => []InputsOfReceiver`, whatever `DeclaredFolds` says
* `ReadAsWritten`: `ImportsSpec => []ImportsExact`, whatever `DocumentOk`,
  `TypesUse` and `SetOk` say

For the first, the invariant is that, unless a failure was reported, what is
staged for a setup on a thread is what every object of that setup was constructed
with there since the last finish: a second construction with other inputs is a
conflict and is reported, and a finish makes all earlier objects of the thread
stale. It also needs that async setups are never staged, so that an operation with
one is refused. TLC checked it under the bounds of `declarations` (173,453 states).

For the second, a validation reads files at different times, and what it has read
is compared with what an author saw when writing. `FilesInv` says that a
hand-written file carries its own identity and imports by digest exactly what its
author relied on, and that no author's record exists without its file; `ReadInv`
that every document a validation has read was published or is such a file;
`FollowedInv` that, as long as nothing was reported, no two documents it has read
have one identity, none imports a registry twice, and every import followed so
far that its document uses has led to a selected document with the bytes that
were pinned; `LinkedInv` that a document validated under the name of a
hand-written one has an author. Uniqueness of identities is what makes "the
document of registry r" mean one thing at the end, and the digest, not the
version, is what ties it to what the author saw: under the mutant
`PinnedByVersion` the property fails. The assumption `RegistriesAssumption` says
that hand-written registries have identities and paths of their own. TLC checked
the invariant on the library programs of `declarations` (218,288 states).

Only model-checked: `Settles` (liveness), and what reaches recursive operators over
types, values and spans, with which the prover cannot work, and whose results for
every input need induction over that data: the properties of the runs `readings`
and `documents`, those of `pipeline` but `ShareComplete`, and those of
`declarations` but `InputsOfReceiver` and `ImportsExact`.

## Plan

Done: the runtime core, its persistence, setups, the command pipeline for both
languages, trace validation, the recording of a package and its filtering, and
the loading of registries with their imports, with proofs; values, comparison,
encoding, decoding and binding; discovery and registries. Left, in this order:

1. Setup-backed calls and executor selection in `ReplayBinding`.
2. `ManagedCapture`: the C# session and scopes beside the Rust ones, against one
   abstract recorder.
3. Two sessions sharing one sidecar.

Not modelled, and why: token-stream and IL generation, the text of the discovery
harness and of the replay runner, Cargo and dotnet invocations (text and process
generation, no state of their own); binding documents, argument parsing, JSON
layout and report wording (one pass over text); the golden workflow, which runs
the modelled commands one after the other on checked-in files.
