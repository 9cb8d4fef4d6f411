# A TLA+ model of opencv_geometry_ada

`opencv_geometry_ada` binds the geometry functions of OpenCV to Ada.  Ada
packages check their arguments and own the results; a C++ shim with a C ABI
calls OpenCV, translates exceptions into status codes and keeps OpenCV's
arithmetic in range.  Almost every function is stateless.  The exception is
`OpenCV.Geometry.Subdiv2D`: an Ada controlled object that owns a native
triangulation over any sequence of calls, failures and reinitializations.

Most of the repository's control flow is in `scripts/`: programs that run
untrusted native code in child processes and record what it did, that build and
install the binding for another target without running anything on it, and that
decide whether documentation may be published.  They meet crashes, time limits,
other programs' writes, stale files and events out of order.  Both halves are
modelled here.

| Files | Contents |
|---|---|
| `Subdiv2D`, `SubdivisionContract`, `Subdiv2DProofs` | the subdivision object, what it promises a caller, the proofs |
| `NativeBounds`, `ErrorChannel`, `NativeProofs` | the floating-point arithmetic of an initialization; how the text of a native failure reaches an Ada exception |
| `Campaign`, `Selection`, `FitLineProofs` | the fit-line research: its resumable report, and the certificate on its draws |
| `ProbePool`, `ProbeVerdict`, `CorpusFormat`, `ExactGeometry`, `PolygonProofs` | the polygon research: its children, their judgement, its corpus, its exact checks |
| `EvidenceRun` | the two runners of the upstream evidence |
| `ChildrenProofs` | the proofs about who runs children: the pool and the evidence runners |
| `CrossInstall`, `CrossInstallProofs` | the installation into a shared prefix |
| `CrossPreflight`, `LoaderDirectories`, `DependencyClosure`, `BuildTrace`, `CrossWorkspace`, `CrossGeometry`, `CrossGeometryProofs` | the cross build |
| `DeclarationScan`, `WarningRatchet`, `DocCoverage`, `AdaTexts`, `AdaPages` | the checks of the documentation, and the Ada texts and pages they are run on |
| `PolicySelection` | which verifier judges which change of the documentation |
| `DocumentationProofs` | the proofs about the ratchet, the coverage check and the policy |
| `MC*.tla`, `*.cfg` | small instances for TLC |

## Inventory

Paths are those of the repository.

### Subdivision object (`src/opencv-geometry-subdiv2d.ads`, `.adb`, `cpp/opencv_geometry_shim.cpp` 3620-4765)

* State.  Ada: `Handle`, `Bounds`, `Native_Bounds`, `Bounds_Mode`.  Shim:
  `usable`.  OpenCV: vertex slots (free, inserted, or virtual, that is, made by
  a Voronoi computation), quad-edges, the bounds, the cached search start,
  `validGeometry`.
* Operations: `Create`, `Reset`, their `_Float32` forms, `Insert` of a point or
  an array, `Locate`, `Find_Nearest`, edge, triangle and leading-edge lists,
  navigation, vertex queries, `Voronoi_Facets`, `Bounds`, `Is_Ready`,
  `Finalize`.
* Interaction.  Ada calls the shim, which calls OpenCV.  A batch insertion
  crosses the ABI once per chunk of 4096 points; an extraction crosses it
  twice, to count and to fill.  A failure comes back as a status and a
  thread-local message, which a second call fetches.
* Hard behaviour.  A failure may hit before, during or after a change of native
  state; identifiers outlive the calls that return them while slots are freed
  and reused; two copies of the bounds must agree; indices end at
  `Natural'Last`; OpenCV's `int` arithmetic; rounding.
* Correct when: a handle that accepts calls holds a whole triangulation; it is
  owned once; the published bounds are the native ones; an issued identifier
  keeps its point; Voronoi data is current when used; a batch reports exactly
  what it inserted; nothing overflows.

### The other parts

| Part | State | Hard behaviour | Correct when |
|---|---|---|---|
| Error channel (shim 39-84, both `Raise_On_Error`) | one message per thread | calls of other tasks between a failure and the call that reads its message | an exception carries its own call's message |
| Fit-line campaign (`run_fit_line_3d_research.py`) | a JSON-lines report on disk | a crash between a write and its `fsync`, a partial record, a rebuilt probe | no case is lost, run twice or mixed with another program's |
| Draw certificate (same file) | none | a count that is not simulated | every count draws within the certified bound |
| Probe pool (`run_min_enclosing_polygon_research.py`) | running children, a suspended generator | a child ends between `poll` and `killpg` | every job yields once, only children are killed |
| Verdicts (same file) | counts, report, exit status | the order of tests on one child's end | the outcome says what happened, of which library; a summary is of all cases |
| Corpus (same file) | the case being read | lines in an unforeseen order | every case is read as it was written |
| Exact geometry (same file) | none | collinear points, polygons that wind twice | competitors enclose, the enclosure test is right |
| Evidence runners (`run_risk_reassessment.py`, `run_upstream_reproducers.py`) | a child, its helpers, records | the time limit races the child's end | a clean exit rests on the intended library |
| Cross installation (`cross_install_geometry.py`) | files below a prefix | concurrent installers, other writers, a crash between two files | nothing is replaced but a log's path, no two installations mix |
| Cross preflight, loader, closure, trace (`cross_geometry.py`) | what was examined | libraries of one name in two places, include cycles, need cycles, several spellings | what passed is what the target would load |
| Cross workspace (`cross_geometry.py`) | a directory, its evidence | commits and edits by others meanwhile | the evidence names what was built |
| Documentation warnings (`compare_gnatdoc_warnings.py`, `generate_docs.sh`) | a baseline file | stale logs, repeated warnings | nothing passes that was not reviewed |
| Documentation coverage (`check_doc_coverage.py`) | a baseline file | blocks that attach to nothing | what passes is documented |
| Policy selection (`select_gnatdoc_policy.py`, `additive_gnatdoc_policy.py`, `documentation.yml`) | commits, the deployed site | cancelled checks, outdated bases, two requests | published declarations and their links stay |
| Edges and navigation, arithmetic guards, hull indices, convex intersection, shape fitting | none in the binding | numerical | see "Not modelled" |
| Documentation generators and their validators, build scripts, tests | none | - | see "Not modelled" |

`PROJECT.json` lists every part with its status, and the hazards at their lines.

## The models

### `Subdiv2D`

One object and one task, which is what the package asks of its callers, so a
call is one step, except for a batch insertion (one native insertion per step)
and a Voronoi request (a counting step and a filling step), whose bookkeeping
is the point of the model.

| Variables | In the code |
|---|---|
| `scope` | an object is declared |
| `handle`, `mode`, `bounds`, `nativeBounds` | the Ada record |
| `usable`, `live` | the shim's flag; how many native objects exist |
| `frame`, `kind`, `pos`, `qedges`, `validGeometry` | OpenCV's bounds, vertex slots, quad-edges, Voronoi flag |
| `call`, `batch`, `request` | the local variables of a call in progress |
| `answer` | what the last call answered |
| `diagram`, `torn`, `issued` | history: the sites of the Voronoi data; a change failed half-way; what the caller was given |

Every action is one outcome of one call: `ResetSucceeds`, `ResetRejected` and
`ResetFails` are the three ends of `Reset`, and of `Create`, which is `Reset` on
a new object.  `InsertOne`, `InsertOneRefused` and `InsertOneBreaks` are the
three ends of the shim's `subdiv2d_insert_one`, which single and batch
insertion share.

What is under OpenCV's control is a choice over what OpenCV may do:

* `NativeInsert` returns a vertex the point may coincide with, or a new one in
  a freed slot, if there is one, or the next slot.
* `NativeInsertBreaks` fails before any change, after deleting an edge, or
  after taking a slot.  `torn` records that the edges changed.
* `VoronoiComputed` frees the virtual slots and fills some anew; `VoronoiFailed`
  stops part-way.  `validGeometry` is set last.
* `Locate` and `Find_Nearest` answer any vertex consistent with the point; which
  one is geometry, and is not modelled.

Points and rectangles are abstract: `Region` says which points a rectangle
holds, `Near` which points OpenCV may find coincident, `SuperNear` which ones it
may find coincident with a super-triangle vertex of a rectangle smaller than
`FLT_EPSILON`.

`SubdivisionContract` is the same object as a caller sees it: ready or not,
published bounds, a function from identifiers to positions, and the last answer.
It has no slots, chunks, quad-edges or Voronoi data.  `Subdiv2D` implements it,
by the mapping at the end of that module.

### `NativeBounds`, `ErrorChannel`

`NativeBounds` is `Validate_Native_Bounds` and the super-triangle, in a binary
floating-point format with `Precision` significand bits and exponents up to
`MaxExponent`.  Numbers are integer multiples of the smallest subnormal, so that
sums and products are exact before `Machine` rounds them, to nearest, ties to
even.  `FormatAssumption` asks for at least four bits; binary32 has 24.  The powers
of two are the recursive function `TwoTo`, which the provers can reason about.

In `ErrorChannel` tasks enter and leave the shim in any order.  `ClearError` is
how every status-returning entry point starts, `SetError` how it fails;
`LastErrorMessage` is a native call of its own, and the two `Raise_On_Error` of
the bindings differ in whether they make it after a success.  `Buffer` says which
buffer a task uses: `thread_local` makes it the task's own.

### The fit-line research

`Campaign` is the controller of `run_cases`, one step between two of its effects
on the disk: it opens the report, checks the identities of probe and corpus,
skips what is recorded, runs a child, writes its record, syncs it, and at last
prints a summary.  `Kill` ends the controller between any two steps: what it wrote
and did not sync stays readable, and is not durable; only the next `Sync`, which is
of the whole file, makes it so.  `PowerLoss` stops the machine: what was synced
stays, and of the rest any part from its start.  In both a record that was being
written may be `"whole"`, `"bare"` (its newline is lost) or `"cut"`.  `Replace`
rebuilds the probe between two runs.  A
child ends in one of the ways in `ChildEnds`, which `Recorded` turns into the
record the script saves.

`Selection` is the certificate on subset selection: `Draw`, `EndRound` and
`Exhausted` are the loop of the simulation, and `AfterOutput` is the same loop as
`certificate` calls it for one count, one output after the other.  `Candidates` are
the counts that divide a difference within a block, `FactoredCandidates` the way the
script finds them by trial division, and `TotalDrawBound` the bound it certifies.

### The polygon research

`ProbePool` is the generator `run_jobs`: `Fill`, `BeginPass`, `Poll`, `KillGroup`,
`Wait`, `EndPass`.  It is suspended at each `yield` (`pc = "consume"`), while
children go on, end, or pass their limit, and the process id of a reaped one may
be taken by another program (`Reuse`); the consumer resumes or abandons it.

`ProbeVerdict` has what `classify`, `checked_outcome`, the tally, the report and
the exit status make of finished children, whatever they did (`Children`), under
every accepted command line.  Output the decoder cannot take raises an exception that
`main` does not catch: `Raise` ends the run with a traceback and status 1, before the
case is counted or between its count and its line; `Break` does the same for files
that cannot be read or written.  `CorpusFormat` reads every sequence of corpus lines
up to a bound (`Step` is one turn of `parse_corpus`), and `Parsed` reads what
`CorpusEntry` prints.  `ExactGeometry` grows every set of points and every polygon of
a small grid; hulls, flush triangles, minimum rectangles and the enclosure test are
compared with their definitions.  The script computes with rationals, and so does
the model: a quotient is a record.

### `EvidenceRun`

A child prints its identity lines and then anything, hangs or ends, and may
leave a helper in its process group; `WaitReturns` and `TimeoutExpires` race.
The identity is read from the header only.  A case the harness does not know
prints a valid identity and exits with 64, so its record is valid, and the run
counts it as evidence.

### The cross build and installation

`CrossInstall` has any number of attempts, each one action per file-system effect
of `cross_install_geometry.py`: `Preflight` looks at all entries, `OpenFile`
creates one exclusively, `CopyFile` fills it.  What is written into the prefix after
publication is part of it: the consumers' logs (`OpenLogs`, `Link`), and for
`--qualify` the logs of two more links (`CopyLogs`) and at last the dispositions
(`Record`).  Their directories must be new, but the files are copied over whatever is
there.  `OtherWrites`, `Fail` and `Crash` may come anywhere.

`DependencyClosure` is the worklist walk of `dependency_closure` and
`check_versions`; beside it `Loads` and `Closed` say, from the loader's rules,
what would be loaded.  `LoaderDirectories` reads `ld.so.conf` with its includes,
`CrossPreflight` is the order of the checks of `validate` with every answer tools
and files may give.  `BuildTrace` is the examination of logged commands.  It has the
three kinds of tools as the code tells them apart, by name and directory; which of
them build for the target (`TargetTools`, `AdaTools`) is a matter of its own, which
the code cannot see.  A directory is a spelling, with links and `..` in it, that
leads somewhere (`Canonical`).  `CrossWorkspace` has several attempts at one
workspace while others edit, commit, and replace the configuration and either
compiler, or put an earlier edition back.  A compiler is an edition; its `Release` is
all that an object tells of it, with its `Signature` where the object is Ada's, and
only Ada's own probe tells two editions apart.

These parts hand each other only success or failure, so `CrossGeometry` composes
them as alternatives.

### The documentation

`DeclarationScan` is `declaration_index`, line by line, and `locate_declaration`;
its sources come with what they declare and with the formals, components and literals
that belong to it (`AdaTexts`), so that what is found can be compared with what is
there; some of them the scanner refuses, and say so.  `SpelledIn` says which names are
found within another: the code looks for a component's name in the text of a line.
`WarningRatchet` is the comparison of a log with the baseline as
`generate_docs.sh` and a developer call it, with edits of the sources, interrupted
writes and malformed logs in between, and with edits of the baseline by hand:
`EditBaseline` adds identities or takes them out, `Mangle` leaves lines that are none.  `DocCoverage` is `check_doc_coverage.py` on
one specification and one page (`AdaPages`).

`PolicySelection` is a repository with a main branch and pull requests: which
commit `select_gnatdoc_policy.py` takes for base and policy, what
`additive_gnatdoc_policy.py` and `validate_gnatdoc_inputs.py` compare, and the
workflow that checks, cancels and deploys.  The generated pages are reduced to the
ordered declarations of a package; of the manifests the root version is kept.
Fast-forward pushes of a request's head and the bootstrap step of the workflow
are left out.

## The runs

TLC checks twelve instances.  Several hold more than one component: where
components do not interact, the module has a variable `part`, chosen in the
initial state, and a behaviour is one of that component while the variables of
the others keep the value `Away`.  Such a run is the union of its parts' state
spaces, not their product, and its properties say `part = "..." =>`.

| Run | Instance | Properties | Result |
|---|---|---|---|
| `subdiv2d` | `MCSubdiv2D` | `UsableIsWhole`, `HandleOwnsOne`, `PublishedBoundsAreNative`, `IssuedVerticesStay`, `VoronoiDataCurrent`, `BatchIndexInRange`, `NoInvalidResult`, `EdgeArithmeticInRange`, `BatchReportsProgress`, `ImplementsContract`, `CallsReturn` | hold; 140,373 states |
| `native` | `MCNative` | `SuperTriangleSound`, `RaisesOwnDiagnostic` | hold; 2,264,004 states |
| `fit_line` | `MCFitLine` | `ReportSound`, `BoundCertified`, `DivisorsFound`, `EvidenceKept`, `RunEnds` | hold; 404,862 states |
| `polygon` | `MCPolygon` | `VerdictMeans`, `CorpusKept`, `CompetitorsSound`, `EdgeTestsDecideEnclosure` | hold; 1,881,422 states |
| `children` | `MCChildren` | `PoolKeepsChildren`, `EvidenceSound`, `PoolFinishes`, `EvidenceEnds` | hold; 344,698 states |
| `install` | `MCCrossInstall` | `InstallationsSound`, `NothingReplaced`, `OneSucceeds` | hold; 876,596 states |
| `cross` | `MCCrossGeometry` | `ClosureIsLoaders`, `OneTarget`, `TraceIsTheTargets`, `LoaderSearches`, `EvidenceEarned` | hold; 899,528 states |
| `docs` | `MCDocs` | `FiledByDeclaration`, `ReviewedOnly`, `PassedIsDocumented`, `NoSilentReturn` | hold; 1,927,095 states |
| `policy` | `MCPolicySelection` | `DeploymentsGrow`, `OnlyReviewedChanges` | hold; 6,624,538 states |
| `nearest` | `MCSubdiv2D` | `NearestIsInserted` | violated, see below |
| `fit_line_summary` | `MCFitLine` | `SummaryComplete` | violated, see below |
| `polygon_star` | `ExactGeometry` | `StarsRejected` | violated, see below |

A property such as `ReportSound` is a conjunction of named parts, each with its
comment in the component's module.  What they say:

* Subdivision.  A handle that accepts calls is not one whose insertion or
  initialization failed half-way (`UsableIsWhole`); no native object is lost or
  destroyed twice (`HandleOwnsOne`); the published bounds are the native ones,
  also after failed and mixed initializations (`PublishedBoundsAreNative`); an
  identifier keeps its position until the next `Reset`, while Voronoi
  computations free and reuse slots (`IssuedVerticesStay`); data marked current
  belongs to the present points (`VoronoiDataCurrent`); the chunk loop stays in
  the array (`BatchIndexInRange`) and names the right index when it raises
  (`BatchReportsProgress`); the consistency checks on the two native Voronoi
  answers never fire (`NoInvalidResult`); edge identifiers stay below
  `INT32_MAX` (`EdgeArithmeticInRange`).
* Native boundary.  The super-triangle of every accepted rectangle is
  nondegenerate and around it (`SuperTriangleSound`); an exception carries its
  own task's failure (`RaisesOwnDiagnostic`).
* Fit line.  No case is recorded twice; one report has one identity; a run that has
  saved an outcome starts another child only when the whole report is durable, and at
  any time no more records are at risk than there were crashes, and the one being
  saved; a partial record can only be the last; nothing is appended after drift
  (`ReportSound`).  A child's crash is kept as
  what it was (`EvidenceKept`).  A count that is not a candidate draws one block
  a round, and no count passes the bound (both `BoundCertified`); trial division
  finds every candidate (`DivisorsFound`).
* Polygon.  `VerdictMeans`: a memory failure shows; a result is of the manifest's
  library and of the input asked for; "nonminimal" is proved.  Status 0 is earned:
  every case was measured and none fails its expectation.  1 and 2 say which of the
  two it was only if the report ends in its summary: a 1 may also be a traceback, with
  any number of cases not measured, and a 2 a refused command line.  The counts of a
  summary are those of its cases.  `CorpusKept`: cases are complete, nothing is dropped
  or filed under another case, a frozen entry reads back.  `CompetitorsSound`:
  hulls are the extreme points and pass the script's own tests, flush triangles
  enclose, the rectangle is minimal.  `EdgeTestsDecideEnclosure`: a point that a
  polygon does not enclose is outside one of its edges, whatever the polygon, and of
  a convex one only such a point.
* Children.  `PoolKeepsChildren`: no more than the limit run, none is yielded
  twice or forgotten, the signal reaches children only, a record says "timeout"
  exactly of a child that was killed.  `EvidenceSound`: a clean exit rests on
  the intended library; nothing of a case that timed out runs on.
* Installation.  `InstallationsSound`: a pass has published every file whole, as
  its own, with its gates and its own logs; two attempts never mix; the configuration
  lies in Core's prefix; a failure leaves its evidence.  `NothingReplaced`: no file
  that is there is replaced, but one that another program has put where a log of a
  published installation goes, after the last check of that path, in a directory of
  logs the installation has made itself.  `OneSucceeds`: when nothing stands in the
  way, one attempt passes.
* Cross build.  `ClosureIsLoaders`: a closure that passed is complete, has
  nothing else, and each name is the file the loader takes, with its versions.
  `OneTarget`: one runtime, toolchain and OpenCV, and the linker takes what was
  examined.  `LoaderSearches`: the directories in the loader's order.
  `TraceIsTheTargets`: what a passed trace ran under the name of a build tool builds
  for the target, though only names and directories are compared, and no Ada tool is
  the C++ toolchain's; the linker searched no directory of an installation but the
  caller's, by whatever spelling; a directory of the host was searched only under
  another name than its own, or given in a word of its own.  `EvidenceEarned`: one
  author; the source named is the one that was built, whatever is edited and committed
  meanwhile; everything built was compiled here, from it, by compilers of the releases
  recorded, and what is Ada by one of the recorded signature; after `--verify-built`
  the Ada is by the very compiler that was validated, unless that was replaced and put
  back.
* Documentation.  `FiledByDeclaration`: declarations, scopes and lines are found
  as Ada has them, a warning about a formal, a component or a literal goes to the
  declaration it belongs to, never to another, and exactly the two layouts the scanner
  cannot take are refused.  `ReviewedOnly`: nothing is published with a warning, and of
  no warning does a check accept more than a `--write-baseline` was given and a hand has
  added to the file since; nothing else makes room.  `NoSilentReturn`: while nobody
  writes the baseline, what was fixed cannot come back.  `PassedIsDocumented`: gaps
  are exactly the baseline's, and correct pages are not refused.
  `DeploymentsGrow`, `OnlyReviewedChanges`: no published declaration disappears,
  moves or is renumbered, and names, version and verifier change as reviewed.

Each property has at least one mutant: a definition with the bug it would catch,
written before the definition it would replace.

### Bounds, and why they are enough

TLC's bounds are constants of the `.cfg` files or definitions of the `MC`
modules.

* `subdiv2d`.  `MaxSlots = 8` leaves four slots beyond the super-triangle, so a
  Voronoi vertex can hold the slot a point takes next, storage can run out, and a
  freed slot can be reused.  `MaxVirtual = 1` lets a computation append a vertex or
  fill a freed slot; the theorems hold for any number.  Of the four points the
  third insertion is refused by the room check (`IntMax = 111`), as at 2^31 - 1,
  which TLC cannot reach; without the check a fourth would overflow.
  `ChunkLength = 2` gives batches of one and two chunks, failures in either, and one
  that ends at `NaturalLast = 9`.
* `nearest`.  `MaxSlots = 7`, no virtual vertices, and `IntMax = 127`, which allows
  every insertion the slots allow.  `IntegerFactor` is 3 in both: the factors
  themselves are the subject of `native`.
* `native`.  Four-bit significands and four binades: enough for ties, binade
  boundaries, subnormals and overflow; TLC tries every left coordinate, every
  extent and four top coordinates.  Two tasks, and two failures whose texts agree
  after truncation.
* `fit_line`.  Three cases, two identities of the probe, three crashes, eight ends
  of a child: a crash before and after the first record, a resumption of a
  resumption, and a power loss when two killed runs have left a record each.  The
  draws use an eight-bit generator of the same form as the script's, five rounds,
  blocks of four and every count up to 127, so candidates and others alternate.
* `polygon`.  A child that may do everything beside one of each kind; corpora of
  up to five lines over two names, points and families; polygons of up to five
  vertices on a three by three grid, which holds collinear sets, pentagons that
  touch themselves and ones that wind twice.
* `polygon_star`.  Six vertices on a three by two grid: the smallest on which TLC
  finds the disagreement.
* `children`.  Four jobs for two places, so that the pool refills while one child
  outlives its limit; two selected cases, known, unknown or malformed, two
  library versions, and outputs of up to two lines after the header.
* `install`.  Two attempts, one with `--qualify`, five entries and all seven paths
  written after publication, four initial prefixes, two faults: two files of another
  program, or one and a failure.  A third attempt meets nothing the second does not.
* `cross`.  Three objects, two names and two directories: a chain, a cycle, and a
  name in both directories.  Three configuration files with `MaxDepth = 2` (8 in
  the code): an include cycle longer than the limit.  Traces of two commands with
  two directories each, among them links into and out of an approved directory, one
  below it, `..`, the host's, and a runtime and a sysroot below the host's; tools of
  every kind in either compiler's directory and the host's.  Two attempts, two files
  and two changes in a workspace: a replaced compiler of the same release and
  signature, one of others, and one that is put back.  In the preflight two of each
  thing that could differ, and five OpenCV releases, two of them unsupported.
* `docs`.  `MaxLines = 5` and `MaxGap = 3` (200 and 80 in the code): a declaration
  of three lines with a comment before or after, both limits met and passed, and both
  refused layouts; a record's name that is spelled within another's.  Two identities
  of warnings, which are symmetric, occurring up to twice, and two steps: an edit of
  the sources and one of the baseline, in either order.
* `policy`.  Three declarations, two of them overloads of one name and one not
  approved; two requests and two verifiers, which are symmetric; versions 2 and 3;
  six commits: each request can be updated, outdated by the other, and merged.

Deadlock is checked in `subdiv2d`, `nearest` and `policy`.  The other
systems end: a run, an installation or a comparison is over, and their
configurations say `CHECK_DEADLOCK FALSE`.

### Fairness

Fairness is asked of steps a running program takes without waiting for anyone,
never of a new call, a new attempt, another program's writes, or the end of a
child.

* `Subdiv2D`: `BatchStep` and `VoronoiStep`, the remaining steps of a call in
  progress.  `CallsReturn` says nothing of `Find_Nearest`, whose native walk is
  documented as unbounded and is one step here.
* `Campaign`: the controller's own steps.  `subprocess` returns from a child at
  its time limit at the latest.
* `ProbePool`: the generator, its consumer, and time (`Elapse`, for each job).  A
  child need not end; the limit and the kill end it.
* `EvidenceRun`: the runner.
* `CrossInstall`: an attempt once it has started.  `OneSucceeds` speaks of a fresh
  prefix and of behaviours without a fault: neither a failure, nor a crash, nor
  another program's write.

### Three disagreements between documentation and code

`nearest`.  `src/opencv-geometry-subdiv2d.ads` (280-284) says that `Find_Nearest`
answers "The inserted vertex whose Voronoi facet contains Point" and raises "when
no point has been inserted".  `Validate_Native_Bounds` accepts bounds much smaller
than `FLT_EPSILON` (`tests/src/subdiv2d_bounds_tests.adb` initializes with
subnormal ones), and OpenCV finds any point closer than `FLT_EPSILON` to a vertex
coincident with it.  Within such bounds that vertex can be one of the
super-triangle; the shim refuses only `vertex <= 0`, and so does `To_Vertex_Id`.
The run shows `Find_Nearest` answering vertex 1, 2 or 3.  The package's remark on
scale warns of poor answers, but not of this one.

`fit_line_summary`.  `docs/fit-line-3d-research.md` (364) says "An interrupted
partial JSON record fails loudly instead of silently discarding prior evidence".
A record that lost only its newline still parses when the report is read again,
so the resumed run appends to that line.  When the line is the header, the
summary skips it together with the outcome that now follows on it: one case is
missing from the printed counts, and the run exits with 0.  The report itself is
refused by the next run.

`polygon_star`.  `check_enclosure` takes a polygon to be convex if all its turns go
one way and its area is its hull's; "All turns one way is not enough: a pentagram
turns one way too", says its comment
(`run_min_enclosing_polygon_research.py` 339).  The signed area counts what a polygon
winds round twice two times.  The run finds (0,0), (2,0), (2,1), (0,1), (1,0), (1,1),
which turns left six times and crosses itself, with as much wound round twice as is
left out of the hull: it would be recorded as convex.  Up to five vertices no such
polygon lies on the grid.  The enclosure of the input, the other test of that
function, is not affected: `EdgeTestsDecideEnclosure` holds for polygons that cross
themselves.

### Observations without a run

Met while translating; the models follow the code.

* A consumer that abandons `run_jobs` leaves its children running
  (`run_min_enclosing_polygon_research.py` 449; the docstring, 25, speaks of
  every child).  In `ProbePool`, `Abandon` does the same.
* Without a manifest the library a record names is not compared with anything
  (822, 830), so `VerdictMeans` speaks of runs with a manifest.
* The docstring of the fit-line runner (5) says "every result is fsync'd", and
  `docs/fit-line-3d-research.md` (363) has it.  A record that a killed run flushed and
  did not sync (`run_fit_line_3d_research.py` 294-295) is taken as done by the next
  run (286), which starts a child before any `fsync`; and a run that finds all cases
  done never syncs.  `DurableBeforeNextChild` says what does hold.
* Malformed output of a child raises `ValueError`, `KeyError` or the like in `decode`
  (`run_min_enclosing_polygon_research.py` 574-605) or `object_identity` (867-877),
  and so does a case whose optimum is zero; `main` catches neither (1321-1326).  Python
  then exits with 1, as for mismatches, and the report has no summary.  Standard output
  is assumed writable, and a kill of the runner itself is not modelled.
* `docs/cross-install-geometry.md` (35) says "Existing files are never replaced".  The
  logs and `dispositions.txt` are copied into the prefix long after it was checked
  (`cross_install_geometry.py` 217, 259-261), over a file that another program has put
  there since: the exception in `NothingReplaced`.
* The comment on `check_trace` (`cross_geometry.py` 754-756) says that no compile
  names a host include or library directory.  One passes that is named through a link
  or `..`, or given as a word of its own (818), or that begins like the sysroot, which
  is compared as text; `/usr/lib64` is not among those looked for (819).
  `TraceIsTheTargets` says what does hold.  A tool is known by its name and directory.
* `--verify-built` probes the Ada compiler only (`cross_geometry.py` 1024-1033): a
  C++ compiler replaced by one of its release is not noticed.  The model has it of a
  finished build; `tests/cross/qualify_target.sh` (151-154) also calls it on the
  outputs of the tests' own build.
* The configuration is validated and its digest taken (638-658) some time before it is
  copied into the workspace (964), so the copy may be another; the docstring (658) says
  "Validate generated, reused and explicitly supplied configurations alike".  No
  property speaks of the configuration.
* The docstring of `compare_gnatdoc_warnings.py` (36) allows a discriminant part of
  several lines.  The scanner reads such lines again, as components (237): a line with
  a closing parenthesis alone raises "unbalanced parenthesis" (384-387).  And a formal
  of a generic package inside a package is recorded twice, so that a warning about it
  is refused.
* A comment block directly above `private` never attaches to a declaration
  (`check_doc_coverage.py` 306).  `EveryBlockRenders` speaks of blocks that a
  visible line follows.
* `PolicySelection` has the constant `Protected`: main takes only requests that
  passed on their present base.  With unprotected pushes a deployment may lose a
  declaration (`select_gnatdoc_policy.py` 105); `docs/additive-api-trust-policy.md`
  (376) asks for the protection.  Run and proofs assume it.

## The proofs

| Theorem | Module | Property |
|---|---|---|
| `TypeCorrect` | `Subdiv2DProofs` | types |
| `UsableAfterFailure` | | `UsableIsWhole` |
| `NoLeak` | | `HandleOwnsOne` |
| `BoundsAgree` | | `PublishedBoundsAreNative` |
| `IdentifiersStable` | | `IssuedVerticesStay` |
| `VoronoiCurrent` | | `VoronoiDataCurrent` |
| `EdgesFitInt` | | `EdgeArithmeticInRange` |
| `BatchStaysInArray` | | `BatchIndexInRange` |
| `BatchKeepsPrefix` | | what a batch has passed has a vertex |
| `BatchProgress` | | `BatchReportsProgress` |
| `ChecksNeverFire` | | `NoInvalidResult` |
| `SubdivisionImplementsContract` | | `ImplementsContract` |
| `DeterminantPositive` | `NativeProofs` | the super-triangle has area |
| `TriangleAroundBounds` | | `SuperTriangleSound` |
| `OwnDiagnostic` | | `RaisesOwnDiagnostic` |
| `Certificate`, `SelectionTypes` | `FitLineProofs` | what is no candidate draws one block a round; types |
| `BoundForEveryCount` | | `BoundCertified` |
| `CampaignReport`, `CampaignEvidence` | | `ReportSound`, `EvidenceKept` |
| `PoolKeeps` | `ChildrenProofs` | `PoolKeepsChildren` |
| `EvidenceHolds` | | `EvidenceSound` |
| `VerdictsMean` | `PolygonProofs` | `VerdictMeans` |
| `CorpusIsKept` | | `CorpusKept` |
| `HullAndCompetitorsAreSound` | | `CompetitorsSound` |
| `EdgeTestsDecideWhatIsEnclosed` | | `EdgeTestsDecideEnclosure` |
| `TestsDecide`, `HullExtreme`, `RingPasses`, `TrianglesEnclose`, `NoLessRectangle` | | the same for any finite set of points of the plane |
| `InstallTypes`, `NeverReplaces`, `Sound` | `CrossInstallProofs` | types, `NothingReplaced`, `InstallationsSound` |
| `ClosureMissesNothing`, `ClosureAddsNothing` | `CrossGeometryProofs` | the closure is complete, and has nothing else |
| `ClosureCorrect` | | `ClosureIsLoaders` |
| `WorkspaceEvidence` | | `EvidenceEarned` |
| `PreflightOneTarget` | | `OneTarget` |
| `TraceOfTheTarget` | | `TraceIsTheTargets` |
| `LoaderSearchesAll` | | `LoaderSearches` |
| `GrowthTheorem`, `ReviewTheorem` | `DocumentationProofs` | `DeploymentsGrow`, `OnlyReviewedChanges` |
| `RatchetReviewed`, `RatchetHolds` | | `ReviewedOnly`, `NoSilentReturn` |
| `CoverageProves` | | `PassedIsDocumented` |

Each is proved for every value of the constants, under the named assumptions of
the modules they are declared in.  Where a run holds several components, a lemma
states the result of the component's own specification (`PoolStaysSound`,
`RatchetSound`, ...), and the theorem that of the composed one, `PartsSpec`: a
behaviour of the composition with this `part` is one of the component, and `part`
never changes.

**`Subdiv2DProofs`**: any points and rectangles, any `Near` and `Region`, any number
of slots, any batch arrays and any Voronoi requests, under `ConstantsAssumption`,
`BatchesAssumption` and `RequestsAssumption`.  `Next` has some thirty actions, but
only a few effects on an object: it is initialized, an initialization breaks, a
point is inserted, an insertion breaks, Voronoi data is computed, the object leaves
its scope, or nothing of this happens.  `StepHasEffect` proves once that every step
has one of these effects; each part of the invariant is then shown to be preserved
by each effect.  The parts that concern a batch go by the batch's own steps instead
(`ControlNext`).

The inductive invariant `IInv` strengthens the properties where they are not
inductive: `ObjectInv` (types of the object's state, and that a usable handle has
native bounds), `UsableBounds` (the published and native bounds agree, and which
`Bounds` are stored in integer mode), `UsableIssued` (an issued vertex is an
inserted point's slot, with its position, and the null slot stays free, so that no
computation takes it), `UsableSuper` (the super-triangle keeps its slots),
`UsableDiagram`, `UsableRoom` (how many quad-edges there are after an insertion),
`BatchInv` (how `first`, `remaining`, `inserted` and `done` of a batch relate to
its array; without it, no bound on `First` is inductive), and `Control` (which
calls are in progress).  `IInvInit`, `IInvNext` and `AlwaysIInv` put the parts
together.

Its second half proves that the subdivision implements its contract.
A Voronoi extraction runs in two native calls, one that counts and one that fills,
and its answer is checked twice.  `AscendingFacts` says that `Ascending` lists a
finite set of slots completely and in order: the number of smaller elements is a
rank, different for different elements, and by the pigeonhole theorem every rank is
taken.  A Voronoi computation turns no inserted point's slot into another kind, so
no listed site is left out (`HoldingAll`, `FacetSitesAll`) and the second call finds
what the first one counted (`FillAgrees`).  The invariant `ContractInv` adds to `IInv`
that a request stays what the counting call saw (`RequestInv`), that a usable object
has a handle (`UsableHasHandle`), that a batch with nothing left to insert has a
usable object (`BatchDone`), and `NoInvalidResult`.  `StepImplements` then takes the
actions one by one: an action is the contract's action of the same call, or changes
nothing a caller can see (`Unseen`), as the native calls inside a call do.

**`NativeProofs`** proves the comment on `Validate_Native_Bounds` in every binary
format of at least four bits, with whatever rounding happens on the way.

* Rounding.  `Grid` has the numbers of the format without its largest exponent;
  `Machine` of a finite result is the nearest of them (`RoundClosest`), a sixteenth
  of the exact value away at most (`RoundError`).
* A vertex.  `VertexBeyond` and `VertexRetreats` put it strictly beyond the origin:
  the bounds advance by the smaller extent without being rounded back, so the much
  larger scale advances too.  `DeterminantPositive` is what follows for the area,
  over the integers.
* The corners.  A point of the bounds has to lie before the middle between the
  origin and the far vertex (`LessThanHalf`, `CornerInside`).  Where the origin is
  not far away compared with the scale, the error bound is enough.  Where it is,
  an error bound is worth nothing, since the extent may be a single unit in the last
  place; but all the numbers involved are then within a factor of two, each a
  multiple of one unit, and each multiple of twice that unit a number (`OneScale`),
  which gives a number between the exact vertex and the one that would be too near.
* `SumsBounded` and `AcceptedAdvances` connect this with what the validation tested;
  `NativeInv` says that the published limits and triangle are those of a validated
  rectangle.

For the error channel it takes any set of tasks and of texts.  The invariant follows
the text of a task's failure from the buffer to the exception; it is inductive
because no other task writes the buffer that task uses.

**`FitLineProofs`**.  The draws: any generator, block, number of rounds and count.  The
invariant (`OnSchedule`) says that a count which is no candidate has drawn, in this
round, the next outputs of the round's block, and no residue twice.  It is
inductive because equal residues make the count divide a difference of two outputs
of a block, which makes it a candidate (`EqualResidues`).

The bound: `Simulated(n)` is what `certificate` computes for a count, output after
output.  `StepInv` says that the selection of that count is in step with it, so that
where the selection is done the simulation is too, with as many outputs used.  For a
candidate that is a number `TotalDrawBound` is the greatest of; for any other count
`OnSchedule` gives one block a round, which is another.

The campaign: any corpus, any ends of children, any number of kills, power losses
and replacements of the probe.  `CampaignInv` says what the report looks like at
every line of the controller: its first record is the header and every record has
the header's identity, that of the run in progress (`Headed`); only the last may be
cut or of drift (`LastOnly`); those not durable are the last ones, no more than
there were crashes, and none once a run has saved a record; and it holds the cases
found at the start of the run and those the run has passed (`Progress`), so that
what is appended next is new.  Crashes are the hard steps: the file holds what was
written, or that and a piece of the record being saved (`WrittenIsFit`), and after a
power loss a part of this from its start, with all that was durable (`LeftIsFit`).
A kill puts one more record at risk at most (`KillKeeps`), a power loss none
(`PowerLossKeeps`).  A resumed run can only continue what `CampaignInv` says of a
report at rest, and a summary is of the cases so read (`SummaryKeeps`).

**`ChildrenProofs`**.  The pool: any number of jobs and any capacity.  Each pass of
`run_jobs` moves children from `scan` to `kept`; `Watched` is both, and
`QueuesHold` says that exactly its children run, once each.  With it,
`KilledTimedOut` (a child was killed if and only if its record says so, or its wait
is next) and `YieldsOnce` are inductive, wherever the consumer suspends or abandons
the generator.

The evidence runners: any cases and outputs.  The output of a child is identity
lines, then anything (`Printed`), and `HeaderIsIdentity` shows that the lines the
parser takes are the child's own, though the parser stops at the first line that is
no identity; so a row that is valid is sound, and `EvidenceInv` only has to carry
rows.

**`PolygonProofs`**.  The geometry: any polygon and any finite set of points with
integer coordinates.  The model's recursive functions are unfolded once each
(`Recursion`), and the rest is about sums of cross products.

* What the edges decide.  Twice the signed area of a polygon is the sum of the areas
  its edges span with any point (`AreaAround`).  From a point outside no edge no part
  of that sum is negative (`AreaSign`), and if the point is in no triangle of vertices
  either it sees them all in a line (`InsideAllEdges`), and there is no area: so a
  point beyond the hull is outside an edge, of polygons that cross themselves too.
  The converse needs a polygon on one side of its edges: what is on one side of a
  line is so of a whole triangle (`TestsDecide`).
* The monotone chain.  `Stacks` says of each half of `convex_hull` that the stack
  turns left, keeps the order of the points, and has everything passed on its left.
  Two halves make a ring (`RingOf`): points of the set, left turns only, everything
  on the left of each edge.  A ring has each extreme point once and nothing else
  (`HullExtreme`), and it and its reverse pass the script's tests (`RingPasses`).
* Competitors.  Three edges of a ring that turn left pairwise make a triangle, whose
  corners are found by Cramer's rule: a point on the left of the three edges is on
  the inner side of its sides (`TrianglesEnclose`).  For the rectangle
  (`NoLessRectangle`): while the direction of a side turns from that of one edge, up
  to quarter turns, to the next, the same four vertices touch the rectangle, and its
  area, times the squared length of the direction, is then no less than the lesser
  of its values at the two ends, as Freeman and Shapira have it.  Directions are
  vectors of integers and quotients are compared crosswise, so nothing is divided.

The corpus: any names, points and families, and any number of points on a line.  The
invariant (`CorpusInv`) compares what has been read with the cases opened so far,
which are the finished ones and the one being read: there are as many as case lines,
as many expectations as expect lines (`Counts`), and their points, one case after the
other, are those of the text (`Holds`).  Each line adds to one side what it adds to
the other.  For the entries, `EntryIs` says what lines `CorpusEntry` gives, and
`HeaderReads` and `ChunkReads` follow the parser over them: after any number of lines
of points it has read that many.

The verdicts: any corpus and any command line.  `RuleIs` and `ClassifyIs` turn the
order of the tests of `classify` into a case distinction once, `CalledTells` says of
each outcome what its child did, and `VerdictInv` keeps that with the counts, as
cardinalities of the cases named so far, the lines of the report, and which ends leave
a report without a summary (`EndKept`).

**`CrossInstallProofs`**: any number of attempts, any staged tree, any writes of
others.  A file is absent, stays what it is, is completed by its creator, or is a log
that is written (`Grows`).  An attempt owns a file only if it owns every file before it
(`FirstFiles`), because all attempts create the entries in one order; so the first file
is a lock, and two attempts never both own files.  A log is nobody's, another
program's, or of an attempt that has published (`LateOwned`), of which there is one;
so what a copy of a log replaces is nobody's or another program's, and that is
`NothingReplaced`.  The directories of logs an attempt has made stay its own
(`LateKept`).  The rest of `IInv` says what an attempt has published
(`PrefixPublished`, `AllPublished`), linked (`Gates`) and left behind (`Evidence`) at
each line.

**`CrossGeometryProofs`**.  The closure: any graph of dependencies, any sysroot, any
versions.  The invariant (`Walk`) is the one of a worklist: the starting objects
and all that visited ones need are visited or pending, and what was recorded for a
name is what the loader finds (`Found`); nothing outside the least closed set is
visited (`NothingExtra`).  At the end nothing is pending.

The workspace: any attempts, files, editions of two compilers with any releases and
signatures, edits and commits.  `Holds(a)` says stage by stage what an attempt has
made sure of: the workspace is its own from `create` on, the export is what its
identity names, the objects are of that export, from `outputs` on of the releases
and of the signature recorded, and the evidence says so.  While no compiler of Ada
was put back, editions only grow, and what is Ada is by one between the one
validated and the one there now; when `--verify-built` finds these equal, there is
only one it can be.  The stages form a chain of sets (`Exported`, `Cleared`,
`Claimed`, ...), so that a step only establishes what is new in the next one.

The preflight: `PreflightInv` is the same chain over the checks of `validate`: what
a check established holds at every later one, because no check unsees a file.  The
trace, for any names, directories and links: `TraceInv`, that the lines read so far
pass.  That they are the target's rests on `TraceAssumption`, that what stands beside a
supplied compiler under the target's name is that compiler's own; that no unapproved
directory was searched rests on where a spelling leads.

The loader's directories: any bound on nesting, any configuration, with files that
include themselves.  `Reads` gives, by recursion on the depth, the directories a
file names; the program walks with a stack instead.  The invariant (`LoaderInv`)
is that what was read, followed by what is `Unread` on the stack, is
`Reads[MaxDepth + 1]` of the root file.  Putting a line's frames on the stack
unfolds the recursion once (`LineStep`, `UnreadConcat`); dropping repeated
directories keeps what is found first (`FirstOfAppend`).

**`DocumentationProofs`**.  The policy comes first, then the ratchet and the
coverage check.

The policy: any declarations, any number of commits and requests,
on a protected main.  Main may be ahead of the site by any number of merges
whose checks were cancelled, so the properties, which compare two deployments, are
not inductive.  The invariant compares the site with main (`MainFollowsSite`), and
says that a request which contains main was checked against this main
(`CheckedAgainstMain`), which is what protection means.  `Follows` is what a content
keeps of an older one; unlike the script's comparison it composes over merges.

The ratchet: any identities and counts.  `RatchetInv` says that a fresh readable log
has the present warnings, that what was accepted is the baseline as it is counted,
and that the baseline never has more than a reviewer was shown and a hand has added
since (`Room`).  A log is a sequence
and a baseline is counted from one, so the proof needs what appending, removing and
cutting off do to `Count` (`CountOfAppend`, `CountOfFewer`, `CountOfPrefix`).

The coverage check: any specification, page and baseline of the form
`CoverageAssumption` states.  The check walks down the specification twice.  In the
first walk, `Counted` says that everything wanted of the lines passed is counted,
and that what is missing is not written; in the second, `BlockOK` that the open
block is the run of comments that ends here, and `Attached` that each block that
ended earlier belongs to a declaration and is rendered.  `NoneWrong` is the other
direction: no step finds fault with a correct page.  `EntriesAreItems` connects the
lists of a page, with their headings and names, with the members they stand for.

Several proofs are by induction on data.  The library's induction theorems take the
formula as an operator, which the provers cannot instantiate; the proofs use the
set of counterexamples instead, which has a least element if it is not empty
(`LeastNatural`, `AllNaturals`, `UpTo`).  That a recursive function exists, and is
the only one, is proved the same way, by its restrictions to initial segments
(`DoublesExist`, `FlattenExists`, `ReadsExist`, `ParsesExist`).

### What the proofs found

Properties that hold on TLC's instances, and needed a correction of the model to
hold in general:

* `Campaign`.  Two arms of the classification of a child's end overlapped; a CASE
  leaves the choice open, the script's tests are ordered.
* `EvidenceRun`.  The type invariant had no outcome for an exit status other than
  those of the instance.
* `CrossWorkspace`.  `Holds` needs that only a checkout with `.git` comes to the
  status and the revision; and that `--verify-built` tells who compiled needs that the
  compiler was not replaced and put back, which the variable `restored` records.
* `DocCoverage`.  An exception and a member of one name were one item of a page; and
  a section called "package" would have counted as the package's own description.
  Neither occurs in the instance; the items are now told apart as the script's are.
* `ProbeVerdict`.  The assumption did not say that the report's own lines are no
  cases and that no outcome is called as a missing one.
* `ExactGeometry`.  That a polygon taken to be convex encloses exactly what its edges
  say is false from six vertices on; the proof stopped at polygons that wind round a
  part of the plane twice, and TLC found the least, which is the run `polygon_star`.
  What holds needs a polygon on one side of its edges (`KeepsToOneSide`).
* `CorpusFormat`.  "No value" must be neither a case nor an outcome nor a number of
  vertices, which the assumption did not say.

### Only model-checked

* The liveness properties `CallsReturn`, `RunEnds`, `PoolFinishes`, `EvidenceEnds`,
  `OneSucceeds`: fairness and ENABLED are beyond the prover.
* `DivisorsFound`: that trial division by the primes of a sieve finds every divisor is
  unique factorization, for which there is no library.
* `FiledByDeclaration`: the scanner against the declarations of a text, parsed with
  recursion over nested scopes.

## Not modelled

* Edges, their lists and navigation: OpenCV owns the quad-edge storage; the
  bindings keep no state for it.  An edge identifier names another edge after the
  next insertion, as its documentation says, and no part of the code could tell.
* Polygons, slices and completeness of Voronoi facets, and the buffers of an
  extraction.
* The termination of `Find_Nearest`, which is a property of OpenCV's walk.
* Use of one object by several tasks, which the package forbids.
* Arithmetic guards, hull indices, convex intersection, shape fitting, areas,
  moments, transforms and curves: a check before a single stateless call, or
  numerical code.
* The generated matrices of cases, the random corpora, the numerical evidence
  bands and the building of the probes in the two research programs; the table of
  cases of the risk reassessment.
* The syntax of log lines, the tokenizer's literals and the regular expressions of
  the documentation checks, which the models have as classifications of lines.
* The documentation generators with their validators, the build and configuration
  scripts, and the tests: passes over text or calls of tools in a fixed order,
  without state, protocol or concurrency.

## Plan

1. `QuadEdge`: the edge algebra, the identities navigation promises, edge
   identifiers that go stale, the count-then-fill lists and their capacities.
2. The arithmetic guards with integers of a small width, against exact arithmetic;
   strict convexity on small integer polygons, against its definition.
