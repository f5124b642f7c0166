# TraceIQ: a verification project

TraceIQ clones a public repository, builds a graph of it in a SQLite database, and answers questions
about that graph over HTTP, on the command line and through a language model. The interesting parts, for
a model checker, are of two kinds. Some run beside each other: a queue of analyses, the worker processes
that carry them out, the one live database they compete to replace, the endpoints that read it meanwhile,
the streams that carry an answer to a browser, and the pages that submit, poll, stop and leave. Others are
loops whose order matters: a scan that reads a checkout somebody edits, the walks over the graph, and the
passes that choose what a model is shown under a budget of tokens. Between the two lies the graph itself: how
what several analysers found becomes one set of rows, and one transaction.

Line numbers refer to the repository these modules were written against; `PROJECT.json` maps every
definition to the lines it stands for.

## 1. Inventory

| Component | State | Operations | Talks to |
|---|---|---|---|
| **Analysis registry** `packages/analysis/src/analysis-registry.ts` | `#entries`, `#queue`, `#running`, the id counter | `start`, `cancel`, `retry`, `get`/`list`; private `#drain`, `#run`, `#requeue`, `#settle`, `#prune` | calls the executor (a promise), aborts it (a signal), is called back with stages, calls `onSettled` |
| **Worker executor** `apps/api/src/worker-executor.ts`, `apps/api/bin/analysis-worker.js` | one child process per attempt, one promise, one SIGKILL timer | fork, `message`, `exit`, `error`, `abort`; in the child: clone, scan, write, answer, exit | IPC in both directions, signals, the staged database file |
| **Graph holder** `apps/api/src/graph-holder.ts` | `#open`, `#staged`, `#staging` and the files on disk | `capabilities`/`isScanned`, `reopen`, `stage`, `bind`, `settle`, `adopt`, `discard`, warm-up | the endpoints (synchronous calls), `onSettled` |
| **Endpoints and wiring** `apps/api/src/endpoints.ts`, `app.ts` | scans being awaited | `POST /scan`, `POST /analysis`, cancel, retry, all reads | the three above |
| **Repository analyzer** `packages/analysis/src/repository-analyzer.ts`, `git-cloner.ts`, `github-probe.ts`, `workspace.ts` | a stage list, a temporary workspace, a git process | validate, probe, clone, scan, load, dispose, abort | git, the pipeline |
| **Pipeline** `packages/pipeline` | the fingerprint of the last scan | `scan` (discovery, fingerprint, reuse, analysers, tolerant build, assessment, write) | the checkout, the graph store |
| **Artefact readers** `packages/artifact` | none | one reader per format: elements and references of a file | the graph builder |
| **Graph builder and store** `packages/graph` | the rows of a database under its keys | `build`, `validateGraph`, `open`, `write` (one transaction) | SQLite |
| **Graph questions** `packages/health`, `packages/impact`, `packages/explorer` | none beyond a call | cycles, depth from entry points, impact closure, what is reachable | an immutable graph |
| **Name resolution** `packages/java`, `packages/python`, `packages/go` (`resolve.ts` and the indexes beside it); for TypeScript `packages/ir`, `packages/resolver`, `packages/call-graph` | an index of declared types or modules, local environments; for TypeScript an index of declarations by position | bind a name, a member, a supertype, an import, an export, a call | the extractors' facts, the TypeScript compiler |
| **Projection** `packages/ai/src/projection.ts` | admitted facts, a tally, the running pass | the five passes of `project` | the answering method |
| **Answering** `packages/ai/src/answer.ts`, `packages/ai-ollama` | tier, projection, attempt, text streamed so far; two timers | retrieve, generate, verify, recover once, finalise | the model (HTTP, NDJSON), the consumer (an async iterator) |
| **Planning and prompts** `packages/ai/src/plan.ts`, `profile.ts`, `grounding.ts` | none | classify a question, word a prompt | projection and answering |
| **Chat stream** `apps/api/src/endpoints.ts`, `chat.ts`, `sse.ts` | an open response | frames, keep-alive, abort on disconnect | answering, the browser |
| **Analysis hook** `apps/web/src/hooks/use-analysis.ts` | the job shown, a poll timer, a busy flag | submit, poll, reset, leave | the API |
| **Chat hook and store** `apps/web/src/hooks/use-chat.ts`, `store/chat-store.ts` | conversations and turns that outlive the page; a controller per visit | ask, stop, retry, clear, change subject, remove, leave | the chat stream |
| **Everything else** (scanner, extractors, artifact, technology and framework readers, navigation, context, CLI, pages) | none, or an immutable graph | pure translations and read queries | - |

What is hard here, by component:

- *Registry.* A slot comes free on five paths (settled result, settled rejection, cancel of a queued job,
  automatic retry, skip of a dead queue entry) and every one of them must hand it on. A user's cancel, the
  job's own deadline and the worker's answer race. The stage listener of an attempt is never disconnected.
- *Executor.* Node does not order `exit` after pending `message` events. A worker in a synchronous stretch
  takes no signal and does not notice that its parent died. It may be gone at any point, leaving whatever it
  had on disk.
- *Holder.* The file under an open session is replaced. Renames and removals may fail. A scan writes the
  live file while adoptions rename over it. After a restart the names of staged files begin again while a
  worker of the old process may still write one.
- *Wiring.* A job is started before its staged file is bound to it; `onSettled` runs after the queue was
  drained, that is after the next worker was forked.
- *Analyzer and pipeline.* git may hang, exceed its size, exit well after its deadline or be aborted; every
  way out has to pass the disposal. A checkout is edited between the steps of a scan. One analyser of
  several fails, or hands over facts the graph refuses.
- *Graph builder and store.* Identity is worked out from parts of a fact; too few parts and two facts become
  one, or the graph is refused whole. Nodes are shared by analysers that run in no promised order. Keys hold after
  every statement, and the process may die at any.
- *Graph questions.* Recursion was replaced by frames; a missed advance never ends, a wrong low link merges
  or splits cycles.
- *Name resolution.* Heritage may be circular; the order of a queue decides which of several declarations an
  edge points at; imports, wildcards, dots and modules shadow one another. The compiler of TypeScript answers,
  knows nothing or throws, and what it says is of a position, not of a declaration.
- *Projection.* Five passes with different ceilings and shares compete for one budget.
- *Answering and streams.* A prefix of an answer is on screen when verification rejects it; a provider may
  refuse a prompt, stall, or die; the reader may leave.
- *Pages.* Replies come back after a reset or after the page was left; streams of an earlier visit wind down
  beside those of the present one; the server forgets the job being polled.

`PROJECT.json` lists these as hazards, each at the line where it bites, with the properties that would
catch it going wrong or the reason why none does.

## 2. Modules

| Module | What it is |
|---|---|
| `AnalysisJobs` | What the registry promises, with no queue and no executor: each job's phase, each stop request. |
| `AnalysisRegistry` | The registry, one action per public method or continuation of `#run`. Its executor is the environment and may answer anything at any time. |
| `WorkerExecutor` | The worker processes, their inboxes, and what the supervisor makes of each event. |
| `GraphHolder` | The live database, the staged ones, and the open session. |
| `AnalysisService` | The composition: what `createApp` wires together, endpoint by endpoint and event by event. |
| `AnalysisRestart` | The service with an API process that crashes and is started again over the same directory. |
| `ScanPipeline` | One scan, step by step, and the database it leaves; the checkout may be edited between steps. |
| `RepositoryAnalyzer` | The workflow around a scan, composed with `ScanPipeline`; or, instead, scans from the command line. |
| `ArtifactReaders` | What the readers of documents, workflows and package manifests make of a file. |
| `PythonImports` | Import statements of Python, from the statement to its relationships. |
| `GraphBuilder` | `GraphBuilder.build` with its translators and `validateGraph`: facts to rows. |
| `GraphStore` | Scans that build a graph and replace a database with it, statement by statement. |
| `CodeGraph` | The composition of `CallBinding` and `GraphStore`: what the resolvers bound is what the builder is given. |
| `SmallPrograms`, `SmallTypeScript`, `SmallRepositories` | The programs of names, and the facts about small repositories, the composition is checked on. |
| `GraphQuestions` | The loops over the whole graph: components and breadth-first walks. |
| `Projection` | The passes that select facts for a prompt, draft by draft. |
| `Names`, `Programs` | Identifiers, what is known of a call site, and the declarations of a program. |
| `PythonNames`, `JavaNames`, `GoNames` | What a name means to each resolver: tables of declarations and imports, as functions of the program. |
| `TypeScriptSources`, `TypeScriptReferences`, `TypeScriptNames` | What is recorded of TypeScript sources, what the compiler's answers become as references, and how a call site is bound. |
| `CallBinding` | The call loops of the four resolvers, with the breadth-first walk over proven supertypes. |
| `GroundedAnswer` | What a reader of a streamed answer is promised, without saying how it is produced. |
| `Answerer` | `RepositoryAnswerer.answer`, with verification, recovery and finalisation. Its provider is the environment. |
| `OllamaModel` | One streamed generation: the daemon, two deadlines behind one timer, the caller's signal. |
| `ChatStream` | The composition: page, connection, event sink, answerer, provider. |
| `WebAnalysis` | The analysis dialog against a server that keeps the promise of `AnalysisJobs` and may be restarted. |
| `WebChat` | The chat page and its store over a session: conversations, visits, and several streams at once. |
| `AnalysisRegistryProofs`, `AnalysisServiceProofs`, `AnswererProofs`, `ChatProofs`, `CodeGraphProofs`, `GraphQuestionsProofs`, `ScanProofs`, `WebProofs` | Theorems about the modules they are named after; `ChatProofs` is about `ChatStream` and `Projection`; `CodeGraphProofs` about `CodeGraph` with `GraphBuilder` and `GraphStore`; `ScanProofs` about `RepositoryAnalyzer` and the calls of `CallBinding`; `WebProofs` about `WebAnalysis` and `WebChat`. |
| `MC...` | Small instances for TLC. |

### Atomicity

The API is one Node process: code between two awaits runs to its end. Every action is therefore one turn
of the event loop *with everything it calls*. `Settle` contains `Drain`, `Drain` contains the synchronous
half of `#run`, and in `AnalysisService` the same step forks the worker of the attempt that begins and
adopts or discards the database of the job that settled. `#run` is cut exactly where it awaits: its
continuation is `Resolved` or `Rejected`. Between the settlement of a worker's promise and that
continuation there are only microtasks, so no other event comes in between. Worker processes are separate
actors and interleave with all of it.

### AnalysisRegistry

`sequence`, `entry`, `queue`, `running` are the module-level counter and the three private collections.
An `Entry` keeps the fields that steer (`attempts`, `timedOut`, `cancelled`, the controller as `aborted`,
`finishedAt !== null` as `finished`) and what a poll shows (status, error code, whether there is a result,
which attempt's stages). Clock readings, telemetry and `workspaceWarning` steer nothing and are left out.

| Code | Definition |
|---|---|
| `start` | `Start`: counter, entry, `push`, `#prune`, `#drain` |
| `retry` | `Retry(id)`: `Finished(id)` and a `Start` |
| `cancel` | `Cancel(id)` = `CancelQueued` (splice, settle, drain) or `CancelRunning` (flag and abort; nothing settles until the executor answers) |
| `#drain` with the first half of `#run` | `Drain(e, q, r)`: the number of ids the loop shifts is the one at which its condition turns false; `Picked` are those it starts |
| `#requeue`, `#settle`, `#prune`, `#shouldRetry` | `Requeue`, `Settle`, `Prune`, `ShouldRetry` |
| the `setTimeout` of `#run` | `Deadline(id)` |
| the stage listener | `StageReported(id, a)`: any attempt begun so far may still report, whatever the entry has become |
| the `try` branch, the `catch` branch | `Resolved(id, failure)`, `Rejected(id, cause)` |

`Drain`, `Settle` and their kin take the entries, queue and running set *as the caller has already written
them*, which keeps the order of the assignments of the code without intermediate states. Failure codes are kept only as far as the registry tells them
apart: the retryable ones by name, "pipeline-failed" because the registry itself produces it, and "other"
for the rest.

### WorkerExecutor

One child per attempt of each job. `at` says how far it has come; the points kept are those at which a
kill leaves something different behind: before the clone (nothing), cloning (a workspace), scanning (a
workspace and a database without a repository), after the commit (both, and a whole graph), sent (an answer
in the pipe). `inbox` is the IPC channel, in order, read by `StageArrives` and `DoneArrives`; `ExitArrives`
is enabled as soon as the process is dead, unread messages or not. `Dies` is enabled in every living state:
it covers the normal exit, running out of memory, and a SIGTERM. `settled` is the guard of `finish`.

Two simplifications: an attempt sends one stage message (the listener only ever says "this attempt has
stages to show", so more of them add no behaviour), and a workspace is removed whenever a worker gets that
far; a removal that fails is `RepositoryAnalyzer`'s.

### GraphHolder

A database is represented by its content: no file, `Blank` (a schema and no repository, which
`GraphStore.open` leaves at a new path), or one whole graph named after the job or scan that built it;
`GraphStore.write` is one transaction, so there is nothing in between. `Read` covers `capabilities()` and
`isScanned()`, both of which open on first use. `Adopt` includes the failing rename, `Discard` the failing
removal; `leaked` is a history variable that remembers both, so that a property can excuse exactly those
files. The `-wal`/`-shm` sidecars, `close()` and the warm-up are not modelled.

### AnalysisService

Each action is one endpoint or one event. `Forks`, `Aborts` and `Settling` are read off the registry's
step: the attempts that began, the controllers that were aborted, the jobs that settled; `Supervise` and
`OnSettled` do what the executor and the holder do with them. `POST /scan` is cut at its await: `ScanBegins`
looks for an unchanged repository, which opens the store and creates the live file; `ScanWrites` writes and
reopens; `ScanFails`. At most one scan of the same repository is awaited at a time.

### Answerer

The generator waits in one place, for the next event of the model, so an action is one such event together
with everything the method does until it waits again. `yielded` holds what it yields on the way, in order.

Prose is a sequence of sentences, and a sentence is what the verifier says of it: the *fact* it rests on,
or one of `plain` (claims nothing), `judgement` (a claim no fact licenses), `miscited` (an id out of range),
`fragment` (the same in a paragraph below the splitter's floor), `removed` and `nothing` (`NOTHING_HELD`).
`Missed` are the claims that finalisation does not find again after they failed: `namesRejected` compares whole
tokens, and a bare path before a full stop or a term of other characters is not one; a sentence is compared
verbatim, and one that runs over a paragraph break was checked as one and is met as two.
A projection is the tier and the set of facts it carries; `room` is the smallest tier at which a fact fits
beside this question, which is all that the token arithmetic of `project` decides here.

| Code | Definition |
|---|---|
| acquiring, reserving, projecting; both `budget-not-satisfiable` throws | `Ask` |
| a delta of the model | `Says(s)` |
| the end of a generation, first half: `recoveryFor`, `restart`, the second projection | `Recover` |
| the end of a generation, second half: `saferOf`, `finalise`, `statusOf`, `complete` | `Conclude` |
| `context-window-exceeded` before the first token, `smallerTier`, the new projection | `TooLong` |
| every other failure | `Fails` |
| `checkGrounding`, `isUnsound` | `Supported`, `Failing`, `Unsound` |
| the paragraph and sentence loop of `finalise`, `namesRejected`, the second check | `Overlooked`, `Left`, `Reduced`, `Finalise` |

### OllamaModel and ChatStream

`OllamaModel` has no `Next` of its own: it gives `ChatStream` the guards and updates of one generation.
A word or a keep-alive re-arms the timer (`Rearmed`, in the order of the code: the limit is chosen before
the line's own text counts). `Expires` and `Aborted` both set their flag and go to `releasing`, where the
body is being cancelled and nothing more is delivered; the `catch` then reports by the flags.

A line from the daemon passes through generator, answerer, handler and sink in one turn of the server's
event loop, so the actions of `ChatStream` join the three. Frames then travel in order on `wire`.
`LinkBreaks` cuts the connection and loses any suffix of them; `Stops` is the reader's stop or leaving the
page, after which the page reads no more. The server learns of either through `CloseNoticed`, later. What
the page shows is `turn`, updated by `Shown` frame by frame; `LossNoticed` is a stream that ended without a
terminal frame. The kind of error survives only where a property tells errors apart, with one choice over
whether the error carries the partial text. Status frames, the heartbeat and `POST /chat`, which drains the
same events, are left out.

### AnalysisRestart

`AnalysisService` with one more action, `Crash`: what a new `createApp` finds on disk. The registry, the
session and both counters begin again (`staged' = 0` is `graph-holder.ts:146`), and the graphs on disk lose the
name of their job (`Earlier`). The first process finds a directory like that too: `RInit` allows any of
`Leftovers` at the live path and at each staged one, and counts the staged files as leaked.

A worker in its synchronous stretch becomes an *orphan*. It opens its database (`OrphanOpens`), writes the graph
(`OrphanCommits`), and exits, or exits at any point before (`OrphanExits`, which also stands for SQLite refusing
to write a file that was moved or is locked). A name that is handed out again may therefore be one an
orphan has open or is about to open. The orphan writes the *file* it has open, so `Followed` keeps for each
where that file is: a file that `adopt` renames under it is the live one from then on, and a file that is replaced or
removed is at no path. An orphan that had not opened its database when its name was adopted creates a new file there.
A session over a live file that an orphan writes keeps what it has cached; the model does not say what SQLite
then shows it.

### ScanPipeline and RepositoryAnalyzer

A file has a size and a version, a fact about a file is the version that was read, and the fingerprint is
what `fingerprintRepository` stores: path, size and modification time of every file. `Edit` is somebody
else's and may come between any two steps.

| Code | Definition |
|---|---|
| `RepositoryScanner.scan`, `modificationTimes` and `fingerprintRepository` | `Discover`, `FindsNothing`, `Stamp` |
| `#reuseIfUnchanged`, `GraphStore.open` | `Unchanged`, `Reuse`, `LooksChanged`, `Opened` |
| `runAnalyzers`, the two passes of the TypeScript analyser | `Analyse`; `Compiled`, `Resolved`, `Edges` |
| `buildTolerantly`, `validateGraph` | `Kept`, `GraphAccepts` |
| `assessCapabilities` | `Covers`, `DepthOf`, `Assess` |
| `GraphStore.write` | `Store`, `StoreRefuses` |
| `StageTracker` | `Moves`, `Failed`, `Gives` |
| `parseGitHubUrl`, `createWorkspace`, `GitHubApiProbe.probe` | `RejectsUrl`/`AcceptsUrl`, `NoWorkspace`/`MakesWorkspace`, `ProbeFindsNothing`/`ProbeFallsThrough` |
| `GitCommandCloner.clone` with `watchSize`, `execFile`'s timeout and the signal | `GitWrites`, `TimesOut`, `Exceeds`, `CloneSucceeds`, `CloneFails`, `Aborts`, `OrphanExits` |
| `classifyScan`, the load, the `finally` | `ScanFails`, `ScanReturns`, `LoadFails`/`Loads`, `Disposes` |

Analysers fail in the ways the code tells apart: a unit of the bounded analyser in its first or second pass,
an analyser as a whole, facts the graph refuses, facts of two analysers it refuses together. What an
analyser computes from a file is abstracted to the fact that it read it. Which addresses `parseGitHubUrl`
accepts, and how git's messages become failure codes, is one choice.

### ArtifactReaders, PythonImports, GraphBuilder and GraphStore

The first three are functions, the last has the state. An identifier is the sequence of its parts in
the order in which the code joins them, including the separators a part may itself contain: the colon of
`artifactElementId` is a word like any other. That keeps what the identifiers confuse and what they do not.
Of a fact the model keeps what identity, merging, endpoint rules and keys read; lines, ordinals,
candidate groups and the attributes no rule reads are left out.

| Code | Definition |
|---|---|
| `Elements`, `ReferenceCollector`, `recordCommand` | `Elements`, `References`, `Invoked` |
| `readDocumentation`, `readWorkflow`, `recordEnvironmentBlocks`, `readPackageManifest` | by their names |
| `readImport`, `classifyPythonSpecifier`, the import loop of `resolvePython` | `ReadImport`, `ClassifyPythonSpecifier`, `ImportRelationships`, `ImportsUnresolved` |
| `GraphBuilder.build` | `Build`, which lists the translators in the code's order |
| `translateArtifacts` | `KeptElements`, `ContainsEdges`, `PrerequisiteEdges`, `ReferenceEdges`, `SuppliedVariables`, and the two `...Missing` |
| `registerExternal`, `merge` and `materialise`: shared nodes | `RegisterExternals`, `Pooled` |
| `declaresEdge`, `translateCallGraph`, `translateAnnotations`, `linkClientCallsToRoutes` | `DeclaresEdges`, `CallEdge`/`UnresolvedCall`, `RouteNode`/`HandledBy`/`Reads`, `LinkClientCallsToRoutes` |
| `validateGraph`, `ENDPOINT_RULES` | `ValidateGraph`, `EndpointRules` |
| `GraphStore.open`, `write` with `#replaceAll` and `#writeRegions` | `Opens`; `Begins`, `Executes`, `Commits` over `Replacement`; `Interrupted` |
| `TRUNCATE_STATEMENTS`, the `PRIMARY KEY` and `REFERENCES` clauses | `TruncateStatements`; the `key` and `refs` of a row |

`saved` is what the file holds, `tables` what the transaction sees. `Executes` is one statement; SQLite itself
is external (`After`, `Violates`): keys are checked at its end, and a failure undoes the transaction. The
database may be new or of an earlier version. One that was written is refused by its version row; one in which
the first write never succeeded has no such row and fails at the first node instead.

`CodeGraph` joins the two halves of a scan. When every site of a program is settled, its declarations and what became
of its calls are one contribution (`Contribution`, with the paths of `PathOf`), which is built and validated
(`BuildsProgram`, for the programs in `Handed`); writing is left to the facts of `SmallRepositories`, which `Scans`
takes through every statement. One external package stands for all that external calls leave for, since no
rule of the builder tells two of them apart.

### GraphQuestions

One step is one turn of a loop. `search` is Tarjan's state in `stronglyConnectedComponents`: `Entered` is
`visit`, a frame is a node and the neighbours its cursor has not passed; `Look` is one advance of the
cursor, `Leave` the end of a frame with the propagation of its low link and `Reported`. `walk` is any of the
breadth-first walks (`dependentsClosure`, `maxDepthFromRoots`, `reachableFrom`), which differ in
their neighbours, in what they follow and in their roots: `Ask` takes the next of the queue and `Meet` is one
turn of the loop over its neighbours. Identifiers are ranks, because every list of the
graph API is ordered by identifier; so a list of neighbours is a set taken least first (`First`).

### Projection

One step takes an extractor in hand, considers one of its drafts, or goes from a pass to the next. An offer
is what an extractor finds in the context; its facts are numbers with a cost, and the places of an offer
stand for its drafts. The digest and the closed list of names are left out.

| Code | Definition |
|---|---|
| `reordered`, `shapedFor`, `orderedFor`, `priority` | `Reordered` (a stable sort, as the rank each part gets), `ShapedFor`, `OrderedFor`, `Priority` |
| the filter against `seen`, the cap and the limit of `run` | `Unsaid`, `Capped`; `Takes` |
| the loop over the candidates: admitted, out of room, out of budget | `Admit`, `EndOfRoom`, `Exhausts` |
| the calls of `run`, in order | `Core`, `Coverage`, `Depth`, `Supplement`, `Sweep`, and `NextPass` between them |

### Names and CallBinding

The program is a variable that never changes: sequences of files, declarations, imports, heritage and call
sites, as the extractors hand them over and in their order. Tables of `resolve.ts` are functions of it, so that "the
last import of a name wins" or "the first declaration wins" is a `Final` or a `First`: a language's module has the
program for a constant, and `CallBinding` instantiates it with its own (`Python(program)!Supers(type)`). A call site is `root`
and `member`, the two names the extractors keep of it.

| Code | Definition |
|---|---|
| `discoverRoots`, `nameOf`, `buildModuleIndex`, `resolveRelative` | `PythonNames`: `ModuleOf`, `FileFor`, `IsPackage`, `Relative` |
| the import loop, heritage, `instanceTypeOf`, `bindCall` | `ImportedName`/`ImportedModule`/`LeavesRepository`, `Supers`, `Instance`, `Addressed` |
| `buildTypeIndex`, `buildFileScope`, `lookupType` | `JavaNames`: `Qualified`, `InPackage`, `Import`, `Only`, `Lookup` |
| `bindCall`, `localTypeOf`, `bindConstruction` | `BindCall`: `Delegates`, `Constructs`, `StaticallyImported`, `OnReceiver`, `OnLocal` |
| `externalCalleeOf`, `classifyJavaTypeName` | `LeavesRepository`, `LeavesByName`, asked only once nothing was bound (`OrLeaves`) |
| `directoryFor`, `exported`, `memberOf`, `lookupTypeName` | `GoNames`: `ModuleFor`, `Directory`, `Exported`, `Member`, `FirstType` |
| `bindCall`, `localTypeOf`, `factoryDeclarationOf` | `Selects`, `FieldOfReceiver`, `LocalType`, `Factory`, `Result` |
| `findInherited`, `inheritedMember`, `promotedMember` | `CallBinding`: `Turn`, `Pass`, `FindNothing` |

| `DeclarationCollector`, `ExportExtractor` | `TypeScriptSources`: `Collected`, `InlineExports`, `CommonJsExports` |
| `Resolver.resolve`, `symbol-target.ts`, `external-classification.ts` | `TypeScriptReferences`: `ResolveImport`, `ResolveExport`, `ResolveMention`, `TargetOf`, `ClassifyUnresolvedSpecifier` |
| `CheckerBinder`, `binding-index.ts`, the name rules | `TypeScriptNames`: `CheckerBind`, `ImportedDeclaration`, `ResolveRoot`, `BindByName` |

The TypeScript compiler is external: of a name it says which places declare it, that it knows none, or it
throws, and the programs range over its answers. What each module's `Plan` says of a site is either its end or a walk, which `CallBinding` takes one turn of the
loop at a time. The three walks (TypeScript has none: its compiler has followed the supertypes) are one loop in three copies; the look at the type itself, which precedes each of
them in the code, is the first turn here.

### WebAnalysis and WebChat

`WebAnalysis` INSTANCEs `AnalysisJobs` as its server, so the page meets exactly the statuses the registry is
proved to produce. `requests` are calls that are out; `Returns` is the code behind an `await`, which finds the
page as it is by then. `timers` and `current` are kept apart because `poll` overwrites `timer.current`
whether or not another timer is set.

`WebChat` has the store's operations by name, `Send` for the part of `send` before its first `await` and one
action per frame that changes a turn. The `finally` of `send` belongs to the visit that began the stream
(`Released`). React renders between any two events, so a callback sees the state of the latest render.

### Seeded faults

Each module carries a few operators headed *Seeded fault* directly above the definition they vary: the
same definition with one mistake of the kind a change to the code could introduce (a forgotten drain, a
kill that is not escalated, a rename without a reopen). Nothing uses them in a normal run. `PROJECT.json`
pairs each property with the fault that must break it, as a test of the property.

## 3. What is checked

| Run | Bounds | Question and properties |
|---|---|---|
| `registry` | 3 submissions, 1 worker, 1 retry, history 1 | Does the registry keep its books? `Bookkeeping`, `NoIdleWorker`, `NoOvertaking`, `EverySubmissionSettles`, and `ImplementsJobs` (refinement of `AnalysisJobs`) |
| `service` | 2 analyses, 2 workers, no retry, one scannable repository, 2 staged files | Can anything that happens to a worker, a file or a request disturb the live graph? `WorkersAreSupervised`, `StagedFilesAreOwned`, `SessionMatchesLive`, `LiveChangesOnSuccess` |
| `service_retry` | 1 analysis, 1 retry, 1 staged file, 1 crash of the API, with or without a live graph and a left-behind staged file at the start | Does a job settle although its worker may hang and its process die, and is the graph there afterwards? `GraphIsNeverLost`, `EverySubmissionSettles` |
| `analyzer` | 5 files in 2 regions, 2 analysers, 1 edit, 2 scans, 2 mishaps | Is what is stored what was read, whatever fails, and does an analysis end? `DepthIsEarned`, `OneFaultCostsOneAnalyser`, `UnchangedSourcesAreCurrent`, `StagesTellTheOutcome`, `WorkspaceIsThereForItsReaders`, `EveryAnalysisEnds` |
| `code_graph` | programs of names (see below), of which those with imports are handed on to the builder: 304 Python, 912 Java, 192 Go, and all of about 500 TypeScript; 4 sets of artefacts with every outcome of a TypeScript and of a Python analyser; 3 stored graphs, 3 databases, 2 scans, 1 interruption | Does a call edge point where the source says, is the graph what was found, and is it stored as a whole? `NearestDeclarationIsBound`, `CallsFollowImports`, `NothingFoundGoesUnsaid`, `ContributionsAreAccepted`, `OrderOfAnalysersIsImmaterial`, `AcceptedGraphsAreStored`, `ReplacedAsAWhole` |
| `graph_questions` | every graph over 4 nodes with at most 5 edges, one node that may refer to itself, one of any kind | Do the loops find what they are named after? `CyclesAreTheComponents`, `WalksFindEveryNodeOnce`, `EveryQuestionIsAnswered` |
| `projection` | 5 parts in 3 groups, 11 facts, a tier of 20 | Is the budget spent on what the question asks? `EveryFamilyIsHeard`, `TheBudgetIsUsed` |
| `answerer` | 2 kinds of fact, 3 tiers, 2 sentences per generation | Is what is returned supported, whatever the model says? `ReturnedIsSound`, `ReturnedWithItsEvidence` |
| `chat_stream` | 2 kinds of fact, 2 tiers, 1 sentence per generation, 1 keep-alive | Does the page keep the promise through timeouts, departures and lost connections? `LeavingStopsTheModel`, `ReaderIsNotBlamed`, `EndsWithTerminalFrame`, `EveryStreamEnds`, and `ImplementsGroundedAnswer` (refinement of `GroundedAnswer`) |
| `web_chat` | 2 subjects, 4 ids of conversations and turns, 2 visits | Do streams and history keep to their place? `EveryStreamCanBeStopped`, `OneSubjectPerConversation` |
| `web_analysis` | 2 job ids, 1 worker, 2 submissions, 1 failed poll, 1 restart of the server | Does the dialog know what is going on? `BusyIsFollowed`, `BusyEnds` |

The properties, in words:

- **Bookkeeping**: a queued job is in the queue exactly once, a running job in the running set, a settled
  one in neither.
- **NoIdleWorker**: no submission waits beside a free slot. (**CapacityBound**, that there are never more analyses than
  the pool allows, is proved and has no run.)
- **NoOvertaking**: while a submission waits for its first attempt, no later one has had any. An automatic
  retry goes to the head of the queue, so it never waits at all: `Requeue` frees the slot and takes it
  again in the same turn.
- **SettledKeepsOutcome** (proved, no run): "the original stays exactly as it finished". The stage list is excluded,
  since the listener of an attempt really may write it after the job settled.
- **ImplementsJobs**: seen from outside, every job goes through the statuses of `AnalysisStatus` in order, a
  stop the user asked for is only ever reported as a cancellation, and a stop of a queued job is immediate.
- **WorkersAreSupervised**: a process that computes belongs to the current attempt of a job that holds a
  slot and has a staged path. Hence no two processes write one staged file, and the bound on slots is
  a bound on processes.
  The run has no retry; that a requeued attempt never computes beside the one before it is what `NoWorkerIsOrphaned`
  proves for any number of retries.
- **StagedFilesAreOwned**: a staged file belongs to an unfinished job, unless the file system refused to
  move or remove it; no two jobs share a path and no settled job is bound to one.
- **SessionMatchesLive**: what is being served is the file that is live now.
- **LiveChangesOnSuccess**: the live graph changes only by a job that succeeds, installing its own graph, or
  by a scan (an absent file may become `Blank`).
- **EverySubmissionSettles**: no job waits or runs for ever.
- **ReturnedIsSound**: "unsupported prose is never returned": every sentence of an answer verifies against
  the evidence returned with it. **ReturnedWithItsEvidence**: and what it cites was cited by an attempt that
  had that evidence, although the second attempt replaced the first one's.
- **ImplementsGroundedAnswer**: on the page, evidence precedes prose and is never exchanged under it, rejected
  prose is withdrawn before it is replaced, a completed answer is the text already on screen and sound, and
  nothing changes after a terminal frame.
- **LeavingStopsTheModel**: behind a closed sink no generation is listened to, and none is begun.
- **ReaderIsNotBlamed**: a reader still there is never told the answer was cancelled. **EndsWithTerminalFrame**:
  and is always sent a last frame.
- **EveryStreamEnds**: no turn stays in its streaming state, although the answerer's two nested loops have no counter.
- **GraphIsNeverLost**: once a whole graph is live there is always one to serve, although the names of
  staged files start again after a crash, over files left behind, and an orphan of the old process may write to them,
  or to the live file if it has been adopted under the orphan.
- **DepthIsEarned**: what a page says about a region is supported by declarations and routes the stored graph
  holds, also after analysers failed or were dropped.
- **OneFaultCostsOneAnalyser**: while one analyser's facts are at fault, no other analyser loses its own.
- **UnchangedSourcesAreCurrent**: a source that looks as it did when the graph was made is described as it is
  now, although it may be edited between any two steps of a scan. A second scan may therefore reuse the graph.
- **StagesTellTheOutcome**: the five stages a client polls are consistent with each other and with the failure
  at every moment. **WorkspaceIsThereForItsReaders**: the checkout is whole while it is read, and gone or
  reported at the end. **EveryAnalysisEnds**: although git may hang.
- **NothingFoundGoesUnsaid**: an absent edge is an absent fact: each call, relationship, handler and read an
  analyser found is an edge, or a recorded gap; and so is every import, binding, export and clause that
  TypeScript's sources write.
- **OrderOfAnalysersIsImmaterial**: a node that several references introduce is as certain as the best of them, and
  in a file only if all of them are; so the graph does not depend on who ran first (but for the spelling of a
  route, see below).
- **ContributionsAreAccepted**: what a resolver bound is never refused by the graph (but for the heritage of TypeScript
  the endpoint rules forbid, see below), and facts that are accepted alone are accepted together.
- **AcceptedGraphsAreStored**: no statement of a write violates a key once the graph was validated, first scan or
  rescan. **ReplacedAsAWhole**: the file goes from one whole graph to the next.
- **CyclesAreTheComponents**: the reported cycles are the strongly connected components that are cycles, each
  after everything it reaches. **WalksFindEveryNodeOnce**: a breadth-first walk finds each node at its
  shortest distance, nearest first, follows nothing it must not follow, and asks once per node followed. The
  references are no searches: what a node reaches is the least set closed under the edges (`Reach`), and a
  distance is the length of a shortest way over what is followed (`Trails`).
- **NearestDeclarationIsBound**: a call on a type is bound to a declaration at the end of a shortest chain of
  proven supertypes, and left unbound only if no chain leads to one. The reference is by sets of types within
  a distance, and covers the second walk a factory's result needs.
- **CallsFollowImports**: a call is bound in its own file or in one that imports lead to from there, where
  what an import names is worked out on the paths on disk and not in the index of dotted names, packages or
  modules that the resolvers use. The two exceptions are the code's, in Python: files that cannot be told apart
  by a dotted name, and `Klass.method()`, which is looked up by the name of the class in any file that has one.
  For TypeScript, where the compiler binds, it is the name rules beside it that are held to the imports.
- **EveryFamilyIsHeard**: each part a question is answered from is in the prompt, unless it has nothing new to
  say or its first fact does not fit the whole budget that is left. **TheBudgetIsUsed**: shares and rooms
  order what is bought and never leave an affordable fact behind.
- **EveryStreamCanBeStopped**: a stream not yet aborted belongs to the page in front of the reader and to the
  controller its stop button aborts. **OneSubjectPerConversation**: a conversation shows, and a request
  replays, turns on its own subject only.
- **BusyIsFollowed**: a busy page has a request out or a poll to come. **BusyEnds**: and it stops being busy.
  The exception the code makes is part of the property: `poll` ends on succeeded and failed only, so a job
  cancelled by another client is polled until the page is left.

### Bounds, and why they are enough

Three submissions on one worker are the fewest with which one can run, one wait and one be retried ahead
of a waiting one; a history of one makes `#prune` drop a finished job while another id is live. One retry
gives both outcomes of `ShouldRetry`. `service` has two workers, so completion order may differ from
submission order, and runs without retries; `service_retry` has the retry and one job, because the product of
worker states is what grows. No property of the holder depends on which attempt of a job wrote the file.
One crash is enough for a name to be handed out again while an orphan holds it. The run of one crash starts from
`Leftovers` of no file or a graph, at either path, so that one job before the crash or after it already
replaces a live graph, beside an orphan whose file is at the staged path, live, or gone. `MaxJobs`, `MaxStaged` and
`MaxCrashes` bound counters the code does not bound.

`analyzer`: two TypeScript units of which one refers to the other are the fewest for a dangling reference,
and the Python file gives the tolerant build somebody to drop instead; a manifest and a document are read by
other steps. Two mishaps let a unit and a whole analyser fail in one scan; two scans let the second reuse
the first; one edit may come at each step of either.

`code_graph`, the graph: two analysers and three readers are the fewest that meet in every kind of shared node (variable,
route, package, standard library); nested and dotted declarations, linked and unlinked handlers, four spellings
of a route, one of them with an empty segment inside, and both kinds of unresolvable name are each in one of the alternatives, so that they meet all
others. Three of the graphs, of different tables, are written, any after any, with an interruption at any of up to 130
statements of either.

`graph_questions`: four nodes are the fewest with two cycles that touch, with a cycle entered from outside
behind a tree edge, and with two paths of different lengths to one node, where depth first and breadth first
differ; five edges hold all of these.

`projection` (2.9 million states): the parts offer more than the tier, some facts are offered twice, costs differ so that a dear
fact comes before a cheap one, and the instance ranges over plans with and without parts, both policies, a
supporting part, recoveries, an allocation, three reserves and two core reserves.

`code_graph`, the names: four types are the fewest for a diamond whose two paths differ in length, and for a circle that is
entered from outside. The Python layouts have one name in a package, beside it, under a `src` root and as a
stub, and are asked for by every number of dots up to one too many; the Java family has a type of one simple
name in the own package, nested in another, and in two imported packages, under every sequence of two of
seven statements; the Go family has nested modules, modules that do not extend their parent's path,
and packages of two files. A TypeScript program is a file that imports a library directly, through a barrel or as
a package, in every form, under a compiler that answers, knows nothing or throws; a CommonJS library; or one
file whose declarations merge. Each program asks for its names in every form of call the resolvers tell apart.

Two kinds of fact are the fewest with which a recovery can select the wrong one, and one of them is spelled so
that removal misses it; two sentences give an
answer that is partly supported, a second attempt with more failures than the first, and one that fails the
floor of `DETAIL_FLOOR` by being empty; three tiers are the code's (`chat_stream` needs one step down, hence
two). With one sentence per generation `chat_stream` still has every branch of `Conclude`, because a second
attempt may be empty. `MaxText` and `MaxLines` bound what the daemon sends, which the code does not.

`web_chat`: four ids are two conversations of one turn, or one of three; two visits are the fewest with a
stream of the first winding down under the second. `web_analysis`: two jobs and one restart let a poll of a
forgotten job meet the loop of the next one, and let an id be handed out twice.

The configurations say `CHECK_DEADLOCK FALSE` because a model that has used up its submissions, ids or
scans and settled them all has nothing left to do.

### Fairness

`AnalysisRegistry` assumes that an attempt which runs is eventually answered: `analyze` resolves or rejects
on every path. `AnalysisService` earns that assumption instead of making it. It assumes of the event loop
that timers fire (`Deadline`, `HardKills`) and of the kernel that messages and exits are delivered
(`StageArrives \/ DoneArrives`, `ExitArrives`). Of the worker it assumes nothing at all: it may compute
for ever. `EverySubmissionSettles` then depends on the deadline and on the SIGKILL, which is what the code
has them for. `AnalysisRestart` assumes the same of each process and nothing about crashes or orphans.

`RepositoryAnalyzer` earns the other half: the workflow's own steps and those of the scan are taken
(`WF(Works)`, `WF(Scanning)`: promises of file system calls settle, and the analysers are finite loops), and the
timeout of `execFile` kills git (`WF(TimesOut)`). That git ever ends by itself is not assumed. `GraphQuestions`
is sequential code that runs (`WF_vars(Next)`).

`ChatStream` does not assume that a generation ends: of the daemon it assumes nothing
except that it sends boundedly many lines, since neither deadline limits an answer that keeps coming. It
assumes that the timer fires (`Expires`), that cancelling a body completes (`Released`), that the close of a
response is delivered (`CloseNoticed`), and that the page reads on (`Reads`, `LossNoticed`).

`WebAnalysis` assumes that timers fire, that requests are answered or fail and their promises settle, and of
the server what `EverySubmissionSettles` shows: a queued job begins, a running one settles. It assumes nothing
of the reader. The other modules state no fairness; that a stream ends is `ChatStream`'s.

### Where the documentation and the code part

One disagreement is shown by a run that must fail:

| Run | What the run shows |
|---|---|
| `one_fact_one_edge` | The "edge assembly already follows exactly this rule", that a fact recorded twice is one (`graph-builder.ts:806`). `import os, os.path` gives two edges of one identifier, and the Python contribution is dropped. |

Others were met while modelling. They are built into the models as the code has them and no run states
the sentence they contradict:

- "A unit that throws costs its own files and nothing else" (`typescript-analyzer.ts:84`). The index the second
  pass resolves against is made of every unit the *first* pass built. A unit that throws in the second pass
  stays in it; the references of the others then point at nodes nobody contributes, the graph refuses them,
  and the tolerant build drops every TypeScript fact.
- Of two elements of one kind and name in different sections "both nodes exist" (`artifact-translator.ts:107`).
  The `continue` below it comes before the node is pushed.
- "Nothing a repository contains should be able to cause" a refusal of discovery alone
  (`tolerant-build.ts:113`). Two headings with colons do: section and name are joined by one.
- "An unresolvable reference is recorded, not dropped" (`artifact-translator.ts:15`). A `main` and a script of one
  package.json that name one missing file share an identifier.
- "Output does not depend on the order annotations arrived in" (`annotation-translator.ts:292`). A route is named in the
  spelling that came first. Its identifier ignores empty segments anywhere (`node-id.ts:115`), the linker only at the end
  (`client-route-linker.ts:165`): if two analysers have `/users/:id` and `/users//<id>`, the first spelling decides which
  requests continue to the route. `SpelledAlike` is the condition under which the linker's edges do not depend on the order;
  all other edges never do.
- `Entry.timedOut` is there "so the failure can say so" (`analysis-registry.ts`). With a worker process the
  deadline kills the worker, its exit rejects the promise, and the `catch` branch does not read `timedOut`:
  the job fails as `pipeline-failed`.
- `capabilities()` "throws `repository-not-scanned` when there is no graph". The first `POST /scan` creates an
  empty live database when it looks for a graph to reuse; a read before the scan has finished serves that.
- A rescan onto a database of an older schema is refused by `GraphStore.open`'s migration check only when it
  comes to be written, after all the work of the scan (`StoreRefuses`).
- `minimal` is the floor below which an answer "should fail loudly instead". The first projection is checked
  for holding a fact; the one made after the provider refused the prompt is not.
- The branch of `finalize.ts` that "should be unreachable" is reached by a paragraph too short for the splitter
  that carries a citation which does not resolve, and by a rejected claim that `namesRejected` does not match, such
  as a bare path before a full stop; it replaces the whole answer, supported sentences included.
- "Until the first token arrives the generous [deadline] applies; afterwards the tight one does." The line
  with the first token re-arms the generous one.
- "There is no path for a clone to outlive the analysis that made it." A worker has no SIGTERM handler: a
  cancel or a deadline ends it without its `finally`.
- The dialog may be closed before its submission is answered; the reply then shows a running job on a
  page that is not busy.
- A throw after the `done` frame (while the stream is closed) turns a completed turn into a failed one on
  the page.
- "Both the cap and the budget produce a recorded omission" (`projection.ts:2282`). A pass that reaches its
  ceiling returns before it has asked the extractors behind; what those would have offered is in no tally.
- Python: `self.repo.save()` is bound to the enclosing class's own `save`, since a site keeps its first and
  last name only. `Klass.method()` is bound in the first file that has a class and method of these names.
  Breadth first is called Python's own order, which is the C3 linearisation; the two differ in a diamond. With
  two `src` roots, or a module beside a package of its name, an import lands in the first file of the name,
  another service's perhaps, with confidence `RESOLVED`.
- Java: `super.save()` is never bound, though the head of `resolve.ts` lists it. An import of a type from
  outside falls through to a type of the own package of the same name. A field of type `List<Foo>` is taken for a `Foo`
  where `List` is not declared here. What a factory returns is looked up in the caller's imports. The rule of `lookupType` for
  qualified names meets none: the extractor passes on the leftmost identifier.
- TypeScript: the endpoint rules "must admit everything legal TypeScript produces" (`constraints.ts:19`), but IMPLEMENTS
  has no class as a target, and a merged declaration may count as a kind that EXTENDS does not admit; either refuses the
  whole contribution. `export namespace A.B {}` leaves neither an edge nor a gap, and no resolver visits the heritage of
  a class expression that is published by an assignment. "Position alone would match the wrong node" (`resolver.ts`):
  `symbol-target.ts` looks a target up by its start position alone, so a namespace re-export is resolved to the first
  declaration of the file. "The Resolver's answer wins over the syntactic one" (`binding-index.ts`) only where it is
  external: a bare specifier resolved to a file of the workspace still makes `ns.f()` an external call.
- Go: a bare call may be bound to a method or a field of its package (`close(ch)` to a method `close`), with
  confidence `RESOLVED`. An import alias is asked before a local that shadows it. Two embedded
  types of one depth that both declare a method are ambiguous in Go; here the first one wins.

## 4. What is proved

For all values of `MaxJobs`, `Concurrency`, `Retries` and `History` that satisfy the named assumptions of
`AnalysisRegistry` (naturals, at least one worker: what the constructor's `Math.max` calls enforce):

| Theorem | States |
|---|---|
| `Inductive` | `Spec => []IInv`, the strengthened invariant |
| `TypeCorrect` | `Spec => []TypeOK`; attempts never exceed `Retries + 1` |
| `NoJobIsLost` | `Spec => []Bookkeeping` |
| `PoolIsBounded` | `Spec => []CapacityBound` |
| `NobodyWaitsForAnIdleWorker` | `Spec => []NoIdleWorker` |
| `FirstComeFirstServed` | `Spec => []NoOvertaking` |
| `OutcomesAreFinal` | `Spec => SettledKeepsOutcome` |
| `RegistryImplementsJobs` | `Spec => ImplementsJobs` |

For the same constants of the registry inside the service (`RegistryAssumption`), any number of staged files
(`MaxStaged`) and any set of scans, of `AnalysisService`:

| Theorem | States |
|---|---|
| `ServiceStands` | `Spec => []SInv`, the strengthened invariant |
| `NoWorkerIsOrphaned` | `Spec => []WorkersAreSupervised` |
| `NoStagedFileIsOrphaned` | `Spec => []StagedFilesAreOwned` |
| `SessionsAreCurrent` | `Spec => []SessionMatchesLive` |
| `OnlySuccessInstalls` | `Spec => LiveChangesOnSuccess` |
| `NoCrashLosesTheGraph` | `AnalysisRestart!RSpec => GraphIsNeverLost` |
| `RestartsStartClean` | `RSpec => [](WorkersAreSupervised /\ StagedFilesAreOwned /\ (SessionMatchesLive \/ disk[H!Live] = Earlier))`: through any number of crashes and restarts, from any leftovers |

For all `Facts`, `Missed`, `MaxTier` and `MaxText` (and `MaxLines`) that satisfy the assumptions of `Answerer` (a tier
exists; the facts are finitely many and none is one of the other kinds of sentence; what is missed is a claim):

| Theorem | States |
|---|---|
| `AnswererProofs!TypeCorrect` | `Spec => []TypeOK`; a question has at most two attempts |
| `WhatTheSecondCheckCatches` | `Failing(Reduced(c)) = {i \in Failing(c) : Overlooked(c.text[i])}`: what fails after removal is what failed and was not found |
| `FinaliseIsSound` | the result of `Finalise` always verifies |
| `AnswersAreSound` | `Spec => []ReturnedIsSound` |
| `EvidenceIsItsOwn` | `Spec => ReturnedWithItsEvidence` |
| `LeavingStops` | `ChatStream!Spec => []LeavingStopsTheModel` |
| `TimeoutIsNotHisDoing` | `ChatStream!Spec => []ReaderIsNotBlamed` |
| `EndsWithALastFrame` | `ChatStream!Spec => []EndsWithTerminalFrame` |
| `PageKeepsThePromise` | `ChatStream!Spec => ImplementsGroundedAnswer` |

For every repository, set of analysers, reference relation and bound of `RepositoryAnalyzer`; for every program
of `CodeGraph` with finitely many clauses that name a supertype (`ProgramsAssumption`); for all facts of a scan, contributions
and databases of `CodeGraph` (`InputsAssumption`); for every bound
of `WebAnalysis` and `WebChat` and every set of subjects; for every tier, cost, cap, context and question of `Projection`;
for every graph, number of nodes and question of `GraphQuestions`:

| Theorem | States |
|---|---|
| `DepthsAreEarned` | `Spec => []DepthIsEarned` |
| `SourcesAreCurrent` | `Spec => []UnchangedSourcesAreCurrent` |
| `StagesAreTold` | `Spec => []StagesTellTheOutcome` |
| `OneFaultCostsOne` | `Spec => []OneFaultCostsOneAnalyser` |
| `NearestDeclarationsAreBound` | `CSpec => []NearestDeclarationIsBound` |
| `AcceptedGraphsAreAlwaysStored` | `CSpec => []AcceptedGraphsAreStored` |
| `GraphsAreReplacedAsAWhole` | `CSpec => ReplacedAsAWhole` |
| `OrderNeverMatters` | `CSpec => []OrderOfAnalysersIsImmaterial` |
| `WorkspaceOutlivesItsReaders` | `Spec => []WorkspaceIsThereForItsReaders` |
| `BusyPagesFollow` | `DialogSpec => []BusyIsFollowed` |
| `StreamsCanBeStopped` | `Spec => []EveryStreamCanBeStopped` |
| `ConversationsKeepTheirSubject` | `Spec => []OneSubjectPerConversation` |
| `FamiliesAreHeard` | `ProjectSpec => []EveryFamilyIsHeard` |
| `BudgetIsUsed` | `ProjectSpec => []TheBudgetIsUsed` |
| `WalksAreComplete` | `Spec => []WalksFindEveryNodeOnce` |
| `CyclesAreFound` | `Spec => []CyclesAreTheComponents` |

The argument for the registry. None of the invariants is inductive alone. Three things are missing from them and make up the
inductive invariant `IInv`:

- *Ready*: besides types and bookkeeping, a queued job may begin (its attempts are at most `Retries`, so
  `Begun` stays in type) and a running one has begun. `Bookkeeping` alone allows a queued job with its
  attempts used up.
- *Order* (`InOrder`): the queue increases, and no job younger than one of its members has been attempted.
  `NoOvertaking` alone says nothing about the order in which the queue will be served. Inside a method,
  between `Requeue`'s `unshift` and its drain, the retried head is the one exception, and it is harmless
  because the slot it just freed is still free (`InLine`).
- *Freshness*: an id above the counter is absent and in no collection, so `Start` creates, and never
  overwrites.

All paths that free or fill a slot end in `Drain`, so the proof has one group of lemmas about `Drain` for
*arbitrary* entries, queue and running set: it keeps readiness, capacity and order, touches only entries
it picks, and leaves no idle worker beside a queue. Each action then only has to show that what it
hands to `Drain` is ready. `NextStep` summarises: every step drains such a state or only sets flags. The
refinement proof takes the same case split and shows, per job, which abstract move it makes; several
jobs may move in one step, which is why `AnalysisJobs!Next` quantifies over all of them.

The argument for the answerer. `finalize.ts` argues that its second check "should be unreachable" because
removal is monotone. `WhatTheSecondCheckCatches` says how far that goes: nothing fails that had not failed
before, but of what had failed, everything overlooked still does, so removal alone is not enough. `FinaliseIsSound`
therefore rests on the second check. `AnswersAreSound` then needs
only that `TypeOK` holds (so that both attempts are candidates) and that every way into `done` is a
`Conclude`. `LeavingStops` needs
one fact more: the sink cannot close before the question was asked (`phase = "idle" => open`), so the first
generation begins behind an open sink. Every later one begins in the turn of an event that was still being
listened to, and the close of the sink aborts whatever is. The two theorems about the wire need the chain from
the connection to the model in one invariant (`WInv`): the sink of a connection that stands is open; an abort is
the timeout's or the sink has closed; and so every frame written to a connection that stands says what happened.

The argument for the service (`SInv`). A turn of the service is a turn of the registry that also touches the
children and the files, so its proof starts from the registry's theorems: `AnalysisRegistryProofs` is
instantiated (`RP`), and its last section says of each method, whatever it drains, which jobs it leaves alone
(`Kept`) and what it does to the one it is about (`About`). On top of them, each part needs the others:

- *Children* (`ChildrenStand`): a child whose promise has not settled belongs to the current attempt of a running
  job, and one that computes has not settled and has said nothing but stages. So a job's attempts come one
  after the other: only the settlement of the current child makes the registry begin the next.
- *Files* (`FilesStand`): a path is bound to exactly the jobs that have not settled, to each its own, and a file
  in the staging directory is one of these or was leaked by the file system. So a late child cannot write into
  another job's file.
- *Graphs* (`GraphsStand`): a child that has committed its graph, or has said so, has it in its job's file. So
  an adoption installs the graph of the job that succeeded, and nothing older left at that path.

The argument for the scan (`ScanInv`). `UnchangedSourcesAreCurrent` speaks of the database and the checkout; what
makes it inductive is the same sentence about the scan under way (`Current`): a time once read is no later
than the file is now, nothing is read before the times are, and a file whose line still matches was read at
the version it has. An edit invalidates its line for good because a version only grows. `DepthIsEarned` needs
no strengthening: the one step that stores a graph assesses what it stores (`BuiltDepthIsEarned`).

The argument for the workflow (`WorkInv`). `StagesStand` gives, phase by phase, the five statuses; `WorkspaceStands`
says when a scan may be under way and which workspace it has. The failing steps share `Failed`, so there is one
lemma about it and one step per way out.

The argument for the pages. `BusyIsFollowed` is inductive by itself; its proof is the case analysis of the code
behind each `await`. `EveryStreamCanBeStopped` is not: what keeps it is that a visit has at most one stream the
page knows of, that no two streams share a turn and no stream is of a later visit (`OneStreamPerVisit`), so
that the `finally` of an old visit cannot clear the controller of the present one. `OneSubjectPerConversation`
is proved by keeping every conversation and every stream inside a set of coherent values (`Coherent`, `Faithful`).

The argument for restarts. `RestartStands` is the service's invariant with `Earlier` as the graph a file may hold
besides its job's (`SInv({Earlier})`; in one process alone the set is empty, and that case is `ServiceStands`), and
one part more, `OrphansStand`: the name an orphan was started for is among the leaked paths, and the file it has open is
at that name, live, or gone. So an orphan writes a path that was given up, or that a job was handed
again, or the live one, and what it puts there is `Earlier`, which is whole: that is why `GraphIsNeverLost` holds, and
why a session is claimed current only while `Earlier` is not live (`SessionStands`). A process starts in a `Fresh`
state, the first as well as the one after a crash.

The argument for the page. `PageKeepsThePromise` composes three modules: the frames still on the wire, applied in
their order, bring the page from the turn it shows to one that reflects what the answerer knows (`Lawful`,
`Tells`), and the count the provider keeps of its partial text equals what the answerer has of it, so a partial
that is kept is exactly what is on screen. What the answerer may know comes from `AnswererProofs`, instantiated.

The argument for one faulty analyser (`KeptIsStored`). Until the scan ends, what is committed is what the
unbroken analysers contributed of the sources they read. Analysers own disjoint sets of files, so a unit that
lacks its graph belongs to the broken one and to nobody else.

The argument for the nearest declaration (`BindingIsSound`). The queue of a walk holds what is left of one level
of supertypes and then types of the next; the level before is visited, and no visited type has the member
(`IsBreadth`). So what a turn finds is at the least distance (`FoundIsNearest`), and a queue that runs empty leaves
a set of types closed under their supertypes, none of which has the member (`EmptyFindsNothing`). The reference looks
no farther than there are types with supertypes, and `LevelsStop` shows that this is far enough, for cyclic
heritage too: each level that brings something new has a type with supertypes that the levels before it had not. What is
left is that a site needs at most two walks (`WalksEnd`): only a factory asks for a second, and the second is for the
call itself. Nothing is assumed of what a name is looked up as; `MemberOf` and `SupersOf` may be any functions of
the program, as long as supertypes come from clauses.

The argument for the store (`StoreIsSound`). `ReplacedAsAWhole` needs it as much as `AcceptedGraphsAreStored` does: what is
committed is the tables, so they must be what the statements done so far make of the file, after any interruption and
whatever the file held. The statements are a truncation and insertions, and the invariant says so with a predicate on
sequences of statements (`Sound`): every row refers only to rows inserted before it, and no two rows of a table share a
key. Then no statement can violate a key (`InsertionGoesOn`, `TruncationGoesOn`), which is proved once for any such
sequence; what is left is that `writeGraph` makes one. Section by section it does if the graph is `Storable`
(`StorableIsReplaceable`): files first, since a node lies in a file and a file in itself alone. And what is built is storable when
it validates (`BuiltIsStorable`). Here the two parts of the code share the work in a way no comment mentions: `validateGraph` does
not look at where a node, or an unresolved reference, is, nor at regions and at duplicate references; there it is the
builder, with its deduplication and its file nodes made first, that keeps the schema satisfied. The proof needs of its inputs what
`OfAScan` says, and TLC evaluates that on every input of the run: facts are lists; a fact lies in a file of the scan (the note on `UniversalFacts`
in `universal-facts.ts` demands that the universal files cover the analysers'); and of a region, path, languages
and ecosystems do not repeat (`technology-regions.ts` keeps them in a `Map` and a `Set`).

The argument for the order of the analysers. What is gathered in reverse is a rearrangement (`Shuffled`: a bijection between the
places, equal at each), block by block (`BlocksAreAlike`). `Build` is then followed part by part. Most parts are made of each
member alone, so the set of what they hold depends on the set of members only (`BlocksHold`, `EdgesHold`, `RowsHold`); a
declaration's parent is looked for in the set of all declarations (`DeclaringHolds`); of unresolved references, one for each
identifier stays, whichever it is (`IdsOfFirsts`). The parts that could depend on the order are those that pool. There, what
is kept of a group is its best confidence, the file all of its members share, if they do, and how many they are, which two
rearrangements agree on (`CountsAgree`); only the name is that of the first (`PooledAreAlike`). And one part reads names: the
linker, which is why its edges need `SpelledAlike` (`LinksAreAlike`). The invariant says no more than that the graph in hand was
built of what a scan found (`GraphIsOfScan`).

The argument for the projection. Sections are served in passes, dearest promise first, so the danger is that an early
refusal is decided on a figure that is later outdated. `DearStaysDear` shows that it is not: what the budget
cannot pay now it can never pay. The invariant has four parts: the drafts in hand have their lines in order
(`Shape`, `InOrder`), the drafts of a family are those not yet said, floor by floor (`FloorInv`), and what has
been spent is the cost of what has been said (`BudgetInv`). `BudgetIsUsed` then compares what is left
with the cheapest refused line, `FamiliesAreHeard` the floor passes with the caps.

The argument for the walks (`WalkInv`). What is found ends a trail of its length (`FoundStand`); the queue holds
what was found last, in the order of depths, and spans at most one step (`QueueStands`); what was taken from it
has all its neighbours found, but for those still to meet. So when a node is met for the first time no trail to
it is shorter: the first node of a shorter one that was not found would be a neighbour of one that was asked
earlier (`MetFirst`). At the end nothing is left to meet, and a trail of any length is found: if not all of them
were, take the shortest that is not (`TrailsAreFound`). There is no induction in either argument, only a least
counterexample.

The argument for the cycles (`SearchStands`). What a node reaches is the least set closed under the edges, so
to show that something is not reached is to show a closed set without it. The invariant says: stack and frames
are in the order of their indices (`Numbered`); what was looked at was entered, and what is done leads only to
what is done (`Explored`); a frame reaches all of the stack above it, and all of the stack reaches a frame below
it (`PathsStand`); and a low link is the index of a stacked node that is reached, no later than any
stacked neighbour looked at, and known to the frame below which the node was entered (`LowStands`). When a frame ends
with its own index for a low link, what is above it on the stack is then closed together with what is done
(`CutIsComponent`): it is one component, no part of it is elsewhere, and what was reported before cannot reach it.
When it ends with a lower one, the frame below it inherits both the link and the paths (`Passes`).

Not proved, and left to TLC. Liveness under fairness, everywhere it is stated. `CallsFollowImports`, `NothingFoundGoesUnsaid`
and `ContributionsAreAccepted`: each compares what a recursive function computes from a program's sources with its
reference, and that is an induction over data; the last one also says that the validation of each analyser's graph
alone implies that of all together, which holds of the inputs of the run because analysers read files of their own.

## 5. What remains

In order of importance:

1. The resolvers' imports and type references as properties of their own; now they are seen through the calls they bind.
2. The readers of the other artefact formats, and `CachingGraph`: reads through the cache.

## 6. Not modelled

- **Language analysers** (`extract.ts` of `python`, `java` and `go`, framework and route extraction, the syntax trees
  behind `ir`, `resolver` and `call-graph`): translations of one syntax tree at a time. Of the resolvers of Python, Java
  and Go, confidence, evidence, the kind of an edge and references that are not calls are left out (Python's import
  statements are in `PythonImports`).
- **Planning, profiles and prompts** (`plan.ts`, `profile.ts`, `grounding.ts`'s wording): rules over words and
  counts, with no state and no order to get wrong. What the plan decides is an input of `Projection`.
- **Technology and framework readers** and the artefact readers of other formats than the three of `ArtifactReaders`:
  tables of names, and one reader per format of the same form.
- **React renders, the pages and components**: a callback sees the state of the latest render.
- **HTTP validation and error mapping, SQL and row order, the command line, benchmarks, deployment.**
- **Clock readings and telemetry**, except where a timer is set.
- Details inside modelled parts: the stage listener of a finished attempt may write its stages late
  (excluded from `SettledKeepsOutcome`); warm-up steps of a session go on after it was closed, and are
  caught there; the chat endpoints acquire their context within microtasks; a daemon that keeps sending
  is never cut off, so `MaxLines` is an assumption and not the code's; links that break half-way through a
  frame; Python sources are read while an analyser is prepared, where the model reads all sources in
  `Analyse` (each file is read once and after its time either way).

`PROJECT.json` gives the reason for each component.
