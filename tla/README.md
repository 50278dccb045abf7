# Formal models of Chronicle Stack

Chronicle Stack keeps a person's working history (events, artifacts, contexts,
decisions, reviews) in files under `.chronicle/`. A command-line program, a
local UI server and a loopback daemon write these files at the same time, in
several processes and threads, without a lock between them. These modules say
what that leads to: what every interleaving, torn write, crash, retry and
restart preserves, and where the code does less than its documents promise.

Source paths below are relative to `src/chronicle/` of the repository.

## 1. Inventory

### 1.1 The parts, their state and their operations

| Part | State | Operations that change it | Modelled by |
|---|---|---|---|
| Event log (`store/jsonl_store.py`) | `chronicle.jsonl` | append (open, write line and newline, close); reads parse line by line and skip corrupt ones; a line that is not UTF-8 ends every read | `ChronicleStore` |
| Chronicle service (`services/chronicle_service.py`) | `metadata.yaml`, the log | `init`, `record_event` (stamps the chronicle id), `append_event`, `rebuild_indexes` | `ChronicleStore` |
| Derived indexes (`services/index_projection_builder.py`, `store/index_store.py`) | five JSON files | each save is `write_text`: truncate, then write | `ChronicleStore` |
| Artifacts (`services/artifact_service.py`, `store/artifact_store.py`) | `current.md`, `versions/<id>.md` | `create`, `update`: files, event, rebuild | `ChronicleStore`, `ReviewFlow` |
| Contexts (`services/context_service.py`, `context_use_service.py`) | events only | `add`, `update`, `classify` (the last two rebuild first), `get` (rebuilds); the use check writes nothing | `ChronicleStore`, `ContextFlow`, `ContextPolicy` |
| Boundary rules (`services/boundary_service.py`) | events only | `add_rule`; evaluation writes nothing | `ChronicleStore`, `ContextFlow`, `ContextPolicy` |
| Decisions, RDE records | events; RDE also a report file | `record` | `ChronicleStore` |
| Daemon API (`daemon_server.py`, `services/api_adapter_service.py`) | the log, `audit.jsonl` | `POST /events`, `/diffs`, `/assertions`: duplicate lookup, append, rebuild or lookup, audit, reply | `ApiWrites` |
| Daemon credential (`daemon_credentials.py`) | the token file | create exclusively, identify, write, bind, serve, remove | `DaemonToken` |
| Audit log (`services/audit_service.py`) | `audit.jsonl` | append, by whoever does something worth a record | `ApiWrites`, `ReviewFlow`, `ContextFlow`, `Federation`, `CommandLine` |
| Proposals (`services/proposal_service.py`) | events only | `propose_*`, `apply_*` | `ReviewFlow` |
| Reviews (`services/review_service.py`, `review_action_response` of `ui_server.py`) | events, `audit.jsonl` | approve, reject, request changes, by CLI or UI | `ReviewFlow` |
| Operation plans (`services/operation_plan_service.py`) | held by the caller, optionally an event | build, record, list, convert to a proposal | `ReviewFlow` |
| UI session (`create_handler` of `ui_server.py`) | bootstrap secret and flag, cookie, mutation token, seen request ids, two locks | bootstrap exchange, guarded POSTs, restart | `UiSession`, which implements `AtMostOnce` |
| UI pages (`ui_server.py`) | what a browser shows and posts | pages of the review queue, `POST /api/review-actions` | `UiReview`; the other pages are not modelled |
| AI boundary (`services/injection_service.py`, `ai_boundary_service.py`, `security/prompt_injection.py`) | none | preview, injection plan, pattern scan | `ContextPolicy`, `ContextFlow` |
| Lifecycle (`lifecycle/`) | `lifecycle.jsonl` | redact, seal, expire, tombstone, hard delete: one mark each | `ContextFlow`, `Exports` |
| Context packages (`services/integration_package_service.py`, `package_review_service.py`) | a manifest and a records file per package, audit | create, review, list | `ContextPolicy`, `ContextFlow` |
| Trust and messages (`services/trust_service.py`, `federation_message_service.py`) | one JSON file per relation, node, message; audit | add a node, assert, withdraw, send or receive, record consent | `Federation` |
| Federation packages (`services/federation_package_service.py`) | a directory of four files; audit | create, verify, inspect, preview an import | `FederationPolicy`, `Federation` |
| Runtime (`services/runtime_service.py`, `runtime/`) | `runtime.yaml`, events | store the contract, plan, call, execute a recorded plan, summarise, draft | `RuntimePolicy`, `RuntimeFlow` |
| Summary jobs (`services/summary_job_service.py`) | artifact, event and job file | draft, run, list | `RuntimeFlow` |
| GraphRAG (`services/graphrag_runtime_service.py`), AI indexes | two SQLite databases; two index files | rebuild, ask (rebuilds when not ready); load, change and store | `RetrievalIndexes` |
| Objects, reactions, transports | events | one append each; receive and promote a transport | `CommandLine`, `RuntimeFlow` |
| Exports, search, graph views (`exporters/`) | none | none; what they read may change under them | `Exports` |
| Doctor (`services/doctor_service.py`) | none | none | `Doctor` |
| Command line (`cli*.py`, `interfaces/cli/`) | one process per command | every subcommand above | `CommandLine` |
| Connector prototypes, encrypted store contract, cloud authority | none | none | the prototypes in `CommandLine` and `RuntimePolicy`; the contracts are called by nobody |

### 1.2 How they interact

- Everything that is remembered goes through `JsonlStore.append`; everything
  that is looked up by id goes through an index file built from the log. The
  two are tied only by `rebuild_indexes`, which the services call after most
  appends, before some lookups, and not at all after a note, a review or an RDE
  record.
- The CLI is one process per command. The UI server and the daemon are
  `ThreadingHTTPServer`s: every request is a thread that calls the same
  services on the same files. Their threads do not outlive the server, so a
  stop is a crash in the middle of an operation.
- Proposals, reviews and plans have no state of their own: each question
  ("is it approved?", "was it applied?", "is it pending?") is a scan of the log.
- The daemon finds a repeated request by scanning the log for its idempotency
  key; the UI finds one in a set of request ids, under a lock.
- The audit record of a review precedes its event; the audit record of a daemon
  write, of a package and of a relation follows it; a received revocation is
  saved, audited and saved again.
- Contexts flow out in four ways (exports, packages, injection plans, calls of
  a provider), each with its own reading of the log, the indexes and the marks,
  and its own filter.
- A page of the UI describes what a later POST would do; the POST reads
  everything again.
- The contract of the provider is read when a call is planned and again when it
  is made. `runtime ask` and the GraphRAG rebuild send texts to the embedding
  service and do not consult it.

### 1.3 What is hard about it

1. Steps of two writers between a lookup and the append that depends on it.
2. Files truncated, half-written, saved from an older read than the one already
   on disk, or written by two commands at once, which leaves the end of the
   longer text behind the shorter one.
3. Appends cut short: the next append continues the unfinished line; and one cut
   inside a character makes every later read of the file raise.
4. Death between the files of a version, its event, the rebuild and the audit;
   between the files of a package, a job, a message.
5. Retries of a request whose first delivery is still running or died half-way.
6. One-time credentials consumed by racing threads while they expire, and
   credentials of an earlier incarnation after a restart.
7. Signals and failing system calls at every point of a credential file's life,
   and identities (inode numbers) that come back.
8. Edits that load a whole record, change a part and write the whole back.
9. Readers that read several files one after the other, and must not show what
   was hidden before they began.
10. Decisions announced at one moment (a page, a plan, a preview) and carried
    out at another.

`PROJECT.json` lists these as hazards, each at its line, with the properties
that would notice it. Seven have no property. To five of them the code loses, and
section 4.2 names the sentence that fails instead; the other two, an edit and an
index entry overwritten by a command that had loaded before, lose something no
document promises to keep, and `EditKeepsTheRest` and `EntriesStay` say what else
is never lost.

## 2. Plan

1. `ChronicleStore` - log, indexes, files. *Done, with proofs.*
2. `ApiWrites` - idempotency and audit of the daemon. *Done, with proofs.*
3. `ReviewFlow` - proposal, review, plan, apply. *Done, with proofs.*
4. `UiSession`, `DaemonToken` - sessions, gates, credentials. *Done, with
   proofs.*
5. `ContextPolicy`, `ContextFlow` - edits, packages, plans. *Done, with proofs.*
6. `FederationPolicy`, `Federation` - files of relations and messages, package
   directories. *Done, with proofs.*
7. `RuntimePolicy`, `RuntimeFlow`, `RetrievalIndexes` - contract, calls, jobs,
   databases. *Done, with proofs.*
8. `Exports`, `CommandLine`, `Doctor` - what readers show and what commands
   leave. *Done, with proofs.*
9. `AtMostOnce` - what the session boundary promises; `UiSession` implements
   it. *Done, with a proof.*
10. `UiReview` - pages against the write route. *Done, with proofs.*

The plan once had a log that only grows as the abstract specification of
`ChronicleStore`. The code does not implement it (`LinesNeverChange`, section
4.2), so `LossBound` says what it does instead.

Every safety property of a run of section 4.1 has a theorem (section 5). Still worth
proving: the properties of section 4.2 under the condition that makes each true
(`OneEventPerKey` with one thread, `RdeVersionsExist` without crashes,
`IndexesReadable` while nothing dies), and lemmas about `ContextPolicy` and
`RuntimePolicy` that hold for every context and configuration without a run, as
`PreflightAgrees` does for packages.

## 3. Modules

Each operation of a service is a sequence of steps, one action each, so that
two operations interleave wherever the code gives others a chance to run.
Reads that happen before an operation's first write and on which only that
operation depends are one step with its beginning, except where two reads of
the same file by one operation can disagree (then each is a step).

`ChronicleStore` has the finest steps. The modules above it take from it what it
establishes: an append and a rebuild, or the save of one index, may be one step
there, where the comment at the head of the module says so.

A module whose name ends in `Policy` has no variables: it holds the decisions
of the code that are functions of what was read. The module with the variables
calls them at the step where the code does.

Operators whose comment begins with "Mutant" are not part of a model: each is a
plausible mistake in the code, put in place of the definition it precedes to see
that a property notices it.

### 3.1 `ChronicleStore`

State: the lines of the log (`Corrupt` for one that does not parse, `Undecodable`
for one that is not UTF-8), whether the last one lacks its newline (`open`),
`metadata.yaml` (`meta`, 0 while truncated), the five index files (absent, empty,
garbled or whole with a map), `cur`, `vfile` and `report` for the Markdown files,
and for every process the step it is at, its prepared event, and what its rebuild
has read. `acked` remembers the appends that returned.

| Action | Code |
|---|---|
| `BeginInit`, `WriteMeta`, `TouchLog` | `ChronicleService.init` |
| `BeginRecord` | `chronicle record`, `add_context`, `add_rule` |
| `BeginCreate`, `BeginUpdate`, `WriteCurrent`, `WriteVersion` | `ArtifactService`, `ArtifactStore` |
| `BeginDecision`, `BeginRde`, `WriteReport` | `DecisionService`, `RdeService` |
| `BeginRebuild`, `LoadContext` | `chronicle index rebuild`, `ContextService.update_context` and its kin |
| `AppendEvent`, `AppendRejected`, `AppendTorn` | `JsonlStore.append` behind `append_event` and `record_event` |
| `ReadLog`, `ReadLogRaises`, `TruncateIndex`, `WriteIndex` | `rebuild_indexes`, `IndexStore.save_*` |
| `Crash` | a killed command, a server thread at shutdown |

`read_all` catches what a line raises when it is parsed, not what the file raises
when it is decoded: with one `Undecodable` line `ReadAll` is empty and a rebuild
ends in `ReadLogRaises`, after the event it was meant to index. `AppendTorn` leaves
either kind of line.

Abstractions: payloads are ids and the ids they refer to; ids are the number of
the operation; the write of `current.md` is one step (its truncated state is what
`Crash` may leave); `LoadContext` reads the index in one step.

### 3.2 `ApiWrites`

State: the events that carry API metadata, the audit records, each thread's
request and position, every reply sent. `DoPost` receives any request of the
contract (with and without the token, dry or not, well or ill shaped);
`CheckDuplicate`, `AppendApiEvent`, `Rebuild` (events only), `LookupOwn` (diffs
only), `WriteAudit`, `AuditFails` follow `commit_event_write`,
`commit_diff_write` and `commit_assertion_write`; `Stop` ends the daemon with
requests running. A client may send any request again at any time. The index
files reduce to whether a rebuild raises: `fits` says that a payload's snapshot
validates.

### 3.3 `ReviewFlow`

State: the log of proposals, reviews, versions and recorded plans; the current
version that the saved index shows; audit records; the plans that callers hold;
each process. `BeginApply` and `CheckApproval` are the two reads of the log that
`_require_approved_and_unapplied` makes; `BeginConvert` and `CheckConverted`
those of a conversion; `BeginUiReview` is the pending check of
`review_action_response`, `BeginReview` the CLI's, which has none; `RecordAudit`
precedes `AppendEvent` in `_record_decision`. Saving the indexes is one step
here; torn lines, truncated indexes and version files are `ChronicleStore`'s.

### 3.4 `UiSession`

State: the incarnation of the server (its number stands for all its secrets),
its age, `bootstrap_consumed`, the kept URL, the two locks, the request ids
seen, each thread, and the credentials the browser has. `Receive` is `do_GET` and
`do_POST` up to the first lock; the bootstrap exchange and the request-id check
are split where they take and leave their lock, replies under a lock included;
`Execute` is the guarded write; `Restart` draws new secrets and ends the threads
while the browser keeps what it has.

### 3.5 `DaemonToken`

State: the inode the token path leads to, who made it, the token in it, the port,
each daemon's position. An inode number is free again when no path and no
descriptor leads to it. SIGTERM and Ctrl-C are `Interrupt` where the `with`
statement still cleans up and `InterruptUncleaned` where it does not; `Kill` is
SIGKILL; `RemoveStale` is the operator, and `careless` remembers whether a daemon was
running then. `OsFails` is an `OSError` of `fstat`, `lstat` or `unlink`, after which the
file stays; the errors of writing it lead to the cleanup (`WriteToken`). One instance
of the module is one token path: `--token-file` and `--port` let a root have
several, which share nothing that is modelled here.

### 3.6 `AtMostOnce`

What `UiSession` promises, without threads' positions, secrets or locks: in an era
of the server an exchange leads to at most one session, an id is claimed at most
once and only in an era with a session, and a claim is finished at most once.
`UiSession` instantiates it with `holders` as the threads at `grant`, `writing` as
the ids of the threads at `execute`, and its own `life`, `granted`, `seen` and
`done`; `UsesOnce` is the instance's `Spec`.

### 3.7 `ContextPolicy` and `ContextFlow`

`ContextPolicy` translates what the code makes of a context: the classification of
a layer, the use check (`UseStatus`), the record, warnings and output layer of a
package (`PackageRecord`, `Package`), its review (`ReviewStatus`), the AI boundary
preview, and the rules with all their operators (`RuleMatches`, `InjectionPlan`).
A text is the set of the screening patterns it contains.

State of `ContextFlow`: the log of contexts and rules, the two index files it
reads (each the length of the prefix it was built from), the marks, the packages
and their audit records, each command. Editors (`add`, `classify`, `update`,
`rule`) go through `ReadLog`, `SaveContexts`, `SaveRules`, `LoadForEdit`,
`AppendEvent` and a second rebuild. Readers load the contexts (`LoadContexts`) and
go on with `BuildPackage`, `WriteManifest`, `WriteRecords`, `AuditPackage`, or with
`BuildPreview`, or with `BuildPlan`, which loads the rules. `ReviewPackage` reads a
package back, `Mark` and `MarkTorn` extend `lifecycle.jsonl`, `Crash` ends any
command. `decodes` says that no marker was cut inside a character; where one was,
whatever reads the markers ends in `MarksRaise`.

### 3.8 `FederationPolicy` and `Federation`

`FederationPolicy`: how widely a record may be shared, the preflight
(`BoundaryCheck`) and the report of a package, signatures, verification, and the
findings of an import preview. A hash is the value it was computed from.

State of `Federation`: the JSON file of each relation, message and node (absent,
empty, garbled or whole), the package directories, `audit.jsonl`, the clock, each
command. `BeginNode`, `BeginAssert`, `BeginWithdraw`, `BeginMessage` read what they
need; `Truncate` and `Write` save (of two that truncate before either writes, the
later may leave the end of the other's text behind its own, and `raced` remembers
such a file); `RecordAudit` ends the command or, for a revocation received, sends it
back to save once more. A package is `BeginCreate`, `WriteRecords`, `WriteReport`,
`WriteReadme`, `Sign`, `WriteManifest`, `AnnouncePackage`. An import preview reads
the manifest twice: `BeginPreview`, `VerifyAndAnswer`. `Damage` alters or loses a
file of a package that nobody is writing.

### 3.9 `RuntimePolicy`, `RuntimeFlow` and `RetrievalIndexes`

`RuntimePolicy`: the reasons that block a plan and, not the same list, those for
which the backend refuses; what an answer is worth; what retrieval composes and
hands over; what a capability may reach.

State of `RuntimeFlow`: `runtime.yaml` (truncated, then stored), the log of plans
and outputs, the job files, the calls made and what became of them, each command. A
call is read, decided, sent (`Send`) and answered (`Receive`), with anything in
between; what is kept of it is an artifact, an event and a job file, one step each.
Two stores of the contract at once may leave it garbled, as two of an `ai-index`
file may (`Overlaid`). `RetrievalIndexes` adds the two databases (the set of lines
each was filled from: `Embed`, `DropVectors`, `FillVectors`, `DropNodes`,
`FillNodes`), `runtime ask`, which rebuilds when the status is not ready, a database
that SQLite refuses because another command is in it (`Refused`), and the two files
of `ai-index` (`LoadIndex`, `TruncateIndex`, `StoreIndex`). `MCRuntime` runs mixes
of the commands that meet, each with bounds of its own.

### 3.10 `Exports`

State: the log, the length of the log each index file projects, the marks, each
writer, and what each exporter has read. Writers are `Create`, `Update`, `Refer`
and the reads and saves of a rebuild. An exporter reads the log, then the index
files of its format in the order of the code, then the marks, then finishes with
what the manifest reads again; the records it shows are computed by the filters
of `exporters/redaction.py` and `lifecycle/derived_output_policy.py`. What a view says
of an event or a record is a set of parts (`EventParts`, `RecordParts`): the snapshot
with its summary, where an artifact comes from (`event.source`, `payload.version`, the
table of versions), and the title of the object that a proposal or an injection plan is
about. Redaction overwrites the first only (`Redacted`).

### 3.11 `CommandLine`

Every subcommand of `chronicle` as the sequences of steps it may take: `Need` the
root, `Load` an index, `Find` an id in it, in the log or in a file, `Ask` (input
that is accepted or refused), `Call` (something outside), `Put` an event, `Save` a
file, `Rebuild`. Commands of the same steps are one program. The state is how many
records of each kind there are, how many each index projects, and the commands
running; a command ends with its result, with an error at the step that raises,
or killed. From some moment on the log may hold what no rebuild can read (`Spoil`: a
snapshot of the wrong shape that the daemon was sent, or a line that is not UTF-8);
then a command appends its event and ends with the error of its rebuild,
`unbuildable`.

### 3.12 `Doctor`

The checks of `chronicle doctor` as functions of `ChronicleStore`'s state, with the
graph and HTML exports it tries. A line that is not UTF-8 ends the command without a
report (`Status` is then `raised`). Two limits are the code's: doctor asks whether
index files exist, not whether they are current, and it does not open
`current.md`.

### 3.13 `UiReview`

State: the flags the server was started with, the decisions on one event, the
audit records, and the browser with its page, request and answer. `ViewRow` and
`ViewEnablement` describe the row as the pages do, the second reading the queue
twice; `PostReview` sends any request that a page allows and some it does not;
`Checks` is the order of refusals of the handler; `InsertAudit` and
`AppendDecision` are its two writes. `ReviewAtCommandLine` decides in between. The other
rows of the queue are `othersWarn`: the enablement panel counts the warnings of all
pending rows (`Counted`), the other panels those of their own. A credential that is
not ASCII makes the comparison of the handler raise, and the request gets no answer.

### 3.14 Compositions

`ContextFlow`, `Federation` and `RetrievalIndexes` extend the modules they are built
from. `Doctor` extends `ChronicleStore`, and `MCStore` runs both. `MCDaemon` (requests
and credential file) and `MCUi` (session boundary and review pages) put two modules
side by side in one run: the halves share no variable, so a behaviour is of one or
of the other, and the run has the sum of their states and not the product. `Exports`
is run by itself.

## 4. Runs

`MCStore`, `MCReview`, `MCContexts`, `MCFederation`, `MCRuntime` and `MCCommands` add
the symmetry of the processes, which nothing in the specifications tells apart; runs
that check liveness use none.

### 4.1 Runs that pass

| Run | Question | Bounds |
|---|---|---|
| `store_concurrent` | Are the files of every recorded version there, are the lines that torn appends cost bounded, do indexes and references agree with the log's past? | 2 processes, 4 ids (the first is the chronicle's: three operations, two of which overlap), from an initialised store (`NewStore = FALSE`), `init` again among them, 1 torn append, 1 crash |
| `store_sequential` | One process at a time, all ten operations: does each history build on its latest snapshot, are indexes current, does a rebuild that can read the log repair, is doctor right about what is left? | 5 ids, 1 torn append, 1 crash |
| `daemon` | What do replies say about the log, whatever threads race, fail or stop? Is a serving daemon reachable with the token on disk, and alone on its token path? Is a file left behind always explained? | 2 threads, 4 requests, 3 endpoints, 1 key (keys do not interact), 1 failure, 1 stop; 2 daemons, 4 runs, 3 inodes |
| `review_races` | Was every apply justified, every review audited, every repeat bounded, and does the listed status of a plan only advance? | 2 processes, 5 ids: a proposal, its review and three applies, or a plan, its conversion, a review and two applies |
| `review_sequential` | One command at a time, artifact and context, direct updates included: once, in order, on what was reviewed? | 5 ids, 1 operation failing half-way |
| `ui_races` | Does the session boundary implement `AtMostOnce`, does a writer hold this life's credentials, is every request answered; does a review page foretell what the POST answers? | 2 threads, 2 ids, 4 requests, 2 incarnations, a bootstrap that expires after one tick; 6 combinations of the flags, 2 decisions at the command line |
| `contexts` | Does an edit keep what it does not change, do packages keep what was restricted or hidden before they began, does their review stop a sensitive handoff, are announced packages whole, do plans obey the rules? | 2 processes, 1 context, 3 events, 2 marks, 1 package, 1 crash, 5 mixes of commands |
| `exchange` | Does a withdrawal stay, is every received revocation audited, can a verified package be relied on? | 2 processes, 1 file of each kind; 1 directory used for 2 packages, 1 damaged file, a clock of 2, 1 crash |
| `runtime` | Was every call permitted, is every answer kept, are ready databases current, do index entries stay? | 2 processes, 2 jobs, 1 call, 3 stores, 8 mixes with their own bounds of events, configurations and crashes |
| `commands` | What does a command that fails leave, and does the next one find what a command recorded? | 2 processes, 2 commands, 1 kill, the log unreadable for rebuilds from any moment or never |
| `views` | Do exports hide what was hidden, redact or exclude snapshots of what is sensitive, and show records with their events? | 1 writer, 1 exporter, 2 events, 1 mark, four formats |

Why these bounds are enough to be interesting: every hazard of section 1.3
needs at most two actors and one fault, and each run has room for the racing pair,
the fault, and an operation afterwards that meets the result. `PROJECT.json`
names for every property a mutation of one definition that the same run, with
the same bounds, refutes.

A mix is the set of commands that one behaviour uses. Each mix puts together
commands that write what the others read; the run takes every mix, not their union,
which would be out of reach.

Deadlock checking is off everywhere because the bounds on operations and
requests make every behaviour stop; that no request hangs, where threads share
locks or a client waits for its reply, is what the two `Answered` properties say.

`exchange` uses a directory for two packages. Three would need more than seven
million states; the theorem of section 5.6 covers any number, and it was three
packages that showed what the property had to say (there).

Several properties are conditional, and the condition is the finding:
`EditKeepsTheRest` excuses what was written after the edit began,
`ReadyIsCurrent` speaks of the graph only when no rebuild was disturbed,
`EntriesStay` excuses a store by a command that had loaded before,
`PackagesVerified` a directory that two commands wrote at the same time or whose
report another command replaced after the preview read it,
`RevocationsAudited` a file that two commands wrote at once, `LossBound` speaks of
the lines in the file and not of what can be read once one of them is not UTF-8,
`RebuildRestores` excuses such a line too, `PageForetells` panels that another row's
warnings make differ, `LeftBehindOnlyAbruptly` an operating system that fails,
`FailureIsClean` a failure outside the program and a rebuild that cannot read the
log, `OneDaemonPerPath` is about one path and `ExportsHide` about snapshots: what
redaction leaves in clear is section 4.2's. The excused behaviours happen.

### 4.2 Runs that show a disagreement

`view_redaction` checks a sentence of `docs/redaction-aware-export.md`: redaction
replaces the title, summary, source and path of what is sensitive.
`RedactionIsComplete` fails: `transform_event_dump` (`exporters/redaction.py:113`)
overwrites the summary and `payload.context` or `payload.artifact` of an event and
leaves `event.source` and `payload.version`; the YAML export writes the table of
versions as it is; the summary and payload of a proposal, and the payload of an
injection plan, carry the title of their object and count as not sensitive.

Nine more configurations, `*Documents.cfg` and two named `StoreTorn*`, state further
sentences of the repository's documents. They are not among the regular runs, which
ask each question once. Each has one property in force and the others commented out;
exchange them and run `tlc -config X.cfg M` to have a counterexample in seconds.

| Module, configuration | Property | Sentence | What happens |
|---|---|---|---|
| `MCStore`, `StoreTornLine` | `LinesNeverChange` | existing lines are never changed (event spec) | an append continues a line that lost its newline |
| `MCStore`, `StoreTornCharacter` | `IntactLinesAreRead` | corrupt lines are skipped and the others returned (event spec) | a line cut inside a character makes `read_all` raise |
| `MCStore`, `StoreDocuments` | `CurrentMatchesVersion` | `current.md` always matches the current version (artifact spec) | a process dies after writing it and before its event |
| | `EventsMatchMetadata` | the `chronicle_id` of events is the one in `metadata.yaml` (event spec) | a second `init` replaces it |
| | `RdeVersionsExist` | compared versions exist when they are recorded (RDE spec) | only their file is looked for, which a failed update leaves |
| | `IndexesReadable` | stopping the daemon does not corrupt derived indexes (roadmap) | a request thread ends between truncate and write |
| | `DoctorSeesStaleIndexes` | doctor warns of what can be rebuilt (`docs/doctor.md`) | it looks whether the index files exist |
| `ApiWrites`, `ApiDocuments` | `OneEventPerKey` | duplicate keys do not append duplicate events (readiness) | two deliveries look before either appends |
| | `AcceptedAudited` | event writes have idempotency and audit (runbook) | a retry after a stop is accepted and never audited |
| | `RebuildPossible` | indexes can be rebuilt (basic spec) | one ill-shaped snapshot makes each rebuild raise |
| | `RejectedNotPersisted` | rejected writes fail before partial persistence (roadmap) | the rebuild after the append raises |
| `ReviewFlow`, `ReviewDocuments` | `AppliedOnce` | a second apply is refused (CLI reference) | two applies overlap |
| | `AppliedToExpected` | target versions are checked during conversion and apply (ADR-0033) | apply compares no version |
| | `UiResolvesOnce` | the target row is still pending (v1.7 preview) | two UI threads decide the same row |
| `DaemonToken`, `TokenDocuments` | `ReplacementKept` | cleanup does not unlink a replacement (ADR-0107) | it looks and then unlinks; inode numbers return |
| | `RemovedOnSignal` | the file is removed on SIGTERM (ADR-0107) | the signal arrives before the identity is known |
| `UiReview`, `UiDocuments` | `PendingIsOffered` | a pending row can be reviewed where writing is enabled (v1.7 preview) | the page calls a row nobody decided before blocked; the route accepts it |
| | `DecisionFirst` | the decision is persisted, then the audit event inserted (the contract in `ui_server.py`) | the audit event is inserted first |
| `MCCommands`, `CommandDocuments` | `RdeFoundOnceRecorded` | the indexes follow the log (basic spec) | recording an RDE rebuilds nothing |
| `Exports`, `ViewDocuments` | `NothingAboutOmitted` | a tombstone excludes the body from derived exports (lifecycle-aware export) | decisions and proposals about the artifact are exported |

Disagreements that need no run: `docs/audit-insertion-points.md` says that a
review whose audit fails goes on with a warning, the service ends it; the list of
errors in the write route's contract lacks `invalid_request_body`; no pattern of
the screening has the id of a marker code that `package_review_service.py:12-14`
looks for; `tag equals x` never matches, because a list of tags is compared with
a word (`boundary_service.py:86`); ADR-0024 says that a job's event records that no
external call was made, also when one was.

### 4.3 Fairness

Only steps of a running request are fair (`WF` on `Work(t)` of `ApiWrites` and
`UiSession`): a thread that is scheduled goes on until it ends or dies. Nobody is
obliged to send a request, and no fault is obliged to happen. In `UiSession` a
thread that wants a lock is treated fairly in the same sense: the code holds a lock
only while it looks at memory or sends one reply, and the socket's send completes or
raises. The other modules state no liveness and assume no fairness.

## 5. Proofs

Every theorem holds for all values of the constants that satisfy the modules'
named assumptions; where it needs more, its `ASSUME` says so. `TypeOK`, where a
module has it, is proved and needs no run. Before a proof, TLC checked the inductive
invariant on the run of the module; several were wrong at first, and two properties.

| Module | About | Theorems |
|---|---|---|
| `ChronicleStoreProofs` | `ChronicleStore`, `Doctor` | `TypeCorrect`, `FilesComplete`, `LossBounded`, `IndexesPast`, `ReferencesFound`, `SequentialCommands`, `RebuildsRestore`, `DoctorRight` |
| `UiSessionProofs` | `UiSession`, `UiReview` | `SessionTypes`, `OneSessionPerLife`, `IdsExecuteOnce`, `WritesNeedCredentials`, `ServerKeepsPromise`, `PagesForetell` |
| `DaemonProofs` | `ApiWrites`, `DaemonToken` | `RepliesStayTrue`, `AuditIsBacked`, `DuplicatesAreBounded`, `DaemonTypes`, `DaemonIsAlone`, `ServingPublished`, `FileLeftBehind` |
| `ReviewFlowProofs` | `ReviewFlow` | `AppliesWereJustified`, `ReviewsAreAudited`, `RepeatsAreBounded`, `PlansAdvance`, `OneAtATime` |
| `RuntimeProofs` | `RuntimePolicy`, `RuntimeFlow`, `RetrievalIndexes` | `RuntimeCallsWerePermitted`, `PlansForetellRefusals`, `ReadyReportsCurrent`, `IndexEntriesStay`, `ResultsAreKept` |
| `FederationProofs` | `FederationPolicy`, `Federation` | `PreflightAgrees`, `PassMeansFit`, `WithdrawalsStay`, `RevocationsAreAudited`, `PackagesAreVerified` |
| `ContextProofs` | `ContextFlow` | `ContextBase`, `PackageFiles`, `ReviewsStop`, `EditsKeep`, `PlansObey`, `SecretsStay` |
| `CommandProofs` | `CommandLine`, `Exports` | `ErrorsLeaveNothing`, `RecordsAreFound`, `ViewsHide`, `RecordsKeepEvents` |

### 5.1 `ChronicleStoreProofs`

It proves, for every set of processes, every subset of the operations and every
bound:

- `TypeCorrect`: `Spec => []TypeOK`;
- `FilesComplete`: `Spec => []FilesPrecedeEvents`. Whatever interleaves and
  crashes, the log names only versions and reports whose files are complete;
- `LossBounded`: `Spec => []LossBound`. Torn appends cost at most one line of an
  acknowledged event each, and while none was torn every such event can be read.
  (After one that was cut inside a character no event can, whole or not: that is
  why the bound is on what is in the file, and `IntactLinesAreRead` false);
- `IndexesPast` and `ReferencesFound`: `IndexIsPast` and `ReferencesResolve`.

The assumptions are `OpsAssumption` and `BoundAssumption` of the module; `Procs`
may be infinite. Three theorems need more:

- `SequentialCommands` and `RebuildsRestore` (`SequentialStore` and the action
  property `RebuildRestores`) assume one process, `Procs = {p}`: that is what
  "one command at a time" means, and the run that checks them has one. A rebuild
  ends with all five indexes current, or without beginning to write because a line
  cannot be decoded;
- `DoctorRight` (`DoctorIsRight`) assumes that `Procs` is finite.

The first inductive invariant is `Strong == Typed /\ AllGood /\ Distinct /\ Used /\
OpenUnacked`:

- `Typed` adds to `TypeOK` that an operation at a step that uses an event has
  prepared one, and that only an existing line can lack its newline. Without it
  nothing can be said about what `AppendEvent` writes.
- `AllGood` says that the event a process is about to append already has its
  files whole, and that no later step of any process writes to them; this is
  what carries `FilesPrecedeEvents` over an append.
- `Distinct` and `Used` say that ids in the log, in acknowledged appends and in
  running operations belong to one operation each and are below `next`; without
  them one operation's write could overwrite another's file, or one lost line
  could lose two acknowledged ids.
- `OpenUnacked` says that an unfinished last line belongs to no acknowledged
  append; so gluing the next event to it loses that event only, which is what
  `torn` pays for.

Three more are built on it:

- `Past`, for logs without torn lines: what a rebuild has read is a prefix of the
  log, an index file that is whole is the projection of one, and the event that a
  process is about to append refers to lines that are there (`MadeOf`), because an
  id found in the projection of a prefix is in the prefix. Nobody takes lines away,
  so that stays true until the append, however old the index was.
- `Unspoilt`: without torn appends no line is broken and each has an id of its own.
- `Solo` is about the only process: its rebuild works on the log as it is
  (`SoloSteps`, which is all `RebuildsRestore` needs, and survives crashes and torn
  lines), the indexes show the log up to the lines nobody rebuilds for
  (`SoloIndexes`), and what it is about to append builds on the latest snapshot
  (`SoloHistory`).

`Careful` is their conjunction. `DoctorRight` adds `LossSeen`: as long as every line is
readable, every acknowledged event is.

The lemmas about operators (what `LastOf`, `Project` and `Glue` return) come
first, then one lemma per conjunct and action, then the theorems.

### 5.2 `UiSessionProofs`

For every set of threads and of request ids (at least one), and every bound:
`SessionTypes` (`TypeOK`), `OneSessionPerLife` (`OneSession`), `IdsExecuteOnce`
(`ExecutedOnce`) and `WritesNeedCredentials` (`WritesHaveSession` and
`WritersAreCurrent`). Fairness is not used. The inductive invariant is
`TypeOK /\ Locked /\ Bootstrap /\ Ids /\ Credentials`:

- `Locked`: who is inside a critical section holds its lock. It is what makes the
  decision of `ConsultBootstrap` and `LookForId` still true at the next step.
- `Bootstrap`: a thread about to consume finds the secret unconsumed; one about to
  grant finds it consumed, its life not granted, and no other thread there.
- `Ids`: an id about to be added is new; an executing one is registered, unwritten
  and nobody else's.
- `Credentials`: cookies come from a grant, and nothing belongs to a life that has
  not begun. Without the latter a restart could find its new life granted already.

`ServerKeepsPromise` (`Spec => UsesOnce`) is the refinement of `AtMostOnce`. Its
steps are grouped as the code is: those of the bootstrap, of the ids, the write,
the restart, and `Receive` and `Tick`, which are stutters. The invariant is what
makes them steps of the abstract specification: `Bootstrap` says that no one else
holds the exchange when a thread consumes it, `Ids` that the id added is unused
and the one finished unwritten, `Credentials` that there is a session.

`PagesForetell` (`PageSpec => []PageForetells`) is about `UiReview`, for every mode
of the server, every request of the browser and any number of decisions at the
command line. Its invariant `PageInv` says of each stage what the page still knows:
the row it shows is the event's row unless somebody decided since (`RowFits`), a
request past the checks keeps the contract of its page (`Underway`), the audit
records are one ahead exactly while a decision is due or was lost (`TrailFits`), and
only the last decision can be the browser's (`MineFits`). The panels agree as far as
one row can foretell a panel that counts all of them, for a queue of any length:
unless another pending row warns. `WhatIsChecked` turns the order of the handler's
refusals into a case for each answer.

### 5.3 `DaemonProofs`

About the credential file, for every set of processes, every set of positive inode
numbers and every number of runs: `DaemonTypes` (`TypeOK`), `DaemonIsAlone`
(`OneDaemonPerPath`), `ServingPublished` (`ServingIsPublished`) and `FileLeftBehind`
(`LeftBehindOnlyAbruptly`, whose third excuse is a failing system call: `OsFails`).
The inductive invariant is `TypeOK /\ (~careless => PathOwned /\ Alone) /\
LeftBehindOnlyAbruptly`. `PathOwned` says that the path leads to the file of whoever
runs, whatever it is doing. That is what stops a second `Create`, keeps the inode
number from being reused, and makes `Unlink` remove nothing but its own file. A
careless removal breaks it, which is why the first two properties are conditional.
`MoveKeeps` is one lemma for all steps that move a process and leave the path as it
is.

About the requests: `RepliesStayTrue`, `AuditIsBacked` and `DuplicatesAreBounded`. The
inductive invariant is `Typed /\ Owned /\ RepliesTrue /\ AuditBacked /\ Unaudited /\
Room`:

- `Owned` says that what a thread remembers of the log (the event it found, the one
  it appended) is there with its request's key. Without it a reply could name
  anything.
- `Unaudited` says that the event of a thread on its way to the audit has no record
  yet, except a diff's.
- `Room` is the counting argument for `DuplicatesBounded`: the events of a key and the
  threads that looked, found nothing and have not appended are together no more
  than the threads. A thread joins the second set only while the first is empty, and
  an append moves one from the second to the first.

`ThreadsAssumption` (finitely many threads, at least one) is the module's.

### 5.4 `ReviewFlowProofs`

`AppliesWereJustified`, `ReviewsAreAudited`, `RepeatsAreBounded`, `PlansAdvance`
and, for one process, `OneAtATime`. `ProcsAssumption` (finitely many processes) is
the module's. The inductive invariant is `Typed /\ Checked /\ ApplyWasJustified /\
Room /\ Numbered /\ ReviewsAudited`:

- `Checked`: an apply that looks for its approval found the proposal unapplied in some
  prefix of the log; one that goes on found it approved in a prefix at least as
  long. The log only grows here, so the prefixes remain, and `ApplyWasJustified`
  follows at the append.
- `Room`: the lines that apply a proposal (convert a plan) and the processes about to
  append another are together no more than the processes.
- `Numbered`: an id belongs to one operation; an audit record is of the past or of
  the review that its process is about to append.

`PlansAdvance` is an action property: the listed status is a function of the log
and the saved index, and each step that changes either keeps an applied plan
applied and a converted one converted.

`OneAtATime` (`SequentialReviews` where `Procs = {p}`) adds `Solo(p)`: each line
fits the log before it (`LinesFit`), what the process has checked is still so at its
append (`StillSo`), and the index shows the version the log has, except while a
rebuild is due (`ShownIn`). An operation that ended half-way leaves an old index, so
a plan's version is promised only while none did.

### 5.5 `RuntimeProofs`

`RuntimeCallsWerePermitted`: the invariant relates the history of configurations to what
each command has read, so that a request about to be sent was allowed by a contract
that was in force after its command began. `PlansForetellRefusals` is about
`RuntimePolicy`: whatever is sent has no blocking reason under the same contract.
The theorem is about the commands of `RuntimeFlow`; `RetrievalIndexes`, whose rebuild
sends texts without consulting the contract, adds no call to that history.

Three theorems are about what is stored, each with an invariant of its own, so that
a step is looked at once for each part it can disturb:

- `ReadyReportsCurrent` (`ReadyIsCurrent`), by `DatabaseInv`: both databases and what a
  rebuild has read are prefixes of the log (`Segment`), so two of equal length are
  equal. While no rebuild was disturbed only one runs, and the place it is at says
  what is in each database (`Orderly`, `Phase`).
- `IndexEntriesStay` (`EntriesStay`), by `FileInv`: the history of the stores of a
  file is a sequence, a missing file has none.
- `ResultsAreKept` (`ResultsKept`), by `ResultInv == Facts /\ Counted /\ ...`: what a
  command holds of its job is in the log and in the files it has written
  (`HoldsIn`), and the events without a file are no more than the commands that are
  about to write one and the crashes. The counting uses that a command loses its
  job at most once.

### 5.6 `FederationProofs`

Two theorems are about decisions: `PreflightAgrees` (for every set of at least one
record the preflight and the report of the package agree on what is too widely
visible, because the narrowest recommendation is a minimum) and `PassMeansFit` (a
preview that passes means a known key, this content, nothing expired, both consents,
and no record shown more widely than recommended).

Two are about the files: `WithdrawalsStay` and `RevocationsAreAudited`. Their
inductive invariant is `Shape /\ Commands /\ Settled /\ RelationsKept /\ MessagesKept
/\ Alone /\ LossCounted`:

- `Commands`: a command holds the text it will write, a withdrawal's says
  "withdrawn", and a message that says it was audited was. Who asserts a relation
  has its file for itself until it is written (`Fresh`, `Apart`): an assertion
  that came late would make a withdrawn relation active again, and that none can
  is due to withdrawals reading the file first.
- `Settled`: between its write and its end a withdrawal stays written, whoever else
  withdraws the same relation, or the file cannot be read.
- `RelationsKept`, `MessagesKept`: the properties, with the shape of the texts that
  later commands read and copy.
- `Alone`: who has a file for itself finds it empty when it writes, and two that are
  about to write the same file have made it one of `raced`.
- `LossCounted`: the other files that were truncated and that nobody is about to
  write are no more than the crashes. The property counts files nobody works on; it
  is not inductive, because a command that no longer writes may end after another
  has died.

`IdsAssumption` says that relations, messages and nodes have files of their own, which
the code has in directories of their kinds.

`PackagesAreVerified` (`PackagesVerified`) is about the directories of packages. Its
invariant is `PackagesInv == DirsShape /\ Fillers /\ Manifests`:

- `Fillers`: a command that has its directory for itself has put there what it says
  (`Wrote`), and two that write the same directory have made it one of `mixed`;
- `Manifests`: a manifest of a directory that is not mixed is `Faithful`: some request
  and some records exist of which it is the manifest, with the signature made before
  anything was altered (`Signs`). A signature that verifies therefore speaks of these
  records.

This proof found an error in the property. It said that a passed preview fits the
report of the package with the same id. With one directory, two packages cannot
refute that; with three, one command can verify the second package while the third
is written over it, and TLC showed it at once when the bound was raised. The
property now compares with the report that the verification read, which is what
`import_preview` goes on with.

### 5.7 `ContextProofs`

For any number of commands, contexts, rules, marks, packages and crashes.
`ContextBase` is the type invariant `Base`: the log and the marks are sequences of
well-formed lines, no index is ahead of the newest rebuild, every editor that ended
is in that rebuild (`IndexesBehind`), and each command holds what its step needs
(`Fits`). Every step keeps `Base` and takes back no line, no rebuild and no mark
(`Grows`), which is what makes facts about prefixes of the log stay. Then:

- `EditsKeep` (`EditKeepsTheRest`): an edit about to be appended was made from the last
  snapshot in a prefix of the log not shorter than the log was when it began
  (`EditFits`), because its own rebuild or a later one wrote the index it loaded.
- `PlansObey` (`PlanObeysRules`): a plan is the plan of the contexts of one prefix
  and of the rules of another (`PlanMade`), which holds every rule whose command had
  ended.
- `PackageFiles` and `ReviewsStop` (`PackageFilesComplete`, `ReviewStopsSensitive`):
  each package id is one command's, the two files agree, and a record of a sensitive
  layer in a package for outside carries its warning (`PackageInv`,
  `WarnsOfSensitive`).
- `SecretsStay` (`PackagesKeepSecrets`): a package about to be written was built from a
  prefix that holds what was known when the command began (`PackageMade`), and only
  while the markers could be decoded; the marks that were acknowledged and were glued
  to a torn line are, with a line that is torn now, no more than the crashes
  (`TornCounted`).

### 5.8 `CommandProofs`

About `CommandLine`, for any number of processes, commands and kills:
`ErrorsLeaveNothing` (`FailureIsClean`) and `RecordsAreFound` (`FoundOnceRecorded`).
Both rest on `ProgramsAreSound`, which holds of each of the programs of section
3.11:

- `Ordered`: what is given is checked before anything is written;
- `Guarded`: nothing is written before a step that passes only where there is a root;
- `Settled`: a record of an indexed kind other than an RDE is followed at once by a
  rebuild.

The programs are put together from the parts of the services, and so is the proof:
`Joined` says which kind of part may follow which (`Checks` write nothing, `Keeps`
refuse nothing, `Openings` have seen the root, `Halves` need it seen), and each set of
programs is a few uses of it. The invariant `CommandInv` then says that what a
running command has left to do is of these kinds, that where nothing is initialised
there is nothing to find, and, as long as commands run one after another and none
was killed and the log can be rebuilt, that the indexes are behind it only until the
next step (`Followed`). A command whose rebuild raises has done the append before it,
which is the only thing a failing command leaves (`Harmless`).

About `Exports`, for any number of writers, exporters, events and marks: `ViewsHide`
(`ExportsHide`) and `RecordsKeepEvents` (`RecordsHaveEvents`). The invariant `ViewInv`
says that what a view has read was there (`Taken`), that an event carries the secrecy
its object was created with (`LinesAgree`), and that once the fourth file has been
read, which is the marks', the marks of the start are among those that the
filters use (`GoodView`). About what redaction leaves in clear `ViewsHide` says the
most that is true of the object's own events and records: where an artifact comes
from, and only in an export that redacts. Titles in proposals and plans it leaves
to `RedactionIsComplete`.

### 5.9 Only model-checked

Liveness (the two `Answered`) is beyond the proof system. The properties of section 4.2
are false; their configurations show counterexamples. The enumerations by which the
runs choose what commands a behaviour uses (the mixes) are no part of any theorem:
a theorem is about every set of commands.

## 6. Not modelled, and why

- The pages of the UI other than the review queue's, their HTML, and the catalog of
  their words (`_ui_i18n_catalog.py`), and `ui_smoke.py`, which requests the pages:
  they show what the modelled services return and change nothing.
- The GET routes of the daemon and the parsing of HTTP, host and origin checks: they
  refuse or read, before or without any of the modelled state.
- The checks of doctor that count classifications, audit records, injection plans
  and runtime records: reports on records, no file's consistency depends on them.
- Layout, the edges of the graph view and the window of the newest rows of the HTML
  page.
- The encrypted store contract and the cloud authority: data classes that no command
  uses yet.
- Contents of texts, hashes and timestamps. Two events with one timestamp are
  ordered by their line, as the projection orders them.
- Power loss without fsync: the file system may then lose more than the tail of
  the log. The code makes no promise about it, except for the token file, which
  it syncs.
- Remote providers (embeddings, models): external. They answer or fail.
