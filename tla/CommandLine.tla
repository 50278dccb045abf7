---------------------------- MODULE CommandLine -----------------------------
(***************************************************************************)
(* The chronicle command: every subcommand as the sequence of the steps    *)
(* that can refuse, read or write.  A command runs its handler to the end  *)
(* or to the first step that raises, and nothing undoes the steps before;  *)
(* other commands run on the same root, and a command can be killed.       *)
(*                                                                         *)
(* A record is one of its kind, an index is the number of records of each  *)
(* kind it projects.  The data that a step checks (options, statuses,      *)
(* texts) is a choice: it is accepted or it is refused.  What a command    *)
(* prints is left out, so that commands with the same steps are one.  The  *)
(* log may come to hold what no rebuild can read: then every rebuild       *)
(* raises, after the event that its command has appended.                  *)
(***************************************************************************)
EXTENDS Naturals, Sequences

CONSTANTS
  Procs,         \* processes that run commands
  MaxCommands,   \* bound: commands started
  MaxKills       \* bound: commands killed

ASSUME CommandBounds == MaxCommands \in Nat /\ MaxKills \in Nat

(* Records that the index files project, and records only the log has *)
Indexed == {"artifact", "context", "decision", "rde", "rule"}
Logged == {"entry", "proposal", "plan", "invocation", "object", "reaction", "trial"}
RecordKinds == Indexed \cup Logged

(* Files beside the log that a later command looks up *)
StoredKinds == {"relation", "message", "package", "job", "audit", "mark", "other"}

----------------------------------------------------------------------------
(* Steps *)

Step(do, of) == [do |-> do, of |-> of]

Need == Step("need", "root")          \* require_initialized
Load == Step("load", "index")         \* one of the index files
Find(k) == Step("find", k)            \* an id in an index that was loaded
FindLog(k) == Step("search", k)       \* an id among the events
FindFile(k) == Step("open", k)        \* a file the command names
Ask == Step("ask", "input")           \* options, statuses, source files
Call == Step("call", "outside")       \* a provider, a database
Out == Step("out", "path")            \* a file the user named
Put(k) == Step("put", k)              \* append an event
Save(k) == Step("save", k)            \* write a file under .chronicle
Rebuild == Step("rebuild", "index")   \* rebuild_indexes
Make == Step("make", "root")          \* directories, metadata, empty log

(* Programs are sets of step sequences *)
Then(P, Q) == {p \o q : p \in P, q \in Q}
Maybe(P) == P \cup {<<>>}
One(p) == {p}

----------------------------------------------------------------------------
(* What services do, as the commands use them *)

Audit == <<Need, Save("audit")>>

(* Mutant: the new event is left to the next rebuild *)
CreateArtifactUnindexed == <<Need, Ask, Save("other"), Put("artifact")>>

(* ArtifactService.create: a source file is read before the first file is    *)
(* written; a text is there already                                          *)
CreateArtifact == <<Need, Ask, Save("other"), Put("artifact"), Rebuild>>
StoreText == <<Need, Save("other"), Put("artifact"), Rebuild>>
UpdateArtifact == <<Ask, Need, Load, Find("artifact"), Ask, Save("other"), Put("artifact"), Rebuild>>

(* ContextService: a lookup rebuilds first *)
LookupContext == <<Need, Rebuild, Load, Find("context")>>
UpdateContext == LookupContext \o <<Put("context"), Rebuild>>

(* Mutant: the report is written before the versions are checked *)
RecordRdeReportFirst == <<Need, Save("other"), Load, Find("artifact"), Ask, Put("rde")>>

(* RdeService.record ends without a rebuild *)
RecordRde == <<Need, Load, Find("artifact"), Ask, Save("other"), Put("rde")>>

(* ChronicleObjectService: derived objects come from the index files, which  *)
(* are rebuilt first; recorded ones from the log                            *)
RecordObject == <<Need, Put("object")>>
ListObjects == <<Need, Rebuild, Need, Load>>
DerivedObjects == Then({ListObjects}, {<<Find(k)>> : k \in {"artifact", "context", "decision", "rde"}})
GetObject == DerivedObjects \cup One(ListObjects \o <<FindLog("object")>>)

(* ReactionService *)
RecordReaction == <<Need, Put("reaction")>>
GetReaction == <<Need, FindLog("reaction")>>

(* OperationPlanService.build_artifact_update_plan: no root is required *)
BuildPlan == <<Load, Find("artifact")>>

(* SummaryJobService._create_draft_job *)
DraftJob == <<Need>> \o StoreText \o <<Need, Put("entry"), Rebuild, Save("job")>>

(* What a runtime command keeps of an answer: draft, artifact, record *)
KeepAnswer ==
  Then(Maybe({DraftJob}), Then(Maybe({StoreText}), Maybe({<<Need, Put("entry")>>})))

(* FederationPackageService.create_package on the user's directory; the key  *)
(* of the signature is looked up after the first files                       *)
CreatePackage == <<Need, Load, Need, Out, Out, Out, Ask, Out>> \o Audit

----------------------------------------------------------------------------
(* interfaces/cli *)

RootCommands == {<<Make, Put("entry"), Rebuild>>}

RecordCommands == {<<Need, Put("context"), Rebuild>>, <<Need, Put("entry")>>}

ReadCommands == {<<Need, Load>>}

ArtifactCommands ==
  {CreateArtifact, UpdateArtifact, <<Load, Find("artifact")>>, <<Need, Load>>}

ArtifactProposals ==
  {<<Need, Load, Find("artifact"), Ask, Put("proposal"), Rebuild>>,
   <<Need, FindLog("proposal"), Need, FindLog("proposal"), Ask>> \o UpdateArtifact}

DecisionCommands ==
  Then({<<Need>>}, Then(Maybe({<<Load, Find("artifact")>>}), {<<Put("decision"), Rebuild>>}))

RdeRecordCommand == {RecordRde}

RdeDraftCommand == Then({<<Need>>}, Maybe(Then({RecordRde}, Maybe({RecordObject}))))

ReactionCommands == {<<Ask>> \o RecordReaction, <<Need>>, GetReaction}

ObjectCommands == {RecordObject, ListObjects} \cup GetObject

BoundaryCommands ==
  {<<Need, Put("rule"), Rebuild>>, <<Need, Load>>, <<Need, Load, Find("context"), Need, Load>>}

IndexCommands == {<<Need, Rebuild>>}

InjectionCommands == Then({<<Need, Load, Need, Load>>}, Maybe({<<Need, Put("entry")>>}))

AiBoundaryCommands == Then({<<Ask, Need>>}, Maybe({<<Put("entry")>>}))

TrustCommands ==
  {<<Need, Save("other")>>, <<Need>>, <<Ask, Need, Save("relation")>> \o Audit,
   <<FindFile("relation"), Save("relation")>> \o Audit}

DoctorCommand == {<<Ask>>}

(* export and export profile: the view is built and then written *)
ExportCommand == Then({<<Ask, Need, Load>>}, Maybe({<<Out>>}))

DaemonCommands == {<<Need, Ask, Save("other")>>, <<Ask>>}

(* daemon prototype simulate: a dry run, or a commit that finds its key or not *)
SimulateCommand ==
  Then({<<Need, Ask>>}, Maybe({<<Put("entry"), Rebuild>> \o Audit}))

ContractCommands == {<<>>}

FederationPackageCreate == {<<Ask>> \o CreatePackage}

FederationPackageRead == {<<Ask>>}

FederationBoundary == {<<Need, Load>>, <<Ask>> \o Audit}

FederationMessages ==
  Then({<<Need, Ask, Save("message")>>}, Maybe({Audit \o <<Save("message")>>}))
    \cup {<<Need>>, <<Need, FindFile("message")>>}

----------------------------------------------------------------------------
(* The other command modules *)

ServerCommands == {<<Need, Ask>>, <<Ask>>}

(* The indexes of AI records are looked up against the log and every index *)
AiIndexCommands ==
  LET Known == {<<FindLog("entry")>>} \cup {<<Find(k)>> : k \in Indexed}
  IN  One(<<Need>>) \cup Then(Then({<<Ask, Need, Load>>}, Known), Maybe({<<Save("other")>>}))

AuditCommands == {Audit, <<Need>>, <<Need, FindFile("audit")>>}

LifecycleCommands == {<<Need, Save("mark")>>, <<Need>>, <<Need, FindFile("mark")>>}

ContextCheck == {<<Need, Load, Ask>>}

ClassificationCommands == {<<Need, Rebuild, Load>>, LookupContext, <<Ask>> \o UpdateContext}

ContextProposals ==
  {<<Need, Load, Find("context"), Ask, Put("proposal"), Rebuild>>,
   <<Need, FindLog("proposal"), Need, FindLog("proposal"), Ask>> \o UpdateContext}

(* export profile ends with an audit record that may fail silently *)
ProfileCommand == Then(Then({<<Need, Load>>}, Maybe({<<Out>>})), Maybe({Audit}))

GraphCommands == {<<Need, Load>>}

PlanPreviewCommand == Then({BuildPlan}, Maybe({<<Need, Put("plan"), Rebuild>>}))

PlanProposalCommand ==
  {BuildPlan \o BuildPlan \o <<Ask, Need, Load, Find("artifact"), Ask, Put("proposal"), Rebuild>>}

PlanReadCommands == {<<Need>>, <<Need, FindLog("plan")>>}

ReviewQueue == {<<Need>>}

ReviewDecisions ==
  {<<Need, FindLog(k), Need>> \o Audit \o <<Put("entry")>> : k \in {"proposal", "plan", "invocation"}}

SummaryCommands == {<<Ask>> \o DraftJob, <<Need>>, <<Need, FindFile("job")>>}

SummaryRun == Then({<<Need, FindFile("job"), Call>>}, KeepAnswer)

SummaryPlan == Then({<<Need, FindFile("job")>>}, Maybe({<<Need, Put("invocation")>>}))

(* package context: the package is kept, and then written where the user     *)
(* wants it                                                                  *)
ContextPackageCommand ==
  Then(Then({<<Need, Load>>}, Maybe({<<Need, Save("package")>> \o Audit})), Maybe({<<Out>>}))

QueryEngineAdapter == Then({<<Need, Load, Ask>>}, Maybe({<<Out>>}))

QueryEngineBundle == {<<Need, Load, Ask, Need, Load, Out, Out, Need, Load, Out, Out, Out, Out>>}

TrialCommands == {<<Ask, Need, Put("trial")>>, <<Need>>, <<Need, FindLog("trial")>>}

PackageReviewCommand == {<<Need, Load, Ask>>, <<Need, FindFile("package"), Ask>>}

PackageReadCommands == {<<Need>>, <<Need, FindFile("package")>>}

CapabilityCommands == {<<>>, <<Ask>>}

(* graphrag-rebuild, and ask, which rebuilds first when it is not ready *)
GraphRagCommands ==
  LET Replace == <<Need, Call, Save("other"), Save("other")>>
  IN  {<<>>, Replace} \cup Then(Then({<<Ask>>}, Maybe({Replace})), {<<Call, Call>>})

SummarizeCommand == Then({<<Ask, Call>>}, KeepAnswer)

RetrievePlanCommand == Then({<<Need, Load>>}, Maybe({<<Need, Put("entry")>>}))

InvokePlanCommand == Then({<<Ask>>}, Maybe({<<Need, Put("invocation")>>}))

ExecutePlanCommand == Then({<<FindLog("invocation"), Ask, Call>>}, KeepAnswer)

InvokeCommand == Then({<<Ask, Call>>}, KeepAnswer)

RuntimeConfigCommands == {<<>>, <<Need, Save("other")>>}

Programs ==
  UNION {RootCommands, RecordCommands, ReadCommands, ArtifactCommands, ArtifactProposals,
         DecisionCommands, RdeRecordCommand, RdeDraftCommand, ReactionCommands, ObjectCommands,
         BoundaryCommands, IndexCommands, InjectionCommands, AiBoundaryCommands, TrustCommands,
         DoctorCommand, ExportCommand, DaemonCommands, SimulateCommand, ContractCommands,
         FederationPackageCreate, FederationPackageRead, FederationBoundary, FederationMessages,
         ServerCommands, AiIndexCommands, AuditCommands, LifecycleCommands, ContextCheck,
         ClassificationCommands, ContextProposals, ProfileCommand, GraphCommands,
         PlanPreviewCommand, PlanProposalCommand, PlanReadCommands, ReviewQueue, ReviewDecisions,
         SummaryCommands, SummaryRun, SummaryPlan, ContextPackageCommand, QueryEngineAdapter,
         QueryEngineBundle, TrialCommands, PackageReviewCommand, PackageReadCommands,
         CapabilityCommands, GraphRagCommands, SummarizeCommand, RetrievePlanCommand,
         InvokePlanCommand, ExecutePlanCommand, InvokeCommand, RuntimeConfigCommands}

----------------------------------------------------------------------------
(* The root and the running commands *)

VARIABLES
  ready,     \* chronicle.yaml exists
  recorded,  \* events in the log, by kind
  index,     \* records the index files project, by kind
  torn,      \* an index file was truncated by a command that was killed
  files,     \* kinds of file that exist
  spoilt,    \* what in the log no rebuild can read: "no"thing, a "record", a "line"
  cmd,       \* what each process runs
  started, killed,  \* counters
  overlapped        \* history: two commands have run at the same time

root == <<ready, recorded, index, torn, files, spoilt>>
counters == <<started, killed, overlapped>>
commandVars == <<root, cmd, counters>>

None == [k \in RecordKinds |-> 0]
NoIndex == [k \in Indexed |-> 0]

(* rest: the steps to do, with the one that raised; new: what the command has *)
(* recorded or saved; snap: the events its rebuild has read; end: how it ended *)
Idle == [rest |-> <<>>, new |-> {}, snap |-> NoIndex, saving |-> FALSE, end |-> "idle"]

Running(p) == cmd[p].end = "run"
Due(p) == Head(cmd[p].rest)
At(p, do) == Running(p) /\ cmd[p].rest # <<>> /\ Due(p).do = do

Passed(p) == cmd' = [cmd EXCEPT ![p].rest = Tail(@)]
Wrote(p, k) == cmd' = [cmd EXCEPT ![p].rest = Tail(@), ![p].new = @ \cup {k}]
Raised(p, why) == cmd' = [cmd EXCEPT ![p].end = why]

IndexUnreadable == torn \/ \E p \in Procs : cmd[p].saving

Start(p) ==
  /\ ~Running(p) /\ started < MaxCommands
  /\ started' = started + 1
  /\ overlapped' = (overlapped \/ \E q \in Procs : Running(q))
  /\ \E program \in Programs : cmd' = [cmd EXCEPT ![p] = [Idle EXCEPT !.rest = program, !.end = "run"]]
  /\ UNCHANGED <<root, killed>>

Return(p) ==
  /\ Running(p) /\ cmd[p].rest = <<>>
  /\ cmd' = [cmd EXCEPT ![p] = [Idle EXCEPT !.end = "ok"]]
  /\ UNCHANGED <<root, counters>>

(* require_initialized *)
Require(p) ==
  /\ At(p, "need")
  /\ IF ready THEN Passed(p) ELSE Raised(p, "uninitialised")
  /\ UNCHANGED <<root, counters>>

(* A truncated file is not JSON; whether the command meets it is open *)
LoadIndex(p) ==
  /\ At(p, "load")
  /\ Passed(p) \/ (IndexUnreadable /\ Raised(p, "unreadable"))
  /\ UNCHANGED <<root, counters>>

(* An id of an indexed record, of one that no index shows, or of none *)
Lookup(p) ==
  LET k == Due(p).of IN
  /\ At(p, "find")
  /\ \/ index[k] > 0 /\ Passed(p)
     \/ index[k] < recorded[k] /\ Raised(p, "missed")
     \/ Raised(p, "unknown")
  /\ UNCHANGED <<root, counters>>

(* read_all raises on a line that is not UTF-8 *)
LookupEvent(p) ==
  /\ At(p, "search")
  /\ \/ spoilt = "line" /\ Raised(p, "unbuildable")
     \/ spoilt # "line" /\ ((recorded[Due(p).of] > 0 /\ Passed(p)) \/ Raised(p, "unknown"))
  /\ UNCHANGED <<root, counters>>

OpenFile(p) ==
  /\ At(p, "open")
  /\ (Due(p).of \in files /\ Passed(p)) \/ Raised(p, "unknown")
  /\ UNCHANGED <<root, counters>>

(* Options and statuses; a provider or a database; a path of the user *)
Depend(p) ==
  /\ \/ At(p, "ask") /\ (Passed(p) \/ Raised(p, "refused"))
     \/ (At(p, "call") \/ At(p, "out")) /\ (Passed(p) \/ Raised(p, "outside"))
  /\ UNCHANGED <<root, counters>>

AppendEvent(p) ==
  LET k == Due(p).of IN
  /\ At(p, "put")
  /\ recorded' = [recorded EXCEPT ![k] = @ + 1]
  /\ Wrote(p, k)
  /\ UNCHANGED <<ready, index, torn, files, spoilt, counters>>

SaveFile(p) ==
  /\ At(p, "save")
  /\ files' = files \cup {Due(p).of}
  /\ Wrote(p, Due(p).of)
  /\ UNCHANGED <<ready, recorded, index, torn, spoilt, counters>>

MakeRoot(p) ==
  /\ At(p, "make")
  /\ ready' = TRUE
  /\ Wrote(p, "root")
  /\ UNCHANGED <<recorded, index, torn, files, spoilt, counters>>

(* Every line is parsed and every last snapshot validated before the first   *)
(* index file is opened.                                                     *)
ReadRecords(p) ==
  /\ At(p, "rebuild") /\ ~cmd[p].saving
  /\ IF spoilt = "no"
     THEN cmd' = [cmd EXCEPT ![p].snap = [k \in Indexed |-> recorded[k]],
                             ![p].saving = TRUE]
     ELSE Raised(p, "unbuildable")
  /\ UNCHANGED <<root, counters>>

SaveIndexes(p) ==
  /\ At(p, "rebuild") /\ cmd[p].saving
  /\ index' = cmd[p].snap /\ torn' = FALSE
  /\ cmd' = [cmd EXCEPT ![p].rest = Tail(@), ![p].saving = FALSE, ![p].snap = NoIndex]
  /\ UNCHANGED <<ready, recorded, files, spoilt, counters>>

Kill(p) ==
  /\ Running(p) /\ killed < MaxKills
  /\ killed' = killed + 1
  /\ torn' = (torn \/ cmd[p].saving)
  /\ cmd' = [cmd EXCEPT ![p] = [Idle EXCEPT !.end = "killed"]]
  /\ UNCHANGED <<ready, recorded, index, files, spoilt, started, overlapped>>

(* The daemon appends the snapshot a request brings, whatever its shape; an  *)
(* append that is cut inside a character leaves a line that is not UTF-8.    *)
Spoil ==
  /\ ready /\ spoilt = "no"   \* bound: the first of these
  /\ spoilt' \in {"record", "line"}
  /\ UNCHANGED <<ready, recorded, index, torn, files, cmd, counters>>

----------------------------------------------------------------------------
(* No root, a root that init has made, a root with something of everything *)
CommandInit ==
  /\ \/ ready = FALSE /\ recorded = None /\ files = {}
     \/ ready = TRUE /\ recorded = [None EXCEPT !["entry"] = 1] /\ files = {}
     \/ ready = TRUE /\ recorded = [k \in RecordKinds |-> 1] /\ files = StoredKinds
  /\ index = [k \in Indexed |-> recorded[k]]
  /\ torn = FALSE /\ spoilt = "no"
  /\ cmd = [p \in Procs |-> Idle]
  /\ started = 0 /\ killed = 0 /\ overlapped = FALSE

Act(p) ==
  \/ Start(p) \/ Return(p) \/ Kill(p)
  \/ Require(p) \/ LoadIndex(p) \/ Lookup(p) \/ LookupEvent(p) \/ OpenFile(p) \/ Depend(p)
  \/ AppendEvent(p) \/ SaveFile(p) \/ MakeRoot(p) \/ ReadRecords(p) \/ SaveIndexes(p)

CommandNext == Spoil \/ \E p \in Procs : Act(p)

CommandSpec == CommandInit /\ [][CommandNext]_commandVars

----------------------------------------------------------------------------
(* Properties *)

(* handle_error prints the code and the message and exits with 1: the user    *)
(* takes the command not to have happened.  A command that ends with an error *)
(* has left nothing in the chronicle, whatever else runs on the root, unless  *)
(* it was something outside of it that failed, or the rebuild after its event *)
(* of a log that already held what no rebuild can read.                       *)
FailureIsClean ==
  \A p \in Procs :
    /\ cmd[p].end \in {"uninitialised", "unreadable", "missed", "unknown", "refused"} => cmd[p].new = {}
    /\ cmd[p].end = "unbuildable" /\ cmd[p].new # {} => Due(p).do = "rebuild" /\ spoilt # "no"

(* rebuild_indexes is left to each service, before it looks up or after it    *)
(* records, and rde record does neither.  Any other record of a command that  *)
(* has ended is found by the commands after it, as long as none ran at the    *)
(* same time, none was killed and the log can be rebuilt.                     *)
Missed(p) == cmd[p].end = "missed" \/ cmd[p].end = "unreadable"

FoundOnceRecorded ==
  ~overlapped /\ killed = 0 /\ spoilt = "no" => \A p \in Procs : ~(Missed(p) /\ Due(p).of # "rde")

(* docs/specs/chronicle-stack-basic-spec: the indexes follow the log.  An RDE *)
(* record is not in its index until some later command rebuilds.              *)
RdeFoundOnceRecorded ==
  ~overlapped /\ killed = 0 /\ spoilt = "no" => \A p \in Procs : ~Missed(p)
=============================================================================
