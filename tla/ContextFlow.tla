---------------------------- MODULE ContextFlow ----------------------------
(***************************************************************************)
(* Contexts on their way out of the project.  Commands add, classify and   *)
(* update contexts, add boundary rules and lifecycle markers; others read  *)
(* what the first have left in the indexes and in lifecycle.jsonl and make *)
(* of it a use check, a package, an AI boundary preview or an injection    *)
(* plan.  Editors rebuild the indexes before they load them; readers load  *)
(* them as they are.  No command takes a lock.                             *)
(*                                                                         *)
(* An index is the projection of a prefix of the log, so each index file   *)
(* is modelled by the length of the prefix it was built from.  Saving one  *)
(* index is one step here (ChronicleStore has the instant in which the     *)
(* file is empty, and torn lines in the log); what a package says of a     *)
(* context is ContextPolicy's.                                             *)
(***************************************************************************)
EXTENDS ContextPolicy, SequencesExt

CONSTANTS
  Procs,        \* commands that may run at once
  Ids,          \* contexts
  Texts,        \* texts a context may have: sets of patterns
  GivenLayers,  \* layers a person may assign
  GivenMarks,   \* lifecycle markers a person may record
  Rules,        \* boundary rules a person may add
  Fields,       \* the fields of each context, as a rule sees them
  Targets,      \* target environments of packages and checks
  Mixes,        \* sets of commands, one of which is in use
  MaxEvents,    \* bound: lines of the log
  MaxMarks,     \* bound: lines of lifecycle.jsonl
  MaxPackages,  \* bound: packages
  MaxCrashes    \* bound: commands that die half-way

Editors == {"add", "classify", "update", "rule"}
Readers == {"package", "preview", "plan"}
AllOps == Editors \cup Readers \cup {"mark", "review"}

ASSUME MixesAssumption == Mixes \subseteq SUBSET AllOps
ASSUME LayersAssumption == GivenLayers \subseteq Layers /\ GivenMarks \subseteq Actions
ASSUME BoundAssumption == {MaxEvents, MaxMarks, MaxPackages, MaxCrashes} \subseteq Nat

VARIABLES
  mix,        \* the commands in use
  log,        \* chronicle.jsonl: snapshots of contexts, rules, previews and plans
  ctxIndex,   \* the prefix of the log that contexts.json was built from
  ruleIndex,  \* the same for boundary_rules.json
  lifecycle,  \* lifecycle.jsonl: markers; one joined to a torn line is unreadable
  tornTail,   \* the last line of lifecycle.jsonl has lost its end
  decodes,    \* no line of it was cut inside a character
  packages,   \* .chronicle/packages: what each package's two files hold
  audit,      \* audit.jsonl: the packages it announces
  verdict,    \* what the last review of each package answered
  proc,       \* the local state of each command
  settled,    \* history: events whose command has ended as it should
  newest,     \* history: the longest prefix either index was ever built from
  crashes

indexes == <<ctxIndex, ruleIndex>>
marks == <<lifecycle, tornTail, decodes>>
outbox == <<packages, audit, verdict>>
vars == <<mix, log, indexes, marks, outbox, proc, settled, newest, crashes>>

(* A file is a sequence of at most one content *)
Missing == <<>>
NoPackage == [manifest |-> Missing, records |-> Missing]
Idle == [pc |-> "idle", op |-> "none", job |-> <<>>, got |-> <<>>]
PackageIds == 1 .. MaxPackages

----------------------------------------------------------------------------
(* What a prefix of the log says *)

Positions(kind, n) == {i \in 1 .. n : log[i].kind = kind}

SnapshotsOf(id, n) == {i \in Positions("context", n) : log[i].data.id = id}

LastOf(S) == CHOOSE i \in S : \A j \in S : j <= i

(* The contexts index built from the first n lines: the last snapshot of each *)
ContextsAt(n) == {log[LastOf(SnapshotsOf(id, n))].data : id \in {i \in Ids : SnapshotsOf(i, n) # {}}}

RulesAt(n) == {log[i].data : i \in Positions("rule", n)}

ContextAt(id, n) == CHOOSE c \in ContextsAt(n) : c.id = id
KnownAt(id, n) == SnapshotsOf(id, n) # {}

(* What the lines of lifecycle.jsonl say, to a reading that does not raise *)
Readable == {[target |-> m.target, action |-> m.action] : m \in {k \in Range(lifecycle) : k.ok}}

Stale == ctxIndex < newest \/ ruleIndex < newest

Writing == {p \in Procs : proc[p].op \in Editors \cup {"preview", "plan"}}

----------------------------------------------------------------------------
(* Beginning a command.  job: what it was asked to do, and for the history   *)
(* how long the log and the markers were; got: what it has read so far.      *)

Start(p, op, pc, job) ==
  /\ proc[p] = Idle /\ op \in mix
  /\ proc' = [proc EXCEPT ![p] = [pc |-> pc, op |-> op, job |-> job, got |-> <<>>]]
  /\ UNCHANGED <<mix, log, indexes, marks, outbox, settled, newest, crashes>>

Go(p, pc, got) == proc' = [proc EXCEPT ![p].pc = pc, ![p].got = got]
End(p) == proc' = [proc EXCEPT ![p] = Idle]

Room == Len(log) + Cardinality(Writing) < MaxEvents

(* A line of the log.  began, stale: of an edit, for the history *)
Line(kind, op, data, began, stale) ==
  [kind |-> kind, op |-> op, data |-> data, began |-> began, stale |-> stale]

(* ContextService.add_context appends at once, BoundaryService.add_rule too *)
BeginAdd(p) ==
  \E id \in Ids, text \in Texts :
    LET ctx == [id |-> id, text |-> text, cls |-> Classification(Unclassified), fields |-> Fields[id]] IN
    /\ Room /\ ~KnownAt(id, Len(log))
    /\ \A q \in Procs : proc[q].op = "add" => proc[q].job.data.id # id
    /\ Start(p, "add", "append", Line("context", "add", ctx, 0, FALSE))

BeginRule(p) ==
  \E r \in Rules : Room /\ Start(p, "rule", "append", Line("rule", "rule", r, 0, FALSE))

(* classify_context and update_context rebuild the indexes first *)
BeginClassify(p) ==
  \E id \in Ids, layer \in GivenLayers :
    Room /\ Start(p, "classify", "read", [id |-> id, layer |-> layer, began |-> Len(log)])

(* Mutant: an update edits the index as it finds it *)
BeginUpdateUnrebuilt(p) ==
  \E id \in Ids, text \in Texts :
    Room /\ Start(p, "update", "edit", [id |-> id, text |-> text, began |-> Len(log)])

BeginUpdate(p) ==
  \E id \in Ids, text \in Texts :
    Room /\ Start(p, "update", "read", [id |-> id, text |-> text, began |-> Len(log)])

(* The readers load what is there.  ids = {}: no --context was given.        *)
Selections == {{}} \cup {{id} : id \in Ids}

BeginPackage(p) ==
  \E ids \in Selections, target \in Targets, k \in PackageIds :
    /\ packages[k] = NoPackage
    /\ \A q \in Procs : proc[q].op = "package" => proc[q].job.pkg # k
    /\ Start(p, "package", "load",
             [ids |-> ids, target |-> target, pkg |-> k, marked |-> Len(lifecycle)])

BeginPreview(p) ==
  \E ids \in Selections : Room /\ Start(p, "preview", "load", [ids |-> ids])

BeginPlan(p) == Room /\ Start(p, "plan", "load", <<>>)

----------------------------------------------------------------------------
(* rebuild_indexes: the log is read once, then the indexes are saved one     *)
(* after the other, the contexts before the rules.  at: the line that the    *)
(* command has appended, 0 before it has.                                    *)

ReadLog(p) ==
  /\ proc[p].pc = "read"
  /\ Go(p, "save_contexts", [len |-> Len(log), at |-> IF proc[p].got = <<>> THEN 0 ELSE proc[p].got.at])
  /\ UNCHANGED <<mix, log, indexes, marks, outbox, settled, newest, crashes>>

SaveContexts(p) ==
  /\ proc[p].pc = "save_contexts"
  /\ ctxIndex' = proc[p].got.len
  /\ newest' = IF proc[p].got.len > newest THEN proc[p].got.len ELSE newest
  /\ Go(p, "save_rules", proc[p].got)
  /\ UNCHANGED <<mix, log, ruleIndex, marks, outbox, settled, crashes>>

(* The last save ends the command, or lets the editor load what it rebuilt *)
SaveRules(p) ==
  /\ proc[p].pc = "save_rules"
  /\ ruleIndex' = proc[p].got.len
  /\ IF proc[p].got.at > 0
     THEN End(p) /\ settled' = settled \cup {proc[p].got.at}
     ELSE Go(p, "edit", <<>>) /\ UNCHANGED settled
  /\ UNCHANGED <<mix, log, ctxIndex, marks, outbox, newest, crashes>>

(* The snapshot an edit makes of the context it loaded: a classification     *)
(* replaces the old one, an update of the text keeps it.                     *)
Edited(p, ctx) ==
  IF proc[p].op = "classify" THEN [ctx EXCEPT !.cls = Classification(proc[p].job.layer)]
                             ELSE [ctx EXCEPT !.text = proc[p].job.text]

(* The editor loads contexts.json; ContextNotFound ends the command *)
LoadForEdit(p) ==
  LET job == proc[p].job IN
  /\ proc[p].pc = "edit"
  /\ IF KnownAt(job.id, ctxIndex)
     THEN proc' = [proc EXCEPT ![p].pc = "append", ![p].job =
            Line("context", proc[p].op, Edited(p, ContextAt(job.id, ctxIndex)), job.began, Stale)]
     ELSE End(p)
  /\ UNCHANGED <<mix, log, indexes, marks, outbox, settled, newest, crashes>>

(* Mutant: a rule is recorded and left to the next rebuild *)
AppendRuleUnindexed(p) ==
  /\ proc[p].pc = "append"
  /\ log' = Append(log, proc[p].job)
  /\ IF proc[p].op \in Editors \ {"rule"}
     THEN /\ proc' = [proc EXCEPT ![p].pc = "read", ![p].job = <<>>, ![p].got = [at |-> Len(log) + 1]]
          /\ UNCHANGED settled
     ELSE End(p) /\ settled' = settled \cup {Len(log) + 1}
  /\ UNCHANGED <<mix, indexes, marks, outbox, newest, crashes>>

(* record_event, then the indexes are rebuilt; a preview or a plan that is   *)
(* recorded changes no index and ends here.                                  *)
AppendEvent(p) ==
  /\ proc[p].pc = "append"
  /\ log' = Append(log, proc[p].job)
  /\ IF proc[p].op \in Editors
     THEN /\ proc' = [proc EXCEPT ![p].pc = "read", ![p].job = <<>>, ![p].got = [at |-> Len(log) + 1]]
          /\ UNCHANGED settled
     ELSE End(p) /\ settled' = settled \cup {Len(log) + 1}
  /\ UNCHANGED <<mix, indexes, marks, outbox, newest, crashes>>

----------------------------------------------------------------------------
(* Readers *)

(* contexts.json, then (a plan) boundary_rules.json or (a package) the       *)
(* lifecycle markers.  known: what had ended when the reading began.         *)
LoadContexts(p) ==
  /\ proc[p].pc = "load"
  /\ Go(p, IF proc[p].op = "plan" THEN "rules" ELSE "build",
        [view |-> ctxIndex, stale |-> Stale, known |-> settled])
  /\ UNCHANGED <<mix, log, indexes, marks, outbox, settled, newest, crashes>>

BuildPlan(p) ==
  LET got == proc[p].got IN
  /\ proc[p].pc = "rules"
  /\ proc' = [proc EXCEPT ![p].pc = "append",
       ![p].job = Line("plan", "plan", InjectionPlan(ContextsAt(got.view), RulesAt(ruleIndex)), 0, FALSE),
       ![p].got = [got EXCEPT !.stale = got.stale \/ Stale]]
  /\ UNCHANGED <<mix, log, indexes, marks, outbox, settled, newest, crashes>>

(* LifecycleStore.read_all skips a line that does not parse, but a line that  *)
(* is not UTF-8 raises out of it and ends the command.                       *)
MarksRaise(p) ==
  /\ proc[p].pc = "build" /\ ~decodes
  /\ End(p)
  /\ UNCHANGED <<mix, log, indexes, marks, outbox, settled, newest, crashes>>

BuildPreview(p) ==
  /\ proc[p].pc = "build" /\ proc[p].op = "preview" /\ decodes
  /\ proc' = [proc EXCEPT ![p].pc = "append",
       ![p].job = Line("preview", "preview",
                       Preview(ContextsAt(proc[p].got.view), proc[p].job.ids, Readable), 0, FALSE),
       ![p].got = <<>>]
  /\ UNCHANGED <<mix, log, indexes, marks, outbox, settled, newest, crashes>>

BuildPackage(p) ==
  LET job == proc[p].job  got == proc[p].got
      asked == IF job.ids = {} THEN Ids ELSE job.ids
  IN
  /\ proc[p].pc = "build" /\ proc[p].op = "package" /\ decodes
  /\ Go(p, "manifest", [stale |-> got.stale, known |-> got.known,
           built |-> Package(ContextsAt(got.view), job.target, job.ids, asked, Readable)])
  /\ UNCHANGED <<mix, log, indexes, marks, outbox, settled, newest, crashes>>

Manifest(pkg) ==
  [target |-> pkg.target, output |-> pkg.output, warnings |-> pkg.warnings,
   refs |-> {r.id : r \in pkg.records}]

(* Mutant: the record file is written after the audit record *)
WriteManifestAlone(p) ==
  /\ proc[p].pc = "manifest"
  /\ packages' = [packages EXCEPT ![proc[p].job.pkg].manifest = <<Manifest(proc[p].got.built)>>]
  /\ Go(p, "audit", proc[p].got)
  /\ UNCHANGED <<mix, log, indexes, marks, audit, verdict, settled, newest, crashes>>

(* IntegrationPackageStore.save: manifest.json first, records.json second *)
WriteManifest(p) ==
  /\ proc[p].pc = "manifest"
  /\ packages' = [packages EXCEPT ![proc[p].job.pkg].manifest = <<Manifest(proc[p].got.built)>>]
  /\ Go(p, "records", proc[p].got)
  /\ UNCHANGED <<mix, log, indexes, marks, audit, verdict, settled, newest, crashes>>

WriteRecords(p) ==
  /\ proc[p].pc = "records"
  /\ packages' = [packages EXCEPT ![proc[p].job.pkg].records = <<proc[p].got.built.records>>]
  /\ Go(p, "audit", proc[p].got)
  /\ UNCHANGED <<mix, log, indexes, marks, audit, verdict, settled, newest, crashes>>

(* _record_package_audit, and the command ends *)
AuditPackage(p) ==
  /\ proc[p].pc = "audit"
  /\ audit' = audit \cup {proc[p].job.pkg}
  /\ End(p)
  /\ UNCHANGED <<mix, log, indexes, marks, packages, verdict, settled, newest, crashes>>

(* review_persisted_package: the manifest is listed, the records may not be  *)
(* there, and then the review fails.                                         *)
ReviewPackage(p) ==
  /\ proc[p] = Idle /\ "review" \in mix
  /\ \E k \in PackageIds :
       /\ packages[k].manifest # Missing
       /\ verdict' = [verdict EXCEPT ![k] =
            IF packages[k].records = Missing THEN "unreadable"
            ELSE ReviewStatus([warnings |-> packages[k].manifest[1].warnings,
                               records |-> packages[k].records[1]])]
  /\ UNCHANGED <<mix, log, indexes, marks, packages, audit, proc, settled, newest, crashes>>

----------------------------------------------------------------------------
(* Markers and failures *)

(* LifecycleStore.append: behind a line that lost its end, the new one is    *)
(* joined to it and neither can be read.                                     *)
Mark(p) ==
  /\ proc[p] = Idle /\ "mark" \in mix /\ Len(lifecycle) < MaxMarks
  /\ \E id \in Ids, a \in GivenMarks :
       lifecycle' = Append(lifecycle, [target |-> id, action |-> a, ok |-> ~tornTail, ended |-> TRUE])
  /\ tornTail' = FALSE
  /\ UNCHANGED <<decodes, mix, log, indexes, outbox, proc, settled, newest, crashes>>

(* The command dies inside the write, between two characters or inside one *)
MarkTorn(p) ==
  /\ proc[p] = Idle /\ "mark" \in mix /\ Len(lifecycle) < MaxMarks
  /\ crashes < MaxCrashes /\ crashes' = crashes + 1
  /\ \E id \in Ids, a \in GivenMarks :
       lifecycle' = Append(lifecycle, [target |-> id, action |-> a, ok |-> FALSE, ended |-> FALSE])
  /\ tornTail' = TRUE /\ decodes' \in {decodes, FALSE}
  /\ UNCHANGED <<mix, log, indexes, outbox, proc, settled, newest>>

(* A command dies between two of its steps; nothing takes its work up *)
Crash(p) ==
  /\ proc[p] # Idle
  /\ crashes < MaxCrashes /\ crashes' = crashes + 1
  /\ End(p)
  /\ UNCHANGED <<mix, log, indexes, marks, outbox, settled, newest>>

----------------------------------------------------------------------------

Init ==
  /\ mix \in Mixes
  /\ log = <<>> /\ ctxIndex = 0 /\ ruleIndex = 0
  /\ lifecycle = <<>> /\ tornTail = FALSE /\ decodes = TRUE
  /\ packages = [k \in PackageIds |-> NoPackage]
  /\ audit = {} /\ verdict = [k \in PackageIds |-> "none"]
  /\ proc = [p \in Procs |-> Idle]
  /\ settled = {} /\ newest = 0 /\ crashes = 0

Step(p) ==
  \/ ReadLog(p) \/ SaveContexts(p) \/ SaveRules(p) \/ LoadForEdit(p) \/ AppendEvent(p)
  \/ LoadContexts(p) \/ BuildPlan(p) \/ BuildPreview(p) \/ BuildPackage(p) \/ MarksRaise(p)
  \/ WriteManifest(p) \/ WriteRecords(p) \/ AuditPackage(p)

Begin(p) ==
  \/ BeginAdd(p) \/ BeginRule(p) \/ BeginClassify(p) \/ BeginUpdate(p)
  \/ BeginPackage(p) \/ BeginPreview(p) \/ BeginPlan(p)
  \/ Mark(p) \/ MarkTorn(p) \/ ReviewPackage(p)

Next == \E p \in Procs : Begin(p) \/ Step(p) \/ Crash(p)

Spec == Init /\ [][Next]_vars

----------------------------------------------------------------------------
(* Properties *)

Snapshots == Positions("context", Len(log))

Previous(i) == SnapshotsOf(log[i].data.id, i - 1)

(* An edit changes its own part of a context and keeps the rest, although it *)
(* writes the whole of it: what it loses was written after it began, or an   *)
(* older rebuild had put the index back.                                     *)
EditKeepsTheRest ==
  \A i \in {k \in Snapshots : log[k].op \in {"classify", "update"}} :
    LET last == LastOf(Previous(i)) IN
    last <= log[i].began /\ ~log[i].stale =>
      IF log[i].op = "update" THEN log[i].data.cls = log[last].data.cls
                              ELSE log[i].data.text = log[last].data.text

Packaging == {p \in Procs : proc[p].pc \in {"manifest", "records", "audit"}}

IsSecret(ctx) == ctx.cls.layer = RestrictedSecret

(* Once a command that made a context a restricted secret has ended, no      *)
(* package carries its body, for either target, unless a later command took  *)
(* the layer away or an older rebuild had put the index back.  The dry-run   *)
(* check of the same contexts blocks whenever the package withholds a body.  *)
RestrictedStaysOut ==
  /\ \A p \in Packaging : ~proc[p].got.stale =>
       \A r \in proc[p].got.built.records : r.body =>
         \A i \in proc[p].got.known \cap Snapshots :
           log[i].data.id = r.id /\ IsSecret(log[i].data) =>
             \E j \in Snapshots : j > i /\ log[j].data.id = r.id /\ ~IsSecret(log[j].data)
  /\ \A p \in Procs : proc[p].pc = "build" /\ proc[p].op = "package" =>
       LET job == proc[p].job  ctxs == ContextsAt(proc[p].got.view) IN
       (\E r \in Package(ctxs, job.target, job.ids, Ids, Readable).records : ~r.body) =>
         UseCheck(ctxs, job.ids, job.target) = "blocked"

(* A marker that was acknowledged before a package was begun hides its       *)
(* target from it.  Only a marker written behind a torn line is lost, and    *)
(* one such line costs one marker as long as none was cut inside a           *)
(* character; once one was, no package is built any more.                    *)
HiddenStaysHidden ==
  /\ \A p \in Packaging, i \in DOMAIN lifecycle :
       /\ i <= proc[p].job.marked
       /\ lifecycle[i].ended /\ lifecycle[i].action \in {"tombstone", "hard_delete"}
       /\ \E r \in proc[p].got.built.records : r.id = lifecycle[i].target
       => i > 1 /\ ~lifecycle[i - 1].ended
  /\ decodes => Cardinality({i \in DOMAIN lifecycle : lifecycle[i].ended /\ ~lifecycle[i].ok}) <= crashes

(* What was restricted or hidden before a package was begun is not in it.    *)
PackagesKeepSecrets == RestrictedStaysOut /\ HiddenStaysHidden

(* A package for an external target whose review does not stop the handoff   *)
(* holds no record of a sensitive layer, whatever its contexts became since. *)
ReviewStopsSensitive ==
  \A k \in PackageIds : verdict[k] \in {"pass", "warning"} /\ packages[k].manifest[1].target = "external" =>
    \A r \in packages[k].records[1] : r.layer < SensitiveContext

(* A package that the audit log announces has both its files and they agree. *)
(* One that is listed and cannot be read is being written, or its command    *)
(* died.                                                                     *)
PackageFilesComplete ==
  \A k \in PackageIds :
    LET pkg == packages[k] IN
    /\ k \in audit => pkg.manifest # Missing /\ pkg.records # Missing
    /\ pkg.records # Missing => pkg.manifest # Missing /\ pkg.manifest[1].refs = {r.id : r \in pkg.records[1]}
    /\ pkg.manifest # Missing /\ pkg.records = Missing =>
         crashes > 0 \/ \E p \in Packaging : proc[p].job.pkg = k

(* A plan never selects a context that an exclude rule matches, once the     *)
(* command that added the rule has ended: the rules are read after the       *)
(* contexts, and the rules are the last index that a rebuild saves.          *)
PlanObeysRules ==
  \A p \in Procs : proc[p].op = "plan" /\ proc[p].pc = "append" /\ ~proc[p].got.stale =>
    \A i \in proc[p].got.known \cap Positions("rule", Len(log)) :
      log[i].data.type = "exclude" =>
        \A c \in ContextsAt(proc[p].got.view) :
          RuleMatches(log[i].data, c) => c.id \notin proc[p].job.data.selected
=============================================================================
