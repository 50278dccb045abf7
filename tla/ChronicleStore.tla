--------------------------- MODULE ChronicleStore ---------------------------
(***************************************************************************)
(* The file store under .chronicle/ and the services that write it: the    *)
(* primary record chronicle.jsonl, metadata.yaml, the five derived index   *)
(* files, and the artifact files.  Several processes (CLI commands, the UI *)
(* server, the daemon's threads) share the files and take no lock.         *)
(*                                                                         *)
(* One operation of a service is a sequence of file system steps; each     *)
(* step is one action, so operations of two processes interleave between   *)
(* any two of them and a process may die between any two of them.          *)
(*                                                                         *)
(* Data is abstracted to identity.  generate_id draws a uuid4; here every  *)
(* operation takes the next number, which names its event and, when it     *)
(* creates one, its object and its version (ids of different kinds carry   *)
(* different prefixes in the code and are never confused).                 *)
(***************************************************************************)
EXTENDS Naturals, Sequences, FiniteSets

CONSTANTS
  Procs,      \* the processes and threads that call the services
  Ops,        \* the operations they may call, a subset of AllOps
  NewStore,   \* TRUE to begin in an empty directory
  MaxOps,     \* bound: operations started in a behaviour
  MaxTorn,    \* bound: appends cut short by the file system
  MaxCrash    \* bound: deaths of a process in the middle of an operation

AllOps == {"init", "record", "add_context", "update_context", "add_rule",
           "create", "update", "decision", "rde", "rebuild"}

ASSUME OpsAssumption == Ops \subseteq AllOps /\ NewStore \in BOOLEAN
ASSUME BoundAssumption == MaxOps \in Nat \ {0} /\ MaxTorn \in Nat /\ MaxCrash \in Nat

Ids == 1 .. MaxOps

(* The derived index files, in the order rebuild_indexes saves them. *)
IndexFiles == <<"artifacts", "contexts", "decisions", "rde", "rules">>
IndexNames == {IndexFiles[i] : i \in 1 .. 5}

(* The event types that each index file projects *)
KindsOf ==
  [artifacts |-> {"created_artifact", "versioned"}, contexts |-> {"context"},
   decisions |-> {"decision"}, rde |-> {"rde"}, rules |-> {"rule"}]

Kinds == {"chronicle", "note", "context", "rule", "created_artifact",
          "versioned", "decision", "rde"}

(***************************************************************************)
(* An event: its kind and id, the chronicle id it was stamped with, the    *)
(* object its payload snapshots, the ids of the records it refers to       *)
(* (parent version, decided artifact, compared versions, base snapshot),   *)
(* and for an RDE record the version it leads to (else 0).                 *)
(***************************************************************************)
Event == [kind : Kinds, id : Ids, cid : Ids, obj : Ids, refs : SUBSET Ids,
          to : 0 .. MaxOps]

(***************************************************************************)
(* A line that is no event: one that does not parse, and one whose bytes    *)
(* are not UTF-8, because its append was cut inside a character.            *)
(***************************************************************************)
Corrupt == [kind |-> "corrupt", id |-> 0, cid |-> 0, obj |-> 0, refs |-> {}, to |-> 0]
Undecodable == [Corrupt EXCEPT !.kind = "undecodable"]
Broken == {Corrupt, Undecodable}
Line == Event \cup Broken

NoEvent == Corrupt

VARIABLES
  log,      \* chronicle.jsonl: its lines
  open,     \* TRUE when the last line has no newline
  exists,   \* chronicle.jsonl has been created
  meta,     \* metadata.yaml: 0 absent or truncated, else the chronicle id
  idx,      \* the index files
  cur,      \* current.md of each artifact: the version whose body it holds
  vfile,    \* <artifact>/versions/<id>.md: "absent", "partial" or "whole"
  report,   \* reports/<rde id>.md, likewise
  proc,     \* the local state of each process
  next,     \* the id the next operation takes
  acked,    \* ids of the events whose append returned to its caller
  torn, crashes

files == <<log, open, exists, meta, idx, cur, vfile, report>>
counts == <<next, acked, torn, crashes>>
vars == <<files, proc, counts>>

(***************************************************************************)
(* A process between operations, and in the middle of one: where it is, the *)
(* operation it runs, the event it has prepared, the events its rebuild has *)
(* read and the index file its rebuild saves next.                          *)
(***************************************************************************)
Idle == [pc |-> "idle", op |-> "rebuild", evt |-> NoEvent, snap |-> <<>>, todo |-> 1]

----------------------------------------------------------------------------
(* Reading the files *)

(* The file is read as UTF-8 text: one line that is not stops the iteration *)
(* with a UnicodeDecodeError, which no except clause around a line catches.  *)
Decodes(lines) == \A i \in 1 .. Len(lines) : lines[i] # Undecodable

(* JsonlStore.read_all(skip_corrupt=True), when the file decodes: the lines  *)
(* that parse                                                                *)
ReadAll(lines) == {i \in 1 .. Len(lines) : lines[i] \notin Broken}

Relevant(f, lines) == {i \in ReadAll(lines) : lines[i].kind \in KindsOf[f]}

(***************************************************************************)
(* IndexProjectionBuilder.build: an object's entry is the last snapshot of *)
(* it in the log; the artifact index also keeps all versions, each with    *)
(* the last RDE record that leads to it, every other index only the last   *)
(* snapshot.                                                               *)
(***************************************************************************)
LastOf(k, lines, is) ==
  CHOOSE i \in is : lines[i].obj = k /\ \A j \in is : lines[j].obj = k => j <= i

(* _attach_rde_record_ids: the versions vs with their RDE records *)
Attached(vs, lines) ==
  LET is == {i \in Relevant("rde", lines) : lines[i].to \in vs}
  IN  {<<lines[i].to, lines[i].id>> :
         i \in {j \in is : \A k \in is : lines[k].to = lines[j].to => k <= j}}

Project(f, lines) ==
  LET is == Relevant(f, lines)
      Kept(k) == {lines[i].id : i \in {j \in is : lines[j].obj = k}}
      Last(k) == lines[LastOf(k, lines, is)].id
  IN  [k \in {lines[i].obj : i \in is} |->
         IF f = "artifacts"
           THEN [latest |-> Last(k), kept |-> Kept(k), rde |-> Attached(Kept(k), lines)]
           ELSE [latest |-> Last(k), kept |-> {Last(k)}, rde |-> {}]]

(* IndexStore.load_*: a missing file is an empty index, a truncated or      *)
(* garbled one raises JSONDecodeError.                                      *)
Loadable(f) == idx[f].state \in {"absent", "whole"}
Load(f) == idx[f].map

(* current_version_id of an artifact, the latest snapshot of a context *)
Latest(f, k) == Load(f)[k].latest

(* ChronicleService.require_initialized *)
Initialized == exists /\ meta # 0

(* ArtifactStore.version_exists: path.exists(), whatever the file holds *)
VersionExists(a, v) == vfile[a][v] # "absent"

----------------------------------------------------------------------------
(* Beginning an operation: everything up to its first write *)

Begin(p, o, where, e) ==
  /\ o \in Ops
  /\ proc[p].pc = "idle"
  /\ next \in Ids
  /\ proc' = [proc EXCEPT ![p] = [Idle EXCEPT !.pc = where, !.op = o, !.evt = e]]
  /\ next' = next + 1
  /\ UNCHANGED <<acked, torn, crashes>>

NewEvent(kind, obj, refs) ==
  [kind |-> kind, id |-> next, cid |-> meta, obj |-> obj, refs |-> refs, to |-> 0]

(* ChronicleService.init opens metadata.yaml for writing, which truncates it *)
BeginInit(p) ==
  /\ Begin(p, "init", "meta", [NewEvent("chronicle", next, {}) EXCEPT !.cid = next])
  /\ meta' = 0
  /\ UNCHANGED <<log, open, exists, idx, cur, vfile, report>>

(* chronicle record, ContextService.add_context, BoundaryService.add_rule *)
BeginRecord(p) ==
  /\ Initialized
  /\ \/ Begin(p, "record", "append", NewEvent("note", next, {}))
     \/ Begin(p, "add_context", "append", NewEvent("context", next, {}))
     \/ Begin(p, "add_rule", "append", NewEvent("rule", next, {}))
  /\ UNCHANGED files

(* ArtifactService.create *)
BeginCreate(p) ==
  /\ Initialized
  /\ Begin(p, "create", "current", NewEvent("created_artifact", next, {}))
  /\ UNCHANGED files

(* Mutant: the parent is the version that current.md holds *)
BeginUpdateFromFile(p) ==
  /\ Initialized
  /\ Loadable("artifacts")
  /\ \E a \in {b \in DOMAIN Load("artifacts") : cur[b] # 0} :
       Begin(p, "update", "current", NewEvent("versioned", a, {cur[a]}))
  /\ UNCHANGED files

(* ArtifactService.update: the parent is the current version in the index,  *)
(* which is loaded without a rebuild.                                       *)
BeginUpdate(p) ==
  /\ Initialized
  /\ Loadable("artifacts")
  /\ \E a \in DOMAIN Load("artifacts") :
       Begin(p, "update", "current",
             NewEvent("versioned", a, {Latest("artifacts", a)}))
  /\ UNCHANGED files

(* DecisionService.record: with or without a target artifact *)
BeginDecision(p) ==
  /\ Initialized
  /\ \/ Begin(p, "decision", "append", NewEvent("decision", next, {}))
     \/ /\ Loadable("artifacts")
        /\ \E a \in DOMAIN Load("artifacts") :
             Begin(p, "decision", "append", NewEvent("decision", next, {a}))
  /\ UNCHANGED files

(* RdeService.record: the artifact is looked up in the index, the two       *)
(* versions by the existence of their files.                                *)
BeginRde(p) ==
  /\ Initialized
  /\ Loadable("artifacts")
  /\ \E a \in DOMAIN Load("artifacts"), v, w \in Ids :
       /\ VersionExists(a, v) /\ VersionExists(a, w)
       /\ Begin(p, "rde", "report", [NewEvent("rde", next, {a, v, w}) EXCEPT !.to = w])
  /\ UNCHANGED files

(* Mutant: update_context trusts the index it finds *)
BeginRebuildNot(p) ==
  /\ Initialized
  /\ \/ Begin(p, "update_context", "load", NewEvent("context", next, {}))
     \/ Begin(p, "rebuild", "read", NoEvent)
  /\ UNCHANGED files

(* ContextService.update_context and classify_context rebuild first; so does *)
(* get_context, which is chronicle index rebuild followed by a load.         *)
BeginRebuild(p) ==
  /\ Initialized
  /\ \/ Begin(p, "update_context", "read", NewEvent("context", next, {}))
     \/ Begin(p, "rebuild", "read", NoEvent)
  /\ UNCHANGED files

----------------------------------------------------------------------------
(* The steps of an operation *)

Goto(p, where) ==
  proc' = [proc EXCEPT ![p] = IF where = "idle" THEN Idle ELSE [@ EXCEPT !.pc = where]]

(* init: the rest of metadata_file.write_text *)
WriteMeta(p) ==
  /\ proc[p].pc = "meta"
  /\ meta' = proc[p].evt.cid
  /\ Goto(p, "touch")
  /\ UNCHANGED <<log, open, exists, idx, cur, vfile, report, counts>>

(* init: events_file.touch() *)
TouchLog(p) ==
  /\ proc[p].pc = "touch"
  /\ exists' = TRUE
  /\ Goto(p, "append")
  /\ UNCHANGED <<log, open, meta, idx, cur, vfile, report, counts>>

(* Mutant: no snapshot of the version *)
WriteCurrentOnly(p) ==
  /\ proc[p].pc = "current"
  /\ cur' = [cur EXCEPT ![proc[p].evt.obj] = proc[p].evt.id]
  /\ Goto(p, "append")
  /\ UNCHANGED <<log, open, exists, meta, idx, vfile, report, counts>>

(* ArtifactStore.create_artifact_files, update_artifact_files: current.md ... *)
WriteCurrent(p) ==
  /\ proc[p].pc = "current"
  /\ cur' = [cur EXCEPT ![proc[p].evt.obj] = proc[p].evt.id]
  /\ Goto(p, "version")
  /\ UNCHANGED <<log, open, exists, meta, idx, vfile, report, counts>>

(* ... and then the version's snapshot *)
WriteVersion(p) ==
  /\ proc[p].pc = "version"
  /\ vfile' = [vfile EXCEPT ![proc[p].evt.obj][proc[p].evt.id] = "whole"]
  /\ Goto(p, "append")
  /\ UNCHANGED <<log, open, exists, meta, idx, cur, report, counts>>

(* RdeService.record writes its report before it appends the event *)
WriteReport(p) ==
  /\ proc[p].pc = "report"
  /\ report' = [report EXCEPT ![proc[p].evt.id] = "whole"]
  /\ Goto(p, "append")
  /\ UNCHANGED <<log, open, exists, meta, idx, cur, vfile, counts>>

(* update_context, after its rebuild: load the index and prepare the new     *)
(* snapshot from the latest one.                                             *)
LoadContext(p) ==
  /\ proc[p].pc = "load"
  /\ \/ /\ Loadable("contexts")
        /\ \E c \in DOMAIN Load("contexts") :
             proc' = [proc EXCEPT ![p].pc = "append", ![p].evt.obj = c,
                                  ![p].evt.refs = {Latest("contexts", c)}]
     \/ Goto(p, "idle")      \* ContextNotFoundError, or the index is unreadable
  /\ UNCHANGED <<files, counts>>

(* record_event stamps the chronicle id it reads now; artifact and decision  *)
(* events were stamped when the operation began, and init stamps its own.    *)
Stamped(p) ==
  IF proc[p].op \in {"record", "add_context", "update_context", "add_rule", "rde"}
    THEN [proc[p].evt EXCEPT !.cid = meta] ELSE proc[p].evt

(* rde record and chronicle record leave the indexes alone *)
AfterAppend(p) == IF proc[p].op \in {"record", "rde"} THEN "idle" ELSE "read"

(* A line written after an unterminated one continues that line, and the     *)
(* two together are the event of neither; bytes that were not UTF-8 stay so. *)
Glue == [log EXCEPT ![Len(log)] = IF @ = Undecodable THEN Undecodable ELSE Corrupt]

(* Mutant: the newline is written before the line, not after it *)
AppendEventUnended(p) ==
  /\ proc[p].pc = "append"
  /\ proc[p].op = "init" \/ Initialized
  /\ \/ open /\ log' = Glue
     \/ ~open /\ log' = Append(log, Stamped(p))
  /\ open' = TRUE
  /\ exists' = TRUE
  /\ acked' = acked \cup {proc[p].evt.id}
  /\ Goto(p, AfterAppend(p))
  /\ UNCHANGED <<meta, idx, cur, vfile, report, next, torn, crashes>>

(* JsonlStore.append *)
AppendEvent(p) ==
  /\ proc[p].pc = "append"
  /\ proc[p].op = "init" \/ Initialized
  /\ \/ open /\ log' = Glue
     \/ ~open /\ log' = Append(log, Stamped(p))
  /\ open' = FALSE
  /\ exists' = TRUE
  /\ acked' = acked \cup {proc[p].evt.id}
  /\ Goto(p, AfterAppend(p))
  /\ UNCHANGED <<meta, idx, cur, vfile, report, next, torn, crashes>>

(* append_event and record_event call require_initialized again: a           *)
(* concurrent init has truncated metadata.yaml.                              *)
AppendRejected(p) ==
  /\ proc[p].pc = "append"
  /\ proc[p].op # "init" /\ ~Initialized
  /\ Goto(p, "idle")
  /\ UNCHANGED <<files, counts>>

(* The write is cut short (disk full): part of the line, which may end       *)
(* inside a character, or all of it but the newline, reaches the file and    *)
(* the caller gets an error.                                                 *)
AppendTorn(p) ==
  /\ proc[p].pc = "append"
  /\ proc[p].op = "init" \/ Initialized
  /\ torn < MaxTorn
  /\ torn' = torn + 1
  /\ \/ open /\ log' \in {Glue, [log EXCEPT ![Len(log)] = Undecodable]}
     \/ ~open /\ log' \in {Append(log, l) : l \in Broken \cup {Stamped(p)}}
  /\ open' = TRUE
  /\ exists' = TRUE
  /\ Goto(p, "idle")
  /\ UNCHANGED <<meta, idx, cur, vfile, report, next, acked, crashes>>

----------------------------------------------------------------------------
(* ChronicleService.rebuild_indexes *)

(* Mutant: only the newest event is projected *)
ReadLogNewest(p) ==
  /\ proc[p].pc = "read"
  /\ Decodes(log)
  /\ proc' = [proc EXCEPT ![p].pc = "truncate", ![p].todo = 1,
                          ![p].snap = IF log = <<>> THEN log ELSE <<log[Len(log)]>>]
  /\ UNCHANGED <<files, counts>>

(* jsonl.read_all *)
ReadLog(p) ==
  /\ proc[p].pc = "read"
  /\ Decodes(log)
  /\ proc' = [proc EXCEPT ![p].pc = "truncate", ![p].snap = log, ![p].todo = 1]
  /\ UNCHANGED <<files, counts>>

(* jsonl.read_all raises, and with it the operation, appended event or not *)
ReadLogRaises(p) ==
  /\ proc[p].pc = "read"
  /\ ~Decodes(log)
  /\ Goto(p, "idle")
  /\ UNCHANGED <<files, counts>>

NoMap == [k \in {} |-> {}]

(* IndexStore.save_*: write_text opens the file, which truncates it ... *)
TruncateIndex(p) ==
  /\ proc[p].pc = "truncate"
  /\ idx' = [idx EXCEPT ![IndexFiles[proc[p].todo]] = [state |-> "empty", map |-> NoMap]]
  /\ Goto(p, "write")
  /\ UNCHANGED <<log, open, exists, meta, cur, vfile, report, counts>>

(* update_context has rebuilt once and has not chosen its context yet *)
NeedsLoad(p) == proc[p].op = "update_context" /\ proc[p].evt.refs = {}

(* Mutant: one file too few *)
MoreIndexesShort(p) == proc[p].todo < Len(IndexFiles) - 1

(* index files that rebuild_indexes has still to save after this one *)
MoreIndexes(p) == proc[p].todo < Len(IndexFiles)

(* ... and then writes from offset 0.  If another process has written the   *)
(* file since this one truncated it, a longer text of the other's may stick  *)
(* out behind this one's and the file is garbled.                            *)
WriteIndex(p) ==
  LET f == IndexFiles[proc[p].todo]
      mine == [state |-> "whole", map |-> Project(f, proc[p].snap)]
  IN  /\ proc[p].pc = "write"
      /\ \E new \in IF idx[f] = mine \/ idx[f].state = "empty" THEN {mine}
                     ELSE {mine, [state |-> "garbled", map |-> NoMap]} :
           idx' = [idx EXCEPT ![f] = new]
      /\ IF MoreIndexes(p)
           THEN proc' = [proc EXCEPT ![p].pc = "truncate", ![p].todo = @ + 1]
           ELSE Goto(p, IF NeedsLoad(p) THEN "load" ELSE "idle")
      /\ UNCHANGED <<log, open, exists, meta, cur, vfile, report, counts>>

----------------------------------------------------------------------------
(* The process dies: killed, or a server's request thread at shutdown.  What *)
(* it was writing stays as it is; write_text may have truncated only.        *)
Crash(p) ==
  /\ proc[p].pc # "idle"
  /\ crashes < MaxCrash
  /\ crashes' = crashes + 1
  /\ Goto(p, "idle")
  /\ \/ UNCHANGED <<cur, vfile, report>>
     \/ /\ proc[p].pc = "current"
        /\ cur' = [cur EXCEPT ![proc[p].evt.obj] = 0]
        /\ UNCHANGED <<vfile, report>>
     \/ /\ proc[p].pc = "version"
        /\ vfile' = [vfile EXCEPT ![proc[p].evt.obj][proc[p].evt.id] = "partial"]
        /\ UNCHANGED <<cur, report>>
     \/ /\ proc[p].pc = "report"
        /\ report' = [report EXCEPT ![proc[p].evt.id] = "partial"]
        /\ UNCHANGED <<cur, vfile>>
  /\ UNCHANGED <<log, open, exists, meta, idx, next, acked, torn>>

----------------------------------------------------------------------------
BeginOp(p) ==
  \/ BeginInit(p) \/ BeginRecord(p) \/ BeginCreate(p) \/ BeginUpdate(p)
  \/ BeginDecision(p) \/ BeginRde(p) \/ BeginRebuild(p)

Step(p) ==
  \/ WriteMeta(p) \/ TouchLog(p) \/ WriteCurrent(p) \/ WriteVersion(p)
  \/ WriteReport(p) \/ LoadContext(p) \/ AppendEvent(p) \/ AppendRejected(p)
  \/ ReadLog(p) \/ ReadLogRaises(p) \/ TruncateIndex(p) \/ WriteIndex(p)

Next == \E p \in Procs : BeginOp(p) \/ Step(p) \/ AppendTorn(p) \/ Crash(p)

(* An empty directory, or the state a completed init leaves behind *)
Created == [kind |-> "chronicle", id |-> 1, cid |-> 1, obj |-> 1, refs |-> {}, to |-> 0]

Init ==
  /\ \/ /\ NewStore
        /\ log = <<>> /\ exists = FALSE /\ meta = 0 /\ next = 1 /\ acked = {}
        /\ idx = [f \in IndexNames |-> [state |-> "absent", map |-> NoMap]]
     \/ /\ ~NewStore
        /\ log = <<Created>> /\ exists = TRUE /\ meta = 1 /\ next = 2 /\ acked = {1}
        /\ idx = [f \in IndexNames |-> [state |-> "whole", map |-> NoMap]]
  /\ open = FALSE
  /\ cur = [a \in Ids |-> 0]
  /\ vfile = [a \in Ids |-> [v \in Ids |-> "absent"]]
  /\ report = [r \in Ids |-> "absent"]
  /\ proc = [p \in Procs |-> Idle]
  /\ torn = 0 /\ crashes = 0

Spec == Init /\ [][Next]_vars

----------------------------------------------------------------------------
(* Properties *)

IsIndex(x) ==
  /\ x.state \in {"absent", "empty", "garbled", "whole"}
  /\ DOMAIN x.map \subseteq Ids
  /\ \A k \in DOMAIN x.map : x.map[k] \in [latest : Ids, kept : SUBSET Ids, rde : SUBSET (Ids \X Ids)]

Proc == [pc : {"idle", "meta", "touch", "current", "version", "report", "append",
               "load", "read", "truncate", "write"},
         op : AllOps, evt : Line, snap : Seq(Line), todo : 1 .. 5]

(* The values the files and the processes take. *)
TypeOK ==
  /\ log \in Seq(Line)
  /\ open \in BOOLEAN /\ exists \in BOOLEAN
  /\ meta \in 0 .. MaxOps
  /\ DOMAIN idx = IndexNames /\ \A f \in IndexNames : IsIndex(idx[f])
  /\ cur \in [Ids -> 0 .. MaxOps]
  /\ vfile \in [Ids -> [Ids -> {"absent", "partial", "whole"}]]
  /\ report \in [Ids -> {"absent", "partial", "whole"}]
  /\ proc \in [Procs -> Proc]
  /\ next \in 1 .. MaxOps + 1
  /\ acked \in SUBSET Ids
  /\ torn \in 0 .. MaxTorn /\ crashes \in 0 .. MaxCrash

IsVersion(l) == l.kind \in {"created_artifact", "versioned"}

(* The events whose lines are whole, and those that read_all returns *)
Intact == {log[i].id : i \in ReadAll(log)}
Readable == IF Decodes(log) THEN Intact ELSE {}

(* Artifact spec 6.4: whatever is interleaved, cut short or killed, the      *)
(* snapshot file of every version that chronicle.jsonl records, and the      *)
(* report of every RDE record, is there and complete, so that the history    *)
(* can be restored from the log and the files it names.                      *)
FilesPrecedeEvents ==
  \A i \in 1 .. Len(log) :
    /\ IsVersion(log[i]) => vfile[log[i].obj][log[i].id] = "whole"
    /\ log[i].kind = "rde" => report[log[i].id] = "whole"

(* An append cut short can cost the line of one later, successful append     *)
(* (it is glued to the fragment), never more than one: the other lines are   *)
(* whole in the file.  As long as no append was cut short, every event whose *)
(* append returned can be read.  (With a line cut inside a character none    *)
(* can: IntactLinesAreRead.)                                                 *)
LossBound ==
  /\ Cardinality(acked \ Intact) + (IF open THEN 1 ELSE 0) <= torn
  /\ torn = 0 => acked \subseteq Readable

(* As long as no append was cut short, every index file that can be loaded   *)
(* shows a state the log really went through: racing rebuilds may leave it   *)
(* behind the log but never mix two of them.                                 *)
IndexIsPast ==
  torn = 0 =>
    \A f \in IndexNames : idx[f].state = "whole" =>
      \E n \in 0 .. Len(log) : idx[f].map = Project(f, SubSeq(log, 1, n))

(* Decision spec 5.1, artifact spec 5.2: a decision names an artifact, a     *)
(* version its parent, a context snapshot its base, that the log already     *)
(* records, even when the index it was looked up in was stale.               *)
ReferencesResolve ==
  torn = 0 =>
    \A i \in 1 .. Len(log) : log[i].kind # "rde" =>
      \A r \in log[i].refs : \E j \in 1 .. i - 1 : log[j].id = r

Latests(i) == {j \in 1 .. i - 1 : /\ log[j].kind \in {"context", "created_artifact", "versioned"}
                                  /\ log[j].obj = log[i].obj}
BuildsOnLatest(i) ==
  \A j \in Latests(i) : (\A k \in Latests(i) : k <= j) => log[i].refs = {log[j].id}

(* One process at a time: an update of a context is built on the context's   *)
(* latest snapshot, also after a crash (the service rebuilds first); an      *)
(* artifact's version has its predecessor as parent as long as nothing       *)
(* crashed between an append and its rebuild.                                *)
SequentialHistory ==
  torn = 0 =>
    \A i \in 1 .. Len(log) :
      \/ log[i].kind = "context" /\ BuildsOnLatest(i)
      \/ log[i].kind = "versioned" /\ (crashes = 0 => BuildsOnLatest(i))
      \/ log[i].kind \notin {"context", "versioned"}

Current(f) == idx[f] = [state |-> "whole", map |-> Project(f, log)]

(* One process at a time, nothing killed or cut short: between operations    *)
(* all index files show one and the same state of the log, and only notes    *)
(* and RDE records (whose services do not rebuild) may be missing from it.   *)
SequentialIndexesCurrent ==
  (exists /\ torn = 0 /\ crashes = 0 /\ \A p \in Procs : proc[p].pc = "idle") =>
    \E n \in 0 .. Len(log) :
      /\ \A i \in n + 1 .. Len(log) : log[i].kind \in {"note", "rde"}
      /\ \A f \in IndexNames :
           idx[f] = [state |-> "whole", map |-> Project(f, SubSeq(log, 1, n))]

(* What one process at a time can count on: histories without gaps, and      *)
(* indexes that are current when it starts.                                  *)
SequentialStore == SequentialHistory /\ SequentialIndexesCurrent

(* Basic spec 24: a rebuild that runs alone and ends restores every index    *)
(* file, whatever state crashes and torn lines left the store in; and it     *)
(* ends so unless a line of the log cannot be decoded.                       *)
RebuildRestores ==
  [][\A p \in Procs : crashes' = crashes =>
       /\ proc[p].pc = "write" /\ proc'[p].pc \in {"idle", "load"}
            => \A f \in IndexNames : Current(f)'
       /\ proc[p].pc = "read" /\ proc'[p].pc = "idle" => ~Decodes(log)]_vars

----------------------------------------------------------------------------
(* What the specifications under docs/specs say and the code does not keep   *)

Quiescent == \A p \in Procs : proc[p].pc = "idle"

(* artifact-model-spec 6.1: current.md always matches the snapshot of the    *)
(* artifact's current version (here: whenever no operation is running).      *)
CurrentMatchesVersion ==
  Quiescent =>
    \A a \in DOMAIN Project("artifacts", log) : cur[a] = Project("artifacts", log)[a].latest

(* chronicle-event-model-spec 5.2: the chronicle_id of every event is the    *)
(* one in metadata.yaml.                                                     *)
EventsMatchMetadata ==
  meta # 0 => \A i \in ReadAll(log) : log[i].cid = meta

(* chronicle-event-model-spec 5.2: events are only appended; a line that is  *)
(* an event is never changed.                                                *)
LinesNeverChange ==
  [][\A i \in ReadAll(log) : log'[i] = log[i]]_vars

(* chronicle-event-model-spec 4: read_all skips corrupt lines and returns    *)
(* the others; damage to a part does not become the loss of the whole.       *)
IntactLinesAreRead == Intact \subseteq Readable

(* rde-diff-record-spec 5.1: the versions an RDE record compares exist, that *)
(* is, the log has an event that created them.                               *)
RdeVersionsExist ==
  torn = 0 =>
    \A i \in 1 .. Len(log) : log[i].kind = "rde" => log[i].refs \subseteq Readable

(* chronicle-daemon-api-roadmap: stopping the daemon does not corrupt the    *)
(* derived indexes.                                                          *)
IndexesReadable == Quiescent => \A f \in IndexNames : Loadable(f)
=============================================================================
