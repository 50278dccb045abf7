------------------------------ MODULE Exports ------------------------------
(***************************************************************************)
(* The derived views of a chronicle: the YAML, Markdown, HTML and graph    *)
(* exports, and search.  An exporter reads the event log, then one index   *)
(* file after the other, then the lifecycle marks; services write between  *)
(* these reads, and take no lock.                                          *)
(*                                                                         *)
(* An object is named by the position of the event that created it; what a *)
(* view says of an event or a record is one of a few parts.  An index file *)
(* is the position of the last event its rebuild had read.  Layout and the *)
(* window of the 30 newest rows of the HTML page are left out.             *)
(***************************************************************************)
EXTENDS Naturals, Sequences, FiniteSets

CONSTANTS
  Writers, Exporters,   \* the processes
  Formats,              \* the views taken, a subset of AllFormats
  MaxEvents,            \* bound: events in the log
  MaxMarks              \* bound: lifecycle marks

AllFormats == {"yaml", "markdown", "html", "graph", "search"}

ASSUME FormatsAssumption == Formats \subseteq AllFormats
ASSUME ViewBoundsAssumption == MaxEvents \in Nat \ {0} /\ MaxMarks \in Nat

Positions == 1 .. MaxEvents

VARIABLES
  log,      \* chronicle.jsonl
  idx,      \* each index file: the length of the log it projects
  marks,    \* lifecycle.jsonl
  writer,   \* what a writing process is doing
  view      \* what an exporting process has read

vars == <<log, idx, marks, writer, view>>

Files == <<"artifacts", "contexts", "decisions", "rde">>
FileNames == {Files[i] : i \in 1 .. 4}

(* The kinds of record an index file shows *)
KindOf == [artifacts |-> "artifact", contexts |-> "context", decisions |-> "decision", rde |-> "rde"]
Recorded == {"artifact", "context", "decision", "rde"}

(***************************************************************************)
(* An event: its kind, the object it snapshots, whether the object's       *)
(* visibility_hint is sensitive (fixed when it is created), and the other  *)
(* object it is about (0: none).  A proposal to update an artifact and an  *)
(* injection plan, of one context here, are events only.                   *)
(***************************************************************************)
Kinds == Recorded \cup {"proposal", "plan"}

Event == [kind : Kinds, obj : Positions, secret : BOOLEAN, about : 0 .. MaxEvents]

Mark == [target : Positions, action : {"seal", "tombstone", "hard_delete"}]

----------------------------------------------------------------------------
(* lifecycle/derived_output_policy: what the marks say *)

(* Mutant: only a tombstone omits a record *)
OmittedByTombstone(t, ms) == \E m \in ms : m.target = t /\ m.action = "tombstone"

(* is_lifecycle_tombstoned *)
Omitted(t, ms) == \E m \in ms : m.target = t /\ m.action \in {"tombstone", "hard_delete"}

(* event_lifecycle_target_ids: the ids in the payload containers the helper  *)
(* knows (not the payload of an RDE record, a proposal or a plan) ...        *)
PayloadIds(e) ==
  (IF e.kind \in {"artifact", "context", "decision"} THEN {e.obj} ELSE {})
    \cup (IF e.kind = "decision" THEN {e.about} ELSE {})

(* ... and, for the graph only, the ids in the fields of the event *)
FieldIds(e) ==
  (IF e.kind \in {"artifact", "decision", "rde"} THEN {e.obj} ELSE {})
    \cup (IF e.kind \in {"decision", "rde", "proposal"} THEN {e.about} ELSE {})

(* Mutant: any mark hides the events of its target *)
ReferencesMarked(e, format, ms) ==
  \E t \in PayloadIds(e) \cup (IF format = "graph" THEN FieldIds(e) ELSE {}) : \E m \in ms : m.target = t

(* event_references_tombstoned_target *)
ReferencesOmitted(e, format, ms) ==
  \E t \in PayloadIds(e) \cup (IF format = "graph" THEN FieldIds(e) ELSE {}) : Omitted(t, ms)

----------------------------------------------------------------------------
(* exporters/redaction *)

(* What RedactionOptions asks for; a profile is one of the three             *)
(* (public-review redacts, restricted-summary excludes, the others neither). *)
Options == {"plain", "redact", "exclude"}

(* export and export profile refuse a redaction the format does not support, *)
(* and both at once cannot be said.                                          *)
Supports(format, option) == option = "plain" \/ format \in {"yaml", "html"}

(* event_has_sensitive_payload, model_is_sensitive: a sensitive context or   *)
(* artifact snapshot, and nothing else.                                      *)
Sensitive(e) == e.kind \in {"context", "artifact"} /\ e.secret

----------------------------------------------------------------------------
(* What a view shows, once everything is read *)

(* The last snapshots of kind k among the first n events *)
Latest(k, n) ==
  {i \in 1 .. n : log[i].kind = k
                   /\ \A j \in i + 1 .. n : log[j].kind = k => log[j].obj # log[i].obj}

(* transform_event_dump, transform_model_dump: exclusion drops it *)
Left(is, option) == {i \in is : ~(option = "exclude" /\ Sensitive(log[i]))}

(* The timeline; search hides nothing *)
ShownEvents(v) ==
  Left({i \in 1 .. v.read : v.format = "search" \/ ~ReferencesOmitted(log[i], v.format, v.seen)}, v.option)

(* The formats that hold a kind of record against the marks *)
Marked(format, k) ==
  format # "search" /\ (k \in {"artifact", "context"} \/ format = "graph")

(* The formats that show the RDE index *)
ShowsRde(format) == format \in {"html", "search"}

ShownRecords(v) ==
  LET Read == FileNames \ (IF ShowsRde(v.format) THEN {} ELSE {"rde"})
      All == UNION {Latest(KindOf[f], v.got[f]) : f \in Read}
  IN  Left({i \in All : ~(Marked(v.format, log[i].kind) /\ Omitted(log[i].obj, v.seen))}, v.option)

(* What a view says of an event: its summary and the snapshot in its payload;  *)
(* of an artifact's, where it comes from (event.source, payload.version); the  *)
(* title of the object that a proposal (in its summary too) or a plan is       *)
(* about.  Only the YAML export writes whole events.                           *)
EventParts(format, e) ==
  (IF e.kind \in Recorded THEN {"snapshot"} ELSE {})
    \cup (IF e.kind = "artifact" /\ format = "yaml" THEN {"origin"} ELSE {})
    \cup (IF e.kind = "proposal" \/ (e.kind = "plan" /\ format = "yaml") THEN {"title"} ELSE {})

(* ... and of a record: the versions of an artifact are a table of their own   *)
RecordParts(format, e) ==
  {"snapshot"} \cup (IF e.kind = "artifact" /\ format = "yaml" THEN {"origin"} ELSE {})

Said(v) ==
  (UNION {{i} \X EventParts(v.format, log[i]) : i \in ShownEvents(v)})
    \cup (UNION {{i} \X RecordParts(v.format, log[i]) : i \in ShownRecords(v)})

(* redact_sensitive_dict overwrites snapshots and the summaries of their events *)
Redacted(s) == s[2] = "snapshot" /\ Sensitive(log[s[1]])

(* What the view says in clear *)
Clear(v) == {s \in Said(v) : ~(v.option = "redact" /\ Redacted(s))}

----------------------------------------------------------------------------
(* The writers *)

(* Between operations; "save" is the index file a rebuild saves next *)
Resting == [pc |-> "rest", snap |-> 0, todo |-> 1]

Add(w, e) ==
  /\ writer[w] = Resting /\ Len(log) < MaxEvents
  /\ log' = Append(log, e)
  /\ writer' = [writer EXCEPT ![w].pc = "read"]
  /\ UNCHANGED <<idx, marks, view>>

New(kind, secret, about) ==
  [kind |-> kind, obj |-> Len(log) + 1, secret |-> secret, about |-> about]

(* The objects an index file lists *)
Listed(f) == {log[i].obj : i \in Latest(KindOf[f], idx[f])}

(* add_context, artifact create *)
Create(w) ==
  \E kind \in {"context", "artifact"}, secret \in BOOLEAN : Add(w, New(kind, secret, 0))

(* update_context, artifact update: a copy of the snapshot in the index *)
Update(w) ==
  \E f \in {"contexts", "artifacts"} : \E i \in Latest(KindOf[f], idx[f]) : Add(w, log[i])

(* decision record and rde record about an artifact, a proposal to update it; *)
(* a plan to inject a context                                                *)
Refer(w) ==
  \/ \E kind \in {"decision", "rde", "proposal"} : \E a \in Listed("artifacts") :
       Add(w, New(kind, FALSE, a))
  \/ \E c \in Listed("contexts") : Add(w, New("plan", FALSE, c))

(* rebuild_indexes: read_all, then the index files in order.  rde record and a *)
(* recorded plan end without a rebuild; every process may end here when it is  *)
(* killed.                                                                     *)
ReadForRebuild(w) ==
  /\ writer[w].pc = "read"
  /\ \/ writer' = [writer EXCEPT ![w] = [pc |-> "save", snap |-> Len(log), todo |-> 1]]
     \/ writer' = [writer EXCEPT ![w] = Resting]
  /\ UNCHANGED <<log, idx, marks, view>>

SaveIndex(w) ==
  LET t == writer[w].todo IN
  /\ writer[w].pc = "save"
  /\ idx' = [idx EXCEPT ![Files[t]] = writer[w].snap]
  /\ writer' = [writer EXCEPT ![w] = IF t < Len(Files) THEN [@ EXCEPT !.todo = t + 1] ELSE Resting]
  /\ UNCHANGED <<log, marks, view>>

(* lifecycle record: the target is not looked up, but an id has to be known   *)
(* to be typed.                                                              *)
Record(w) ==
  /\ writer[w] = Resting /\ Cardinality(marks) < MaxMarks
  /\ \E m \in Mark : m \notin marks /\ m.target <= Len(log) /\ marks' = marks \cup {m}
  /\ UNCHANGED <<log, idx, writer, view>>

----------------------------------------------------------------------------
(* The exporters *)

(* What is read after the log, in order *)
Reads(format) ==
  IF format = "search" THEN <<"artifacts", "decisions", "contexts", "rde">>
  ELSE IF format = "html" THEN <<"artifacts", "contexts", "decisions", "marks", "rde">>
  ELSE <<"artifacts", "contexts", "decisions", "marks">>

NoView == [pc |-> "none", format |-> "yaml", option |-> "plain", old |-> {}, read |-> 0,
           got |-> [f \in FileNames |-> 0], seen |-> {}, todo |-> 1]

(* The old marks are those of the moment the command starts *)
Begin(x) ==
  /\ view[x].pc \in {"none", "done"}
  /\ \E format \in Formats, option \in Options :
       /\ Supports(format, option)
       /\ view' = [view EXCEPT ![x] = [NoView EXCEPT !.pc = "log", !.format = format,
                                                     !.option = option, !.old = marks]]
  /\ UNCHANGED <<log, idx, marks, writer>>

ReadLog(x) ==
  /\ view[x].pc = "log"
  /\ view' = [view EXCEPT ![x].pc = "index", ![x].read = Len(log)]
  /\ UNCHANGED <<log, idx, marks, writer>>

(* One more file read; then the view is ready for its manifest *)
Advance(v) == IF v.todo < Len(Reads(v.format)) THEN [v EXCEPT !.todo = @ + 1] ELSE [v EXCEPT !.pc = "manifest"]

ReadIndex(x) ==
  LET v == view[x]
      f == Reads(v.format)[v.todo]
  IN  /\ v.pc = "index" /\ f # "marks"
      /\ view' = [view EXCEPT ![x] = Advance([v EXCEPT !.got[f] = idx[f]])]
      /\ UNCHANGED <<log, idx, marks, writer>>

ReadMarks(x) ==
  LET v == view[x] IN
  /\ v.pc = "index" /\ Reads(v.format)[v.todo] = "marks"
  /\ view' = [view EXCEPT ![x] = Advance([v EXCEPT !.seen = marks])]
  /\ UNCHANGED <<log, idx, marks, writer>>

(* A file that a rebuild has truncated and not written yet cannot be loaded: *)
(* the command ends and there is no view.                                    *)
Unreadable(f) == \E w \in Writers : writer[w].pc = "save" /\ Files[writer[w].todo] = f

LoadFails(x) ==
  /\ view[x].pc = "index" /\ Unreadable(Reads(view[x].format)[view[x].todo])
  /\ view' = [view EXCEPT ![x] = NoView]
  /\ UNCHANGED <<log, idx, marks, writer>>

(* build_manifest reads the log once more, for a count of events *)
Finish(x) ==
  /\ view[x].pc = "manifest"
  /\ view' = [view EXCEPT ![x].pc = "done"]
  /\ UNCHANGED <<log, idx, marks, writer>>

----------------------------------------------------------------------------
ExportInit ==
  /\ log = <<>> /\ marks = {}
  /\ idx = [f \in FileNames |-> 0]
  /\ writer = [w \in Writers |-> Resting]
  /\ view = [x \in Exporters |-> NoView]

Write(w) == Create(w) \/ Update(w) \/ Refer(w) \/ ReadForRebuild(w) \/ SaveIndex(w) \/ Record(w)

Export(x) ==
  Begin(x) \/ ReadLog(x) \/ ReadIndex(x) \/ ReadMarks(x) \/ LoadFails(x) \/ Finish(x)

ExportNext == (\E w \in Writers : Write(w)) \/ (\E x \in Exporters : Export(x))

ExportSpec == ExportInit /\ [][ExportNext]_vars

----------------------------------------------------------------------------
(* Properties *)

Done(x) == view[x].pc = "done"

(* What the documents call marked *)
Hidden(t, ms) == {"tombstone", "hard_delete"} \cap {m.action : m \in {n \in ms : n.target = t}} # {}

Body(i) == log[i].kind \in {"artifact", "context"}

(* docs/observation-e2e-gate, the derived exports omit records marked by a    *)
(* tombstone or a hard delete: no snapshot of a context or an artifact that   *)
(* was marked when the command started is in an export, as a record or in the *)
(* timeline, however writers interleave with its reads.  And                  *)
(* docs/redaction-aware-export: an export that redacts or excludes shows no   *)
(* snapshot in clear, old or new, of an object that was created as sensitive, *)
(* and one that excludes does not show either where it comes from.            *)
ExportsHide ==
  \A x \in Exporters : Done(x) =>
    /\ view[x].format # "search" =>
         \A i \in ShownEvents(view[x]) \cup ShownRecords(view[x]) :
           Body(i) => ~Hidden(log[i].obj, view[x].old)
    /\ view[x].option # "plain" =>
         \A s \in Clear(view[x]) :
           Body(s[1]) /\ log[log[s[1]].obj].secret => s[2] = "origin" /\ view[x].option = "redact"

(* Log and indexes are read at different moments, and filtered by different   *)
(* tests.  Still every context and artifact shown has its event in the same   *)
(* view, unless the event was recorded after the log was read; a decision may *)
(* also lack its event because it, or the artifact it is about, is marked.    *)
RecordsHaveEvents ==
  \A x \in Exporters : Done(x) =>
    \A i \in ShownRecords(view[x]) :
      \/ i \in ShownEvents(view[x])
      \/ i > view[x].read
      \/ /\ log[i].kind = "decision"
         /\ \E t \in {log[i].obj, log[i].about} : Hidden(t, view[x].seen)

(* docs/redaction-aware-export:35, --redact-sensitive replaces the title,     *)
(* summary, source and path of a sensitive context or artifact: an export     *)
(* that redacts says nothing in clear of an object created as sensitive.      *)
(* Where an artifact comes from, and titles in proposals and plans, it says.  *)
Subject(e) == IF e.kind \in {"proposal", "plan"} THEN e.about ELSE e.obj

RedactionIsComplete ==
  \A x \in Exporters : Done(x) /\ view[x].option = "redact" =>
    \A s \in Clear(view[x]) : ~log[Subject(log[s[1]])].secret

(* docs/lifecycle-aware-export, a tombstone excludes the body from derived    *)
(* exports: nothing about an artifact that was marked when the command        *)
(* started is in an export.  Decisions and proposals are.                     *)
NothingAboutOmitted ==
  \A x \in Exporters : Done(x) /\ view[x].format # "search" =>
    \A i \in ShownEvents(view[x]) \cup ShownRecords(view[x]) :
      ~Hidden(log[i].obj, view[x].old) /\ ~Hidden(log[i].about, view[x].old)
=============================================================================
