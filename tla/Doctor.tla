------------------------------- MODULE Doctor -------------------------------
(***************************************************************************)
(* chronicle doctor on a store: the checks of the files that ChronicleStore *)
(* keeps.  Doctor writes nothing; its report is a function of the files.   *)
(* The checks of classifications, logs beside the event log and the        *)
(* runtime contract, which only warn of what those records say, are not    *)
(* here.                                                                   *)
(***************************************************************************)
EXTENDS ChronicleStore

(* _load_metadata and metadata_exists.  Without a log a metadata.yaml that    *)
(* is absent and one that init has truncated are the same state here, and    *)
(* the missing log is an error in any case.                                  *)
MetadataCheck == IF meta # 0 THEN "ok" ELSE IF exists THEN "error" ELSE "warning"

RequiredFilesCheck == IF exists THEN "ok" ELSE "error"

(* Mutant: an unfinished last line is taken for one that is being written *)
LinesCheckButLast == IF \A i \in 1 .. Len(log) - 1 : log[i] \notin Broken THEN "ok" ELSE "error"

(* _read_events: a line that does not parse *)
LinesCheck == IF \A i \in 1 .. Len(log) : log[i] \notin Broken THEN "ok" ELSE "error"

(* check_indexes: only whether the five files are there *)
IndexesCheck == IF \A f \in IndexNames : idx[f].state # "absent" THEN "ok" ELSE "warning"

(* current.md is the first file of an artifact and is never removed *)
CurrentExists(a) == cur[a] # 0 \/ \E v \in Ids : VersionExists(a, v)

(* check_artifact_files: the artifacts and versions that events carry *)
ArtifactFilesCheck ==
  IF \A i \in ReadAll(log) :
       log[i].kind \in {"created_artifact", "versioned"} =>
         CurrentExists(log[i].obj) /\ VersionExists(log[i].obj, log[i].id)
    THEN "ok" ELSE "warning"

(* check_graph_export, check_html_export: the export is made, and any         *)
(* exception is a warning.  Both load the index files they show.             *)
ExportsCheck(shown) ==
  IF Initialized /\ \A f \in shown : Loadable(f) THEN "ok" ELSE "warning"

Checks ==
  [metadata |-> MetadataCheck, required |-> RequiredFilesCheck, lines |-> LinesCheck,
   indexes |-> IndexesCheck, artifacts |-> ArtifactFilesCheck,
   graph |-> ExportsCheck({"artifacts", "contexts", "decisions", "rules"}),
   html |-> ExportsCheck(IndexNames)]

Found == {Checks[c] : c \in DOMAIN Checks}

(* DoctorReport.from_checks; no report when _read_events meets bytes that     *)
(* are not UTF-8, which end the command with a UnicodeDecodeError.            *)
Status ==
  IF ~Decodes(log) THEN "raised"
  ELSE IF "error" \in Found THEN "error" ELSE IF "warning" \in Found THEN "warning" ELSE "ok"

----------------------------------------------------------------------------
(* What a reader may conclude *)

(* docs/doctor: an error is a broken primary record, a warning something that *)
(* can be rebuilt or restored.  When no operation runs, a report without an   *)
(* error means that every event whose recording was acknowledged can still be *)
(* read and the store accepts commands; one without even a warning means that *)
(* every index can be loaded and every recorded version has its file,         *)
(* whatever crashed before.  And a store on which one command at a time ran,  *)
(* none of them failing, is never called anything but sound.                  *)
DoctorIsRight ==
  Quiescent =>
    /\ Status \in {"ok", "warning"} => Initialized /\ acked \subseteq Readable
    /\ Status = "ok" =>
         /\ \A f \in IndexNames : Loadable(f)
         /\ \A i \in ReadAll(log) : IsVersion(log[i]) => vfile[log[i].obj][log[i].id] = "whole"
    /\ exists /\ torn = 0 /\ crashes = 0 /\ Cardinality(Procs) = 1 => Status = "ok"

(* docs/doctor, local consistency: an index that a crash left behind the log  *)
(* is loadable and is reported as present.                                    *)
DoctorSeesStaleIndexes ==
  Quiescent /\ Status = "ok" =>
    \A f \in IndexNames : \A i \in Relevant(f, log) : log[i].kind # "rde" => log[i].obj \in DOMAIN Load(f)
=============================================================================
