-------------------------- MODULE RetrievalIndexes --------------------------
(***************************************************************************)
(* What retrieval is made of, beside the runtime: two SQLite databases     *)
(* that `runtime graphrag-rebuild`, `runtime ask` and the UI derive from   *)
(* the log with the help of a remote embedding service, and two index      *)
(* files that `ai-index` edits by loading, changing and writing them over. *)
(* None of them takes a lock, and the UI serves each request in a thread.  *)
(* A database is the set of lines of the log it was filled from.  A        *)
(* statement that SQLite refuses because another command holds the         *)
(* database, or has dropped or made its table meanwhile, ends the command  *)
(* where it stands.                                                        *)
(***************************************************************************)
EXTENDS RuntimeFlow

CONSTANTS
  Labels,     \* labels of a node, texts of an entry
  MaxStores   \* bound: times an index file is stored

IndexKinds == {"vector", "graph"}

VARIABLES
  vectors,    \* vector.sqlite: the documents
  nodes,      \* graph.sqlite: the events that are nodes
  indexes,    \* the two index files
  stores,     \* history: what was stored into each, and what had been stored when it was loaded
  disturbed   \* history: a rebuild failed, died, or overlapped with another

databases == <<vectors, nodes, disturbed>>
files == <<indexes, stores>>
vars == <<runtimeVars, databases, files>>

Lines == DOMAIN log
Unchanged == UNCHANGED <<mix, config, past, log, jobs, calls>>

Rebuilding == {p \in Procs : proc[p].pc \in
                 {"embed", "drop_vectors", "fill_vectors", "drop_nodes", "fill_nodes"}}

(* Mutant: databases that were filled once are ready *)
ReadyWithDocuments == vectors # {} /\ nodes # {}

(* GraphRagRuntimeService.status: it counts, and does not look at the nodes    *)
(* beyond there being some                                                     *)
Ready == vectors # {} /\ nodes # {} /\ Cardinality(vectors) = Cardinality(Lines)

Status == CASE Ready -> "ready"
            [] ~Ready /\ vectors # {} -> "stale"
            [] ~Ready /\ vectors = {} -> "needs_rebuild"

----------------------------------------------------------------------------
(* The databases *)

ReadForRebuild(p, op) ==
  /\ proc' = [proc EXCEPT ![p] = Job("embed", op, <<>>, Lines)]
  /\ disturbed' = (disturbed \/ Rebuilding # {})

BeginRebuild(p) ==
  /\ proc[p] = Idle /\ "rebuild" \in mix.ops
  /\ ReadForRebuild(p, "rebuild")
  /\ Unchanged /\ UNCHANGED <<vectors, nodes, files, crashes>>

(* A question rebuilds what is not ready, and then asks *)
BeginAsk(p) ==
  /\ proc[p] = Idle /\ "ask" \in mix.ops
  /\ IF Status = "ready"
     THEN /\ proc' = [proc EXCEPT ![p] = Job("hits", "ask", <<>>, {})]
          /\ UNCHANGED disturbed
     ELSE ReadForRebuild(p, "ask")
  /\ Unchanged /\ UNCHANGED <<vectors, nodes, files, crashes>>

(* The remote service embeds the documents, or the command ends with an error *)
Embed(p) ==
  /\ proc[p].pc = "embed"
  /\ \/ Go(p, "drop_vectors", proc[p].got) \/ End(p)
  /\ Unchanged /\ UNCHANGED <<databases, files, crashes>>

(* SQLite refuses the next statement of a rebuild: somebody else is in there *)
Refused(p) ==
  /\ proc[p].pc \in {"drop_vectors", "fill_vectors", "drop_nodes", "fill_nodes"}
  /\ \E q \in Procs \ {p} : q \in Rebuilding \/ proc[q].pc \in {"hits", "expand"}
  /\ End(p) /\ disturbed' = TRUE
  /\ Unchanged /\ UNCHANGED <<vectors, nodes, files, crashes>>

DropVectors(p) ==
  /\ proc[p].pc = "drop_vectors" /\ vectors' = {}
  /\ Go(p, "fill_vectors", proc[p].got)
  /\ Unchanged /\ UNCHANGED <<nodes, disturbed, files, crashes>>

(* One transaction: a row that is there already undoes it and ends the command *)
FillVectors(p) ==
  /\ proc[p].pc = "fill_vectors"
  /\ IF vectors \cap proc[p].got = {}
     THEN /\ vectors' = vectors \cup proc[p].got
          /\ Go(p, "drop_nodes", proc[p].got) /\ UNCHANGED disturbed
     ELSE End(p) /\ disturbed' = TRUE /\ UNCHANGED vectors
  /\ Unchanged /\ UNCHANGED <<nodes, files, crashes>>

DropNodes(p) ==
  /\ proc[p].pc = "drop_nodes" /\ nodes' = {}
  /\ Go(p, "fill_nodes", proc[p].got)
  /\ Unchanged /\ UNCHANGED <<vectors, disturbed, files, crashes>>

FillNodes(p) ==
  /\ proc[p].pc = "fill_nodes"
  /\ IF nodes \cap proc[p].got = {}
     THEN /\ nodes' = nodes \cup proc[p].got
          /\ IF proc[p].op = "ask" THEN Go(p, "hits", {}) ELSE End(p)
          /\ UNCHANGED disturbed
     ELSE End(p) /\ disturbed' = TRUE /\ UNCHANGED nodes
  /\ Unchanged /\ UNCHANGED <<vectors, files, crashes>>

(* The hits (as many as eight: all documents, in a small log), then their       *)
(* neighbours, then the text of those that are in the log                       *)
FindHits(p) ==
  /\ proc[p].pc = "hits"
  /\ Go(p, "expand", vectors) \/ End(p)
  /\ Unchanged /\ UNCHANGED <<databases, files, crashes>>

Neighbours(hits) == {i \in nodes \ hits : i - 1 \in hits \cap nodes \/ i + 1 \in hits \cap nodes}

ExpandAndAnswer(p) ==
  /\ proc[p].pc = "expand"
  /\ (proc[p].got \cup Neighbours(proc[p].got)) \cap Lines # {} \/ proc[p].got = {}
  /\ End(p)
  /\ Unchanged /\ UNCHANGED <<databases, files, crashes>>

----------------------------------------------------------------------------
(* The index files: entries [key, values].  A key of the vector index is a     *)
(* record and a type, of the graph index a node.                               *)

Keys == [record : Nat, type : {"event", "note"}]

(* Mutant: an entry replaces all entries of its record *)
MergedByRecord(kind, entries, key, value) ==
  {e \in entries : e.key.record # key.record} \cup
  {[key |-> key,
    values |-> {value} \cup (IF kind = "graph" THEN UNION {e.values : e \in {d \in entries : d.key = key}} ELSE {})]}

Merged(kind, entries, key, value) ==
  {e \in entries : e.key # key} \cup
  {[key |-> key,
    values |-> {value} \cup (IF kind = "graph" THEN UNION {e.values : e \in {d \in entries : d.key = key}} ELSE {})]}

(* The record must be known before it is indexed; a file that is no JSON is an *)
(* error                                                                       *)
LoadIndex(p) ==
  \E kind \in IndexKinds, i \in Lines, type \in {"event", "note"}, value \in Labels :
    LET held == IF indexes[kind].state = "whole" THEN indexes[kind].holds ELSE {} IN
    /\ proc[p] = Idle /\ "index" \in mix.ops /\ Len(stores[kind]) < MaxStores
    /\ kind = "graph" => type = "event"
    /\ indexes[kind].state \in {"missing", "whole"}
    /\ proc' = [proc EXCEPT ![p] =
         Job("truncate_index", kind, Len(stores[kind]),
             [key |-> [record |-> i, type |-> type],
              entries |-> Merged(kind, held, [record |-> i, type |-> type], value)])]
    /\ Unchanged /\ UNCHANGED <<databases, files, crashes>>

TruncateIndex(p) ==
  /\ proc[p].pc = "truncate_index"
  /\ indexes' = [indexes EXCEPT ![proc[p].op] = Empty]
  /\ Go(p, "store_index", proc[p].got)
  /\ Unchanged /\ UNCHANGED <<databases, stores, crashes>>

StoreIndex(p) ==
  LET kind == proc[p].op IN
  /\ proc[p].pc = "store_index" /\ Len(stores[kind]) < MaxStores
  /\ \E file \in Overlaid(indexes[kind], proc[p].got.entries) :
       indexes' = [indexes EXCEPT ![kind] = file]
  /\ stores' = [stores EXCEPT ![kind] = Append(@, [key |-> proc[p].got.key, seen |-> proc[p].req])]
  /\ End(p)
  /\ Unchanged /\ UNCHANGED <<databases, crashes>>

----------------------------------------------------------------------------
Init ==
  /\ RuntimeInit
  /\ vectors = {} /\ nodes = {} /\ disturbed = FALSE
  /\ indexes = [k \in IndexKinds |-> Missing]
  /\ stores = [k \in IndexKinds |-> <<>>]

(* A command of the runtime; one that dies inside a rebuild disturbs it *)
RuntimeCommand(p) ==
  /\ RuntimeStep(p)
  /\ disturbed' = (disturbed \/ (p \in Rebuilding /\ crashes' > crashes))
  /\ UNCHANGED <<vectors, nodes, files>>

Next ==
  \E p \in Procs :
    \/ RuntimeCommand(p)
    \/ BeginRebuild(p) \/ BeginAsk(p) \/ Embed(p) \/ Refused(p) \/ DropVectors(p) \/ FillVectors(p)
    \/ DropNodes(p) \/ FillNodes(p) \/ FindHits(p) \/ ExpandAndAnswer(p)
    \/ LoadIndex(p) \/ TruncateIndex(p) \/ StoreIndex(p)

Spec == Init /\ [][Next]_vars

----------------------------------------------------------------------------
(* Properties *)

(* Databases that report themselves ready hold every line of the log in the     *)
(* vectors, however rebuilds and appends interleave, although the report only   *)
(* compares two counts; and in the graph, once no rebuild is running, unless    *)
(* one was disturbed: then a ready report can hide an older graph for good      *)
(* (graphrag_runtime_service.py:158).                                           *)
ReadyIsCurrent ==
  Status = "ready" =>
    /\ vectors = Lines
    /\ Rebuilding = {} /\ ~disturbed => nodes = Lines

(* What was stored in an index file is found in it, as long as the file is      *)
(* whole, unless a command stored later that had loaded the file before         *)
(* (vector_index_service.py:41, graph_index_service.py:18).                     *)
EntriesStay ==
  \A kind \in IndexKinds : indexes[kind].state = "whole" =>
    \A i \in DOMAIN stores[kind] :
      \/ \E e \in indexes[kind].holds : e.key = stores[kind][i].key
      \/ \E j \in DOMAIN stores[kind] : j > i /\ stores[kind][j].seen < i
=============================================================================
